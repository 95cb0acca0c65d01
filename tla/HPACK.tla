-------------------------------- MODULE HPACK --------------------------------
(* HPACKDecoder (HPACK.swift): the dynamic table as descriptors over an      *)
(* arena of bytes, against the table of the peer that encodes.  A step is    *)
(* one representation of a header block; the peer's side of it is RFC 7541.  *)
(* The bytes of a representation are in HPACKCoding.                         *)
EXTENDS Integers, Sequences, SequencesExt

CONSTANTS
    Static,             \* the static table: a sequence of [name, value]
    Names, Values,      \* the strings a peer sends, as sequences of bytes
    Overhead,           \* 32, of an entry's cost
    Slack, Factor,      \* 4096 and 4, of the size the arena is compacted at
    MaxTableSize,       \* the size the decoder starts with
    Sizes,              \* the sizes a setting or an update may name
    sizeLimit,          \* the largest decoded block
    MaxSteps            \* bound: representations and settings

VARIABLES
    arena, liveStart,
    entries,            \* newest last, as offsets into the arena
    tableSize, maxTableSize, permittedMaxSize,
    sawField, decodedSize,
    error,              \* what decode threw, or "none"
    table, peerMax,     \* the peer's table, newest first, and its limit
    mustUpdate,         \* the peer owes an update to this size, or -1
    last,               \* history: [legal, meant, emitted] of the last representation
    steps

decoder == <<arena, liveStart, entries, tableSize, maxTableSize, permittedMaxSize>>
block == <<sawField, decodedSize, error>>
peer == <<table, peerMax, mustUpdate>>
vars == <<decoder, block, peer, last, steps>>

Nothing == [name |-> <<>>, value |-> <<>>]

Init ==
    /\ arena = <<>> /\ liveStart = 0 /\ entries = <<>> /\ tableSize = 0
    /\ maxTableSize = MaxTableSize /\ permittedMaxSize = MaxTableSize
    /\ sawField = FALSE /\ decodedSize = 0 /\ error = "none"
    /\ table = <<>> /\ peerMax = MaxTableSize /\ mustUpdate = -1
    /\ last = [legal |-> TRUE, meant |-> Nothing, emitted |-> Nothing]
    /\ steps = 0

-----------------------------------------------------------------------------
(* The dynamic table, as a record of its variables.                         *)

This == [arena |-> arena, liveStart |-> liveStart, entries |-> entries,
         tableSize |-> tableSize, max |-> maxTableSize]

cost(e) == e.nameLength + e.valueLength + Overhead
Total(es) == FoldLeft(LAMBDA sum, e : sum + cost(e), 0, es)

(* How many of the oldest entries go before `incoming` fits.                *)
Evicted(t, incoming) ==
    CHOOSE k \in 0..Len(t.entries) :
        /\ k = Len(t.entries) \/ t.tableSize - Total(SubSeq(t.entries, 1, k)) + incoming <= t.max
        /\ \A j \in 0..(k - 1) : t.tableSize - Total(SubSeq(t.entries, 1, j)) + incoming > t.max

evictToFit(t, incoming) ==
    LET k == Evicted(t, incoming)
        es == SubSeq(t.entries, k + 1, Len(t.entries))
        victim == t.entries[k]
    IN IF es = <<>>
       THEN [t EXCEPT !.entries = <<>>, !.tableSize = 0, !.arena = <<>>, !.liveStart = 0]
       ELSE IF k = 0 THEN t
       ELSE [t EXCEPT !.entries = es, !.tableSize = @ - Total(SubSeq(t.entries, 1, k)),
                      !.liveStart = victim.valueOffset + victim.valueLength]

compactArenaIfNeeded(t) ==
    IF t.liveStart = 0 \/ Len(t.arena) < Factor * t.max + Slack THEN t
    ELSE [t EXCEPT !.arena = SubSeq(@, t.liveStart + 1, Len(@)), !.liveStart = 0,
                   !.entries = [i \in DOMAIN @ |->
                        [@[i] EXCEPT !.nameOffset = @ - t.liveStart, !.valueOffset = @ - t.liveStart]]]

(* Mutant: an entry larger than the table leaves it as it was.              *)
InsertLargeKeeps(t0, name, value) ==
    LET new == Len(name) + Len(value) + Overhead
        t == compactArenaIfNeeded(evictToFit(t0, new))
    IN IF new > t0.max THEN t0
       ELSE [t EXCEPT !.arena = @ \o name \o value,
                      !.entries = Append(@, [nameOffset |-> Len(t.arena), nameLength |-> Len(name),
                                             valueOffset |-> Len(t.arena) + Len(name),
                                             valueLength |-> Len(value)]),
                      !.tableSize = @ + new]
insert(t0, name, value) ==
    LET new == Len(name) + Len(value) + Overhead
        evicted == evictToFit(t0, new)
        t == compactArenaIfNeeded(evicted)
    IN IF new > t0.max THEN evicted
       ELSE [t EXCEPT !.arena = @ \o name \o value,
                      !.entries = Append(@, [nameOffset |-> Len(t.arena), nameLength |-> Len(name),
                                             valueOffset |-> Len(t.arena) + Len(name),
                                             valueLength |-> Len(value)]),
                      !.tableSize = @ + new]

setMaxSize(t, n) == evictToFit([t EXCEPT !.max = n], 0)

Span(t, e) == [name |-> SubSeq(t.arena, e.nameOffset + 1, e.nameOffset + e.nameLength),
               value |-> SubSeq(t.arena, e.valueOffset + 1, e.valueOffset + e.valueLength)]

(* entry(at:), and whether it throws.                                       *)
Position(index) == Len(entries) - (index - Len(Static))
BadIndex(index) == index > Len(Static) /\ ~(Position(index) \in 0..(Len(entries) - 1))
entry(index) ==
    IF index <= Len(Static) THEN Static[index] ELSE Span(This, entries[Position(index) + 1])

Become(t) ==
    /\ arena' = t.arena /\ liveStart' = t.liveStart /\ entries' = t.entries
    /\ tableSize' = t.tableSize /\ maxTableSize' = t.max

-----------------------------------------------------------------------------
(* The peer, RFC 7541: its table newest first.                              *)

EntryCost(f) == Len(f.name) + Len(f.value) + Overhead
TableCost(tb) == FoldLeft(LAMBDA sum, f : sum + EntryCost(f), 0, tb)
Fitting(tb, max) ==
    SubSeq(tb, 1, CHOOSE k \in 0..Len(tb) :
        /\ TableCost(SubSeq(tb, 1, k)) <= max
        /\ k = Len(tb) \/ TableCost(SubSeq(tb, 1, k + 1)) > max)
Added(tb, f, max) ==
    IF EntryCost(f) > max THEN <<>> ELSE <<f>> \o Fitting(tb, max - EntryCost(f))
PeerHas(index) == index \in 1..(Len(Static) + Len(table))
PeerEntry(index) == IF index <= Len(Static) THEN Static[index] ELSE table[index - Len(Static)]

-----------------------------------------------------------------------------
(* decode: one representation of the block.                                 *)

Step == error = "none" /\ steps < MaxSteps /\ steps' = steps + 1

(* A field of this size is emitted, or the block is too large.              *)
Emit(field, meant, legal) ==
    LET size == decodedSize + EntryCost(field) IN
    /\ decodedSize' = size
    /\ IF size > sizeLimit
       THEN error' = "tooLarge" /\ UNCHANGED <<sawField, last>>
       ELSE /\ error' = error /\ sawField' = TRUE
            /\ last' = [legal |-> legal, meant |-> meant, emitted |-> field]

Throw(e, legal) ==
    /\ error' = e /\ last' = [last EXCEPT !.legal = legal]
    /\ UNCHANGED <<sawField, decodedSize>>

(* An indexed field.  An index of 0, or past the tables, is not legal.      *)
indexedField(index) ==
    /\ Step /\ mustUpdate = -1
    /\ IF index = 0 \/ BadIndex(index) THEN Throw("badIndex", PeerHas(index))
       ELSE Emit(entry(index), IF PeerHas(index) THEN PeerEntry(index) ELSE Nothing, PeerHas(index))
    /\ UNCHANGED <<decoder, peer>>

(* A literal, with incremental indexing or without; its name is given by    *)
(* index, or as a string when the index is 0.                               *)
literalField(indexed, nameIndex, name, value) ==
    /\ Step /\ mustUpdate = -1
    /\ IF nameIndex # 0 /\ BadIndex(nameIndex)
       THEN Throw("badIndex", PeerHas(nameIndex)) /\ UNCHANGED <<decoder, peer>>
       ELSE LET legal == nameIndex = 0 \/ PeerHas(nameIndex)
                meantName == IF nameIndex = 0 \/ ~legal THEN name ELSE PeerEntry(nameIndex).name
                meant == [name |-> meantName, value |-> value]
                staged == [name |-> IF nameIndex = 0 THEN name ELSE entry(nameIndex).name,
                           value |-> value]
            IN
            /\ Emit(staged, meant, legal)
            /\ IF indexed /\ decodedSize' <= sizeLimit
               THEN Become(insert(This, staged.name, staged.value)) ELSE UNCHANGED decoder
            /\ UNCHANGED permittedMaxSize
            /\ table' = IF indexed THEN Added(table, meant, peerMax) ELSE table
            /\ UNCHANGED <<peerMax, mustUpdate>>

(* A size update: legal at the start of a block, up to the size permitted.  *)
sizeUpdate(size) ==
    /\ Step
    /\ mustUpdate # -1 => size <= mustUpdate
    /\ IF sawField \/ size > permittedMaxSize
       THEN Throw("badTableSize", ~sawField /\ size <= permittedMaxSize) /\ UNCHANGED <<decoder, peer>>
       ELSE /\ Become(setMaxSize(This, size))
            /\ peerMax' = size /\ table' = Fitting(table, size) /\ mustUpdate' = -1
            /\ last' = [last EXCEPT !.legal = TRUE]
            /\ UNCHANGED <<permittedMaxSize, block>>

endBlock ==
    /\ error = "none" /\ sawField
    /\ sawField' = FALSE /\ decodedSize' = 0
    /\ UNCHANGED <<decoder, error, peer, last, steps>>

(* Our setting takes effect: the peer acknowledged it, and its next block   *)
(* starts with an update when its table was larger.                         *)
setPermittedMaxSize(n) ==
    /\ Step /\ ~sawField /\ decodedSize = 0 /\ n # permittedMaxSize
    /\ permittedMaxSize' = n
    /\ IF maxTableSize > n THEN Become(setMaxSize(This, n))
       ELSE UNCHANGED <<arena, liveStart, entries, tableSize, maxTableSize>>
    /\ table' = Fitting(table, IF n < peerMax THEN n ELSE peerMax)
    /\ peerMax' = IF n < peerMax THEN n ELSE peerMax
    /\ mustUpdate' = IF n < peerMax THEN n ELSE mustUpdate
    /\ UNCHANGED <<block, last>>

Next ==
    \/ \E index \in 0..(Len(Static) + Len(table) + 1) :
        \/ indexedField(index)
        \/ \E value \in Values, indexed \in BOOLEAN :
            \E name \in IF index = 0 THEN Names ELSE {<<>>} : literalField(indexed, index, name, value)
    \/ \E size \in Sizes : sizeUpdate(size) \/ setPermittedMaxSize(size)
    \/ endBlock

Spec == Init /\ [][Next]_vars

-----------------------------------------------------------------------------
(* Type invariant: descriptors are inside the live part of the arena.       *)
TypeOK ==
    /\ liveStart \in 0..Len(arena)
    /\ \A e \in {entries[i] : i \in DOMAIN entries} :
        /\ liveStart <= e.nameOffset /\ e.nameOffset + e.nameLength = e.valueOffset
        /\ e.valueOffset + e.valueLength <= Len(arena)
    /\ maxTableSize <= permittedMaxSize

(* Read through the arena, the decoder's table is the peer's, whatever was  *)
(* evicted, moved or resized, for as long as nothing was thrown.            *)
SameTable ==
    error = "none" =>
        /\ Len(entries) = Len(table)
        /\ \A i \in DOMAIN table : Span(This, entries[Len(entries) + 1 - i]) = table[i]

(* What is emitted is the field the peer meant, and a representation is     *)
(* refused for its index or its size exactly when the peer had no right to  *)
(* it.                                                                      *)
EmitsWhatWasMeant ==
    /\ error = "none" => last.legal /\ last.emitted = last.meant
    /\ error \in {"badIndex", "badTableSize"} => ~last.legal

(* The table's size is the cost of its entries, within its limit.           *)
SizeIsCost ==
    /\ tableSize = Total(entries)
    /\ tableSize <= maxTableSize

(* The arena of bytes, which only grows until it is compacted, stays within *)
(* what the largest table ever permitted accounts for.                      *)
LargestTable ==
    LET sizes == Sizes \cup {MaxTableSize} IN CHOOSE n \in sizes : \A k \in sizes : k <= n
ArenaBounded == Len(arena) <= (Factor + 1) * LargestTable + Slack

=============================================================================
