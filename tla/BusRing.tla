------------------------------ MODULE BusRing ------------------------------
(***************************************************************************)
(* The ring of the broadcast bus (src/Sources/CAvian/avian_bus.c): a byte  *)
(* ring in memory shared by worker processes, one claim word for writers,  *)
(* an index from message number to position, and readers that take no      *)
(* claim.  Every load, store and compare-and-swap of the shared words is a *)
(* step of its own; memcpy moves one cell per step, in any order.  A       *)
(* process can die at any step and leaves everything as it was.            *)
(*                                                                         *)
(* A cell stands for a run of bytes that is copied in one piece.  A record *)
(* is a cell with the number (cell 0), a cell with the lengths (cell 1)    *)
(* and one cell per unit of the body.  The wake loop at the end of         *)
(* av_bus_publish is in module Bus, which extends this one.                *)
(***************************************************************************)
EXTENDS Integers, FiniteSets

CONSTANTS
    Publishers,     \* processes that call av_bus_publish
    Readers,        \* processes that call av_bus_read
    Nobody,         \* the claim word's 0
    Capacity,       \* cells in the ring
    Entries,        \* entries in the index: index_mask + 1
    MaxBody,        \* max_message, in cells
    Bodies,         \* the lengths of body that are published, in cells
    Buffers,        \* the capacities av_bus_read is called with
    First,          \* the number the first message gets: now_us() at init
    MaxSequence,    \* bound: no publish starts once this number is reached
    MaxDeaths       \* bound: how many processes may die

RecordSize == 2

ASSUME NobodyAssumption == Nobody \notin Publishers \cup Readers

(***************************************************************************)
(* av_bus_init: a message takes up to a quarter of the ring, and the first *)
(* number is a time, so it is above the 0 of an index entry never written. *)
(***************************************************************************)
ASSUME SizeAssumption ==
    /\ Capacity \in Nat /\ Entries \in Nat \ {0} /\ MaxBody \in Nat
    /\ 4 * (RecordSize + MaxBody) <= Capacity
    /\ Bodies \subseteq Nat /\ Buffers \subseteq Nat
    /\ First \in Nat \ {0} /\ MaxSequence \in Nat /\ MaxDeaths \in Nat

Procs == Publishers \cup Readers

VARIABLES
    claim,      \* the process whose claim word is stored, or Nobody
    next,       \* ring->next
    high,       \* ring->high
    oldest,     \* ring->oldest
    tail,       \* ring->tail
    index,      \* g_index: slot -> [sequence, position]
    bytes,      \* g_bytes, by cell
    dead,       \* the processes that no longer exist
    pc,         \* where each process is; a dead one stays where it died
    wseq, wpos, wlen, wleft,    \* publish: sequence, position, body, cells to copy
    rseq, rbuf, rpos, rlen, rleft, got, ret,    \* read: its locals and its result
    log         \* history: what was published, by number

ring == <<claim, next, high, oldest, tail, index, bytes>>
writer == <<wseq, wpos, wlen, wleft>>
reader == <<rseq, rbuf, rpos, rlen, rleft, got, ret>>
vars == <<ring, dead, pc, writer, reader, log>>

(***************************************************************************)
(* Cell `at' of the record that process `by' wrote for number `seq' with a *)
(* body of `len' cells.  A reader looks only at the number in cell 0 and   *)
(* the length in cell 1; the rest of a cell says whose bytes they are.     *)
(***************************************************************************)
Cell(seq, by, len, at) == [seq |-> seq, by |-> by, len |-> len, at |-> at]
ZeroCell == Cell(0, Nobody, 0, 0)
Cells == [seq : Nat, by : Procs \cup {Nobody}, len : 0..MaxBody, at : Nat]
RecordCells(len) == 0 .. RecordSize + len - 1
BufferCells == RecordCells(MaxBody)

Slot(s) == s % Entries
Place(p) == p % Capacity
(* Mutant of overwritten: reaching the first byte counts as passing it.     *)
OverwrittenOffByOne(p) == high >= p + Capacity

overwritten(p) == high > p + Capacity

Init ==
    /\ claim = Nobody
    /\ next = First /\ oldest = First
    /\ high = 0 /\ tail = 0
    /\ index = [i \in 0..Entries-1 |-> [sequence |-> 0, position |-> 0]]
    /\ bytes = [c \in 0..Capacity-1 |-> ZeroCell]
    /\ dead = {}
    /\ pc = [p \in Procs |-> "idle"]
    /\ wseq = [p \in Procs |-> 0] /\ wpos = [p \in Procs |-> 0]
    /\ wlen = [p \in Procs |-> 0] /\ wleft = [p \in Procs |-> {}]
    /\ rseq = [p \in Procs |-> 0] /\ rbuf = [p \in Procs |-> 0]
    /\ rpos = [p \in Procs |-> 0] /\ rlen = [p \in Procs |-> 0]
    /\ rleft = [p \in Procs |-> {}]
    /\ got = [p \in Procs |-> [i \in BufferCells |-> ZeroCell]]
    /\ ret = [p \in Procs |-> 0]
    /\ log = [s \in {} |-> 0]

At(p, label) == p \notin dead /\ pc[p] = label
Goto(p, label) == pc' = [pc EXCEPT ![p] = label]

-----------------------------------------------------------------------------
(* av_bus_publish *)

(* A call whose body is larger than max_message returns 0 and changes       *)
(* nothing; the others wait for the claim.                                  *)
publish(p, len) ==
    /\ p \in Publishers /\ At(p, "idle")
    /\ next < MaxSequence
    /\ len <= MaxBody
    /\ wlen' = [wlen EXCEPT ![p] = len]
    /\ Goto(p, "take_claim")
    /\ UNCHANGED <<ring, dead, wseq, wpos, wleft, reader, log>>

(* Mutant of process_gone: a claim held for long counts as abandoned.       *)
HeldTooLong(q) == TRUE

process_gone(q) == q \in dead

(* Mutant of take_claim: whoever takes a claim over counts from `oldest'.   *)
TakeAndRecount(p) ==
    /\ At(p, "take_claim")
    /\ claim = Nobody \/ (claim # p /\ process_gone(claim))
    /\ claim' = p
    /\ next' = IF claim = Nobody THEN next ELSE oldest
    /\ Goto(p, "raise_high")
    /\ UNCHANGED <<high, oldest, tail, index, bytes, dead, writer, reader, log>>

(* A free claim is taken at once; one whose process is gone, after a while. *)
take_claim(p) ==
    /\ At(p, "take_claim")
    /\ claim = Nobody \/ (claim # p /\ process_gone(claim))
    /\ claim' = p
    /\ Goto(p, "raise_high")
    /\ UNCHANGED <<next, high, oldest, tail, index, bytes, dead, writer, reader, log>>

(* `next' and `tail' are read here: only the claim holder moves them.       *)
raise_high(p) ==
    LET end == tail + RecordSize + wlen[p]
    IN  /\ At(p, "raise_high")
        /\ wseq' = [wseq EXCEPT ![p] = next]
        /\ wpos' = [wpos EXCEPT ![p] = tail]
        /\ high' = IF high < end THEN end ELSE high
        /\ Goto(p, "evict")
        /\ UNCHANGED <<claim, next, oldest, tail, index, bytes, dead, wlen, wleft, reader, log>>

(* Mutant of Kept: the bytes are not looked at.                             *)
KeptWhateverBytes(s, seq) ==
    index[Slot(s)].sequence = s /\ s + Entries - 1 >= seq

(* The loop's test for the message that stays the oldest.                   *)
Kept(s, seq) ==
    /\ index[Slot(s)].sequence = s
    /\ s + Entries - 1 >= seq
    /\ ~overwritten(index[Slot(s)].position)

(* The loop reads only words the claim holder writes, so it is one step     *)
(* with the store it ends in: the first number kept, or `sequence'.         *)
evict(p) ==
    /\ At(p, "evict")
    /\ \E o \in oldest..wseq[p] :
          /\ \A s \in oldest..o-1 : ~Kept(s, wseq[p])
          /\ o = wseq[p] \/ Kept(o, wseq[p])
          /\ oldest' = o
    /\ wleft' = [wleft EXCEPT ![p] = RecordCells(wlen[p])]
    /\ Goto(p, "copy_in")
    /\ UNCHANGED <<claim, next, high, tail, index, bytes, dead, wseq, wpos, wlen, reader, log>>

copy_in(p) ==
    /\ At(p, "copy_in")
    /\ \E i \in wleft[p] :
          /\ bytes' = [bytes EXCEPT ![Place(wpos[p] + i)] = Cell(wseq[p], p, wlen[p], i)]
          /\ wleft' = [wleft EXCEPT ![p] = @ \ {i}]
    /\ Goto(p, IF wleft'[p] = {} THEN "index_position" ELSE "copy_in")
    /\ UNCHANGED <<claim, next, high, oldest, tail, index, dead, wseq, wpos, wlen, reader, log>>

index_position(p) ==
    /\ At(p, "index_position")
    /\ index' = [index EXCEPT ![Slot(wseq[p])] = [@ EXCEPT !.position = wpos[p]]]
    /\ Goto(p, "index_sequence")
    /\ UNCHANGED <<claim, next, high, oldest, tail, bytes, dead, writer, reader, log>>

index_sequence(p) ==
    /\ At(p, "index_sequence")
    /\ index' = [index EXCEPT ![Slot(wseq[p])] = [@ EXCEPT !.sequence = wseq[p]]]
    /\ Goto(p, "advance_tail")
    /\ UNCHANGED <<claim, next, high, oldest, tail, bytes, dead, writer, reader, log>>

advance_tail(p) ==
    /\ At(p, "advance_tail")
    /\ tail' = wpos[p] + RecordSize + wlen[p]
    /\ Goto(p, "store_next")
    /\ UNCHANGED <<claim, next, high, oldest, index, bytes, dead, writer, reader, log>>

(* The message counts from here on; the history records it.                 *)
store_next(p) ==
    /\ At(p, "store_next")
    /\ next' = wseq[p] + 1
    /\ log' = [s \in DOMAIN log \cup {wseq[p]} |->
                  IF s = wseq[p]
                  THEN [by |-> p, len |-> wlen[p], position |-> wpos[p]]
                  ELSE log[s]]
    /\ Goto(p, "give_claim")
    /\ UNCHANGED <<claim, high, oldest, tail, index, bytes, dead, writer, reader>>

give_claim(p) ==
    /\ At(p, "give_claim")
    /\ claim' = Nobody
    /\ Goto(p, "wake")
    /\ UNCHANGED <<next, high, oldest, tail, index, bytes, dead, writer, reader, log>>

(* After the wake loop, which touches nothing of the ring.                  *)
published(p) ==
    /\ At(p, "wake")
    /\ wseq' = [wseq EXCEPT ![p] = 0] /\ wpos' = [wpos EXCEPT ![p] = 0]
    /\ wlen' = [wlen EXCEPT ![p] = 0]
    /\ Goto(p, "idle")
    /\ UNCHANGED <<ring, dead, wleft, reader, log>>

-----------------------------------------------------------------------------
(* av_bus_read *)

(* The result of a call is `ret', and `got' the buffer it filled.           *)
Return(p, value) ==
    /\ ret' = [ret EXCEPT ![p] = value]
    /\ Goto(p, "returned")

read(p, s, capacity) ==
    /\ p \in Readers /\ At(p, "idle")
    /\ rseq' = [rseq EXCEPT ![p] = s]
    /\ rbuf' = [rbuf EXCEPT ![p] = capacity]
    /\ Goto(p, "load_next")
    /\ UNCHANGED <<ring, dead, writer, rpos, rlen, rleft, got, ret, log>>

load_next(p) ==
    /\ At(p, "load_next")
    /\ IF rseq[p] >= next THEN Return(p, 0) ELSE Goto(p, "load_oldest") /\ UNCHANGED ret
    /\ UNCHANGED <<ring, dead, writer, rseq, rbuf, rpos, rlen, rleft, got, log>>

(* Mutant of load_oldest: the oldest message counts as gone.                *)
LoadOldestOffByOne(p) ==
    /\ At(p, "load_oldest")
    /\ IF rseq[p] <= oldest THEN Return(p, -1) ELSE Goto(p, "load_before") /\ UNCHANGED ret
    /\ UNCHANGED <<ring, dead, writer, rseq, rbuf, rpos, rlen, rleft, got, log>>

load_oldest(p) ==
    /\ At(p, "load_oldest")
    /\ IF rseq[p] < oldest THEN Return(p, -1) ELSE Goto(p, "load_before") /\ UNCHANGED ret
    /\ UNCHANGED <<ring, dead, writer, rseq, rbuf, rpos, rlen, rleft, got, log>>

(* `before' is compared after the position is loaded; a mismatch returns -1 *)
(* whatever the position was.                                               *)
load_before(p) ==
    /\ At(p, "load_before")
    /\ IF index[Slot(rseq[p])].sequence # rseq[p]
       THEN Return(p, -1)
       ELSE Goto(p, "load_position") /\ UNCHANGED ret
    /\ UNCHANGED <<ring, dead, writer, rseq, rbuf, rpos, rlen, rleft, got, log>>

load_position(p) ==
    /\ At(p, "load_position")
    /\ rpos' = [rpos EXCEPT ![p] = index[Slot(rseq[p])].position]
    /\ Goto(p, "load_after")
    /\ UNCHANGED <<ring, dead, writer, rseq, rbuf, rlen, rleft, got, ret, log>>

load_after(p) ==
    /\ At(p, "load_after")
    /\ IF index[Slot(rseq[p])].sequence # rseq[p]
       THEN Return(p, -1) /\ UNCHANGED rleft
       ELSE /\ rleft' = [rleft EXCEPT ![p] = RecordCells(0)]
            /\ Goto(p, "copy_record") /\ UNCHANGED ret
    /\ UNCHANGED <<ring, dead, writer, rseq, rbuf, rpos, rlen, got, log>>

(* One cell of a copy_out, and where the call goes after the last one.      *)
copy_out(p, from, to) ==
    /\ At(p, from)
    /\ \E i \in rleft[p] :
          /\ got' = [got EXCEPT ![p] = [@ EXCEPT ![i] = bytes[Place(rpos[p] + i)]]]
          /\ rleft' = [rleft EXCEPT ![p] = @ \ {i}]
    /\ Goto(p, IF rleft'[p] = {} THEN to ELSE from)
    /\ UNCHANGED <<ring, dead, writer, rseq, rbuf, rpos, rlen, ret, log>>

(* What the number or the lengths of a record read as: any value at all     *)
(* when the bytes copied were some other part of a message.                 *)
NumberIn(cell, s) == IF cell.at = 0 THEN {cell.seq} ELSE {0, s}
LengthIn(cell) == IF cell.at = 1 THEN {cell.len} ELSE 0..MaxBody+1

(* A buffer too small is told the length; an empty body is copied at once.  *)
check_record(p) ==
    /\ At(p, "check_record")
    /\ \E s \in NumberIn(got[p][0], rseq[p]), len \in LengthIn(got[p][1]) :
          IF overwritten(rpos[p]) \/ s # rseq[p] \/ len > MaxBody
          THEN Return(p, -1) /\ UNCHANGED <<rlen, rleft>>
          ELSE /\ rlen' = [rlen EXCEPT ![p] = len]
               /\ IF len > rbuf[p]
                  THEN Return(p, -2) /\ UNCHANGED rleft
                  ELSE /\ rleft' = [rleft EXCEPT ![p] = RecordCells(len) \ RecordCells(0)]
                       /\ Goto(p, IF len = 0 THEN "check_body" ELSE "copy_body")
                       /\ UNCHANGED ret
    /\ UNCHANGED <<ring, dead, writer, rseq, rbuf, rpos, got, log>>

(* Mutant of check_body: what was copied is believed.                       *)
CheckBodyNot(p) ==
    /\ At(p, "check_body")
    /\ Return(p, 1)
    /\ UNCHANGED <<ring, dead, writer, rseq, rbuf, rpos, rlen, rleft, got, log>>

check_body(p) ==
    /\ At(p, "check_body")
    /\ Return(p, IF overwritten(rpos[p]) THEN -1 ELSE 1)
    /\ UNCHANGED <<ring, dead, writer, rseq, rbuf, rpos, rlen, rleft, got, log>>

(* The caller has used the result; the buffer is its own again.             *)
read_done(p) ==
    /\ At(p, "returned")
    /\ rseq' = [rseq EXCEPT ![p] = 0] /\ rbuf' = [rbuf EXCEPT ![p] = 0]
    /\ rpos' = [rpos EXCEPT ![p] = 0] /\ rlen' = [rlen EXCEPT ![p] = 0]
    /\ rleft' = [rleft EXCEPT ![p] = {}]
    /\ got' = [got EXCEPT ![p] = [i \in BufferCells |-> ZeroCell]]
    /\ ret' = [ret EXCEPT ![p] = 0]
    /\ Goto(p, "idle")
    /\ UNCHANGED <<ring, dead, writer, log>>

-----------------------------------------------------------------------------
(* The process is killed: its claim, if it has one, stays.  A reader leaves *)
(* nothing in the ring, so only the death of a publisher is a step.         *)
die(p) ==
    /\ p \in Publishers \ dead
    /\ Cardinality(dead) < MaxDeaths
    /\ dead' = dead \cup {p}
    /\ UNCHANGED <<ring, pc, writer, reader, log>>

PublishStep(p) ==
    \/ take_claim(p) \/ raise_high(p) \/ evict(p) \/ copy_in(p)
    \/ index_position(p) \/ index_sequence(p) \/ advance_tail(p)
    \/ store_next(p) \/ give_claim(p) \/ published(p)

ReadStep(p) ==
    \/ load_next(p) \/ load_oldest(p) \/ load_before(p) \/ load_position(p)
    \/ load_after(p) \/ copy_out(p, "copy_record", "check_record")
    \/ check_record(p) \/ copy_out(p, "copy_body", "check_body")
    \/ check_body(p) \/ read_done(p)

Next ==
    \E p \in Procs :
        \/ \E len \in Bodies : publish(p, len)
        \/ PublishStep(p)
        \/ \E s \in First-1..next, capacity \in Buffers : read(p, s, capacity)
        \/ ReadStep(p)
        \/ die(p)

Spec == Init /\ [][Next]_vars

(* A process that exists goes on with the call it is in: publish and read   *)
(* never block except in take_claim, which yields and looks again.          *)
Fairness == \A p \in Procs : WF_vars(PublishStep(p)) /\ WF_vars(ReadStep(p))
FairSpec == Spec /\ Fairness

-----------------------------------------------------------------------------
(* Properties *)

Labels == {"idle", "take_claim", "raise_high", "evict", "copy_in",
           "index_position", "index_sequence", "advance_tail", "store_next",
           "give_claim", "wake", "load_next", "load_oldest", "load_before",
           "load_position", "load_after", "copy_record", "check_record",
           "copy_body", "check_body", "returned"}

(* The labels at which av_bus_publish holds the claim.                      *)
Holding == {"raise_high", "evict", "copy_in", "index_position",
            "index_sequence", "advance_tail", "store_next", "give_claim"}

(* Every variable has its type: the shared words are numbers, index entries *)
(* and cells are whole, a call's locals fit the call.                       *)
TypeOK ==
    /\ claim \in Procs \cup {Nobody}
    /\ next \in Nat /\ high \in Nat /\ oldest \in Nat /\ tail \in Nat
    /\ index \in [0..Entries-1 -> [sequence : Nat, position : Nat]]
    /\ bytes \in [0..Capacity-1 -> Cells]
    /\ dead \in SUBSET Procs
    /\ pc \in [Procs -> Labels]
    /\ wseq \in [Procs -> Nat] /\ wpos \in [Procs -> Nat]
    /\ wlen \in [Procs -> 0..MaxBody]
    /\ wleft \in [Procs -> SUBSET BufferCells]
    /\ rseq \in [Procs -> Nat] /\ rbuf \in [Procs -> Nat]
    /\ rpos \in [Procs -> Nat] /\ rlen \in [Procs -> 0..MaxBody]
    /\ rleft \in [Procs -> SUBSET BufferCells]
    /\ got \in [Procs -> [BufferCells -> Cells]]
    /\ ret \in [Procs -> {-2, -1, 0, 1}]
    /\ DOMAIN log \subseteq Nat
    /\ log \in [DOMAIN log -> [by : Procs, len : 0..MaxBody, position : Nat]]

(* One writer at a time: a process that exists and is between take_claim    *)
(* and give_claim is the one the claim word names, however many writers     *)
(* died holding the ring and were taken over.                               *)
ClaimExclusive ==
    \A p \in Procs : p \notin dead /\ pc[p] \in Holding => claim = p

Intact(p) ==
    pc[p] = "returned" /\ ret[p] \in {1, -2} =>
        /\ rseq[p] \in DOMAIN log
        /\ rlen[p] = log[rseq[p]].len
        /\ ret[p] = -2 => rbuf[p] < rlen[p]
        /\ ret[p] = 1 => \A i \in RecordCells(rlen[p]) :
               got[p][i] = Cell(rseq[p], log[rseq[p]].by, log[rseq[p]].len, i)

LostAt(p) == pc[p] = "returned" /\ ret[p] = -1
Gone(p) == LostAt(p) => rseq[p] < oldest \/ high > log[rseq[p]].position + Capacity

(* av_bus_read: a read that returns 1 has copied out exactly the message    *)
(* published under that number, every cell of it by one writer, although it *)
(* took no claim and writers may have reached it half way; one that returns *)
(* -2 gives the length of that message; and one that returns -1 is right:   *)
(* the message is below `oldest' or its bytes are overwritten for good.     *)
IntactRead == \A p \in Procs : Intact(p) /\ Gone(p)

(* Unless the claim holder has yet to raise `high' and store `oldest',      *)
(* every number from `oldest' up to `next' is found through the index, is   *)
(* not overwritten, and its bytes are all there: what bus_unit.c asks of    *)
(* the ring after the race, here at every moment and after every death.     *)
HeldReadable ==
    claim = Nobody \/ pc[claim] \notin {"raise_high", "evict"} =>
        \A s \in oldest..next-1 :
            /\ index[Slot(s)] = [sequence |-> s, position |-> log[s].position]
            /\ high <= log[s].position + Capacity
            /\ \A i \in RecordCells(log[s].len) :
                  bytes[Place(log[s].position + i)] = Cell(s, log[s].by, log[s].len, i)

(* Numbers rise by one per message and a number, once given, names the same *)
(* message for ever: a writer that takes over never republishes one.        *)
NumbersStand ==
    [][ /\ next' \in {next, next + 1}
        /\ \A s \in DOMAIN log : s \in DOMAIN log' /\ log'[s] = log[s] ]_vars

(* A publish drops a message only because its bytes or its place in the     *)
(* index are needed.                                                        *)
DropsOnlyDisplaced ==
    [][ \A s \in oldest..oldest'-1 :
            high > log[s].position + Capacity \/ s + Entries <= next ]_vars

(* A claim left by a process that is gone does not outlast the first writer *)
(* that waits for it and lives.                                             *)
TakenOver ==
    \A p \in Publishers :
        (claim \in dead /\ At(p, "take_claim")) ~> (claim \notin dead \/ p \in dead)

-----------------------------------------------------------------------------
(***************************************************************************)
(* The inductive invariant behind the safety properties above, in parts.   *)
(* `overwritten' can only become true, the bytes of a message change only  *)
(* once it is true for its position, and whoever holds the claim, alive or *)
(* dead, knows how far its message has got.                                *)
(***************************************************************************)

(* Whoever holds the claim is inside publish.                               *)
ClaimInv ==
    /\ ClaimExclusive
    /\ claim # Nobody => pc[claim] \in Holding

(* The words of the ring in order: nothing reaches further than one message *)
(* beyond `tail'.                                                           *)
WordsInv ==
    /\ First <= oldest /\ oldest <= next
    /\ tail <= high /\ high <= tail + RecordSize + MaxBody

MessageAt(s, by, len, p, i) == bytes[Place(p + i)] = Cell(s, by, len, i)

(* Messages lie one after another below `tail', whole until overwritten.    *)
LogInv ==
    /\ DOMAIN log = First..next-1
    /\ \A s \in First..next-1 : log[s].position + RecordSize + log[s].len <= tail
    /\ \A s, t \in First..next-1 : s < t => log[s].position <= log[t].position
    /\ \A s \in First..next-1 : ~overwritten(log[s].position) =>
          \A i \in RecordCells(log[s].len) :
              MessageAt(s, log[s].by, log[s].len, log[s].position, i)

(* How far the claim holder has got with its message.                       *)
Copying == {"copy_in", "index_position", "index_sequence", "advance_tail", "store_next"}

WriterInv ==
    claim # Nobody =>
        /\ pc[claim] \in Copying \cup {"evict"} =>
              /\ wseq[claim] = next
              /\ wpos[claim] + RecordSize + wlen[claim] <= high
              /\ high <= wpos[claim] + RecordSize + MaxBody
              /\ pc[claim] # "store_next" => wpos[claim] = tail
              /\ pc[claim] = "store_next" => tail = wpos[claim] + RecordSize + wlen[claim]
              /\ \A s \in First..next-1 : log[s].position + RecordSize + log[s].len <= wpos[claim]
        /\ pc[claim] \in Copying =>
              /\ oldest + Entries > next
              /\ pc[claim] = "copy_in" => wleft[claim] \subseteq RecordCells(wlen[claim])
              /\ \A i \in RecordCells(wlen[claim]) :
                    \/ pc[claim] = "copy_in" /\ i \in wleft[claim]
                    \/ MessageAt(next, claim, wlen[claim], wpos[claim], i)
        /\ pc[claim] \in {"index_sequence", "advance_tail", "store_next"} =>
              index[Slot(next)].position = wpos[claim]
        /\ pc[claim] \in {"advance_tail", "store_next"} =>
              index[Slot(next)].sequence = next

(* The cell at position p, if not overwritten, starts some other record     *)
(* than that of number s.                                                   *)
OtherRecord(cell, s) == cell.at = 0 /\ cell.seq # s
NotRecordOf(p, s) == overwritten(p) \/ OtherRecord(bytes[Place(p)], s)

(* The index leads to every message that is held; an entry that has held    *)
(* the number s leads to it or to a record that says it is another.         *)
IndexInv ==
    /\ \A s \in oldest..next-1 :
          index[Slot(s)].sequence = s /\ index[Slot(s)].position = log[s].position
    /\ \A s \in First..next-1 : index[Slot(s)].sequence >= s =>
          /\ index[Slot(s)].position <= tail
          /\ \/ index[Slot(s)].position = log[s].position
             \/ NotRecordOf(index[Slot(s)].position, s)

(* Every message from `oldest' on is within reach, but while a writer is    *)
(* about to say otherwise.                                                  *)
ReachInv ==
    claim = Nobody \/ pc[claim] \notin {"raise_high", "evict"} =>
        \A s \in oldest..next-1 : ~overwritten(log[s].position)

(* What a reader knows at each step of a call for number rseq[p].           *)
Reading == {"load_before", "load_position", "load_after", "copy_record",
            "check_record", "copy_body", "check_body"}

GotMessage(p, i) ==
    LET s == rseq[p]
    IN  overwritten(rpos[p]) \/ got[p][i] = Cell(s, log[s].by, log[s].len, i)

Located(p) ==
    /\ rpos[p] <= tail
    /\ rpos[p] = log[rseq[p]].position \/ rseq[p] < oldest
    /\ rpos[p] = log[rseq[p]].position \/ NotRecordOf(rpos[p], rseq[p])

CopiedRecord(p) ==
    \A i \in RecordCells(0) :
        \/ pc[p] = "copy_record" /\ i \in rleft[p]
        \/ rpos[p] = log[rseq[p]].position /\ GotMessage(p, i)
        \/ /\ rpos[p] # log[rseq[p]].position
           /\ i = 0 => overwritten(rpos[p]) \/ OtherRecord(got[p][0], rseq[p])

CopiedBody(p) ==
    /\ rpos[p] = log[rseq[p]].position /\ rlen[p] = log[rseq[p]].len
    /\ \A i \in RecordCells(rlen[p]) :
          (pc[p] = "copy_body" /\ i \in rleft[p]) \/ GotMessage(p, i)

ReaderKnows(p) ==
    /\ pc[p] = "load_oldest" => rseq[p] < next
    /\ pc[p] \in Reading => rseq[p] \in First..next-1
    /\ pc[p] = "load_position" => index[Slot(rseq[p])].sequence >= rseq[p]
    /\ pc[p] \in {"load_after", "copy_record", "check_record"} => Located(p)
    /\ pc[p] = "copy_record" => rleft[p] \subseteq RecordCells(0)
    /\ pc[p] \in {"copy_record", "check_record"} => CopiedRecord(p)
    /\ pc[p] = "copy_body" => rleft[p] \subseteq RecordCells(rlen[p])
    /\ pc[p] \in {"copy_body", "check_body"} => CopiedBody(p)

ReaderInv == \A p \in Procs : ReaderKnows(p)

(* A result, once returned, stays right.                                    *)
ResultInv ==
    \A p \in Procs : Intact(p) /\ Gone(p) /\ (LostAt(p) => rseq[p] < next)

IInv ==
    /\ TypeOK /\ ClaimInv /\ WordsInv /\ LogInv /\ WriterInv /\ IndexInv
    /\ ReachInv /\ ReaderInv /\ ResultInv

=============================================================================
