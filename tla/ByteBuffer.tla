----------------------------- MODULE ByteBuffer -----------------------------
(* A worker's buffers and the pool they come from (ByteBuffer.swift,        *)
(* BufferPool.swift).  A connection takes a buffer, writes to its end and   *)
(* consumes from its front for as long as it lives, and gives it back.  A   *)
(* buffer is a struct over an allocation; the heap here says which          *)
(* allocations exist and what is in them.                                   *)
EXTENDS Integers, Sequences, FiniteSets

CONSTANTS
    Conns,
    Blocks,             \* the addresses malloc may return
    BlockSize, MaxRetained,
    FirstCapacity,      \* what a buffer without storage grows to, 512
    IntBits,            \* the width of Int
    Requests,           \* what a caller reserves at once
    MaxBytes            \* bound: bytes written to a buffer while it is held

NoBlock == "none"
IntMax == 2 ^ (IntBits - 1) - 1
Garbage == 0            \* what is in memory that nothing was written to

VARIABLES
    heap,       \* the allocations: address -> bytes
    buffer,     \* per connection: storage, capacity, readerIndex, writerIndex
    slots,      \* the pool's free list, the last one taken first
    live,
    process,    \* "running", "aborted", or "spinning" in the growth loop
    holds,      \* history: the connections that have a buffer
    queue,      \* history: per connection, the bytes written and not consumed
    written     \* per connection: how many bytes were written

vars == <<heap, buffer, slots, live, process, holds, queue, written>>

Empty == [storage |-> NoBlock, capacity |-> 0, readerIndex |-> 0, writerIndex |-> 0]

Init ==
    /\ heap = [b \in {} |-> <<>>]
    /\ buffer = [c \in Conns |-> Empty]
    /\ slots = <<>> /\ live = 0 /\ process = "running"
    /\ holds = {}
    /\ queue = [c \in Conns |-> <<>>]
    /\ written = [c \in Conns |-> 0]

-----------------------------------------------------------------------------
(* The heap, external.                                                      *)
Unused == Blocks \ DOMAIN heap
Allocated(h, b, size) == [a \in DOMAIN h \cup {b} |-> IF a = b THEN [k \in 1..size |-> Garbage] ELSE h[a]]
Freed(h, b) == [a \in DOMAIN h \ {b} |-> h[a]]
(* realloc: the block is extended where it is or moved to another.          *)
Reallocated(h, old, new, size) ==
    [a \in (DOMAIN h \ {old}) \cup {new} |->
        IF a = new THEN [k \in 1..size |-> IF k <= Len(h[old]) THEN h[old][k] ELSE Garbage] ELSE h[a]]

-----------------------------------------------------------------------------
(* The buffer.  An operator takes the buffer and the heap as [b, h].        *)

(* Mutant: the writer stays where it was.                                   *)
CompactKeepsWriter(s) ==
    IF s.b.readerIndex = 0 THEN s
    ELSE [b |-> [s.b EXCEPT !.readerIndex = 0],
          h |-> [s.h EXCEPT ![s.b.storage] =
                    [k \in DOMAIN @ |->
                        IF k <= s.b.writerIndex - s.b.readerIndex THEN @[k + s.b.readerIndex] ELSE @[k]]]]
compact(s) ==
    LET n == s.b.writerIndex - s.b.readerIndex IN
    IF s.b.readerIndex = 0 THEN s
    ELSE [b |-> [s.b EXCEPT !.readerIndex = 0, !.writerIndex = n],
          h |-> [s.h EXCEPT ![s.b.storage] =
                    [k \in DOMAIN @ |-> IF k <= n THEN @[k + s.b.readerIndex] ELSE @[k]]]]

(* Int arithmetic with &+ and &*.                                           *)
Wrap(x) == ((x + IntMax + 1) % (2 * (IntMax + 1))) - (IntMax + 1)

maxBufferCapacity == IntMax \div 2

(* The capacities the doubling loop passes through, and the one it stops at;*)
(* 0 when it never stops (after IntBits doublings it stays at 0).           *)
Doubling(cap) == [k \in 0..IntBits |-> Wrap(cap * 2 ^ k)]
Doubled(cap, need) ==
    LET doubling == Doubling(cap)
        enough == {k \in 0..IntBits : doubling[k] >= need}
    IN IF enough = {} THEN 0
       ELSE doubling[CHOOSE k \in enough : \A j \in enough : k <= j]

Need(b, n) == Wrap(b.writerIndex + n)
Impossible(need) == need < 0 \/ need > maxBufferCapacity
NewCap(b, n) == Doubled(IF b.capacity = 0 THEN FirstCapacity ELSE b.capacity, Need(b, n))

HasRoom(b, n) == b.capacity - b.writerIndex >= n
Reclaims(b, n) == b.readerIndex > 0 /\ b.capacity - (b.writerIndex - b.readerIndex) >= n
Grows(b, n) == ~HasRoom(b, n) /\ ~Reclaims(b, n)

(* growSlow where compacting was not enough; `where` is the address that    *)
(* malloc or realloc gives.                                                 *)
Grown(s, n, where) ==
    LET newCap == NewCap(s.b, n) IN
    [b |-> [s.b EXCEPT !.capacity = newCap, !.storage = where],
     h |-> IF s.b.storage = NoBlock THEN Allocated(s.h, where, newCap)
           ELSE Reallocated(s.h, s.b.storage, where, newCap)]

reserve(s, n, where) ==
    IF HasRoom(s.b, n) THEN s
    ELSE IF Reclaims(s.b, n) THEN compact(s)
    ELSE Grown(s, n, where)

(* The addresses a call that may allocate can be given.                     *)
Places(b, n) ==
    IF Grows(b, n) THEN Unused \cup ({b.storage} \ {NoBlock}) ELSE {b.storage}

Holder(c) == process = "running" /\ c \in holds

(* write, writeByte, writeDecimal, withWritableBytes...: n bytes reserved,  *)
(* the first `produced` of them written.                                    *)
write(c, n, produced) ==
    /\ Holder(c) /\ written[c] + produced <= MaxBytes
    /\ Grows(buffer[c], n) => ~Impossible(Need(buffer[c], n)) /\ NewCap(buffer[c], n) # 0
    /\ \E where \in Places(buffer[c], n) :
        LET s == reserve([b |-> buffer[c], h |-> heap], n, where)
            at == s.b.writerIndex
        IN
        /\ heap' = [s.h EXCEPT ![s.b.storage] =
                        [k \in DOMAIN @ |->
                            IF k \in (at + 1)..(at + produced) THEN written[c] + k - at ELSE @[k]]]
        /\ buffer' = [buffer EXCEPT ![c] = [s.b EXCEPT !.writerIndex = at + produced]]
    /\ written' = [written EXCEPT ![c] = @ + produced]
    /\ queue' = [queue EXCEPT ![c] = @ \o [k \in 1..produced |-> written[c] + k]]
    /\ UNCHANGED <<slots, live, process, holds>>

(* A request that cannot be met ends the process, or never returns.         *)
allocationFailed(c, n) ==
    /\ Holder(c) /\ Grows(buffer[c], n)
    /\ ~(~Impossible(Need(buffer[c], n)) /\ NewCap(buffer[c], n) # 0)
    /\ process' = IF Impossible(Need(buffer[c], n)) THEN "aborted" ELSE "spinning"
    /\ UNCHANGED <<heap, buffer, slots, live, holds, queue, written>>

compactBuffer(c) ==
    /\ Holder(c) /\ buffer[c].readerIndex > 0
    /\ LET s == compact([b |-> buffer[c], h |-> heap])
       IN buffer' = [buffer EXCEPT ![c] = s.b] /\ heap' = s.h
    /\ UNCHANGED <<slots, live, process, holds, queue, written>>

Readable(b) == b.writerIndex - b.readerIndex

Consumed(b, n) ==
    IF b.readerIndex + n = b.writerIndex
    THEN [b EXCEPT !.readerIndex = 0, !.writerIndex = 0]
    ELSE [b EXCEPT !.readerIndex = @ + n]

consume(c, n) ==
    /\ Holder(c) /\ n <= Readable(buffer[c])
    /\ buffer' = [buffer EXCEPT ![c] = Consumed(@, n)]
    /\ queue' = [queue EXCEPT ![c] = SubSeq(@, n + 1, Len(@))]
    /\ UNCHANGED <<heap, slots, live, process, holds, written>>

truncate(c, length) ==
    /\ Holder(c)
    /\ buffer' = [buffer EXCEPT ![c].writerIndex =
                    buffer[c].readerIndex + (IF length < Readable(buffer[c]) THEN length ELSE Readable(buffer[c]))]
    /\ queue' = [queue EXCEPT ![c] = SubSeq(@, 1, IF length < Len(@) THEN length ELSE Len(@))]
    /\ UNCHANGED <<heap, slots, live, process, holds, written>>

clear(c) ==
    /\ Holder(c)
    /\ buffer' = [buffer EXCEPT ![c].readerIndex = 0, ![c].writerIndex = 0]
    /\ queue' = [queue EXCEPT ![c] = <<>>]
    /\ UNCHANGED <<heap, slots, live, process, holds, written>>

destroy(c) ==
    /\ Holder(c) /\ buffer[c].storage # NoBlock
    /\ heap' = Freed(heap, buffer[c].storage)
    /\ buffer' = [buffer EXCEPT ![c] = Empty]
    /\ queue' = [queue EXCEPT ![c] = <<>>]
    /\ UNCHANGED <<slots, live, process, holds, written>>

-----------------------------------------------------------------------------
(* The pool.                                                                *)

Adopted(b) == [storage |-> b, capacity |-> BlockSize, readerIndex |-> 0, writerIndex |-> 0]

take(c) ==
    /\ process = "running" /\ c \notin holds
    /\ live' = live + 1
    /\ holds' = holds \cup {c}
    /\ \/ /\ slots # <<>>
          /\ buffer' = [buffer EXCEPT ![c] = Adopted(slots[Len(slots)])]
          /\ slots' = SubSeq(slots, 1, Len(slots) - 1)
          /\ UNCHANGED heap
       \/ /\ slots = <<>>
          /\ \E b \in Unused :
                /\ heap' = Allocated(heap, b, BlockSize)
                /\ buffer' = [buffer EXCEPT ![c] = Adopted(b)]
          /\ UNCHANGED slots
    /\ queue' = [queue EXCEPT ![c] = <<>>]
    /\ written' = [written EXCEPT ![c] = 0]
    /\ UNCHANGED process

Pools(b) == b.capacity = BlockSize /\ Len(slots) < MaxRetained

give(c) ==
    /\ Holder(c)
    /\ live' = live - 1
    /\ holds' = holds \ {c}
    /\ LET b == buffer[c] IN
       \/ /\ b.storage = NoBlock
          /\ UNCHANGED <<heap, slots>>
       \/ /\ b.storage # NoBlock /\ Pools(b)
          /\ slots' = Append(slots, b.storage)
          /\ UNCHANGED heap
       \/ /\ b.storage # NoBlock /\ ~Pools(b)
          /\ heap' = Freed(heap, b.storage)
          /\ UNCHANGED slots
    /\ buffer' = [buffer EXCEPT ![c] = Empty]
    /\ queue' = [queue EXCEPT ![c] = <<>>]
    /\ UNCHANGED <<process, written>>

drain ==
    /\ process = "running" /\ slots # <<>>
    /\ heap' = [b \in DOMAIN heap \ {slots[k] : k \in DOMAIN slots} |-> heap[b]]
    /\ slots' = <<>>
    /\ UNCHANGED <<buffer, live, process, holds, queue, written>>

Next ==
    \/ \E c \in Conns :
        \/ take(c) \/ give(c) \/ destroy(c) \/ clear(c) \/ compactBuffer(c)
        \/ \E n \in Requests : \E produced \in 0..n : write(c, n, produced)
        \/ \E n \in Requests : allocationFailed(c, n)
        \/ \E n \in 0..MaxBytes : consume(c, n) \/ truncate(c, n)
    \/ drain

Spec == Init /\ [][Next]_vars

-----------------------------------------------------------------------------
(* Type invariant: indices are inside the capacity, the free list inside    *)
(* the array allocated for it.                                              *)
TypeOK ==
    /\ DOMAIN heap \subseteq Blocks
    /\ \A c \in Conns :
        /\ buffer[c].storage \in Blocks \cup {NoBlock}
        /\ 0 <= buffer[c].readerIndex /\ buffer[c].readerIndex <= buffer[c].writerIndex
        /\ buffer[c].writerIndex <= buffer[c].capacity
    /\ Len(slots) <= MaxRetained
    /\ live = Cardinality(holds)
    /\ process \in {"running", "aborted", "spinning"}

(* However a buffer was compacted, grown, moved by realloc, truncated or    *)
(* recycled, what a reader finds between readerIndex and writerIndex is     *)
(* what was written and not consumed, in order.                             *)
BytesKept ==
    \A c \in holds :
        /\ buffer[c].writerIndex - buffer[c].readerIndex = Len(queue[c])
        /\ \A k \in 1..Len(queue[c]) :
              heap[buffer[c].storage][buffer[c].readerIndex + k] = queue[c][k]

(* Every allocation has one owner, a buffer or a slot of the pool: none is  *)
(* leaked, none is in two hands, and none in the pool has a size other than *)
(* the blockSize take() will claim for it.                                  *)
OneOwner ==
    LET owners == {<<"buffer", c>> : c \in {d \in Conns : buffer[d].storage # NoBlock}}
                  \cup {<<"slot", k>> : k \in DOMAIN slots}
        owned(o) == IF o[1] = "buffer" THEN buffer[o[2]].storage ELSE slots[o[2]]
        claimed(o) == IF o[1] = "buffer" THEN buffer[o[2]].capacity ELSE BlockSize
    IN /\ {owned(o) : o \in owners} = DOMAIN heap
       /\ Cardinality(owners) = Cardinality(DOMAIN heap)
       /\ \A o \in owners : Len(heap[owned(o)]) = claimed(o)

(* The growth loop always ends: a request past the largest buffer is        *)
(* reported by aborting, never by doubling a capacity that has wrapped.     *)
NeverSpins == process # "spinning"

=============================================================================
