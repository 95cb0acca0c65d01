------------------------------ MODULE QUICAcks ------------------------------
(* The packet numbers of one space that are to be acknowledged              *)
(* (QUICAckRanges and the ACK frame in QUICFrame.swift; receivePacket and   *)
(* buildPacket where they use them).  Ranges are inclusive, highest first.  *)
EXTENDS Integers, Sequences, FiniteSets
LOCAL INSTANCE SequencesExt

CONSTANTS
    Top,                \* bound: the highest packet number the peer uses
    MaximumRanges,      \* ranges kept (32)
    MaxAcks             \* bound: ACK frames sent

VARIABLES
    acks,               \* the ranges
    ackPending,
    inFlight,           \* ACK frames sent and not yet acknowledged
    acksSent,           \* how many were sent
    processed,          \* history: how often each packet was processed
    told,               \* history: numbers in an ACK frame the peer has
    forgotten           \* history: the highest number forgotten up to

vars == <<acks, ackPending, inFlight, acksSent, processed, told, forgotten>>

Between(low, high) == [low |-> low, high |-> high]
Within(r, n) == n >= r.low /\ n <= r.high
Covered(rs) == UNION {rs[i].low..rs[i].high : i \in 1..Len(rs)}

-----------------------------------------------------------------------------
(* n is one above range i: the gap to the range before may have closed.     *)
WidenedUp(rs, i, n) ==
    IF i > 1 /\ rs[i - 1].low = n + 1
    THEN RemoveAt(ReplaceAt(rs, i, Between(rs[i].low, rs[i - 1].high)), i - 1)
    ELSE ReplaceAt(rs, i, Between(rs[i].low, n))

(* Mutant: a gap that closes from below is not joined.                      *)
WidenedDownOnly(rs, i, n) == ReplaceAt(rs, i, Between(n, rs[i].high))

(* n is one below range i: the gap to the range after may have closed.      *)
WidenedDown(rs, i, n) ==
    IF i < Len(rs) /\ rs[i + 1].high + 1 = n
    THEN RemoveAt(ReplaceAt(rs, i, Between(rs[i + 1].low, rs[i].high)), i + 1)
    ELSE ReplaceAt(rs, i, Between(n, rs[i].high))

(* A range of its own, the oldest ones dropped if there are too many.       *)
Inserted(rs, i, n) ==
    LET all == InsertAt(rs, i, Between(n, n))
    IN  IF Len(all) > MaximumRanges THEN SubSeq(all, 1, MaximumRanges) ELSE all

add(rs, n) ==
    LET from[i \in 1..Len(rs) + 1] ==
            IF i > Len(rs) THEN Inserted(rs, i, n)
            ELSE IF Within(rs[i], n) THEN rs
            ELSE IF n = rs[i].high + 1 THEN WidenedUp(rs, i, n)
            ELSE IF rs[i].low > 0 /\ n = rs[i].low - 1 THEN WidenedDown(rs, i, n)
            ELSE IF n > rs[i].high THEN Inserted(rs, i, n)
            ELSE from[i + 1]
    IN  from[1]

removeUpTo(rs, n) ==
    LET left == SelectSeq(rs, LAMBDA r : r.high > n)
        last == Len(left)
    IN  IF last > 0 /\ left[last].low <= n THEN ReplaceAt(left, last, Between(n + 1, left[last].high)) ELSE left

(* The numbers of an ACK frame: the largest, how far the first range goes   *)
(* down, and a gap and a length for each one after it.                      *)
writeAckFrame(rs) ==
    [largest |-> rs[1].high, first |-> rs[1].high - rs[1].low,
     rest |-> [i \in 1..Len(rs) - 1 |-> [gap |-> rs[i].low - rs[i + 1].high - 2, length |-> rs[i + 1].high - rs[i + 1].low]]]

(* What a reader of the frame makes of it.  It refuses a frame whose ranges *)
(* go below zero.                                                           *)
quicReadAckFrame(f) ==
    LET ranges[i \in 0..Len(f.rest)] ==
            IF i = 0 THEN IF f.first > f.largest THEN <<>> ELSE <<Between(f.largest - f.first, f.largest)>>
            ELSE IF ranges[i - 1] = <<>> THEN <<>>
            ELSE LET step == f.rest[i].gap + 2
                     smallest == Last(ranges[i - 1]).low
                     high == smallest - step
                 IN  IF step > smallest \/ f.rest[i].length > high THEN <<>>
                     ELSE Append(ranges[i - 1], Between(high - f.rest[i].length, high))
    IN  ranges[Len(f.rest)]

-----------------------------------------------------------------------------
Init ==
    /\ acks = <<>> /\ ackPending = FALSE
    /\ inFlight = {} /\ acksSent = 0
    /\ processed = [n \in 0..Top |-> 0]
    /\ told = {} /\ forgotten = -1

(* A packet numbered n arrives; it may acknowledge some of the ACK frames.  *)
(* They are looked at, as all its frames, before n itself is added.         *)
receivePacket(n, learnt) ==
    LET upTo == {f.largest : f \in learnt} \cup {-1}
        most == CHOOSE x \in upTo : \A y \in upTo : y <= x
    IN
    /\ processed[n] < 2
    /\ IF \E i \in 1..Len(acks) : Within(acks[i], n) THEN UNCHANGED vars
       ELSE /\ processed' = [processed EXCEPT ![n] = @ + 1]
            /\ acks' = add(removeUpTo(acks, most), n)
            /\ ackPending' = TRUE
            /\ inFlight' = inFlight \ learnt
            /\ told' = told \cup UNION {f.numbers : f \in learnt}
            /\ forgotten' = IF most > forgotten THEN most ELSE forgotten
            /\ UNCHANGED acksSent

(* buildPacket with an acknowledgement due.                                 *)
buildPacket ==
    /\ ackPending /\ acks # <<>> /\ acksSent < MaxAcks
    /\ ackPending' = FALSE
    /\ inFlight' = inFlight \cup {[largest |-> acks[1].high, numbers |-> Covered(quicReadAckFrame(writeAckFrame(acks)))]}
    /\ acksSent' = acksSent + 1
    /\ UNCHANGED <<acks, processed, told, forgotten>>

Next ==
    \/ \E n \in 0..Top, learnt \in SUBSET inFlight : receivePacket(n, learnt)
    \/ buildPacket

Spec == Init /\ [][Next]_vars

-----------------------------------------------------------------------------
Received == {n \in 0..Top : processed[n] > 0}

(* QUICAckRanges: ranges stay highest first with a gap of at least one       *)
(* number between them.  writeAckFrame takes 2 from that distance in         *)
(* unsigned arithmetic, which traps if they ever touch.                      *)
RangesApart ==
    /\ \A i \in 1..Len(acks) : acks[i].low <= acks[i].high
    /\ \A i \in 1..Len(acks) - 1 : acks[i].low >= acks[i + 1].high + 2

(* writeAckFrame, quicReadAckFrame: the peer reads the ranges that were      *)
(* written.                                                                  *)
FrameReads == acks # <<>> => quicReadAckFrame(writeAckFrame(acks)) = acks

(* add, removeUpTo: nothing is acknowledged that has not been received, and  *)
(* everything received above what was forgotten is still acknowledged, while *)
(* the ranges are below their limit.                                         *)
HoldsReceived ==
    /\ Covered(acks) \subseteq Received
    /\ MaximumRanges > Top => \A n \in Received : n > forgotten => n \in Covered(acks)

(* add, removeUpTo: numbers leave the ranges only from the bottom, whether   *)
(* they are forgotten or the ranges are at their limit.                      *)
DropsLowest == \A n \in Covered(acks) \ Covered(acks'), k \in Covered(acks) \cap Covered(acks') : n < k

(* removeUpTo: "Forgets everything at or below `packetNumber`, once the peer *)
(* has acknowledged our acknowledgement of it."                              *)
ForgetsTold == \A n \in Received : n <= forgotten => n \in told \/ n \in Covered(acks)

(* receivePacket: "a duplicate; already accounted for".  A packet is         *)
(* processed once.                                                           *)
ProcessedOnce == \A n \in 0..Top : processed[n] <= 1
=============================================================================
