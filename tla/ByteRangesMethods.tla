-------------------------- MODULE ByteRangesMethods --------------------------
(***************************************************************************)
(* A QUICByteRanges under any sequence of its mutating methods, beside the *)
(* set of offsets it should stand for.                                     *)
(***************************************************************************)
EXTENDS ByteRanges

CONSTANT MaxOffset      \* bound: the offsets used

VARIABLES ranges, offsets

Init == ranges = <<>> /\ offsets = {}

Next ==
    \/ \E low, high \in 0..MaxOffset :
        \/ ranges' = add(ranges, low, high) /\ offsets' = offsets \cup (low..high - 1)
        \/ ranges' = subtract(ranges, low, high) /\ offsets' = offsets \ (low..high - 1)
    \/ \E offset \in 0..MaxOffset :
        ranges' = removeBelow(ranges, offset) /\ offsets' = offsets \ (0..offset - 1)
    \/ /\ ranges # <<>>
       /\ ranges' = removeFirst(ranges)
       /\ offsets' = offsets \ (ranges[1].low..ranges[1].high - 1)

Spec == Init /\ [][Next]_<<ranges, offsets>>

-----------------------------------------------------------------------------
(* The list stays ascending, its ranges non-empty and never touching: what  *)
(* the binary search relies on.                                             *)
Ascending == Apart(ranges) /\ \A i \in 1..Len(ranges) : ranges[i].high <= MaxOffset

(* Every method has exactly the effect on the set of offsets that its       *)
(* comment claims: add adds [low, high), subtract removes only it.          *)
SameOffsets == Offsets(ranges) = offsets

(* contiguousEnd is the end of the run through the base, when there is one. *)
RunFromBase ==
    \A base \in 0..MaxOffset :
        (0..base - 1) \subseteq offsets =>
            LET end == contiguousEnd(ranges, base) IN
            base..end - 1 \subseteq offsets /\ end \notin offsets

=============================================================================
