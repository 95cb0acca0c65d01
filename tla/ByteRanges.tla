----------------------------- MODULE ByteRanges -----------------------------
(***************************************************************************)
(* QUICByteRanges (src/Sources/AvianQUIC/QUICStream.swift): an ascending   *)
(* list of half-open ranges that never touch, standing for a set of        *)
(* offsets.  Indices count from 1 here and from 0 in the code.             *)
(***************************************************************************)
EXTENDS Naturals, Sequences

Lesser(a, b) == IF a < b THEN a ELSE b
Greater(a, b) == IF a > b THEN a ELSE b
Least(S) == CHOOSE i \in S : \A j \in S : i <= j
Largest(S) == CHOOSE i \in S : \A j \in S : j <= i

Piece(low, high) == IF low < high THEN <<[low |-> low, high |-> high]>> ELSE <<>>

(* The offsets a list of ranges stands for.                                 *)
Offsets(rs) == UNION {rs[i].low .. rs[i].high - 1 : i \in 1..Len(rs)}

(* No range is empty, and each ends below the start of those after it: what *)
(* the binary search relies on.                                             *)
Apart(rs) ==
    /\ \A i \in 1..Len(rs) : rs[i].low < rs[i].high
    /\ \A i, j \in 1..Len(rs) : i < j => rs[i].high < rs[j].low

(* The binary search for the first range ending after the offset, or at it. *)
Before(r, offset, touching) == r.high < offset \/ (~touching /\ r.high = offset)

Search(rs, offset, touching) ==
    LET search[w \in (1..Len(rs) + 1) \X (1..Len(rs) + 1)] ==
            LET lo == w[1]  hi == w[2]  mid == (lo + hi) \div 2 IN
            IF lo >= hi THEN lo
            ELSE IF Before(rs[mid], offset, touching) THEN search[<<mid + 1, hi>>]
            ELSE search[<<lo, mid>>]
    IN  search

firstIndex(rs, offset, touching) == Search(rs, offset, touching)[<<1, Len(rs) + 1>>]

(* The range at i widened to [low, high), and the ones it then reaches: the *)
(* loop ends at the first range after i that starts past all it has passed. *)
Reached(rs, i, high, j) == Largest({high} \cup {rs[k].high : k \in i..j - 1})

Widened(rs, i, low, high) ==
    LET j == Least({k \in i + 1..Len(rs) + 1 :
                       k <= Len(rs) => rs[k].low > Reached(rs, i, high, k)})
    IN  SubSeq(rs, 1, i - 1) \o Piece(Lesser(rs[i].low, low), Reached(rs, i, high, j))
            \o SubSeq(rs, j, Len(rs))

add(rs, low, high) ==
    LET i == firstIndex(rs, low, TRUE) IN
    IF high <= low THEN rs
    ELSE IF i <= Len(rs) /\ high >= rs[i].low THEN Widened(rs, i, low, high)
    ELSE SubSeq(rs, 1, i - 1) \o Piece(low, high) \o SubSeq(rs, i, Len(rs))

contiguousEnd(rs, base) ==
    IF Len(rs) = 0 THEN base
    ELSE IF rs[1].low <= base THEN Greater(base, rs[1].high) ELSE base

removeBelow(rs, offset) ==
    LET i == Least({k \in 1..Len(rs) + 1 : k <= Len(rs) => rs[k].high > offset}) IN
    IF i <= Len(rs) /\ rs[i].low < offset
    THEN Piece(offset, rs[i].high) \o SubSeq(rs, i + 1, Len(rs))
    ELSE SubSeq(rs, i, Len(rs))

removeFirst(rs) == Tail(rs)

(* Mutant of subtract: everything below the end goes.                       *)
SubtractBelow(rs, low, high) == removeBelow(rs, high)

(* Of the ranges from the one found up to the first at or past high, what   *)
(* is left is the start of the first and the end of the last: the others    *)
(* are inside [low, high).                                                  *)
subtract(rs, low, high) ==
    LET i == firstIndex(rs, low, FALSE)
        j == Least({k \in i..Len(rs) + 1 : k <= Len(rs) => rs[k].low >= high})
    IN  IF high <= low THEN rs
        ELSE SubSeq(rs, 1, i - 1)
                 \o (IF i < j THEN Piece(rs[i].low, low) \o Piece(high, rs[j - 1].high) ELSE <<>>)
                 \o SubSeq(rs, j, Len(rs))

=============================================================================
