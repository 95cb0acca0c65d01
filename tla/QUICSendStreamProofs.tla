------------------------ MODULE QUICSendStreamProofs ------------------------
(***************************************************************************)
(* The lists of ranges (ByteRanges), of any length and any offsets: what   *)
(* each operation leaves is in order again, and stands for exactly the     *)
(* offsets it should.                                                      *)
(*                                                                         *)
(* Then the sending half of a connection's streams (QUICSendStream), for   *)
(* any number of streams and bytes, any limits and any packets in flight:  *)
(* what was sent is acknowledged, in flight or owed again, and only one of *)
(* these; what counts as drained has arrived; the limits are kept.         *)
(***************************************************************************)
EXTENDS QUICSendStream, SequenceTheorems, WellFoundedInduction, TLAPS

Ranges == [low : Nat, high : Nat]
Lists == {rs \in Seq(Ranges) : Apart(rs)}
Elems(rs) == {rs[i] : i \in 1..Len(rs)}

(* The offsets of a set of ranges, one at a time.                           *)
Holds(R, n) == \E r \in R : r.low <= n /\ n < r.high
Modes == BOOLEAN
Below(A, B) == \A a \in A, b \in B : a.high < b.low

(* A set of numbers has a least one.                                        *)
LEMMA LeastIs ==
    ASSUME NEW S \in SUBSET Nat, S # {}
    PROVE  Least(S) \in S /\ \A j \in S : Least(S) <= j
<1> DEFINE R == OpToRel(<, Nat)
<1>1. IsWellFoundedOn(R, Nat)
  BY Zenon, NatLessThanWellFounded
<1>2. \A x, y \in Nat : <<y, x>> \in R <=> y < x
  BY Zenon DEF OpToRel
<1> HIDE DEF R
<1>3. PICK x \in S : \A y \in S : ~(<<y, x>> \in R)
  BY Zenon, <1>1, WFMin
<1>4. ASSUME NEW y \in S PROVE x <= y
  <2>1. x \in Nat /\ y \in Nat
    BY Zenon
  <2>2. ~(y < x)
    BY Zenon, <1>2, <1>3, <2>1
  <2> QED
    BY <2>1, <2>2
<1> QED
  BY Zenon, <1>4 DEF Least

(* Induction from m up to n, with the set that the property describes.      *)
LEMMA UpTo ==
    ASSUME NEW m \in Nat, NEW n \in Nat, NEW S, m \in S,
           \A i \in m..n - 1 : i \in S => i + 1 \in S
    PROVE  m..n \subseteq S
<1> DEFINE Out == (m..n) \ S
<1> SUFFICES ASSUME Out # {} PROVE FALSE
  BY Zenon
<1>1. Out \subseteq Nat
  BY SMT
<1> DEFINE x == Least(Out)
<1>2. x \in Out /\ \A j \in Out : x <= j
  BY Zenon, <1>1, LeastIs
<1> HIDE DEF x
<1>3. x \in m..n /\ x \notin S /\ x # m
  BY Zenon, <1>2
<1>4. x - 1 \in m..n - 1 /\ x - 1 \in m..n /\ ~(x <= x - 1) /\ (x - 1) + 1 = x
  BY <1>3
<1>5. x - 1 \in S
  BY Zenon, <1>2, <1>4
<1> QED
  BY Zenon, <1>3, <1>4, <1>5

(* A function on m..n given by its first value and each from the one before.*)
Recurs(m, n, a, F, f) == f = [i \in m..n |-> IF i = m THEN a ELSE F[<<i, f[i - 1]>>]]

(* There is such a function.                                                *)
LEMMA PrimRec ==
    ASSUME NEW m \in Nat, NEW n \in Nat, m <= n, NEW A, NEW a \in A,
           NEW F \in [(m + 1..n) \X A -> A]
    PROVE  \E f \in [m..n -> A] : Recurs(m, n, a, F, f)
<1> DEFINE Rec(k, f) == Recurs(m, k, a, F, f)
           S == {k \in m..n : \E f \in [m..k -> A] : Rec(k, f)}
<1>1. m \in S
  <2> DEFINE f == [i \in m..m |-> a]
  <2>1. m \in m..n /\ m..m = {m}
    BY SMT
  <2>2. f \in [m..m -> A]
    BY Zenon
  <2>3. \A i \in m..m : i = m
    BY Zenon, <2>1
  <2>4. Rec(m, f)
    BY Zenon, <2>3 DEF Recurs
  <2> QED
    BY Zenon, <2>1, <2>2, <2>4
<1>2. ASSUME NEW k \in m..n - 1, k \in S PROVE k + 1 \in S
  <2>1. PICK f \in [m..k -> A] : Rec(k, f)
    BY Zenon, <1>2
  <2> HIDE DEF Rec
  <2>2. k + 1 \in m..n /\ k + 1 \in m + 1..n /\ k \in m..k /\ k + 1 # m /\ (k + 1) - 1 = k
    BY <1>2
  <2>3. \A i \in m..k + 1 : i = k + 1 \/ (i \in m..k /\ i # k + 1)
    BY <1>2
  <2>4. \A i \in m..k : i # m => i - 1 \in m..k /\ i - 1 # k + 1 /\ i \in m + 1..n
    BY <1>2
  <2> DEFINE new == F[<<k + 1, f[k]>>]
             g == [i \in m..k + 1 |-> IF i = k + 1 THEN new ELSE f[i]]
  <2>5. new \in A
    BY Zenon, <2>2
  <2>6. g \in [m..k + 1 -> A]
    BY Zenon, <2>3, <2>5
  <2>7. \A i \in m..k : g[i] = f[i]
    <3>1. \A i \in m..k : i \in m..k + 1 /\ i # k + 1
      BY <1>2
    <3> QED
      BY Zenon, <3>1
  <2>8. \A i \in m..k : f[i] = IF i = m THEN a ELSE F[<<i, f[i - 1]>>]
    BY Zenon, <2>1 DEF Rec, Recurs
  <2>9. ASSUME NEW i \in m..k + 1 PROVE g[i] = IF i = m THEN a ELSE F[<<i, g[i - 1]>>]
    <3>1. CASE i = k + 1
      BY Zenon, <3>1, <2>2, <2>7
    <3>2. CASE i # k + 1
      BY Zenon, <3>2, <2>3, <2>4, <2>7, <2>8
    <3> QED
      BY Zenon, <3>1, <3>2
  <2>10. Rec(k + 1, g)
    BY Zenon, <2>6, <2>9 DEF Rec, Recurs
  <2> QED
    BY Zenon, <2>2, <2>6, <2>10
<1> HIDE DEF S
<1>3. m..n \subseteq S
  BY Zenon, <1>1, <1>2, UpTo
<1>4. n \in S
  BY <1>3
<1> QED
  BY Zenon, <1>4 DEF S

-----------------------------------------------------------------------------
(* A list of ranges and its elements.                                       *)
LEMMA ListType ==
    ASSUME NEW rs \in Lists
    PROVE  /\ rs \in Seq(Ranges) /\ Len(rs) \in Nat
           /\ \A i \in 1..Len(rs) : /\ rs[i] \in Ranges /\ rs[i].low \in Nat /\ rs[i].high \in Nat
                                    /\ rs[i].low < rs[i].high
           /\ \A i, j \in 1..Len(rs) : i < j => rs[i].high < rs[j].low
<1>1. rs \in Seq(Ranges) /\ Apart(rs)
  BY Zenon DEF Lists
<1>2. Len(rs) \in Nat /\ \A i \in 1..Len(rs) : rs[i] \in Ranges
  BY Zenon, <1>1, LenProperties, ElementOfSeq
<1>3. \A r \in Ranges : r.low \in Nat /\ r.high \in Nat
  BY Zenon DEF Ranges
<1> QED
  BY Zenon, <1>1, <1>2, <1>3 DEF Apart

(* A piece is a list of one range or none.                                  *)
LEMMA PieceIs ==
    ASSUME NEW low \in Nat, NEW high \in Nat
    PROVE  /\ Piece(low, high) \in Lists
           /\ Elems(Piece(low, high)) = IF low < high THEN {[low |-> low, high |-> high]} ELSE {}
<1> DEFINE r == [low |-> low, high |-> high]
<1>1. r \in Ranges /\ r.low = low /\ r.high = high
  BY Zenon DEF Ranges
<1>2. CASE low < high
  <2>1. Piece(low, high) = <<r>>
    BY Zenon, <1>2 DEF Piece
  <2> HIDE DEF r
  <2>2. <<r>> \in Seq(Ranges) /\ Len(<<r>>) = 1 /\ <<r>>[1] = r
    BY <1>1
  <2>3. 1..1 = {1} /\ \A i, j \in {1} : ~(i < j)
    BY SMT
  <2>4. Apart(<<r>>) /\ Elems(<<r>>) = {r}
    BY Zenon, <1>1, <1>2, <2>2, <2>3 DEF Apart, Elems
  <2> QED
    BY Zenon, <1>2, <2>1, <2>2, <2>4 DEF Lists, r
<1>3. CASE ~(low < high)
  <2>1. Piece(low, high) = <<>>
    BY Zenon, <1>3 DEF Piece
  <2>2. <<>> \in Seq(Ranges) /\ Len(<<>>) = 0 /\ 1..0 = {}
    BY SMT
  <2>3. Apart(<<>>) /\ Elems(<<>>) = {}
    BY Zenon, <2>2 DEF Apart, Elems
  <2> QED
    BY Zenon, <1>3, <2>1, <2>2, <2>3 DEF Lists
<1> QED
  BY Zenon, <1>2, <1>3

(* A piece is one range or none.                                            *)
LEMMA PieceEnds ==
    ASSUME NEW low \in Nat, NEW high \in Nat, NEW r \in Elems(Piece(low, high))
    PROVE  low < high /\ r.low = low /\ r.high = high
<1>1. low < high /\ r = [low |-> low, high |-> high]
  <2>1. CASE low < high
    <3>1. Elems(Piece(low, high)) = {[low |-> low, high |-> high]}
      BY Zenon, <2>1, PieceIs
    <3> QED
      BY Zenon, <2>1, <3>1
  <2>2. CASE ~(low < high)
    <3>1. Elems(Piece(low, high)) = {}
      BY Zenon, <2>2, PieceIs
    <3> QED
      BY Zenon, <3>1
  <2> QED
    BY Zenon, <2>1, <2>2
<1> QED
  BY Zenon, <1>1

(* Two lists make one when the second lies above the first.                 *)
LEMMA Join ==
    ASSUME NEW a \in Lists, NEW b \in Lists, Below(Elems(a), Elems(b))
    PROVE  a \o b \in Lists /\ Elems(a \o b) = Elems(a) \cup Elems(b)
<1> DEFINE c == a \o b
<1>1. /\ a \in Seq(Ranges) /\ b \in Seq(Ranges) /\ Len(a) \in Nat /\ Len(b) \in Nat
      /\ \A i \in 1..Len(a) : a[i].low < a[i].high
      /\ \A i \in 1..Len(b) : b[i].low < b[i].high
      /\ \A i, j \in 1..Len(a) : i < j => a[i].high < a[j].low
      /\ \A i, j \in 1..Len(b) : i < j => b[i].high < b[j].low
  BY Zenon, ListType
<1>2. /\ c \in Seq(Ranges) /\ Len(c) = Len(a) + Len(b)
      /\ \A i \in 1..Len(a) + Len(b) : c[i] = IF i <= Len(a) THEN a[i] ELSE b[i - Len(a)]
  BY Zenon, <1>1, ConcatProperties
<1> HIDE DEF c
<1>3. \A i \in 1..Len(c) : \/ i \in 1..Len(a) /\ c[i] = a[i]
                          \/ /\ ~(i \in 1..Len(a)) /\ Len(a) < i /\ i - Len(a) \in 1..Len(b)
                             /\ c[i] = b[i - Len(a)]
  <2> SUFFICES ASSUME NEW i \in 1..Len(c)
               PROVE  \/ i \in 1..Len(a) /\ c[i] = a[i]
                      \/ /\ ~(i \in 1..Len(a)) /\ Len(a) < i /\ i - Len(a) \in 1..Len(b)
                         /\ c[i] = b[i - Len(a)]
    BY Zenon
  <2>1. c[i] = IF i <= Len(a) THEN a[i] ELSE b[i - Len(a)]
    BY Zenon, <1>2
  <2>2. CASE i <= Len(a)
    <3>1. i \in 1..Len(a)
      BY <1>1, <1>2, <2>2
    <3> QED
      BY Zenon, <2>1, <2>2, <3>1
  <2>3. CASE ~(i <= Len(a))
    <3>1. ~(i \in 1..Len(a)) /\ Len(a) < i /\ i - Len(a) \in 1..Len(b)
      BY <1>1, <1>2, <2>3
    <3> QED
      BY Zenon, <2>1, <2>3, <3>1
  <2> QED
    BY Zenon, <2>2, <2>3
<1>4. \A i \in 1..Len(a) : i \in 1..Len(c) /\ c[i] = a[i]
  <2>1. \A i \in 1..Len(a) : i \in 1..Len(c) /\ i <= Len(a)
    BY <1>1, <1>2
  <2> QED
    BY Zenon, <1>2, <2>1
<1>5. \A i \in 1..Len(b) : Len(a) + i \in 1..Len(c) /\ c[Len(a) + i] = b[i]
  <2>1. \A i \in 1..Len(b) : /\ Len(a) + i \in 1..Len(c) /\ ~(Len(a) + i <= Len(a))
                             /\ (Len(a) + i) - Len(a) = i
    BY <1>1, <1>2
  <2> QED
    BY Zenon, <1>2, <2>1
<1>6. Elems(c) = Elems(a) \cup Elems(b)
  <2>1. ASSUME NEW x \in Elems(c) PROVE x \in Elems(a) \cup Elems(b)
    BY Zenon, <1>3 DEF Elems
  <2>2. ASSUME NEW x \in Elems(a) PROVE x \in Elems(c)
    BY Zenon, <1>4 DEF Elems
  <2>3. ASSUME NEW x \in Elems(b) PROVE x \in Elems(c)
    BY Zenon, <1>5 DEF Elems
  <2> QED
    BY Zenon, <2>1, <2>2, <2>3
<1>7. \A i \in 1..Len(c) : c[i].low < c[i].high
  BY Zenon, <1>1, <1>3
<1>8. ASSUME NEW i \in 1..Len(c), NEW j \in 1..Len(c), i < j PROVE c[i].high < c[j].low
  <2>1. CASE i \in 1..Len(a) /\ j \in 1..Len(a)
    BY Zenon, <1>1, <1>3, <1>8, <2>1
  <2>2. CASE i \in 1..Len(a) /\ ~(j \in 1..Len(a))
    <3>1. c[i] \in Elems(a) /\ c[j] \in Elems(b)
      BY Zenon, <1>3, <2>2 DEF Elems
    <3> QED
      BY Zenon, <3>1 DEF Below
  <2>3. CASE ~(i \in 1..Len(a))
    <3>1. ~(j \in 1..Len(a)) /\ i - Len(a) < j - Len(a)
      BY <1>1, <1>2, <1>8, <2>3
    <3> QED
      BY Zenon, <1>1, <1>3, <2>3, <3>1
  <2> QED
    BY Zenon, <2>1, <2>2, <2>3
<1> QED
  BY Zenon, <1>2, <1>6, <1>7, <1>8 DEF Lists, Apart, c

(* A part of a list, and its elements.                                      *)
LEMMA Slice ==
    ASSUME NEW rs \in Lists, NEW m \in 1..Len(rs) + 1, NEW n \in 0..Len(rs)
    PROVE  SubSeq(rs, m, n) \in Lists /\ Elems(SubSeq(rs, m, n)) = {rs[k] : k \in m..n}
<1> DEFINE t == SubSeq(rs, m, n)
<1>1. /\ Len(rs) \in Nat
      /\ \A i \in 1..Len(rs) : rs[i] \in Ranges /\ rs[i].low < rs[i].high
      /\ \A i, j \in 1..Len(rs) : i < j => rs[i].high < rs[j].low
  BY Zenon, ListType
<1>2. m \in Int /\ n \in Int /\ \A i \in m..n : i \in 1..Len(rs)
  BY <1>1
<1>3. /\ t \in Seq(Ranges) /\ Len(t) = IF m <= n THEN n - m + 1 ELSE 0
      /\ \A i \in 1..n - m + 1 : t[i] = rs[m + i - 1]
  <2>1. \A i \in m..n : rs[i] \in Ranges
    BY Zenon, <1>1, <1>2
  <2> QED
    BY SMTT(30), <1>2, <2>1, SubSeqProperties
<1> HIDE DEF t
<1>4. \A i \in 1..Len(t) : i \in 1..n - m + 1 /\ m + i - 1 \in m..n
  BY <1>2, <1>3
<1>5. \A k \in m..n : k - m + 1 \in 1..Len(t) /\ m + (k - m + 1) - 1 = k
  BY <1>2, <1>3
<1>6. Elems(t) = {rs[k] : k \in m..n}
  <2>1. ASSUME NEW x \in Elems(t) PROVE x \in {rs[k] : k \in m..n}
    BY Zenon, <1>3, <1>4 DEF Elems
  <2>2. ASSUME NEW k \in m..n PROVE rs[k] \in Elems(t)
    <3>1. t[k - m + 1] = rs[k]
      BY Zenon, <1>3, <1>4, <1>5
    <3> QED
      BY Zenon, <1>5, <3>1 DEF Elems
  <2> QED
    BY Zenon, <2>1, <2>2
<1>7. \A i \in 1..Len(t) : t[i].low < t[i].high
  BY Zenon, <1>1, <1>2, <1>3, <1>4
<1>8. ASSUME NEW i \in 1..Len(t), NEW j \in 1..Len(t), i < j PROVE t[i].high < t[j].low
  <2>1. m + i - 1 < m + j - 1
    BY <1>2, <1>3, <1>8
  <2> QED
    BY Zenon, <1>1, <1>2, <1>3, <1>4, <2>1
<1> QED
  BY Zenon, <1>3, <1>6, <1>7, <1>8 DEF Lists, Apart, t

-----------------------------------------------------------------------------
(* Of the indices from lo to hi, the first whose range does not end before  *)
(* the offset, or hi.                                                       *)
Split(rs, offset, touching, lo, hi) ==
    Least({k \in lo..hi : k < hi => ~Before(rs[k], offset, touching)})

(* The search splits the list where it stops.                               *)
LEMMA SplitIs ==
    ASSUME NEW rs \in Lists, NEW offset \in Nat, NEW touching \in Modes,
           NEW lo \in Nat, NEW hi \in Nat, lo <= hi
    PROVE  /\ Split(rs, offset, touching, lo, hi) \in lo..hi
           /\ \A k \in lo..Split(rs, offset, touching, lo, hi) - 1 : Before(rs[k], offset, touching)
           /\ Split(rs, offset, touching, lo, hi) < hi =>
                 ~Before(rs[Split(rs, offset, touching, lo, hi)], offset, touching)
<1> DEFINE B(k) == Before(rs[k], offset, touching)
           S == {k \in lo..hi : k < hi => ~B(k)}
           q == Split(rs, offset, touching, lo, hi)
<1>1. hi \in S /\ S \subseteq Nat
  BY SMT
<1>2. q \in S /\ \A j \in S : q <= j
  BY Zenon, <1>1, LeastIs DEF Split
<1> HIDE DEF B, q
<1>4. q \in lo..hi /\ (q < hi => ~B(q)) /\ \A j \in lo..hi : (j < hi => ~B(j)) => q <= j
  BY Zenon, <1>2
<1>5. \A k \in lo..q - 1 : B(k)
  BY <1>4
<1> QED
  BY Zenon, <1>4, <1>5 DEF B, q

(* There is one such split.                                                 *)
LEMMA SplitOnly ==
    ASSUME NEW rs \in Lists, NEW offset \in Nat, NEW touching \in Modes,
           NEW lo \in Nat, NEW hi \in Nat, lo <= hi, NEW p \in lo..hi,
           \A k \in lo..p - 1 : Before(rs[k], offset, touching),
           p < hi => ~Before(rs[p], offset, touching)
    PROVE  Split(rs, offset, touching, lo, hi) = p
<1> DEFINE B(k) == Before(rs[k], offset, touching)
           q == Split(rs, offset, touching, lo, hi)
<1>1. q \in lo..hi /\ (\A k \in lo..q - 1 : B(k)) /\ (q < hi => ~B(q))
  BY Zenon, SplitIs
<1>2. (\A k \in lo..p - 1 : B(k)) /\ (p < hi => ~B(p))
  BY Zenon
<1> HIDE DEF B, q
<1>3. q = p
  BY <1>1, <1>2
<1> QED
  BY Zenon, <1>3 DEF q

(* The ends ascend: a range before one that ends before the offset does so. *)
LEMMA BeforeDown ==
    ASSUME NEW rs \in Lists, NEW offset \in Nat, NEW touching \in Modes,
           NEW j \in 1..Len(rs), NEW k \in 1..j, Before(rs[j], offset, touching)
    PROVE  Before(rs[k], offset, touching)
<1>1. Len(rs) \in Nat
  BY Zenon, ListType
<1>2. k \in 1..Len(rs) /\ (k = j \/ k < j)
  BY <1>1
<1>3. k < j => rs[k].high < rs[j].low
  BY Zenon, <1>2, ListType
<1>4. rs[j].low < rs[j].high /\ rs[j].low \in Nat /\ rs[j].high \in Nat /\ rs[k].high \in Nat
  BY Zenon, <1>2, ListType
<1>5. k < j => rs[k].high < offset
  <2>1. rs[j].high <= offset
    BY <1>4 DEF Before
  <2> QED
    BY <1>3, <1>4, <2>1
<1> QED
  BY Zenon, <1>2, <1>5 DEF Before

Mid(lo, hi) == (lo + hi) \div 2

(* The half the binary search goes on with has the split.                   *)
LEMMA SearchSplits ==
    ASSUME NEW rs \in Lists, NEW offset \in Nat, NEW touching \in Modes,
           NEW lo \in 1..Len(rs) + 1, NEW hi \in 1..Len(rs) + 1, lo < hi
    PROVE  /\ Mid(lo, hi) \in lo..hi - 1
           /\ Before(rs[Mid(lo, hi)], offset, touching) =>
                 Split(rs, offset, touching, lo, hi) = Split(rs, offset, touching, Mid(lo, hi) + 1, hi)
           /\ ~Before(rs[Mid(lo, hi)], offset, touching) =>
                 Split(rs, offset, touching, lo, hi) = Split(rs, offset, touching, lo, Mid(lo, hi))
<1> DEFINE mid == Mid(lo, hi)
           B(k) == Before(rs[k], offset, touching)
<1>1. Len(rs) \in Nat
  BY Zenon, ListType
<1>2. mid \in lo..hi - 1 /\ mid \in 1..Len(rs) /\ mid \in Nat
  BY <1>1 DEF Mid
<1> HIDE DEF mid
<1>3. lo \in Nat /\ hi \in Nat /\ lo <= hi /\ mid + 1 \in Nat /\ mid + 1 <= hi /\ lo <= mid
  BY <1>1, <1>2
<1>4. CASE B(mid)
  <2> DEFINE p == Split(rs, offset, touching, mid + 1, hi)
  <2>1. p \in mid + 1..hi /\ (\A k \in mid + 1..p - 1 : B(k)) /\ (p < hi => ~B(p))
    BY Zenon, <1>3, SplitIs
  <2>2. \A k \in lo..mid : B(k)
    <3>1. \A k \in lo..mid : k \in 1..mid
      BY <1>1, <1>2
    <3> QED
      BY Zenon, <1>2, <1>4, <3>1, BeforeDown
  <2> HIDE DEF p, B
  <2>3. p \in lo..hi /\ \A k \in lo..p - 1 : B(k)
    BY <1>2, <1>3, <2>1, <2>2
  <2>4. Split(rs, offset, touching, lo, hi) = p
    BY Zenon, <1>3, <2>1, <2>3, SplitOnly DEF B
  <2> QED
    BY Zenon, <1>2, <1>4, <2>4 DEF mid, B, p
<1>5. CASE ~B(mid)
  <2> DEFINE p == Split(rs, offset, touching, lo, mid)
  <2>1. p \in lo..mid /\ (\A k \in lo..p - 1 : B(k)) /\ (p < mid => ~B(p))
    BY Zenon, <1>2, <1>3, SplitIs
  <2> HIDE DEF p, B
  <2>2. p \in lo..hi /\ (p < hi => ~B(p))
    BY <1>2, <1>3, <1>5, <2>1
  <2>3. Split(rs, offset, touching, lo, hi) = p
    BY Zenon, <1>3, <2>1, <2>2, SplitOnly DEF B
  <2> QED
    BY Zenon, <1>2, <1>5, <2>3 DEF mid, B, p
<1> QED
  BY Zenon, <1>4, <1>5

(* What the recursive search computes, from its first step to its last.     *)
LEMMA SearchIs ==
    ASSUME NEW rs \in Lists, NEW offset \in Nat, NEW touching \in Modes
    PROVE  \A lo, hi \in 1..Len(rs) + 1 : lo <= hi =>
              Search(rs, offset, touching)[<<lo, hi>>] = Split(rs, offset, touching, lo, hi)
<1> DEFINE N == Len(rs)
           D == (1..N + 1) \X (1..N + 1)
           Sp(lo, hi) == Split(rs, offset, touching, lo, hi)
           Step(f, lo, hi) ==
               LET mid == Mid(lo, hi) IN
               IF lo >= hi THEN lo
               ELSE IF Before(rs[mid], offset, touching) THEN f[<<mid + 1, hi>>] ELSE f[<<lo, mid>>]
           Fixed(f) == f = [w \in D |-> Step(f, w[1], w[2])]
           g == [w \in D |-> IF w[1] > w[2] THEN w[1] ELSE Sp(w[1], w[2])]
           s == Search(rs, offset, touching)
<1>1. N \in Nat /\ \A n \in 1..N + 1 : n \in Nat
  <2>1. N \in Nat
    BY Zenon, ListType
  <2> QED
    BY <2>1
<1>2. ASSUME NEW lo \in 1..N + 1, NEW hi \in 1..N + 1
      PROVE  /\ lo < hi \/ lo >= hi
             /\ lo >= hi => lo > hi \/ Sp(lo, hi) = lo
             /\ lo > hi => lo >= hi
             /\ lo < hi => /\ ~(lo > hi) /\ ~(lo >= hi)
  <2>1. lo \in Nat /\ hi \in Nat
    BY Zenon, <1>1
  <2>3. ASSUME lo = hi PROVE Sp(lo, hi) = lo
    <3>1. lo \in lo..hi /\ ~(lo < hi) /\ lo <= hi /\ \A k \in lo..lo - 1 : FALSE
      BY <2>1, <2>3
    <3> QED
      BY Zenon, <2>1, <3>1, SplitOnly
  <2> HIDE DEF Sp
  <2> QED
    BY <2>1, <2>3
<1>3. ASSUME NEW lo \in 1..N + 1, NEW hi \in 1..N + 1, lo < hi
      PROVE  LET mid == Mid(lo, hi) IN
             /\ mid \in 1..N + 1 /\ mid + 1 \in 1..N + 1 /\ ~(mid + 1 > hi) /\ ~(lo > mid)
             /\ mid + 1 <= hi /\ lo <= mid /\ hi - (mid + 1) < hi - lo /\ mid - lo < hi - lo
             /\ Before(rs[mid], offset, touching) => Sp(lo, hi) = Sp(mid + 1, hi)
             /\ ~Before(rs[mid], offset, touching) => Sp(lo, hi) = Sp(lo, mid)
  <2> DEFINE mid == Mid(lo, hi)
  <2>1. /\ mid \in lo..hi - 1
        /\ Before(rs[mid], offset, touching) => Sp(lo, hi) = Sp(mid + 1, hi)
        /\ ~Before(rs[mid], offset, touching) => Sp(lo, hi) = Sp(lo, mid)
    BY Zenon, <1>3, SearchSplits
  <2> HIDE DEF mid
  <2>2. /\ mid \in 1..N + 1 /\ mid + 1 \in 1..N + 1 /\ ~(mid + 1 > hi) /\ ~(lo > mid)
        /\ mid + 1 <= hi /\ lo <= mid /\ hi - (mid + 1) < hi - lo /\ mid - lo < hi - lo
    BY <1>1, <1>3, <2>1
  <2> QED
    BY Zenon, <2>1, <2>2 DEF mid
<1> HIDE DEF N, Sp
<1>4. \A lo, hi \in 1..N + 1 : /\ <<lo, hi>> \in D
                               /\ g[<<lo, hi>>] = IF lo > hi THEN lo ELSE Sp(lo, hi)
  BY Zenon
<1>5. ASSUME NEW lo \in 1..N + 1, NEW hi \in 1..N + 1
      PROVE  g[<<lo, hi>>] = Step(g, lo, hi)
  <2>1. CASE lo >= hi
    BY Zenon, <1>2, <1>4, <2>1
  <2>2. CASE lo < hi
    <3> DEFINE mid == Mid(lo, hi)
    <3>1. /\ mid \in 1..N + 1 /\ mid + 1 \in 1..N + 1 /\ ~(mid + 1 > hi) /\ ~(lo > mid)
          /\ Before(rs[mid], offset, touching) => Sp(lo, hi) = Sp(mid + 1, hi)
          /\ ~Before(rs[mid], offset, touching) => Sp(lo, hi) = Sp(lo, mid)
      BY Zenon, <1>3, <2>2
    <3>2. Step(g, lo, hi) = IF Before(rs[mid], offset, touching) THEN g[<<mid + 1, hi>>] ELSE g[<<lo, mid>>]
      BY Zenon, <1>2, <2>2
    <3>3. g[<<lo, hi>>] = Sp(lo, hi)
      BY Zenon, <1>2, <1>4, <2>2
    <3> HIDE DEF mid, g, Step
    <3>4. g[<<mid + 1, hi>>] = Sp(mid + 1, hi) /\ g[<<lo, mid>>] = Sp(lo, mid)
      BY Zenon, <1>4, <3>1
    <3> QED
      BY Zenon, <3>1, <3>2, <3>3, <3>4
  <2> QED
    BY Zenon, <1>2, <2>1, <2>2
<1>6. Fixed(g)
  <2> HIDE DEF Step
  <2>1. \A w \in D : w = <<w[1], w[2]>> /\ w[1] \in 1..N + 1 /\ w[2] \in 1..N + 1
    BY SMT
  <2>2. \A w \in D : g[w] = Step(g, w[1], w[2])
    <3> HIDE DEF g
    <3> QED
      BY ZenonT(30), <1>5, <2>1
  <2> QED
    BY Zenon, <2>2
<1>7. s = CHOOSE f : Fixed(f)
  BY Zenon DEF Search, N, Mid
<1>8. Fixed(s)
  <2> HIDE DEF Fixed, g, s
  <2> QED
    BY Zenon, <1>6, <1>7
<1> HIDE DEF s, g
<1>9. ASSUME NEW lo \in 1..N + 1, NEW hi \in 1..N + 1
      PROVE  s[<<lo, hi>>] = Step(s, lo, hi)
  <2> HIDE DEF Step
  <2>1. <<lo, hi>> \in D /\ <<lo, hi>>[1] = lo /\ <<lo, hi>>[2] = hi
    BY Zenon
  <2> QED
    BY Zenon, <1>8, <2>1
<1> DEFINE S == {d \in 0..N : \A lo, hi \in 1..N + 1 :
                     lo <= hi /\ hi - lo <= d => s[<<lo, hi>>] = Sp(lo, hi)}
<1>10. 0 \in S
  <2>1. 0 \in 0..N
    BY <1>1
  <2>2. ASSUME NEW lo \in 1..N + 1, NEW hi \in 1..N + 1, lo <= hi, hi - lo <= 0
        PROVE  s[<<lo, hi>>] = Sp(lo, hi)
    <3>1. lo >= hi /\ ~(lo > hi)
      BY <1>1, <2>2
    <3> QED
      BY Zenon, <1>2, <1>9, <3>1
  <2> QED
    BY Zenon, <2>1, <2>2
<1>11. ASSUME NEW d \in 0..N - 1, d \in S PROVE d + 1 \in S
  <2>1. d + 1 \in 0..N
    BY <1>1
  <2>2. ASSUME NEW lo \in 1..N + 1, NEW hi \in 1..N + 1, lo <= hi, hi - lo <= d + 1
        PROVE  s[<<lo, hi>>] = Sp(lo, hi)
    <3>1. CASE lo < hi
      <4> DEFINE mid == Mid(lo, hi)
      <4>1. /\ mid \in 1..N + 1 /\ mid + 1 \in 1..N + 1
            /\ mid + 1 <= hi /\ lo <= mid /\ hi - (mid + 1) < hi - lo /\ mid - lo < hi - lo
            /\ Before(rs[mid], offset, touching) => Sp(lo, hi) = Sp(mid + 1, hi)
            /\ ~Before(rs[mid], offset, touching) => Sp(lo, hi) = Sp(lo, mid)
        BY Zenon, <1>3, <3>1
      <4>2. s[<<lo, hi>>] = IF Before(rs[mid], offset, touching) THEN s[<<mid + 1, hi>>] ELSE s[<<lo, mid>>]
        BY Zenon, <1>2, <1>9, <3>1
      <4> HIDE DEF mid
      <4>3. hi - (mid + 1) <= d /\ mid - lo <= d
        BY <1>1, <2>2, <4>1
      <4>4. s[<<mid + 1, hi>>] = Sp(mid + 1, hi) /\ s[<<lo, mid>>] = Sp(lo, mid)
        BY Zenon, <1>11, <4>1, <4>3
      <4> QED
        BY Zenon, <4>1, <4>2, <4>4
    <3>2. CASE lo >= hi
      <4>1. ~(lo > hi)
        BY <1>1, <2>2
      <4> QED
        BY Zenon, <1>2, <1>9, <3>2, <4>1
    <3> QED
      BY Zenon, <1>2, <3>1, <3>2
  <2> QED
    BY Zenon, <2>1, <2>2
<1> HIDE DEF S
<1>12. 0..N \subseteq S
  <2>1. 0 \in Nat
    BY SMT
  <2> QED
    BY Zenon, <1>1, <1>10, <1>11, <2>1, UpTo
<1>13. ASSUME NEW lo \in 1..N + 1, NEW hi \in 1..N + 1, lo <= hi PROVE s[<<lo, hi>>] = Sp(lo, hi)
  <2>1. N \in 0..N /\ hi - lo <= N
    BY <1>1
  <2>2. N \in S
    BY Zenon, <1>12, <2>1
  <2> QED
    BY Zenon, <1>13, <2>1, <2>2 DEF S
<1> QED
  BY Zenon, <1>13 DEF N, s, Sp

(* firstIndex: the ranges before the index end before the offset, the ones  *)
(* from it on do not.                                                       *)
LEMMA FirstIndexIs ==
    ASSUME NEW rs \in Lists, NEW offset \in Nat, NEW touching \in Modes
    PROVE  /\ firstIndex(rs, offset, touching) \in 1..Len(rs) + 1
           /\ \A k \in 1..firstIndex(rs, offset, touching) - 1 : Before(rs[k], offset, touching)
           /\ \A k \in firstIndex(rs, offset, touching)..Len(rs) : ~Before(rs[k], offset, touching)
<1> DEFINE i == firstIndex(rs, offset, touching)
           n == Len(rs) + 1
<1>1. Len(rs) \in Nat
  BY Zenon, ListType
<1>2. 1 \in 1..n /\ n \in 1..n /\ 1 <= n /\ 1 \in Nat /\ n \in Nat
  BY <1>1
<1> DEFINE q == Split(rs, offset, touching, 1, n)
<1>3. i = q
  BY Zenon, <1>2, SearchIs DEF firstIndex
<1>4. /\ i \in 1..n /\ (\A k \in 1..i - 1 : Before(rs[k], offset, touching))
      /\ i < n => ~Before(rs[i], offset, touching)
  <2>1. /\ q \in 1..n /\ (\A k \in 1..q - 1 : Before(rs[k], offset, touching))
        /\ q < n => ~Before(rs[q], offset, touching)
    BY Zenon, <1>2, SplitIs
  <2> HIDE DEF q, i
  <2> QED
    BY Zenon, <1>3, <2>1
<1> HIDE DEF i
<1>5. ASSUME NEW k \in i..Len(rs), Before(rs[k], offset, touching) PROVE FALSE
  <2>1. k \in 1..Len(rs) /\ i \in 1..k /\ i < n
    BY <1>1, <1>4
  <2> QED
    BY Zenon, <1>4, <1>5, <2>1, BeforeDown
<1> QED
  BY Zenon, <1>4, <1>5 DEF i

-----------------------------------------------------------------------------
(* Starts and ends ascend with the index.                                   *)
LEMMA Ascends ==
    ASSUME NEW rs \in Lists, NEW j \in 1..Len(rs), NEW k \in 1..Len(rs), j <= k
    PROVE  rs[j].low <= rs[k].low /\ rs[j].high <= rs[k].high
<1>1. /\ rs[j].low \in Nat /\ rs[j].high \in Nat /\ rs[k].low \in Nat /\ rs[k].high \in Nat
      /\ rs[j].low < rs[j].high /\ rs[k].low < rs[k].high
      /\ j < k => rs[j].high < rs[k].low
  BY Zenon, ListType
<1>2. j = k \/ j < k
  BY SMT
<1> QED
  BY <1>1, <1>2

(* What a list stands for, one offset at a time.                            *)
LEMMA OffsetsAre ==
    ASSUME NEW rs \in Lists
    PROVE  /\ Offsets(rs) = {n \in Nat : Holds(Elems(rs), n)}
           /\ \A n \in Nat : n \in Offsets(rs) <=> Holds(Elems(rs), n)
<1>1. \A i \in 1..Len(rs) : rs[i].low \in Nat /\ rs[i].high \in Nat
  BY Zenon, ListType
<1>2. \A a, b \in Nat : \A n : n \in a..b - 1 <=> n \in Nat /\ a <= n /\ n < b
  BY SMT
<1>3. ASSUME NEW n PROVE n \in Offsets(rs) <=> n \in Nat /\ Holds(Elems(rs), n)
  <2>1. n \in Offsets(rs) <=> \E i \in 1..Len(rs) : n \in rs[i].low..rs[i].high - 1
    BY Zenon DEF Offsets
  <2>2. Holds(Elems(rs), n) <=> \E i \in 1..Len(rs) : rs[i].low <= n /\ n < rs[i].high
    BY Zenon DEF Holds, Elems
  <2> QED
    BY Zenon, <1>1, <1>2, <2>1, <2>2
<1> QED
  BY Zenon, <1>3

(* A set of ranges and the offsets in it.                                   *)
LEMMA HoldsCup ==
    ASSUME NEW A, NEW B, NEW n
    PROVE  Holds(A \cup B, n) <=> Holds(A, n) \/ Holds(B, n)
  BY Zenon DEF Holds

(* A piece stands for what lies between its ends.                           *)
LEMMA HoldsPiece ==
    ASSUME NEW low \in Nat, NEW high \in Nat, NEW n \in Nat
    PROVE  Holds(Elems(Piece(low, high)), n) <=> low <= n /\ n < high
<1> DEFINE r == [low |-> low, high |-> high]
<1>1. Elems(Piece(low, high)) = IF low < high THEN {r} ELSE {}
  BY Zenon, PieceIs
<1>2. Holds({r}, n) <=> low <= n /\ n < high
  <2>1. r.low = low /\ r.high = high
    BY Zenon
  <2> HIDE DEF r
  <2> QED
    BY Zenon, <2>1 DEF Holds
<1>3. ~Holds({}, n)
  BY Zenon DEF Holds
<1>4. ~(low < high) => ~(low <= n /\ n < high)
  BY SMT
<1> QED
  BY Zenon, <1>1, <1>2, <1>3, <1>4

(* A list cut in two and joined again around something else.                *)
LEMMA Around ==
    ASSUME NEW rs \in Lists, NEW m \in Lists, NEW i \in 1..Len(rs) + 1, NEW j \in i..Len(rs) + 1,
           \A k \in 1..i - 1, r \in Elems(m) : rs[k].high < r.low,
           \A k \in j..Len(rs), r \in Elems(m) : r.high < rs[k].low
    PROVE  LET t == SubSeq(rs, 1, i - 1) \o m \o SubSeq(rs, j, Len(rs)) IN
           /\ t \in Lists
           /\ \A n \in Nat : Holds(Elems(t), n) <=>
                 \/ \E k \in 1..i - 1 : rs[k].low <= n /\ n < rs[k].high
                 \/ Holds(Elems(m), n)
                 \/ \E k \in j..Len(rs) : rs[k].low <= n /\ n < rs[k].high
<1> DEFINE a == SubSeq(rs, 1, i - 1)
           b == SubSeq(rs, j, Len(rs))
<1>1. Len(rs) \in Nat /\ \A p, q \in 1..Len(rs) : p < q => rs[p].high < rs[q].low
  BY Zenon, ListType
<1>2. /\ 1 \in 1..Len(rs) + 1 /\ i - 1 \in 0..Len(rs) /\ j \in 1..Len(rs) + 1 /\ Len(rs) \in 0..Len(rs)
      /\ \A p \in 1..i - 1, q \in j..Len(rs) : p < q /\ p \in 1..Len(rs) /\ q \in 1..Len(rs)
  BY <1>1
<1>3. /\ a \in Lists /\ Elems(a) = {rs[k] : k \in 1..i - 1}
      /\ b \in Lists /\ Elems(b) = {rs[k] : k \in j..Len(rs)}
  BY Zenon, <1>2, Slice
<1> HIDE DEF a, b
<1>4. Below(Elems(a), Elems(m))
  BY Zenon, <1>3 DEF Below
<1>5. a \o m \in Lists /\ Elems(a \o m) = Elems(a) \cup Elems(m)
  BY Zenon, <1>3, <1>4, Join
<1>6. Below(Elems(a \o m), Elems(b))
  <2>1. \A x \in Elems(a), y \in Elems(b) : x.high < y.low
    BY Zenon, <1>1, <1>2, <1>3
  <2>2. \A x \in Elems(m), y \in Elems(b) : x.high < y.low
    BY Zenon, <1>3
  <2> QED
    BY Zenon, <1>5, <2>1, <2>2 DEF Below
<1>7. (a \o m) \o b \in Lists /\ Elems((a \o m) \o b) = (Elems(a) \cup Elems(m)) \cup Elems(b)
  BY Zenon, <1>3, <1>5, <1>6, Join
<1>8. ASSUME NEW n \in Nat
      PROVE  Holds(Elems((a \o m) \o b), n) <=>
                 \/ \E k \in 1..i - 1 : rs[k].low <= n /\ n < rs[k].high
                 \/ Holds(Elems(m), n)
                 \/ \E k \in j..Len(rs) : rs[k].low <= n /\ n < rs[k].high
  <2>1. Holds(Elems((a \o m) \o b), n) <=> (Holds(Elems(a), n) \/ Holds(Elems(m), n)) \/ Holds(Elems(b), n)
    BY ZenonT(60), <1>7, HoldsCup
  <2>2. Holds(Elems(a), n) <=> \E k \in 1..i - 1 : rs[k].low <= n /\ n < rs[k].high
    BY Zenon, <1>3 DEF Holds
  <2>3. Holds(Elems(b), n) <=> \E k \in j..Len(rs) : rs[k].low <= n /\ n < rs[k].high
    BY Zenon, <1>3 DEF Holds
  <2> QED
    BY Zenon, <2>1, <2>2, <2>3
<1> QED
  BY Zenon, <1>7, <1>8 DEF a, b

(* A list held, split at two indices.                                       *)
LEMMA HoldsParts ==
    ASSUME NEW rs \in Lists, NEW i \in 1..Len(rs) + 1, NEW j \in i..Len(rs) + 1, NEW n \in Nat
    PROVE  Holds(Elems(rs), n) <=>
                 \/ \E k \in 1..i - 1 : rs[k].low <= n /\ n < rs[k].high
                 \/ \E k \in i..j - 1 : rs[k].low <= n /\ n < rs[k].high
                 \/ \E k \in j..Len(rs) : rs[k].low <= n /\ n < rs[k].high
<1>1. Len(rs) \in Nat
  BY Zenon, ListType
<1>2. \A k : k \in 1..Len(rs) <=> k \in 1..i - 1 \/ k \in i..j - 1 \/ k \in j..Len(rs)
  BY <1>1
<1>3. Holds(Elems(rs), n) <=> \E k \in 1..Len(rs) : rs[k].low <= n /\ n < rs[k].high
  BY Zenon DEF Holds, Elems
<1> QED
  BY Zenon, <1>2, <1>3

-----------------------------------------------------------------------------
(* How far a range is widened by those it has swallowed.                    *)
LEMMA ReachedIs ==
    ASSUME NEW rs \in Lists, NEW i \in 1..Len(rs), NEW high \in Nat, NEW j \in i + 1..Len(rs) + 1
    PROVE  Reached(rs, i, high, j) = Greater(high, rs[j - 1].high)
<1> DEFINE S == {high} \cup {rs[k].high : k \in i..j - 1}
           e == rs[j - 1].high
           x == Greater(high, e)
           q == Largest(S)
<1>1. Len(rs) \in Nat
  BY Zenon, ListType
<1>2. j - 1 \in 1..Len(rs) /\ j - 1 \in i..j - 1 /\ \A k \in i..j - 1 : k \in 1..Len(rs) /\ k <= j - 1
  BY <1>1
<1>3. e \in Nat /\ \A k \in i..j - 1 : rs[k].high \in Nat /\ rs[k].high <= e
  BY Zenon, <1>2, ListType, Ascends
<1>4. e \in S /\ high \in S /\ \A y \in S : y \in Nat /\ (y <= e \/ y = high)
  BY Zenon, <1>2, <1>3
<1> HIDE DEF S, e
<1>5. x \in S /\ \A y \in S : y <= x
  BY <1>3, <1>4 DEF Greater
<1>6. q \in S /\ \A y \in S : y <= q
  BY Zenon, <1>5 DEF Largest
<1> HIDE DEF q, x
<1>7. q = x
  <2>1. q \in Nat /\ x \in Nat /\ q <= x /\ x <= q
    BY Zenon, <1>4, <1>5, <1>6
  <2> QED
    BY <2>1
<1> QED
  BY Zenon, <1>7 DEF Reached, S, q, x, e

(* add inserts a range that touches no other.                               *)
LEMMA AddApart ==
    ASSUME NEW rs \in Lists, NEW low \in Nat, NEW high \in Nat, low < high,
           NEW i \in 1..Len(rs) + 1, \A k \in 1..i - 1 : rs[k].high < low,
           i <= Len(rs) => high < rs[i].low
    PROVE  LET t == SubSeq(rs, 1, i - 1) \o Piece(low, high) \o SubSeq(rs, i, Len(rs)) IN
           /\ t \in Lists
           /\ \A n \in Nat : Holds(Elems(t), n) <=> Holds(Elems(rs), n) \/ (low <= n /\ n < high)
<1> DEFINE m == Piece(low, high)
           t == SubSeq(rs, 1, i - 1) \o m \o SubSeq(rs, i, Len(rs))
<1>1. m \in Lists /\ Elems(m) = {[low |-> low, high |-> high]}
  BY Zenon, PieceIs
<1>2. Len(rs) \in Nat
  BY Zenon, ListType
<1>3. i \in i..Len(rs) + 1 /\ i..i - 1 = {} /\ \A k \in i..Len(rs) : i \in 1..Len(rs) /\ k \in 1..Len(rs) /\ i <= k /\ i <= Len(rs)
  BY <1>2
<1>4. \A k \in i..Len(rs) : high < rs[k].low
  <2> SUFFICES ASSUME NEW k \in i..Len(rs) PROVE high < rs[k].low
    BY Zenon
  <2>1. rs[i].low <= rs[k].low /\ rs[i].low \in Nat /\ rs[k].low \in Nat
    BY Zenon, <1>3, ListType, Ascends
  <2> QED
    BY <1>3, <2>1
<1>5. \A r \in Elems(m) : r.low = low /\ r.high = high
  BY Zenon, PieceEnds
<1> HIDE DEF m
<1>6. /\ \A k \in 1..i - 1, r \in Elems(m) : rs[k].high < r.low
      /\ \A k \in i..Len(rs), r \in Elems(m) : r.high < rs[k].low
  BY Zenon, <1>4, <1>5
<1>7. /\ t \in Lists
      /\ \A n \in Nat : Holds(Elems(t), n) <=>
            \/ \E k \in 1..i - 1 : rs[k].low <= n /\ n < rs[k].high
            \/ Holds(Elems(m), n)
            \/ \E k \in i..Len(rs) : rs[k].low <= n /\ n < rs[k].high
  BY Zenon, <1>1, <1>3, <1>6, Around
<1> HIDE DEF t
<1>8. ASSUME NEW n \in Nat PROVE Holds(Elems(t), n) <=> Holds(Elems(rs), n) \/ (low <= n /\ n < high)
  <2>1. Holds(Elems(m), n) <=> low <= n /\ n < high
    BY Zenon, HoldsPiece DEF m
  <2>2. Holds(Elems(rs), n) <=>
            \/ \E k \in 1..i - 1 : rs[k].low <= n /\ n < rs[k].high
            \/ \E k \in i..i - 1 : rs[k].low <= n /\ n < rs[k].high
            \/ \E k \in i..Len(rs) : rs[k].low <= n /\ n < rs[k].high
    BY Zenon, <1>3, HoldsParts
  <2> QED
    BY Zenon, <1>3, <1>7, <2>1, <2>2
<1> QED
  BY Zenon, <1>7, <1>8 DEF t, m

(* add widens a range that it meets, and swallows the others it meets.      *)
LEMMA AddWidens ==
    ASSUME NEW rs \in Lists, NEW low \in Nat, NEW high \in Nat, low < high,
           NEW i \in 1..Len(rs), \A k \in 1..i - 1 : rs[k].high < low,
           low <= rs[i].high, rs[i].low <= high
    PROVE  /\ Widened(rs, i, low, high) \in Lists
           /\ \A n \in Nat : Holds(Elems(Widened(rs, i, low, high)), n) <=>
                                Holds(Elems(rs), n) \/ (low <= n /\ n < high)
<1> DEFINE N == Len(rs)
           S == {k \in i + 1..N + 1 : k <= N => rs[k].low > Reached(rs, i, high, k)}
           j == Least(S)
           bot == Lesser(rs[i].low, low)
           top == Reached(rs, i, high, j)
           m == Piece(bot, top)
           t == SubSeq(rs, 1, i - 1) \o m \o SubSeq(rs, j, N)
<1>1. N \in Nat
  BY Zenon, ListType
<1>2. S \subseteq Nat /\ N + 1 \in S
  <2>1. N + 1 \in i + 1..N + 1 /\ ~(N + 1 <= N) /\ i + 1..N + 1 \subseteq Nat
    BY <1>1
  <2> QED
    BY Zenon, <2>1
<1>3. j \in S /\ \A k \in S : j <= k
  BY Zenon, <1>2, LeastIs
<1> HIDE DEF j
<1>4. j \in i + 1..N + 1 /\ (j <= N => rs[j].low > Reached(rs, i, high, j))
  BY Zenon, <1>3
<1>5. \A k \in 1..N : rs[k].low \in Nat /\ rs[k].high \in Nat /\ rs[k].low < rs[k].high
  BY Zenon, ListType
<1>6. \A p, q \in 1..N : p <= q => rs[p].low <= rs[q].low /\ rs[p].high <= rs[q].high
  BY Zenon, Ascends
<1>7. \A p, q \in 1..N : p < q => rs[p].high < rs[q].low
  BY Zenon, ListType
<1>8. ASSUME NEW k \in i..j - 1 PROVE k \in 1..N /\ rs[k].low <= high
  <2>1. k \in 1..N /\ (k = i \/ (k \in i + 1..N + 1 /\ k <= N /\ ~(j <= k) /\ k - 1 \in 1..N /\ k - 1 < k))
    BY <1>1, <1>4
  <2>2. CASE k = i
    BY Zenon, <2>1, <2>2
  <2>3. CASE k # i
    <3>1. ~(rs[k].low > Greater(high, rs[k - 1].high))
      BY Zenon, <1>3, <2>1, <2>3, ReachedIs
    <3>2. rs[k - 1].high < rs[k].low /\ rs[k - 1].high \in Nat /\ rs[k].low \in Nat
      BY Zenon, <1>5, <1>7, <2>1, <2>3
    <3> QED
      BY <2>1, <3>1, <3>2 DEF Greater
  <2> QED
    BY Zenon, <2>2, <2>3
<1>9. j - 1 \in i..j - 1 /\ j - 1 \in 1..N /\ j \in i..N + 1 /\ j \in Nat /\ i \in 1..N + 1
  BY <1>1, <1>4
<1>10. top = Greater(high, rs[j - 1].high)
  BY Zenon, <1>4, ReachedIs
<1>11. /\ rs[j - 1].high \in Nat /\ rs[j - 1].low <= high /\ rs[j - 1].low \in Nat
       /\ rs[i].low \in Nat /\ rs[i].high \in Nat /\ rs[i].low < rs[i].high
  BY Zenon, <1>5, <1>8, <1>9
<1>12. /\ bot \in Nat /\ top \in Nat /\ bot <= low /\ bot <= rs[i].low /\ high <= top /\ rs[j - 1].high <= top
       /\ bot = low \/ bot = rs[i].low
       /\ top = high \/ top = rs[j - 1].high
       /\ bot < top
  <2> DEFINE a == rs[i].low  b == rs[j - 1].high
  <2>1. a \in Nat /\ b \in Nat /\ a <= high
    BY Zenon, <1>11
  <2>2. bot = Lesser(a, low) /\ top = Greater(high, b)
    BY Zenon, <1>10
  <2> HIDE DEF top, bot, a, b
  <2>3. /\ bot \in Nat /\ top \in Nat /\ bot <= low /\ bot <= a /\ high <= top /\ b <= top
        /\ bot = low \/ bot = a
        /\ top = high \/ top = b
        /\ bot < top
    BY <2>1, <2>2 DEF Lesser, Greater
  <2> QED
    BY Zenon, <2>3 DEF a, b
<1> HIDE DEF bot, top
<1>13. m \in Lists /\ Elems(m) = {[low |-> bot, high |-> top]}
  BY Zenon, <1>12, PieceIs
<1>14. \A r \in Elems(m) : r.low = bot /\ r.high = top
  <2>1. bot \in Nat /\ top \in Nat
    BY Zenon, <1>12
  <2> QED
    BY Zenon, <2>1, PieceEnds
<1>15. \A k \in 1..i - 1 : rs[k].high < bot
  <2> SUFFICES ASSUME NEW k \in 1..i - 1 PROVE rs[k].high < bot
    BY Zenon
  <2>1. k \in 1..N /\ k < i
    BY <1>1
  <2>2. rs[k].high < rs[i].low /\ rs[k].high < low
    BY Zenon, <1>7, <2>1
  <2> QED
    BY Zenon, <1>12, <2>2
<1>16. \A k \in j..N : top < rs[k].low
  <2> SUFFICES ASSUME NEW k \in j..N PROVE top < rs[k].low
    BY Zenon
  <2>1. j \in 1..N /\ k \in 1..N /\ j <= k /\ j <= N
    BY <1>1, <1>4
  <2>2. rs[j].low <= rs[k].low /\ rs[j].low > top /\ rs[j].low \in Nat /\ rs[k].low \in Nat
    BY Zenon, <1>4, <1>5, <1>6, <2>1 DEF top
  <2> QED
    BY <1>12, <2>2
<1> HIDE DEF m
<1>17. /\ \A k \in 1..i - 1, r \in Elems(m) : rs[k].high < r.low
       /\ \A k \in j..N, r \in Elems(m) : r.high < rs[k].low
  BY Zenon, <1>14, <1>15, <1>16
<1>18. /\ t \in Lists
       /\ \A n \in Nat : Holds(Elems(t), n) <=>
             \/ \E k \in 1..i - 1 : rs[k].low <= n /\ n < rs[k].high
             \/ Holds(Elems(m), n)
             \/ \E k \in j..N : rs[k].low <= n /\ n < rs[k].high
  BY Zenon, <1>9, <1>13, <1>17, Around
<1> HIDE DEF t
<1>19. ASSUME NEW n \in Nat PROVE Holds(Elems(t), n) <=> Holds(Elems(rs), n) \/ (low <= n /\ n < high)
  <2>1. Holds(Elems(m), n) <=> bot <= n /\ n < top
    BY Zenon, <1>12, HoldsPiece DEF m
  <2>2. Holds(Elems(rs), n) <=>
            \/ \E k \in 1..i - 1 : rs[k].low <= n /\ n < rs[k].high
            \/ \E k \in i..j - 1 : rs[k].low <= n /\ n < rs[k].high
            \/ \E k \in j..N : rs[k].low <= n /\ n < rs[k].high
    BY Zenon, <1>9, HoldsParts
  <2>3. ASSUME NEW k \in i..j - 1, rs[k].low <= n, n < rs[k].high PROVE bot <= n /\ n < top
    <3>1. k \in 1..N /\ i \in 1..N /\ j - 1 \in 1..N /\ i <= k /\ k <= j - 1
      BY <1>1, <1>4
    <3>2. rs[i].low <= rs[k].low /\ rs[k].high <= rs[j - 1].high /\ rs[k].low \in Nat /\ rs[k].high \in Nat
      BY Zenon, <1>5, <1>6, <3>1
    <3>3. bot <= n
      BY SMTT(30), <1>11, <1>12, <2>3, <3>2
    <3>4. n < top
      BY SMTT(30), <1>11, <1>12, <2>3, <3>2
    <3> QED
      BY Zenon, <3>3, <3>4
  <2>4. ASSUME low <= n, n < high PROVE bot <= n /\ n < top
    BY <1>12, <2>4
  <2>5. ASSUME bot <= n, n < top, ~(low <= n /\ n < high)
        PROVE  \E k \in i..j - 1 : rs[k].low <= n /\ n < rs[k].high
    <3>1. i \in i..j - 1 /\ j - 1 \in i..j - 1
      BY <1>1, <1>4
    <3>2. \/ rs[i].low <= n /\ n < rs[i].high
          \/ rs[j - 1].low <= n /\ n < rs[j - 1].high
      BY <1>11, <1>12, <2>5
    <3> QED
      BY Zenon, <3>1, <3>2
  <2> QED
    BY Zenon, <1>18, <2>1, <2>2, <2>3, <2>4, <2>5
<1>20. Widened(rs, i, low, high) = t
  BY Zenon DEF Widened, t, m, top, bot, j
<1> QED
  BY Zenon, <1>18, <1>19, <1>20

(* add: the list again, and exactly [low, high) more.                       *)
LEMMA AddIs ==
    ASSUME NEW rs \in Lists, NEW low \in Nat, NEW high \in Nat
    PROVE  /\ add(rs, low, high) \in Lists
           /\ \A n \in Nat : Holds(Elems(add(rs, low, high)), n) <=>
                                Holds(Elems(rs), n) \/ (low <= n /\ n < high)
<1> DEFINE N == Len(rs)
           i == firstIndex(rs, low, TRUE)
<1>1. N \in Nat
  BY Zenon, ListType
<1>2. /\ i \in 1..N + 1 /\ (\A k \in 1..i - 1 : Before(rs[k], low, TRUE))
      /\ \A k \in i..N : ~Before(rs[k], low, TRUE)
  <2>1. TRUE \in Modes
    BY Zenon DEF Modes
  <2> QED
    BY Zenon, <2>1, FirstIndexIs
<1>3. high <= low => add(rs, low, high) = rs
  BY Zenon DEF add
<1>4. ~(high <= low) =>
        add(rs, low, high) =
            IF i <= N /\ high >= rs[i].low THEN Widened(rs, i, low, high)
            ELSE SubSeq(rs, 1, i - 1) \o Piece(low, high) \o SubSeq(rs, i, N)
  BY Zenon DEF add
<1> HIDE DEF i
<1>5. /\ \A k \in 1..i - 1 : rs[k].high < low
      /\ i <= N => i \in 1..N /\ low <= rs[i].high /\ rs[i].low \in Nat
  <2>1. \A k \in 1..i - 1 : rs[k].high < low
    BY Zenon, <1>2 DEF Before
  <2>2. i <= N => i \in 1..N /\ i \in i..N
    BY <1>1, <1>2
  <2>3. i <= N => ~(rs[i].high < low) /\ rs[i].high \in Nat /\ rs[i].low \in Nat
    BY Zenon, <1>2, <2>2, ListType DEF Before
  <2> QED
    BY <2>1, <2>2, <2>3
<1>6. CASE high <= low
  <2>1. \A n \in Nat : ~(low <= n /\ n < high)
    BY <1>6
  <2> QED
    BY Zenon, <1>3, <1>6, <2>1
<1>7. CASE ~(high <= low) /\ (i <= N /\ high >= rs[i].low)
  <2>1. low < high /\ i \in 1..N /\ low <= rs[i].high /\ rs[i].low <= high
    BY <1>5, <1>7
  <2>2. add(rs, low, high) = Widened(rs, i, low, high)
    BY Zenon, <1>4, <1>7
  <2>3. /\ Widened(rs, i, low, high) \in Lists
        /\ \A n \in Nat : Holds(Elems(Widened(rs, i, low, high)), n) <=>
                             Holds(Elems(rs), n) \/ (low <= n /\ n < high)
    BY Zenon, <1>5, <2>1, AddWidens
  <2> QED
    BY Zenon, <2>2, <2>3
<1>8. CASE ~(high <= low) /\ ~(i <= N /\ high >= rs[i].low)
  <2>1. low < high /\ (i <= N => high < rs[i].low)
    BY <1>5, <1>8
  <2> DEFINE t == SubSeq(rs, 1, i - 1) \o Piece(low, high) \o SubSeq(rs, i, N)
  <2>2. add(rs, low, high) = t
    BY Zenon, <1>4, <1>8
  <2>3. /\ t \in Lists
        /\ \A n \in Nat : Holds(Elems(t), n) <=> Holds(Elems(rs), n) \/ (low <= n /\ n < high)
    BY Zenon, <1>2, <1>5, <2>1, AddApart
  <2> HIDE DEF t
  <2> QED
    BY Zenon, <2>2, <2>3
<1> QED
  BY Zenon, <1>6, <1>7, <1>8

(* The empty list holds no offset.                                          *)
LEMMA EmptyList == <<>> \in Lists /\ Elems(<<>>) = {} /\ \A n : ~Holds(Elems(<<>>), n)
<1>1. <<>> \in Seq(Ranges) /\ Len(<<>>) = 0 /\ 1..0 = {}
  BY SMT
<1> QED
  BY Zenon, <1>1 DEF Lists, Apart, Elems, Holds

(* What a cut leaves of the ranges it meets.                                *)
LEMMA CutPieces ==
    ASSUME NEW low \in Nat, NEW high \in Nat, NEW bot \in Nat, NEW top \in Nat, low < high
    PROVE  LET m == Piece(bot, low) \o Piece(high, top) IN
           /\ m \in Lists
           /\ \A r \in Elems(m) : \/ r.low = bot /\ r.high = low
                                  \/ r.low = high /\ r.high = top
           /\ \A n \in Nat : Holds(Elems(m), n) <=> (bot <= n /\ n < low) \/ (high <= n /\ n < top)
<1> DEFINE a == Piece(bot, low)  b == Piece(high, top)
<1>1. a \in Lists /\ b \in Lists
  BY Zenon, PieceIs
<1>2. (\A r \in Elems(a) : r.low = bot /\ r.high = low) /\ (\A r \in Elems(b) : r.low = high /\ r.high = top)
  BY Zenon, PieceEnds
<1>3. \A n \in Nat : /\ Holds(Elems(a), n) <=> bot <= n /\ n < low
                     /\ Holds(Elems(b), n) <=> high <= n /\ n < top
  BY Zenon, HoldsPiece
<1> HIDE DEF a, b
<1>4. Below(Elems(a), Elems(b))
  BY Zenon, <1>2 DEF Below
<1>5. a \o b \in Lists /\ Elems(a \o b) = Elems(a) \cup Elems(b)
  BY Zenon, <1>1, <1>4, Join
<1>6. \A n \in Nat : Holds(Elems(a \o b), n) <=> Holds(Elems(a), n) \/ Holds(Elems(b), n)
  BY Zenon, <1>5, HoldsCup
<1>7. \A r \in Elems(a \o b) : (r.low = bot /\ r.high = low) \/ (r.low = high /\ r.high = top)
  BY Zenon, <1>2, <1>5
<1> QED
  BY Zenon, <1>3, <1>5, <1>6, <1>7 DEF a, b

(* subtract: the list again, and exactly [low, high) less.                  *)
LEMMA SubtractIs ==
    ASSUME NEW rs \in Lists, NEW low \in Nat, NEW high \in Nat
    PROVE  /\ subtract(rs, low, high) \in Lists
           /\ \A n \in Nat : Holds(Elems(subtract(rs, low, high)), n) <=>
                                Holds(Elems(rs), n) /\ ~(low <= n /\ n < high)
<1> DEFINE N == Len(rs)
           i == firstIndex(rs, low, FALSE)
           S == {k \in i..N + 1 : k <= N => rs[k].low >= high}
           j == Least(S)
           m == IF i < j THEN Piece(rs[i].low, low) \o Piece(high, rs[j - 1].high) ELSE <<>>
           t == SubSeq(rs, 1, i - 1) \o m \o SubSeq(rs, j, N)
<1>1. N \in Nat
  BY Zenon, ListType
<1>2. /\ i \in 1..N + 1 /\ (\A k \in 1..i - 1 : Before(rs[k], low, FALSE))
      /\ \A k \in i..N : ~Before(rs[k], low, FALSE)
  <2>1. FALSE \in Modes
    BY Zenon DEF Modes
  <2> QED
    BY Zenon, <2>1, FirstIndexIs
<1>3. subtract(rs, low, high) = IF high <= low THEN rs ELSE t
  BY Zenon DEF subtract
<1> HIDE DEF i
<1>4. \A k \in 1..N : rs[k].low \in Nat /\ rs[k].high \in Nat /\ rs[k].low < rs[k].high
  BY Zenon, ListType
<1>5. \A p, q \in 1..N : p < q => rs[p].high < rs[q].low
  BY Zenon, ListType
<1>6. \A p, q \in 1..N : p <= q => rs[p].low <= rs[q].low /\ rs[p].high <= rs[q].high
  BY Zenon, Ascends
<1>7. S \subseteq Nat /\ N + 1 \in S
  <2>1. N + 1 \in i..N + 1 /\ ~(N + 1 <= N) /\ i..N + 1 \subseteq Nat
    BY <1>1, <1>2
  <2> QED
    BY Zenon, <2>1
<1>8. j \in S /\ \A k \in S : j <= k
  BY Zenon, <1>7, LeastIs
<1> HIDE DEF j
<1>9. j \in i..N + 1 /\ (j <= N => rs[j].low >= high)
  BY Zenon, <1>8
<1>10. ASSUME NEW k \in 1..i - 1 PROVE k \in 1..N /\ rs[k].high <= low
  <2>1. k \in 1..N
    BY <1>1, <1>2
  <2>2. Before(rs[k], low, FALSE) /\ rs[k].high \in Nat
    BY Zenon, <1>2, <1>4, <2>1
  <2> QED
    BY <2>1, <2>2 DEF Before
<1>11. ASSUME NEW k \in i..j - 1 PROVE k \in 1..N /\ rs[k].low < high /\ low < rs[k].high
  <2>1. k \in 1..N /\ k \in i..N /\ k \in i..N + 1 /\ k <= N /\ ~(j <= k)
    BY <1>1, <1>2, <1>9
  <2>2. ~Before(rs[k], low, FALSE) /\ rs[k].high \in Nat /\ rs[k].low \in Nat
    BY Zenon, <1>2, <1>4, <2>1
  <2>3. ~(rs[k].low >= high)
    BY Zenon, <1>8, <2>1
  <2> QED
    BY <2>1, <2>2, <2>3 DEF Before
<1>12. ASSUME NEW k \in j..N PROVE k \in 1..N /\ high <= rs[k].low /\ \A p \in 1..j - 1 : rs[p].high < rs[k].low
  <2>1. k \in 1..N /\ j \in 1..N /\ j <= k /\ j <= N /\ \A p \in 1..j - 1 : p \in 1..N /\ p < k
    BY <1>1, <1>2, <1>9
  <2>2. rs[j].low <= rs[k].low /\ rs[j].low >= high /\ rs[j].low \in Nat /\ rs[k].low \in Nat
    BY Zenon, <1>4, <1>6, <1>9, <2>1
  <2>3. high <= rs[k].low
    BY <2>2
  <2> QED
    BY Zenon, <1>5, <2>1, <2>3
<1>13. CASE high <= low
  <2>1. \A n \in Nat : ~(low <= n /\ n < high)
    BY <1>13
  <2> QED
    BY Zenon, <1>3, <1>13, <2>1
<1>14. CASE ~(high <= low)
  <2>0. low < high
    BY <1>14
  <2>1. /\ m \in Lists
        /\ \A k \in 1..i - 1, r \in Elems(m) : rs[k].high < r.low
        /\ \A k \in j..N, r \in Elems(m) : r.high < rs[k].low
        /\ \A n \in Nat : Holds(Elems(m), n) <=>
              i < j /\ ((rs[i].low <= n /\ n < low) \/ (high <= n /\ n < rs[j - 1].high))
    <3>1. CASE i < j
      <4>1. i \in i..j - 1 /\ j - 1 \in i..j - 1 /\ j - 1 \in 1..j - 1 /\ i \in 1..N
        BY <1>1, <1>2, <1>9, <3>1
      <4>2. j - 1 \in 1..N /\ rs[i].low \in Nat /\ rs[j - 1].high \in Nat
        BY Zenon, <1>4, <1>11, <4>1
      <4>3. m = Piece(rs[i].low, low) \o Piece(high, rs[j - 1].high)
        BY Zenon, <3>1
      <4>4. /\ m \in Lists
            /\ \A r \in Elems(m) : \/ r.low = rs[i].low /\ r.high = low
                                   \/ r.low = high /\ r.high = rs[j - 1].high
            /\ \A n \in Nat : Holds(Elems(m), n) <=>
                  (rs[i].low <= n /\ n < low) \/ (high <= n /\ n < rs[j - 1].high)
        <5> DEFINE bot == rs[i].low  top == rs[j - 1].high
                   p == Piece(bot, low) \o Piece(high, top)
        <5>1. bot \in Nat /\ top \in Nat /\ m = p
          BY Zenon, <4>2, <4>3
        <5> HIDE DEF bot, top, m
        <5>2. /\ p \in Lists
              /\ \A r \in Elems(p) : \/ r.low = bot /\ r.high = low
                                     \/ r.low = high /\ r.high = top
              /\ \A n \in Nat : Holds(Elems(p), n) <=> (bot <= n /\ n < low) \/ (high <= n /\ n < top)
          BY Zenon, <2>0, <5>1, CutPieces
        <5> HIDE DEF p
        <5> QED
          BY Zenon, <5>1, <5>2 DEF bot, top
      <4> HIDE DEF m
      <4>5. ASSUME NEW k \in 1..i - 1 PROVE rs[k].high < rs[i].low /\ rs[k].high < high
        <5>1. k < i /\ k \in 1..N
          BY <1>1, <1>2
        <5>2. rs[k].high < rs[i].low /\ rs[k].high <= low /\ rs[k].high \in Nat
          BY Zenon, <1>4, <1>5, <1>10, <4>1, <5>1
        <5> QED
          BY <2>0, <5>2
      <4>6. ASSUME NEW k \in j..N PROVE low < rs[k].low /\ rs[j - 1].high < rs[k].low
        <5>1. k \in 1..N /\ high <= rs[k].low /\ rs[j - 1].high < rs[k].low
          BY Zenon, <1>12, <4>1
        <5>2. rs[k].low \in Nat
          BY Zenon, <1>4, <5>1
        <5> QED
          BY <2>0, <5>1, <5>2
      <4> QED
        BY Zenon, <3>1, <4>4, <4>5, <4>6
    <3>2. CASE ~(i < j)
      <4>1. m = <<>>
        BY Zenon, <3>2
      <4> HIDE DEF m
      <4> QED
        BY Zenon, <3>2, <4>1, EmptyList
    <3> QED
      BY Zenon, <3>1, <3>2
  <2> HIDE DEF m
  <2>2. /\ t \in Lists
        /\ \A n \in Nat : Holds(Elems(t), n) <=>
              \/ \E k \in 1..i - 1 : rs[k].low <= n /\ n < rs[k].high
              \/ Holds(Elems(m), n)
              \/ \E k \in j..N : rs[k].low <= n /\ n < rs[k].high
    BY Zenon, <1>2, <1>9, <2>1, Around
  <2>3. subtract(rs, low, high) = t
    BY Zenon, <1>3, <1>14
  <2> HIDE DEF t
  <2>4. ASSUME NEW n \in Nat PROVE Holds(Elems(t), n) <=> Holds(Elems(rs), n) /\ ~(low <= n /\ n < high)
    <3>1. Holds(Elems(rs), n) <=>
              \/ \E k \in 1..i - 1 : rs[k].low <= n /\ n < rs[k].high
              \/ \E k \in i..j - 1 : rs[k].low <= n /\ n < rs[k].high
              \/ \E k \in j..N : rs[k].low <= n /\ n < rs[k].high
      BY Zenon, <1>2, <1>9, HoldsParts
    <3>2. ASSUME NEW k \in 1..i - 1, rs[k].low <= n, n < rs[k].high PROVE ~(low <= n /\ n < high)
      <4>1. rs[k].high <= low /\ rs[k].high \in Nat
        BY Zenon, <1>4, <1>10
      <4> QED
        BY <3>2, <4>1
    <3>3. ASSUME NEW k \in j..N, rs[k].low <= n, n < rs[k].high PROVE ~(low <= n /\ n < high)
      <4>1. high <= rs[k].low /\ rs[k].low \in Nat
        BY Zenon, <1>4, <1>12
      <4> QED
        BY <3>3, <4>1
    <3>4. ASSUME NEW k \in i..j - 1, rs[k].low <= n, n < rs[k].high, ~(low <= n /\ n < high)
          PROVE  i < j /\ ((rs[i].low <= n /\ n < low) \/ (high <= n /\ n < rs[j - 1].high))
      <4>1. i < j /\ i \in 1..N /\ j - 1 \in 1..N /\ k \in 1..N /\ i <= k /\ k <= j - 1
        BY <1>1, <1>2, <1>9
      <4>2. rs[i].low <= rs[k].low /\ rs[k].high <= rs[j - 1].high
        BY Zenon, <1>6, <4>1
      <4>3. /\ rs[i].low \in Nat /\ rs[k].low \in Nat /\ rs[j - 1].high \in Nat /\ rs[k].high \in Nat
        BY Zenon, <1>4, <4>1
      <4> QED
        BY SMTT(30), <3>4, <4>1, <4>2, <4>3
    <3>5. ASSUME i < j, (rs[i].low <= n /\ n < low) \/ (high <= n /\ n < rs[j - 1].high)
          PROVE  ~(low <= n /\ n < high) /\ \E k \in i..j - 1 : rs[k].low <= n /\ n < rs[k].high
      <4>1. i \in i..j - 1 /\ j - 1 \in i..j - 1
        BY <1>1, <1>2, <1>9, <3>5
      <4>2. /\ i \in 1..N /\ j - 1 \in 1..N /\ low < rs[i].high /\ rs[j - 1].low < high
        BY Zenon, <1>11, <4>1
      <4>3. /\ rs[i].low \in Nat /\ rs[i].high \in Nat /\ rs[j - 1].low \in Nat /\ rs[j - 1].high \in Nat
        BY Zenon, <1>4, <4>2
      <4>4. (rs[i].low <= n /\ n < rs[i].high) \/ (rs[j - 1].low <= n /\ n < rs[j - 1].high)
        BY <3>5, <4>2, <4>3
      <4>5. ~(low <= n /\ n < high)
        BY <2>0, <3>5, <4>3
      <4> QED
        BY Zenon, <4>1, <4>4, <4>5
    <3> QED
      BY Zenon, <2>1, <2>2, <3>1, <3>2, <3>3, <3>4, <3>5
  <2> QED
    BY Zenon, <2>2, <2>3, <2>4
<1> QED
  BY Zenon, <1>13, <1>14

(* removeBelow: the list again, and exactly what lies below the offset less.*)
LEMMA RemoveBelowIs ==
    ASSUME NEW rs \in Lists, NEW offset \in Nat
    PROVE  /\ removeBelow(rs, offset) \in Lists
           /\ \A n \in Nat : Holds(Elems(removeBelow(rs, offset)), n) <=> Holds(Elems(rs), n) /\ offset <= n
<1> DEFINE N == Len(rs)
           S == {k \in 1..N + 1 : k <= N => rs[k].high > offset}
           i == Least(S)
           cut == i <= N /\ rs[i].low < offset
           m == IF cut THEN Piece(offset, rs[i].high) ELSE <<>>
           j == IF cut THEN i + 1 ELSE i
           b == SubSeq(rs, j, N)
<1>1. N \in Nat
  BY Zenon, ListType
<1>2. \A k \in 1..N : rs[k].low \in Nat /\ rs[k].high \in Nat /\ rs[k].low < rs[k].high
  BY Zenon, ListType
<1>3. \A p, q \in 1..N : p < q => rs[p].high < rs[q].low
  BY Zenon, ListType
<1>4. \A p, q \in 1..N : p <= q => rs[p].low <= rs[q].low /\ rs[p].high <= rs[q].high
  BY Zenon, Ascends
<1>5. S \subseteq Nat /\ N + 1 \in S
  <2>1. N + 1 \in 1..N + 1 /\ ~(N + 1 <= N) /\ 1..N + 1 \subseteq Nat
    BY <1>1
  <2> QED
    BY Zenon, <2>1
<1>6. i \in S /\ \A k \in S : i <= k
  BY Zenon, <1>5, LeastIs
<1>7. removeBelow(rs, offset) = IF cut THEN Piece(offset, rs[i].high) \o SubSeq(rs, i + 1, N)
                                ELSE SubSeq(rs, i, N)
  BY Zenon DEF removeBelow
<1> HIDE DEF i
<1>8. i \in 1..N + 1 /\ (i <= N => i \in 1..N /\ rs[i].high > offset)
  <2>1. i \in 1..N + 1 /\ (i <= N => rs[i].high > offset)
    BY Zenon, <1>6
  <2>2. i <= N => i \in 1..N
    BY <1>1, <2>1
  <2> QED
    BY Zenon, <2>1, <2>2
<1>9. ASSUME NEW k \in 1..i - 1 PROVE k \in 1..N /\ rs[k].high <= offset
  <2>1. k \in 1..N /\ k \in 1..N + 1 /\ k <= N /\ ~(i <= k)
    BY <1>1, <1>8
  <2>2. ~(rs[k].high > offset) /\ rs[k].high \in Nat
    BY Zenon, <1>2, <1>6, <2>1
  <2> QED
    BY <2>1, <2>2
<1>10. j \in 1..N + 1 /\ N \in 0..N /\ j \in Nat /\ (cut => j = i + 1 /\ i \in 1..N) /\ (~cut => j = i)
  BY <1>1, <1>8
<1>11. b \in Lists /\ Elems(b) = {rs[k] : k \in j..N}
  BY Zenon, <1>10, Slice
<1>12. ASSUME NEW n \in Nat PROVE Holds(Elems(b), n) <=> \E k \in j..N : rs[k].low <= n /\ n < rs[k].high
  BY Zenon, <1>11 DEF Holds
<1>13. ASSUME NEW n \in Nat
       PROVE  Holds(Elems(rs), n) <=>
                 \/ \E k \in 1..i - 1 : rs[k].low <= n /\ n < rs[k].high
                 \/ \E k \in i..j - 1 : rs[k].low <= n /\ n < rs[k].high
                 \/ \E k \in j..N : rs[k].low <= n /\ n < rs[k].high
  <2>1. j \in i..N + 1
    BY <1>1, <1>8, <1>10
  <2> QED
    BY Zenon, <1>8, <2>1, HoldsParts
<1>14. ASSUME NEW n \in Nat, NEW k \in 1..i - 1, rs[k].low <= n, n < rs[k].high PROVE ~(offset <= n)
  <2>1. rs[k].high <= offset /\ rs[k].high \in Nat
    BY Zenon, <1>2, <1>9
  <2> QED
    BY <1>14, <2>1
<1>15. ASSUME NEW n \in Nat, NEW k \in j..N, rs[k].low <= n, n < rs[k].high PROVE offset <= n
  <2>1. k \in 1..N /\ i \in 1..N /\ i <= N /\ (cut => i < k) /\ i <= k
    BY <1>1, <1>8, <1>10
  <2>2. rs[i].low \in Nat /\ rs[k].low \in Nat /\ rs[i].high \in Nat /\ rs[i].high > offset
    BY Zenon, <1>2, <1>8, <2>1
  <2>3. (cut => rs[i].high < rs[k].low) /\ rs[i].low <= rs[k].low
    BY Zenon, <1>3, <1>4, <2>1
  <2>4. ~cut => ~(rs[i].low < offset)
    BY Zenon, <2>1
  <2> HIDE DEF cut
  <2> QED
    BY <1>15, <2>2, <2>3, <2>4
<1>16. CASE cut
  <2> DEFINE a == Piece(offset, rs[i].high)
  <2>1. i \in 1..N /\ rs[i].high \in Nat /\ rs[i].low \in Nat /\ rs[i].low < offset /\ j = i + 1
    BY Zenon, <1>2, <1>10, <1>16
  <2>2. removeBelow(rs, offset) = a \o b
    BY Zenon, <1>7, <1>16
  <2>3. a \in Lists /\ \A r \in Elems(a) : r.high = rs[i].high
    <3>1. a \in Lists
      BY Zenon, <2>1, PieceIs
    <3>2. ASSUME NEW r \in Elems(a) PROVE r.high = rs[i].high
      BY ZenonT(60), <2>1, PieceEnds
    <3> QED
      BY Zenon, <3>1, <3>2
  <2>4. \A n \in Nat : Holds(Elems(a), n) <=> offset <= n /\ n < rs[i].high
    BY Zenon, <2>1, HoldsPiece
  <2> HIDE DEF a, b
  <2>5. \A k \in j..N : k \in 1..N /\ i < k
    BY <1>1, <1>8, <2>1
  <2>6. Below(Elems(a), Elems(b))
    BY Zenon, <1>3, <1>11, <2>1, <2>3, <2>5 DEF Below
  <2>7. a \o b \in Lists /\ Elems(a \o b) = Elems(a) \cup Elems(b)
    BY Zenon, <1>11, <2>3, <2>6, Join
  <2>8. ASSUME NEW n \in Nat PROVE Holds(Elems(a \o b), n) <=> Holds(Elems(rs), n) /\ offset <= n
    <3>1. Holds(Elems(a \o b), n) <=> Holds(Elems(a), n) \/ Holds(Elems(b), n)
      BY Zenon, <2>7, HoldsCup
    <3>2. offset <= n => (n < rs[i].high <=> \E k \in i..j - 1 : rs[k].low <= n /\ n < rs[k].high)
      <4>1. \A k : k \in i..j - 1 <=> k = i
        BY <1>1, <2>1
      <4>2. offset <= n => rs[i].low <= n
        BY <2>1
      <4>3. ASSUME NEW k \in i..j - 1, n < rs[k].high PROVE n < rs[i].high
        BY Zenon, <4>1, <4>3
      <4>4. i \in i..j - 1
        BY Zenon, <4>1
      <4> QED
        BY Zenon, <4>2, <4>3, <4>4
    <3> QED
      BY Zenon, <1>12, <1>13, <1>14, <1>15, <2>4, <3>1, <3>2
  <2> QED
    BY Zenon, <2>2, <2>7, <2>8
<1>17. CASE ~cut
  <2>1. removeBelow(rs, offset) = b /\ j = i
    BY Zenon, <1>7, <1>17
  <2>2. i..j - 1 = {}
    BY <1>8, <1>10, <2>1
  <2> HIDE DEF b
  <2>3. \A n \in Nat : Holds(Elems(b), n) <=> Holds(Elems(rs), n) /\ offset <= n
    BY Zenon, <1>12, <1>13, <1>14, <1>15, <2>2
  <2> QED
    BY Zenon, <1>11, <2>1, <2>3
<1> QED
  BY Zenon, <1>16, <1>17

(* removeFirst: the list without its first range.                           *)
LEMMA RemoveFirstIs ==
    ASSUME NEW rs \in Lists, rs # <<>>
    PROVE  /\ removeFirst(rs) \in Lists
           /\ \A n \in Nat : Holds(Elems(removeFirst(rs)), n) <=>
                 Holds(Elems(rs), n) /\ ~(rs[1].low <= n /\ n < rs[1].high)
<1> DEFINE t == SubSeq(rs, 2, Len(rs))
<1>1. rs \in Seq(Ranges) /\ Len(rs) \in Nat
  BY Zenon, ListType
<1>2. removeFirst(rs) = t
  BY Zenon, <1>1, TailIsSubSeq DEF removeFirst
<1>3. Len(rs) # 0
  BY Zenon, <1>1, EmptySeq
<1>4. /\ 2 \in 1..Len(rs) + 1 /\ Len(rs) \in 0..Len(rs) /\ 1 \in 1..Len(rs)
      /\ \A k : k \in 1..Len(rs) <=> k = 1 \/ k \in 2..Len(rs)
      /\ \A k \in 2..Len(rs) : 1 < k
  BY <1>1, <1>3
<1>5. t \in Lists /\ Elems(t) = {rs[k] : k \in 2..Len(rs)}
  BY Zenon, <1>4, Slice
<1> HIDE DEF t
<1>6. ASSUME NEW n \in Nat PROVE Holds(Elems(t), n) <=> \E k \in 2..Len(rs) : rs[k].low <= n /\ n < rs[k].high
  BY Zenon, <1>5 DEF Holds
<1>7. ASSUME NEW n \in Nat PROVE Holds(Elems(rs), n) <=> \E k \in 1..Len(rs) : rs[k].low <= n /\ n < rs[k].high
  BY Zenon DEF Holds, Elems
<1>8. ASSUME NEW n \in Nat, NEW k \in 2..Len(rs), rs[k].low <= n PROVE ~(n < rs[1].high)
  <2>1. rs[1].high < rs[k].low /\ rs[1].high \in Nat /\ rs[k].low \in Nat
    BY Zenon, <1>4, ListType
  <2> QED
    BY <1>8, <2>1
<1>9. \A n \in Nat : Holds(Elems(t), n) <=> Holds(Elems(rs), n) /\ ~(rs[1].low <= n /\ n < rs[1].high)
  BY Zenon, <1>4, <1>6, <1>7, <1>8
<1> QED
  BY Zenon, <1>2, <1>5, <1>9

(* contiguousEnd: how far the offsets go on from a base below which all are *)
(* there.                                                                   *)
LEMMA ContiguousEndIs ==
    ASSUME NEW rs \in Lists, NEW base \in Nat, \A n \in 0..base - 1 : Holds(Elems(rs), n)
    PROVE  LET end == contiguousEnd(rs, base) IN
           /\ end \in Nat /\ base <= end
           /\ \A n \in base..end - 1 : Holds(Elems(rs), n)
           /\ ~Holds(Elems(rs), end)
<1> DEFINE N == Len(rs)
           end == contiguousEnd(rs, base)
<1>1. N \in Nat
  BY Zenon, ListType
<1>2. \A k \in 1..N : rs[k].low \in Nat /\ rs[k].high \in Nat /\ rs[k].low < rs[k].high
  BY Zenon, ListType
<1>3. ASSUME NEW n \in Nat PROVE Holds(Elems(rs), n) <=> \E k \in 1..N : rs[k].low <= n /\ n < rs[k].high
  BY Zenon DEF Holds, Elems
<1>4. base..base - 1 = {} /\ base <= base
  BY SMT
<1>5. CASE N = 0
  <2>1. end = base
    BY Zenon, <1>5 DEF contiguousEnd
  <2>2. 1..N = {}
    BY <1>5
  <2> HIDE DEF end
  <2>3. ~Holds(Elems(rs), base)
    BY Zenon, <1>3, <2>2
  <2> QED
    BY Zenon, <1>4, <2>1, <2>3 DEF end
<1>6. CASE N # 0 /\ ~(rs[1].low <= base)
  <2>1. end = base
    BY Zenon, <1>6 DEF contiguousEnd
  <2>2. 1 \in 1..N /\ \A k \in 1..N : 1 <= k
    BY <1>1, <1>6
  <2> HIDE DEF end
  <2>3. ASSUME NEW k \in 1..N, rs[k].low <= base PROVE FALSE
    <3>1. rs[1].low <= rs[k].low /\ rs[1].low \in Nat /\ rs[k].low \in Nat
      BY Zenon, <1>2, <2>2, Ascends
    <3> QED
      BY <1>6, <2>3, <3>1
  <2>4. ~Holds(Elems(rs), base)
    BY Zenon, <1>3, <2>3
  <2> QED
    BY Zenon, <1>4, <2>1, <2>4 DEF end
<1>7. CASE N # 0 /\ rs[1].low <= base
  <2> DEFINE a == rs[1].low  b == rs[1].high
  <2>1. end = Greater(base, b)
    BY Zenon, <1>7 DEF contiguousEnd
  <2>2. 1 \in 1..N /\ \A k \in 1..N : k = 1 \/ 1 < k
    BY <1>1, <1>7
  <2>3. a \in Nat /\ b \in Nat /\ a < b
    BY Zenon, <1>2, <2>2
  <2> HIDE DEF end
  <2>4. ~Holds(Elems(rs), b)
    <3>1. ASSUME NEW k \in 1..N, rs[k].low <= b, b < rs[k].high PROVE FALSE
      <4>1. k = 1 \/ b < rs[k].low
        BY Zenon, <2>2, ListType
      <4>2. rs[k].low \in Nat
        BY Zenon, <1>2
      <4>3. k = 1 => rs[k].high = b
        BY Zenon
      <4> HIDE DEF b
      <4> QED
        BY <2>3, <3>1, <4>1, <4>2, <4>3
    <3> HIDE DEF b
    <3> QED
      BY Zenon, <1>3, <2>3, <3>1
  <2>5. ASSUME NEW n \in Nat, a <= n, n < b PROVE Holds(Elems(rs), n)
    BY Zenon, <1>3, <2>2, <2>5
  <2> HIDE DEF a, b
  <2>6. a <= base
    BY Zenon, <1>7 DEF a
  <2>7. ~(b < base)
    <3>1. b < base => b \in 0..base - 1
      BY <2>3
    <3> QED
      BY Zenon, <2>4, <3>1
  <2>8. end = b /\ base <= b /\ \A n \in base..b - 1 : n \in Nat /\ a <= n /\ n < b
    BY <2>1, <2>3, <2>6, <2>7 DEF Greater
  <2> QED
    BY Zenon, <2>3, <2>4, <2>5, <2>8 DEF end
<1> QED
  BY Zenon, <1>5, <1>6, <1>7

-----------------------------------------------------------------------------
(* A range of offsets, one at a time.                                       *)
LEMMA InRange == \A a, b \in Nat : \A n : n \in a..b - 1 <=> n \in Nat /\ a <= n /\ n < b
  BY SMT

(* add and subtract, as sets of offsets.                                    *)
LEMMA AddOffsets ==
    ASSUME NEW rs \in Lists, NEW low \in Nat, NEW high \in Nat
    PROVE  /\ add(rs, low, high) \in Lists
           /\ Offsets(add(rs, low, high)) = Offsets(rs) \cup (low..high - 1)
<1>1. ASSUME NEW ts \in Lists, NEW n PROVE n \in Offsets(ts) <=> n \in Nat /\ Holds(Elems(ts), n)
  BY Zenon, OffsetsAre
<1> QED
  BY Zenon, <1>1, AddIs, InRange

(* subtract.                                                                *)
LEMMA SubtractOffsets ==
    ASSUME NEW rs \in Lists, NEW low \in Nat, NEW high \in Nat
    PROVE  /\ subtract(rs, low, high) \in Lists
           /\ Offsets(subtract(rs, low, high)) = Offsets(rs) \ (low..high - 1)
<1> DEFINE ts == subtract(rs, low, high)
<1>1. ASSUME NEW us \in Lists, NEW n PROVE n \in Offsets(us) <=> n \in Nat /\ Holds(Elems(us), n)
  BY Zenon, OffsetsAre
<1>2. /\ ts \in Lists
      /\ \A n \in Nat : Holds(Elems(ts), n) <=> Holds(Elems(rs), n) /\ ~(low <= n /\ n < high)
  BY Zenon, SubtractIs
<1> HIDE DEF ts
<1>3. ASSUME NEW n PROVE n \in Offsets(ts) <=> n \in Offsets(rs) /\ n \notin low..high - 1
  BY Zenon, <1>1, <1>2, InRange
<1>4. Offsets(ts) = Offsets(rs) \ (low..high - 1)
  BY Zenon, <1>3
<1> QED
  BY Zenon, <1>2, <1>4 DEF ts

(* QUICByteRanges stands for a set of offsets: from any list whose ranges   *)
(* are ascending, not empty and do not touch, every mutating method makes   *)
(* another such list, with exactly the offsets its comment claims, and no   *)
(* other; contiguousEnd is the end of the run through the base.             *)
THEOREM RangesAreExact ==
    ASSUME NEW rs \in Lists, NEW low \in Nat, NEW high \in Nat
    PROVE  /\ add(rs, low, high) \in Lists
           /\ Offsets(add(rs, low, high)) = Offsets(rs) \cup (low..high - 1)
           /\ subtract(rs, low, high) \in Lists
           /\ Offsets(subtract(rs, low, high)) = Offsets(rs) \ (low..high - 1)
           /\ removeBelow(rs, low) \in Lists
           /\ Offsets(removeBelow(rs, low)) = Offsets(rs) \ (0..low - 1)
           /\ rs # <<>> => /\ removeFirst(rs) \in Lists
                           /\ Offsets(removeFirst(rs)) = Offsets(rs) \ (rs[1].low..rs[1].high - 1)
           /\ (0..low - 1) \subseteq Offsets(rs) =>
                 LET end == contiguousEnd(rs, low) IN
                 /\ end \in Nat /\ low <= end
                 /\ low..end - 1 \subseteq Offsets(rs) /\ end \notin Offsets(rs)
<1>1. ASSUME NEW ts \in Lists, NEW n PROVE n \in Offsets(ts) <=> n \in Nat /\ Holds(Elems(ts), n)
  BY Zenon, OffsetsAre
<1>2. /\ add(rs, low, high) \in Lists
      /\ Offsets(add(rs, low, high)) = Offsets(rs) \cup (low..high - 1)
  BY Zenon, AddOffsets
<1>3. /\ subtract(rs, low, high) \in Lists
      /\ Offsets(subtract(rs, low, high)) = Offsets(rs) \ (low..high - 1)
  BY Zenon, SubtractOffsets
<1>4. /\ removeBelow(rs, low) \in Lists
      /\ Offsets(removeBelow(rs, low)) = Offsets(rs) \ (0..low - 1)
  <2>1. \A n \in Nat : n \in 0..low - 1 <=> ~(low <= n)
    BY SMT
  <2> QED
    BY Zenon, <1>1, <2>1, RemoveBelowIs
<1>5. ASSUME rs # <<>>
      PROVE  /\ removeFirst(rs) \in Lists
             /\ Offsets(removeFirst(rs)) = Offsets(rs) \ (rs[1].low..rs[1].high - 1)
  <2>1. rs \in Seq(Ranges) /\ Len(rs) \in Nat
    BY Zenon, ListType
  <2>2. Len(rs) # 0
    BY Zenon, <1>5, <2>1, EmptySeq
  <2>3. 1 \in 1..Len(rs)
    BY <2>1, <2>2
  <2>4. rs[1].low \in Nat /\ rs[1].high \in Nat
    BY Zenon, <2>3, ListType
  <2> DEFINE ts == removeFirst(rs)
  <2>5. /\ ts \in Lists
        /\ \A n \in Nat : Holds(Elems(ts), n) <=>
              Holds(Elems(rs), n) /\ ~(rs[1].low <= n /\ n < rs[1].high)
    BY Zenon, <1>5, RemoveFirstIs
  <2> HIDE DEF ts
  <2>6. ASSUME NEW n PROVE n \in Offsets(ts) <=> n \in Offsets(rs) /\ n \notin rs[1].low..rs[1].high - 1
    BY Zenon, <1>1, <2>4, <2>5, InRange
  <2>7. Offsets(ts) = Offsets(rs) \ (rs[1].low..rs[1].high - 1)
    BY Zenon, <2>6
  <2> QED
    BY Zenon, <2>5, <2>7 DEF ts
<1>6. ASSUME (0..low - 1) \subseteq Offsets(rs)
      PROVE  LET end == contiguousEnd(rs, low) IN
             /\ end \in Nat /\ low <= end
             /\ low..end - 1 \subseteq Offsets(rs) /\ end \notin Offsets(rs)
  <2> DEFINE end == contiguousEnd(rs, low)
  <2>1. \A n \in 0..low - 1 : Holds(Elems(rs), n)
    BY Zenon, <1>1, <1>6
  <2>2. /\ end \in Nat /\ low <= end
        /\ \A n \in low..end - 1 : Holds(Elems(rs), n)
        /\ ~Holds(Elems(rs), end)
    BY Zenon, <2>1, ContiguousEndIs
  <2> HIDE DEF end
  <2>3. low..end - 1 \subseteq Offsets(rs) /\ end \notin Offsets(rs)
    BY Zenon, <1>1, <2>2, InRange
  <2> QED
    BY Zenon, <2>2, <2>3 DEF end
<1> QED
  BY Zenon, <1>2, <1>3, <1>4, <1>5, <1>6

-----------------------------------------------------------------------------
(* What the constants are: sizes, limits and two switches.                  *)
SendConstants ==
    /\ Crypto \in BOOLEAN /\ Tight \in BOOLEAN
    /\ InitialLimit \in Nat /\ InitialData \in Nat /\ MaxLimit \in Nat
    /\ MaxWritten \in Nat /\ MaxFrame \in Nat

Kinds == {"stream", "reset"}
Frames == [stream : Streams, kind : Kinds, low : Nat, high : Nat, fin : BOOLEAN, arrived : BOOLEAN, copy : Nat]
Halves ==
    [base : Nat, written : Nat, sent : Nat, acked : Lists, lost : Lists, limit : Nat,
     finQueued : BOOLEAN, finSent : BOOLEAN, finAcked : BOOLEAN,
     reset : BOOLEAN, resetSent : BOOLEAN, resetAcked : BOOLEAN, writable : BOOLEAN]
Peers == [bytes : SUBSET Nat, ended : BOOLEAN]

Types ==
    /\ send \in [Streams -> Halves]
    /\ sentBytes \in Nat /\ sendLimit \in Nat
    /\ flight \subseteq Frames
    /\ peer \in [Streams -> Peers]
    /\ ends \in [Streams -> SUBSET Nat]

Span(f) == f.low..f.high - 1
Carried(B, s) == {f \in B : f.stream = s /\ f.kind = "stream"}
Taken(B, s) == UNION {Span(f) : f \in Carried(B, s)}

(* One half of a stream by itself.                                          *)
Ordered(d) ==
    /\ d.base <= d.sent /\ d.sent <= d.written
    /\ 0..d.base - 1 \subseteq Offsets(d.acked)
    /\ Offsets(d.acked) \subseteq 0..d.sent - 1
    /\ Offsets(d.lost) \subseteq 0..d.sent - 1
    /\ Offsets(d.lost) \cap Offsets(d.acked) = {}
    /\ ~Crypto => d.sent <= d.limit

(* A packet in flight: it has no byte that was not sent, an end only where  *)
(* the stream ends, and, once it arrived, nothing the peer has not.         *)
Framed(d, p, f) ==
    /\ f.low <= f.high
    /\ f.kind = "stream" => f.high <= d.sent /\ (f.fin => d.finQueued /\ f.high = d.written)
    /\ f.arrived => Span(f) \subseteq p.bytes /\ (f.fin => p.ended)

Settled(d, p) == Offsets(d.acked) \subseteq p.bytes /\ (d.finAcked => p.ended)

Accounted(s, d, B) ==
    /\ 0..d.sent - 1 \subseteq Offsets(d.acked) \cup Taken(B, s) \cup Offsets(d.lost)
    /\ d.finSent => d.finAcked \/ \E f \in Carried(B, s) : f.fin

(* No byte in two packets, nor in one packet twice, nor owed and in flight. *)
Once(s, d, B) ==
    ~Crypto =>
        /\ Offsets(d.lost) \cap Taken(B, s) = {}
        /\ \A f, g \in Carried(B, s) : f # g => Span(f) \cap Span(g) = {}

Told(d, e) == e \subseteq {d.written} /\ (e # {} => d.reset \/ d.finQueued)

StreamOK(s, d, B, p, e) ==
    /\ Ordered(d)
    /\ \A f \in B : f.stream = s => Framed(d, p, f)
    /\ Settled(d, p) /\ Accounted(s, d, B) /\ Once(s, d, B) /\ Told(d, e)

(* The inductive invariant.                                                 *)
SendInv ==
    /\ Types
    /\ \A s \in Streams : StreamOK(s, send[s], flight, peer[s], ends[s])
    /\ ~Crypto => sentBytes <= sendLimit

-----------------------------------------------------------------------------
(* The acknowledged part of a lost range is not owed.                       *)
LEMMA LessAckedIs ==
    ASSUME NEW lost \in Lists, NEW acked \in Lists, NEW from \in Nat, NEW high \in Nat
    PROVE  /\ LessAcked(lost, acked, from, high) \in Lists
           /\ \A n \in Nat : n \in Offsets(LessAcked(lost, acked, from, high)) <=>
                 n \in Offsets(lost) /\ ~(from <= n /\ n < high /\ n \in Offsets(acked))
<1> DEFINE N == Len(acked)
           first == firstIndex(acked, from, FALSE)
           m == first - 1
           Cut(i, rs) == IF acked[i].low >= high THEN rs
                         ELSE subtract(rs, Greater(acked[i].low, from), Lesser(acked[i].high, high))
           Fixed(f) == f = [i \in m..N |-> IF i = m THEN lost ELSE Cut(i, f[i - 1])]
           left == CHOOSE f : Fixed(f)
           Meets(i, n) == from <= n /\ n < high /\ acked[i].low <= n /\ n < acked[i].high
<1>1. N \in Nat /\ \A i \in 1..N : acked[i].low \in Nat /\ acked[i].high \in Nat
  BY Zenon, ListType
<1>2. /\ first \in 1..N + 1
      /\ \A k \in 1..first - 1 : Before(acked[k], from, FALSE)
  BY Zenon, FirstIndexIs DEF Modes
<1>3. LessAcked(lost, acked, from, high) = left[N]
  <2>1. ASSUME NEW f PROVE Fixed(f) <=>
              f = [i \in first - 1..N |->
                IF i = first - 1 THEN lost
                ELSE IF acked[i].low >= high THEN f[i - 1]
                ELSE subtract(f[i - 1], Greater(acked[i].low, from), Lesser(acked[i].high, high))]
    BY Zenon
  <2> QED
    BY Zenon DEF LessAcked
<1> HIDE DEF first
<1>4. m \in Nat /\ m <= N /\ (\A i \in m + 1..N : i \in 1..N /\ i # m) /\ m \in m..N /\ N \in m..N
  BY <1>1, <1>2
<1>5. ASSUME NEW i \in m + 1..N, NEW rs \in Lists
      PROVE  /\ Cut(i, rs) \in Lists
             /\ \A n \in Nat : n \in Offsets(Cut(i, rs)) <=> n \in Offsets(rs) /\ ~Meets(i, n)
  <2>1. acked[i].low \in Nat /\ acked[i].high \in Nat
    BY Zenon, <1>1, <1>4
  <2>2. CASE acked[i].low >= high
    <3>1. \A n \in Nat : ~Meets(i, n)
      BY <2>1, <2>2
    <3> QED
      BY Zenon, <2>2, <3>1
  <2>3. CASE ~(acked[i].low >= high)
    <3> DEFINE a == Greater(acked[i].low, from)
               b == Lesser(acked[i].high, high)
    <3>1. Cut(i, rs) = subtract(rs, a, b)
      BY Zenon, <2>3
    <3>2. a \in Nat /\ b \in Nat /\ \A n \in Nat : n \in a..b - 1 <=> Meets(i, n)
      BY <2>1 DEF Greater, Lesser
    <3>3. subtract(rs, a, b) \in Lists /\ Offsets(subtract(rs, a, b)) = Offsets(rs) \ (a..b - 1)
      <4> HIDE DEF a, b
      <4> QED
        BY Zenon, <3>2, SubtractOffsets
    <3> HIDE DEF a, b, Cut, Meets
    <3> QED
      BY Zenon, <3>1, <3>2, <3>3
  <2> HIDE DEF Cut, Meets
  <2> QED
    BY Zenon, <2>2, <2>3
<1> HIDE DEF Cut, Meets
<1>6. left \in [m..N -> Lists] /\ Fixed(left)
  <2> DEFINE F == [w \in (m + 1..N) \X Lists |-> Cut(w[1], w[2])]
  <2>1. F \in [(m + 1..N) \X Lists -> Lists]
    BY Zenon, <1>5
  <2>1a. \A i \in m + 1..N, rs \in Lists : F[<<i, rs>>] = Cut(i, rs)
    BY Zenon
  <2> HIDE DEF F, m, N
  <2>2. PICK f \in [m..N -> Lists] : Recurs(m, N, lost, F, f)
    BY Zenon, <1>1, <1>4, <2>1, PrimRec
  <2>3. \A i \in m..N : i # m => i - 1 \in m..N /\ i \in m + 1..N
    BY <1>1, <1>4
  <2>4. \A i \in m..N : i # m => F[<<i, f[i - 1]>>] = Cut(i, f[i - 1])
    BY Zenon, <2>1a, <2>3
  <2>5. Fixed(f)
    BY Zenon, <2>2, <2>4 DEF Recurs
  <2>6. Fixed(left)
    BY Zenon, <2>5
  <2> DEFINE S == {i \in m..N : left[i] \in Lists}
  <2> HIDE DEF left
  <2>7. \A i \in m..N : left[i] = IF i = m THEN lost ELSE Cut(i, left[i - 1])
    BY Zenon, <2>6
  <2>8. m \in S
    BY Zenon, <1>4, <2>7
  <2>9. ASSUME NEW i \in m..N - 1, i \in S PROVE i + 1 \in S
    <3>1. i + 1 \in m..N /\ i + 1 \in m + 1..N /\ i + 1 # m /\ (i + 1) - 1 = i
      BY <1>1, <1>4
    <3>2. left[i + 1] = Cut(i + 1, left[i]) /\ left[i] \in Lists
      BY Zenon, <2>7, <2>9, <3>1
    <3> QED
      BY Zenon, <1>5, <3>1, <3>2
  <2>10. m..N \subseteq S
    <3> HIDE DEF S
    <3> QED
      BY Zenon, <1>1, <1>4, <2>8, <2>9, UpTo
  <2> QED
    BY Zenon, <2>6, <2>10
<1> HIDE DEF left
<1>7. \A i \in m..N : left[i] = IF i = m THEN lost ELSE Cut(i, left[i - 1])
  BY Zenon, <1>6
<1> DEFINE S == {i \in m..N : \A n \in Nat : n \in Offsets(left[i]) <=>
                    n \in Offsets(lost) /\ ~\E k \in m + 1..i : Meets(k, n)}
<1>8. m \in S
  <2>1. m + 1..m = {} /\ left[m] = lost
    BY Zenon, <1>4, <1>7, SMT
  <2> QED
    BY Zenon, <1>4, <2>1
<1>9. ASSUME NEW i \in m..N - 1, i \in S PROVE i + 1 \in S
  <2>1. i + 1 \in m..N /\ i + 1 \in m + 1..N /\ i + 1 # m /\ (i + 1) - 1 = i /\ i \in m..N
    BY <1>1, <1>4
  <2>2. left[i + 1] = Cut(i + 1, left[i]) /\ left[i] \in Lists
    BY Zenon, <1>6, <1>7, <2>1
  <2>3. \A k : k \in m + 1..i + 1 <=> k \in m + 1..i \/ k = i + 1
    BY <1>1, <1>4
  <2>4. \A n \in Nat : n \in Offsets(left[i + 1]) <=> n \in Offsets(left[i]) /\ ~Meets(i + 1, n)
    BY Zenon, <1>5, <2>1, <2>2
  <2>5. ASSUME NEW n \in Nat
        PROVE  n \in Offsets(left[i + 1]) <=> n \in Offsets(lost) /\ ~\E k \in m + 1..i + 1 : Meets(k, n)
    BY Zenon, <1>9, <2>3, <2>4
  <2> QED
    BY Zenon, <2>1, <2>5
<1>10. m..N \subseteq S
  <2> HIDE DEF S
  <2> QED
    BY Zenon, <1>1, <1>4, <1>8, <1>9, UpTo
<1>11. ASSUME NEW n \in Nat
       PROVE  (\E k \in m + 1..N : Meets(k, n)) <=> from <= n /\ n < high /\ n \in Offsets(acked)
  <2>1. n \in Offsets(acked) <=> \E k \in 1..N : acked[k].low <= n /\ n < acked[k].high
    BY Zenon, OffsetsAre DEF Holds, Elems
  <2>2. ASSUME NEW k \in 1..N, from <= n, n < acked[k].high PROVE k \in m + 1..N
    <3>1. ASSUME k \in 1..first - 1 PROVE FALSE
      <4>1. acked[k].high < from \/ acked[k].high = from
        BY Zenon, <1>2, <3>1 DEF Before
      <4>2. acked[k].high \in Nat
        BY Zenon, <1>1
      <4> QED
        BY <2>2, <4>1, <4>2
    <3> QED
      BY <1>1, <1>2, <3>1
  <2> QED
    BY Zenon, <1>4, <2>1, <2>2 DEF Meets
<1>12. left[N] \in Lists
  BY Zenon, <1>4, <1>6
<1>13. \A n \in Nat : n \in Offsets(left[N]) <=> n \in Offsets(lost) /\ ~\E k \in m + 1..N : Meets(k, n)
  BY Zenon, <1>4, <1>10
<1>14. \A n \in Nat : n \in Offsets(left[N]) <=>
                 n \in Offsets(lost) /\ ~(from <= n /\ n < high /\ n \in Offsets(acked))
  BY Zenon, <1>11, <1>13
<1> QED
  BY Zenon, <1>3, <1>12, <1>14

-----------------------------------------------------------------------------
(* The fields of a half.                                                    *)
LEMMA HalfType ==
    ASSUME NEW d \in Halves
    PROVE  /\ d.base \in Nat /\ d.written \in Nat /\ d.sent \in Nat /\ d.limit \in Nat
           /\ d.acked \in Lists /\ d.lost \in Lists
           /\ d.finQueued \in BOOLEAN /\ d.finSent \in BOOLEAN /\ d.finAcked \in BOOLEAN
           /\ d.reset \in BOOLEAN /\ d.resetSent \in BOOLEAN /\ d.resetAcked \in BOOLEAN
           /\ d.writable \in BOOLEAN
  BY Zenon DEF Halves

(* What no acknowledgement and no loss changes.                             *)
Same(a, d) ==
    /\ a.written = d.written /\ a.sent = d.sent /\ a.limit = d.limit
    /\ a.finQueued = d.finQueued /\ a.finSent = d.finSent /\ a.finAcked = d.finAcked
    /\ a.reset = d.reset

(* The fields an acknowledgement changes.                                   *)
LEMMA AcknowledgeFields ==
    ASSUME NEW d \in Halves, NEW low \in Nat, NEW high \in Nat
    PROVE  LET a == acknowledge(d, low, high) IN
           /\ Same(a, d)
           /\ a.acked = add(d.acked, low, high) /\ a.lost = subtract(d.lost, low, high)
           /\ a.base = Greater(d.base, contiguousEnd(a.acked, d.base))
           /\ a.base \in Nat => a \in Halves
<1> DEFINE A == add(d.acked, low, high)
           L == subtract(d.lost, low, high)
           b == Greater(d.base, contiguousEnd(A, d.base))
           a == acknowledge(d, low, high)
<1>1. a = [d EXCEPT !.acked = A, !.lost = L, !.base = b]
  BY Zenon DEF acknowledge
<1>2. A \in Lists /\ L \in Lists
  BY Zenon, HalfType, AddOffsets, SubtractOffsets
<1> HIDE DEF a, A, L, b
<1>3. Same(a, d) /\ a.acked = A /\ a.lost = L /\ a.base = b
  BY Zenon, <1>1 DEF Halves, Same
<1>4. b \in Nat => a \in Halves
  BY Zenon, <1>1, <1>2 DEF Halves
<1> QED
  BY Zenon, <1>3, <1>4 DEF a, A, L, b

(* acknowledge: the bytes join the acknowledged ones and leave the lost     *)
(* ones, and the base moves over what is acknowledged from the start.       *)
LEMMA AcknowledgeIs ==
    ASSUME NEW d \in Halves, Ordered(d), NEW low \in Nat, NEW high \in Nat, high <= d.sent
    PROVE  LET a == acknowledge(d, low, high) IN
           /\ a \in Halves /\ Same(a, d) /\ Ordered(a)
           /\ Offsets(a.acked) = Offsets(d.acked) \cup (low..high - 1)
           /\ Offsets(a.lost) = Offsets(d.lost) \ (low..high - 1)
<1> DEFINE a == acknowledge(d, low, high)
           end == contiguousEnd(a.acked, d.base)
           X == low..high - 1
<1>1. /\ Same(a, d)
      /\ a.acked = add(d.acked, low, high) /\ a.lost = subtract(d.lost, low, high)
      /\ a.base = Greater(d.base, end)
      /\ a.base \in Nat => a \in Halves
  BY Zenon, AcknowledgeFields
<1>2. d.acked \in Lists /\ d.lost \in Lists /\ d.base \in Nat /\ d.sent \in Nat /\ d.written \in Nat
  BY Zenon, HalfType
<1> HIDE DEF a
<1>3. a.acked \in Lists /\ Offsets(a.acked) = Offsets(d.acked) \cup X
  <2>1. /\ add(d.acked, low, high) \in Lists
        /\ Offsets(add(d.acked, low, high)) = Offsets(d.acked) \cup X
    BY ZenonT(30), <1>2, AddOffsets
  <2> QED
    BY Zenon, <1>1, <2>1
<1>4. Offsets(a.lost) = Offsets(d.lost) \ X
  <2>1. Offsets(subtract(d.lost, low, high)) = Offsets(d.lost) \ X
    BY ZenonT(60), <1>2, SubtractOffsets
  <2> QED
    BY Zenon, <1>1, <2>1
<1>5. /\ d.base <= d.sent /\ d.sent <= d.written /\ (~Crypto => d.sent <= d.limit)
      /\ 0..d.base - 1 \subseteq Offsets(d.acked)
      /\ Offsets(d.acked) \subseteq 0..d.sent - 1
      /\ Offsets(d.lost) \subseteq 0..d.sent - 1
      /\ Offsets(d.lost) \cap Offsets(d.acked) = {}
  BY Zenon DEF Ordered
<1>6. X \subseteq 0..d.sent - 1
  BY <1>2
<1> HIDE DEF X
<1>7. /\ end \in Nat /\ d.base <= end
      /\ d.base..end - 1 \subseteq Offsets(a.acked) /\ end \notin Offsets(a.acked)
  <2>1. 0..d.base - 1 \subseteq Offsets(a.acked)
    BY Zenon, <1>3, <1>5
  <2> QED
    BY Zenon, <1>2, <1>3, <2>1, RangesAreExact
<1> HIDE DEF end
<1>8. a.base = end
  BY <1>1, <1>2, <1>7 DEF Greater
<1>9. 0..end - 1 \subseteq Offsets(a.acked)
  <2>1. \A n \in 0..end - 1 : n \in 0..d.base - 1 \/ n \in d.base..end - 1
    BY <1>2, <1>7
  <2> QED
    BY Zenon, <1>3, <1>5, <1>7, <2>1
<1>10. Offsets(a.acked) \subseteq 0..d.sent - 1
  BY Zenon, <1>3, <1>5, <1>6
<1>11. end <= d.sent
  <2>1. d.sent < end => d.sent \in 0..end - 1 /\ d.sent \notin 0..d.sent - 1
    BY <1>2, <1>7
  <2>2. ~(d.sent < end)
    BY Zenon, <1>9, <1>10, <2>1
  <2> QED
    BY <1>2, <1>7, <2>2
<1>12. Ordered(a)
  <2>1. a.base <= a.sent /\ a.sent <= a.written /\ (~Crypto => a.sent <= a.limit)
    BY Zenon, <1>1, <1>5, <1>8, <1>11 DEF Same
  <2>2. 0..a.base - 1 \subseteq Offsets(a.acked)
    BY Zenon, <1>8, <1>9
  <2>3. Offsets(a.acked) \subseteq 0..a.sent - 1 /\ Offsets(a.lost) \subseteq 0..a.sent - 1
    BY Zenon, <1>1, <1>4, <1>5, <1>10 DEF Same
  <2>4. Offsets(a.lost) \cap Offsets(a.acked) = {}
    BY Zenon, <1>3, <1>4, <1>5
  <2> QED
    BY Zenon, <2>1, <2>2, <2>3, <2>4 DEF Ordered
<1> QED
  BY Zenon, <1>1, <1>3, <1>4, <1>7, <1>8, <1>12 DEF a, X

(* declareLost: the bytes of a lost packet that were not acknowledged       *)
(* meanwhile are owed again.                                                *)
LEMMA DeclareLostIs ==
    ASSUME NEW d \in Halves, Ordered(d), NEW low \in Nat, NEW high \in Nat, high <= d.sent
    PROVE  LET a == declareLost(d, low, high) IN
           /\ a \in Halves /\ Same(a, d) /\ Ordered(a) /\ a.acked = d.acked
           /\ Offsets(a.lost) = Offsets(d.lost) \cup ((low..high - 1) \ Offsets(d.acked))
<1> DEFINE a == declareLost(d, low, high)
           from == Greater(low, d.base)
           M == add(d.lost, from, high)
           L == LessAcked(M, d.acked, from, high)
           X == (low..high - 1) \ Offsets(d.acked)
<1>1. d.acked \in Lists /\ d.lost \in Lists /\ d.base \in Nat /\ d.sent \in Nat /\ d.written \in Nat
  BY Zenon, HalfType
<1>2. /\ d.base <= d.sent /\ d.sent <= d.written /\ (~Crypto => d.sent <= d.limit)
      /\ 0..d.base - 1 \subseteq Offsets(d.acked)
      /\ Offsets(d.acked) \subseteq 0..d.sent - 1
      /\ Offsets(d.lost) \subseteq 0..d.sent - 1
      /\ Offsets(d.lost) \cap Offsets(d.acked) = {}
  BY Zenon DEF Ordered
<1>3. from \in Nat
  BY <1>1 DEF Greater
<1>4. \A n : n \in low..high - 1 => n \in 0..d.base - 1 \/ n \in from..high - 1
  BY <1>1 DEF Greater
<1>5. \A n : n \in from..high - 1 => n \in low..high - 1
  BY <1>1 DEF Greater
<1>6. X \subseteq 0..d.sent - 1
  <2>1. low..high - 1 \subseteq 0..d.sent - 1
    BY <1>1
  <2> QED
    BY Zenon, <2>1
<1> HIDE DEF from
<1>7. \A n : n \in from..high - 1 <=> n \in Nat /\ from <= n /\ n < high
  BY Zenon, <1>3, InRange
<1>8. /\ a \in Halves /\ Same(a, d) /\ a.acked = d.acked /\ a.base = d.base
      /\ Offsets(a.lost) = Offsets(d.lost) \cup X
  <2>1. CASE high <= from
    <3>1. a = d
      BY Zenon, <2>1 DEF declareLost, from
    <3>2. from..high - 1 = {}
      BY <1>3, <2>1
    <3>3. X = {}
      BY Zenon, <1>2, <1>4, <3>2
    <3> HIDE DEF a, X
    <3> QED
      BY Zenon, <3>1, <3>3 DEF Same
  <2>2. CASE ~(high <= from)
    <3>1. a = [d EXCEPT !.lost = L]
      BY Zenon, <2>2 DEF declareLost, from
    <3>2. M \in Lists /\ Offsets(M) = Offsets(d.lost) \cup (from..high - 1)
      BY Zenon, <1>1, <1>3, AddOffsets
    <3> HIDE DEF M
    <3>3. L \in Lists /\ \A n \in Nat : n \in Offsets(L) <=>
              n \in Offsets(M) /\ ~(from <= n /\ n < high /\ n \in Offsets(d.acked))
      BY Zenon, <1>1, <1>3, <3>2, LessAckedIs
    <3> HIDE DEF L, a
    <3>4. a \in Halves /\ Same(a, d) /\ a.acked = d.acked /\ a.base = d.base /\ a.lost = L
      BY Zenon, <3>1, <3>3 DEF Halves, Same
    <3>5. \A n : n \in Offsets(L) => n \in Nat
      BY Zenon, <3>3, OffsetsAre
    <3>6. \A n : n \in 0..d.sent - 1 => n \in Nat
      BY <1>1
    <3>7. ASSUME NEW n \in Nat PROVE n \in Offsets(L) <=> n \in Offsets(d.lost) \/ n \in X
      BY Zenon, <1>2, <1>4, <1>5, <1>7, <3>2, <3>3
    <3> HIDE DEF X
    <3>8. Offsets(L) = Offsets(d.lost) \cup X
      BY Zenon, <1>2, <1>6, <3>5, <3>6, <3>7
    <3> QED
      BY Zenon, <3>4, <3>8
  <2> QED
    BY Zenon, <2>1, <2>2
<1> HIDE DEF a
<1>9. Ordered(a)
  <2>1. a.base <= a.sent /\ a.sent <= a.written /\ (~Crypto => a.sent <= a.limit)
    BY Zenon, <1>2, <1>8 DEF Same
  <2>2. 0..a.base - 1 \subseteq Offsets(a.acked) /\ Offsets(a.acked) \subseteq 0..a.sent - 1
    BY Zenon, <1>2, <1>8 DEF Same
  <2>3. X \cap Offsets(d.acked) = {}
    BY Zenon
  <2> HIDE DEF X
  <2>4. Offsets(a.lost) \subseteq 0..a.sent - 1
    BY Zenon, <1>2, <1>6, <1>8 DEF Same
  <2>5. Offsets(a.lost) \cap Offsets(a.acked) = {}
    BY Zenon, <1>2, <1>8, <2>3
  <2> QED
    BY Zenon, <2>1, <2>2, <2>4, <2>5 DEF Ordered
<1> QED
  BY Zenon, <1>8, <1>9 DEF a

-----------------------------------------------------------------------------
(* The fields of a frame, and its bytes one at a time.                      *)
LEMMA FrameType ==
    ASSUME NEW f \in Frames
    PROVE  /\ f.stream \in Streams /\ f.kind \in Kinds /\ f.low \in Nat /\ f.high \in Nat
           /\ f.fin \in BOOLEAN /\ f.arrived \in BOOLEAN
           /\ \A n : n \in Span(f) <=> n \in Nat /\ f.low <= n /\ n < f.high
<1>1. /\ f.stream \in Streams /\ f.kind \in Kinds /\ f.low \in Nat /\ f.high \in Nat
      /\ f.fin \in BOOLEAN /\ f.arrived \in BOOLEAN
  BY Zenon DEF Frames
<1> QED
  BY Zenon, <1>1, InRange DEF Span

(* The bytes in flight, one at a time.                                      *)
LEMMA TakenIs == \A B, s, n : n \in Taken(B, s) <=> \E f \in Carried(B, s) : n \in Span(f)
  BY Zenon DEF Taken

(* B without the packet f.                                                  *)
Less(B, C, f) ==
    /\ C \subseteq B /\ f \notin C
    /\ \A g \in B : g # f => g \in C
Rest(s, B, C, f) ==
    /\ Carried(C, s) \subseteq Carried(B, s)
    /\ \A g \in Carried(B, s) : g # f => g \in Carried(C, s)
Within(a, d, f) == Offsets(a.lost) \subseteq Offsets(d.lost) \cup Span(f)

(* With a packet less, and no byte owed that is in one of the others, no    *)
(* byte is sent twice still.                                                *)
LEMMA OnceLess ==
    ASSUME NEW s \in Streams, NEW d \in Halves, NEW a \in Halves, NEW B, NEW C, NEW f \in B,
           Once(s, d, B), Less(B, C, f), f.stream = s, f.kind = "stream", Within(a, d, f)
    PROVE  Rest(s, B, C, f) /\ Once(s, a, C)
<1>1. Carried(C, s) \subseteq Carried(B, s)
  BY Zenon DEF Carried, Less
<1>2. \A g \in Carried(B, s) : g # f => g \in Carried(C, s)
  BY Zenon DEF Carried, Less
<1>3. ASSUME ~Crypto
      PROVE  /\ Offsets(a.lost) \cap Taken(C, s) = {}
             /\ \A h, g \in Carried(C, s) : h # g => Span(h) \cap Span(g) = {}
  <2>1. /\ Offsets(d.lost) \cap Taken(B, s) = {}
        /\ \A h, g \in Carried(B, s) : h # g => Span(h) \cap Span(g) = {}
    BY Zenon, <1>3 DEF Once
  <2>2. f \in Carried(B, s)
    BY Zenon DEF Carried
  <2>3. \A g \in Carried(C, s) : g # f
    BY Zenon DEF Carried, Less
  <2>4. ASSUME NEW n, n \in Offsets(a.lost), n \in Taken(C, s) PROVE FALSE
    <3>1. PICK g \in Carried(C, s) : n \in Span(g)
      BY Zenon, <2>4 DEF Taken
    <3>2. g \in Carried(B, s) /\ g # f
      BY Zenon, <1>1, <2>3, <3>1
    <3>3. n \notin Span(f)
      BY Zenon, <2>1, <2>2, <3>1, <3>2
    <3>4. n \in Taken(B, s)
      BY Zenon, <3>1, <3>2 DEF Taken
    <3> QED
      BY Zenon, <2>1, <2>4, <3>3, <3>4 DEF Within
  <2> QED
    BY Zenon, <1>1, <2>1, <2>4
<1> QED
  BY Zenon, <1>1, <1>2, <1>3 DEF Once, Rest

(* What holds of the packets when the half keeps what it has sent.          *)
LEMMA FramedSame ==
    ASSUME NEW s \in Streams, NEW d \in Halves, NEW a \in Halves, NEW p \in Peers, NEW B, NEW C,
           C \subseteq B, a.sent = d.sent, a.finQueued = d.finQueued, a.written = d.written,
           \A f \in B : f.stream = s => Framed(d, p, f)
    PROVE  \A f \in C : f.stream = s => Framed(a, p, f)
<1>1. ASSUME NEW f \in C, f.stream = s PROVE Framed(a, p, f)
  <2>1. Framed(d, p, f)
    BY Zenon, <1>1
  <2> QED
    BY Zenon, <2>1 DEF Framed
<1> QED
  BY Zenon, <1>1

(* An acknowledged packet.                                                  *)
LEMMA AckedOK ==
    ASSUME NEW s \in Streams, NEW d \in Halves, NEW B, NEW p \in Peers, NEW e,
           B \subseteq Frames, StreamOK(s, d, B, p, e),
           NEW f \in B, f.stream = s, f.kind = "stream", f.arrived, NEW C, Less(B, C, f)
    PROVE  LET a == [acknowledge(d, f.low, f.high) EXCEPT !.finAcked = @ \/ f.fin] IN
           a \in Halves /\ StreamOK(s, a, C, p, e)
<1> DEFINE b == acknowledge(d, f.low, f.high)
           a == [b EXCEPT !.finAcked = @ \/ f.fin]
<1>1. /\ f.low \in Nat /\ f.high \in Nat /\ f.fin \in BOOLEAN /\ f \in Carried(B, s)
  BY Zenon, FrameType DEF Carried
<1>2. Framed(d, p, f) /\ Ordered(d) /\ Settled(d, p) /\ Accounted(s, d, B) /\ Once(s, d, B) /\ Told(d, e)
  BY Zenon DEF StreamOK
<1>3. f.high <= d.sent /\ Span(f) \subseteq p.bytes /\ (f.fin => p.ended)
  BY Zenon, <1>2 DEF Framed
<1>4. /\ b \in Halves /\ Same(b, d) /\ Ordered(b)
      /\ Offsets(b.acked) = Offsets(d.acked) \cup Span(f)
      /\ Offsets(b.lost) = Offsets(d.lost) \ Span(f)
  BY Zenon, <1>1, <1>2, <1>3, AcknowledgeIs DEF Span
<1> HIDE DEF b
<1>5. /\ a \in Halves /\ a.base = b.base /\ a.acked = b.acked /\ a.lost = b.lost /\ a.sent = d.sent
      /\ a.written = d.written /\ a.limit = b.limit /\ a.finQueued = d.finQueued /\ a.finSent = d.finSent
      /\ a.reset = d.reset /\ a.finAcked = (d.finAcked \/ f.fin)
  BY Zenon, <1>1, <1>4 DEF Halves, Same
<1> HIDE DEF a
<1>6. Ordered(a)
  BY Zenon, <1>4, <1>5 DEF Ordered, Same
<1>7. \A g \in C : g.stream = s => Framed(a, p, g)
  <2>1. ASSUME NEW g \in C, g.stream = s PROVE Framed(d, p, g)
    BY Zenon, <2>1 DEF StreamOK, Less
  <2> QED
    BY Zenon, <1>5, <2>1 DEF Framed
<1>8. Settled(a, p)
  BY Zenon, <1>2, <1>3, <1>4, <1>5 DEF Settled
<1>9. Rest(s, B, C, f) /\ Once(s, a, C)
  <2>1. Within(a, d, f)
    BY Zenon, <1>4, <1>5 DEF Within
  <2>2. Once(s, d, B) /\ a \in Halves
    BY Zenon, <1>2, <1>5
  <2> QED
    BY Zenon, <2>1, <2>2, OnceLess
<1>10. Accounted(s, a, C)
  <2>1. ASSUME NEW n \in 0..a.sent - 1 PROVE n \in Offsets(a.acked) \cup Taken(C, s) \cup Offsets(a.lost)
    <3>1. n \in Offsets(d.acked) \cup Taken(B, s) \cup Offsets(d.lost)
      BY Zenon, <1>2, <1>5 DEF Accounted
    <3>2. ASSUME n \in Taken(B, s) PROVE n \in Taken(C, s) \/ n \in Span(f)
      BY Zenon, <1>9, <3>2 DEF Taken, Rest
    <3> QED
      BY Zenon, <1>4, <1>5, <3>1, <3>2
  <2>2. ASSUME a.finSent PROVE a.finAcked \/ \E g \in Carried(C, s) : g.fin
    <3>1. d.finAcked \/ \E g \in Carried(B, s) : g.fin
      BY Zenon, <1>2, <1>5, <2>2 DEF Accounted
    <3> QED
      BY Zenon, <1>5, <1>9, <3>1 DEF Rest
  <2> QED
    BY Zenon, <2>1, <2>2 DEF Accounted
<1>11. Told(a, e)
  BY Zenon, <1>2, <1>5 DEF Told
<1> QED
  BY Zenon, <1>5, <1>6, <1>7, <1>8, <1>9, <1>10, <1>11 DEF StreamOK, a, b

(* A packet called lost.                                                    *)
LEMMA LostOK ==
    ASSUME NEW s \in Streams, NEW d \in Halves, NEW B, NEW p \in Peers, NEW e,
           B \subseteq Frames, StreamOK(s, d, B, p, e),
           NEW f \in B, f.stream = s, f.kind = "stream", NEW C, Less(B, C, f)
    PROVE  LET a == [declareLost(d, f.low, f.high) EXCEPT !.finSent = @ /\ ~f.fin, !.writable = TRUE] IN
           a \in Halves /\ StreamOK(s, a, C, p, e)
<1> DEFINE b == declareLost(d, f.low, f.high)
           a == [b EXCEPT !.finSent = @ /\ ~f.fin, !.writable = TRUE]
<1>1. /\ f.low \in Nat /\ f.high \in Nat /\ f.fin \in BOOLEAN /\ f \in Carried(B, s)
  BY Zenon, FrameType DEF Carried
<1>2. Framed(d, p, f) /\ Ordered(d) /\ Settled(d, p) /\ Accounted(s, d, B) /\ Once(s, d, B) /\ Told(d, e)
  BY Zenon DEF StreamOK
<1>3. f.high <= d.sent
  BY Zenon, <1>2 DEF Framed
<1>4. /\ b \in Halves /\ Same(b, d) /\ Ordered(b) /\ b.acked = d.acked
      /\ Offsets(b.lost) = Offsets(d.lost) \cup (Span(f) \ Offsets(d.acked))
  BY Zenon, <1>1, <1>2, <1>3, DeclareLostIs DEF Span
<1> HIDE DEF b
<1>5. /\ a \in Halves /\ a.base = b.base /\ a.acked = b.acked /\ a.lost = b.lost /\ a.sent = d.sent
      /\ a.written = d.written /\ a.limit = b.limit /\ a.finQueued = d.finQueued
      /\ a.finSent = (d.finSent /\ ~f.fin)
      /\ a.reset = d.reset /\ a.finAcked = d.finAcked
  BY Zenon, <1>1, <1>4 DEF Halves, Same
<1> HIDE DEF a
<1>6. Ordered(a)
  BY Zenon, <1>4, <1>5 DEF Ordered, Same
<1>7. \A g \in C : g.stream = s => Framed(a, p, g)
  <2>1. \A g \in B : g.stream = s => Framed(d, p, g)
    BY Zenon DEF StreamOK
  <2>2. C \subseteq B
    BY Zenon DEF Less
  <2> QED
    BY ZenonT(30), <1>5, <2>1, <2>2, FramedSame
<1>8. Settled(a, p)
  BY Zenon, <1>2, <1>4, <1>5 DEF Settled
<1>9. Rest(s, B, C, f) /\ Once(s, a, C)
  <2>1. Within(a, d, f)
    BY Zenon, <1>4, <1>5 DEF Within
  <2>2. Once(s, d, B) /\ a \in Halves
    BY Zenon, <1>2, <1>5
  <2> QED
    BY Zenon, <2>1, <2>2, OnceLess
<1>10. Accounted(s, a, C)
  <2>1. ASSUME NEW n \in 0..a.sent - 1 PROVE n \in Offsets(a.acked) \cup Taken(C, s) \cup Offsets(a.lost)
    <3>1. n \in Offsets(d.acked) \cup Taken(B, s) \cup Offsets(d.lost)
      BY Zenon, <1>2, <1>5 DEF Accounted
    <3>2. ASSUME n \in Taken(B, s) PROVE n \in Taken(C, s) \/ n \in Span(f)
      BY Zenon, <1>9, <3>2 DEF Taken, Rest
    <3> QED
      BY Zenon, <1>4, <1>5, <3>1, <3>2
  <2>2. ASSUME a.finSent PROVE a.finAcked \/ \E g \in Carried(C, s) : g.fin
    <3>1. d.finSent /\ ~f.fin
      BY Zenon, <1>5, <2>2
    <3>2. d.finAcked \/ \E g \in Carried(B, s) : g.fin
      BY Zenon, <1>2, <3>1 DEF Accounted
    <3> QED
      BY Zenon, <1>5, <1>9, <3>1, <3>2 DEF Rest
  <2> QED
    BY Zenon, <2>1, <2>2 DEF Accounted
<1>11. Told(a, e)
  BY Zenon, <1>2, <1>5 DEF Told
<1> QED
  BY Zenon, <1>5, <1>6, <1>7, <1>8, <1>9, <1>10, <1>11 DEF StreamOK, a, b

(* What a half keeps when it changes neither its packets nor its bytes.     *)
LEMMA SameOK ==
    ASSUME NEW s \in Streams, NEW d \in Halves, NEW a \in Halves, NEW B, NEW p \in Peers, NEW e,
           StreamOK(s, d, B, p, e),
           a.base = d.base, a.sent = d.sent, a.written = d.written, a.acked = d.acked, a.lost = d.lost,
           a.finQueued = d.finQueued, a.finSent = d.finSent, a.finAcked = d.finAcked,
           d.reset => a.reset, ~Crypto => a.sent <= a.limit
    PROVE  StreamOK(s, a, B, p, e)
<1>1. Ordered(d) /\ Settled(d, p) /\ Accounted(s, d, B) /\ Once(s, d, B) /\ Told(d, e)
  BY Zenon DEF StreamOK
<1>2. Ordered(a)
  BY Zenon, <1>1 DEF Ordered
<1>3. \A f \in B : f.stream = s => Framed(a, p, f)
  BY Zenon DEF StreamOK, Framed
<1>4. Settled(a, p) /\ Accounted(s, a, B) /\ Once(s, a, B)
  BY Zenon, <1>1 DEF Settled, Accounted, Once
<1>5. Told(a, e)
  BY Zenon, <1>1 DEF Told
<1> QED
  BY Zenon, <1>2, <1>3, <1>4, <1>5 DEF StreamOK

(* Packets change that carry none of the stream's bytes.                    *)
LEMMA CarriedOK ==
    ASSUME NEW s \in Streams, NEW d \in Halves, NEW B, NEW C, NEW p \in Peers, NEW e,
           StreamOK(s, d, B, p, e),
           \A f \in C : f.stream = s => Framed(d, p, f),
           \A f \in C : f.stream = s /\ f.kind = "stream" => f \in B,
           \A f \in B : f.stream = s /\ f.kind = "stream" => f \in C
    PROVE  StreamOK(s, d, C, p, e)
<1>1. Ordered(d) /\ Settled(d, p) /\ Accounted(s, d, B) /\ Once(s, d, B) /\ Told(d, e)
  BY Zenon DEF StreamOK
<1>2. \A f : f \in Carried(C, s) <=> f \in Carried(B, s)
  BY Zenon DEF Carried
<1>3. Carried(C, s) = Carried(B, s)
  BY Zenon, <1>2
<1>4. Taken(C, s) = Taken(B, s)
  BY Zenon, <1>3 DEF Taken
<1>5. Accounted(s, d, C) /\ Once(s, d, C)
  BY Zenon, <1>1, <1>3, <1>4 DEF Accounted, Once
<1> QED
  BY Zenon, <1>1, <1>5 DEF StreamOK

(* Another stream's packets change.                                         *)
LEMMA OtherOK ==
    ASSUME NEW s \in Streams, NEW d \in Halves, NEW B, NEW C, NEW p \in Peers, NEW e,
           StreamOK(s, d, B, p, e),
           \A f \in C : f.stream = s => f \in B,
           \A f \in B : f.stream = s => f \in C
    PROVE  StreamOK(s, d, C, p, e)
<1>1. \A f \in C : f.stream = s => Framed(d, p, f)
  BY Zenon DEF StreamOK
<1>2. \A f \in C : f.stream = s /\ f.kind = "stream" => f \in B
  BY Zenon
<1>3. \A f \in B : f.stream = s /\ f.kind = "stream" => f \in C
  BY Zenon
<1> QED
  BY Zenon, <1>1, <1>2, <1>3, CarriedOK

(* The application writes, and ends the stream.                             *)
LEMMA WrittenOK ==
    ASSUME NEW s \in Streams, NEW d \in Halves, NEW B, NEW p \in Peers, NEW e,
           StreamOK(s, d, B, p, e), ~d.reset, ~d.finQueued, NEW n \in Nat, NEW fin \in BOOLEAN
    PROVE  LET a == [d EXCEPT !.written = @ + n, !.finQueued = fin, !.writable = TRUE] IN
           a \in Halves /\ StreamOK(s, a, B, p, e)
<1> DEFINE w == d.written + n
           a == [d EXCEPT !.written = w, !.finQueued = fin, !.writable = TRUE]
<1>1. d.written \in Nat /\ d.sent \in Nat
  BY Zenon, HalfType
<1>2. w \in Nat /\ (d.sent <= d.written => d.sent <= w)
  BY <1>1
<1> HIDE DEF w
<1>3. /\ a \in Halves /\ a.base = d.base /\ a.acked = d.acked /\ a.lost = d.lost /\ a.sent = d.sent
      /\ a.written = w /\ a.limit = d.limit /\ a.finQueued = fin
      /\ a.finSent = d.finSent /\ a.reset = d.reset /\ a.finAcked = d.finAcked
  BY Zenon, <1>2 DEF Halves
<1> HIDE DEF a
<1>4. Ordered(d) /\ Settled(d, p) /\ Accounted(s, d, B) /\ Once(s, d, B) /\ Told(d, e)
  BY Zenon DEF StreamOK
<1>5. Ordered(a)
  BY Zenon, <1>2, <1>3, <1>4 DEF Ordered
<1>6. \A f \in B : f.stream = s => Framed(a, p, f)
  <2>1. ASSUME NEW f \in B, f.stream = s PROVE Framed(a, p, f)
    <3>1. Framed(d, p, f)
      BY Zenon, <2>1 DEF StreamOK
    <3> QED
      BY Zenon, <1>3, <3>1 DEF Framed
  <2> QED
    BY Zenon, <2>1
<1>7. Settled(a, p) /\ Accounted(s, a, B) /\ Once(s, a, B)
  BY Zenon, <1>3, <1>4 DEF Settled, Accounted, Once
<1>8. Told(a, e)
  <2>1. e = {}
    BY Zenon, <1>4 DEF Told
  <2> QED
    BY Zenon, <2>1 DEF Told
<1> QED
  BY Zenon, <1>3, <1>5, <1>6, <1>7, <1>8 DEF StreamOK, a, w

(* A probe timeout: all that is not acknowledged is owed.                   *)
LEMMA ProbedOK ==
    ASSUME NEW s \in Streams, NEW d \in Halves, NEW B, NEW p \in Peers, NEW e,
           StreamOK(s, d, B, p, e), Crypto
    PROVE  LET a == [declareLost(d, d.base, d.sent) EXCEPT !.writable = TRUE] IN
           a \in Halves /\ StreamOK(s, a, B, p, e)
<1> DEFINE b == declareLost(d, d.base, d.sent)
           a == [b EXCEPT !.writable = TRUE]
<1>1. d.base \in Nat /\ d.sent \in Nat
  BY Zenon, HalfType
<1>2. d.sent <= d.sent
  BY <1>1
<1>3. Ordered(d) /\ Settled(d, p) /\ Accounted(s, d, B) /\ Told(d, e)
  BY Zenon DEF StreamOK
<1>4. /\ b \in Halves /\ Same(b, d) /\ Ordered(b) /\ b.acked = d.acked
      /\ Offsets(d.lost) \subseteq Offsets(b.lost)
  <2>1. /\ b \in Halves /\ Same(b, d) /\ Ordered(b) /\ b.acked = d.acked
        /\ Offsets(b.lost) = Offsets(d.lost) \cup ((d.base..d.sent - 1) \ Offsets(d.acked))
    BY Zenon, <1>1, <1>2, <1>3, DeclareLostIs
  <2> QED
    BY Zenon, <2>1
<1> HIDE DEF b
<1>5. /\ a \in Halves /\ a.base = b.base /\ a.acked = d.acked /\ a.lost = b.lost /\ a.sent = d.sent
      /\ a.written = d.written /\ a.limit = b.limit /\ a.finQueued = d.finQueued
      /\ a.finSent = d.finSent /\ a.reset = d.reset /\ a.finAcked = d.finAcked
  BY Zenon, <1>4 DEF Halves, Same
<1> HIDE DEF a
<1>6. Ordered(a)
  BY Zenon, <1>4, <1>5 DEF Ordered, Same
<1>7. \A f \in B : f.stream = s => Framed(a, p, f)
  BY Zenon, <1>5 DEF StreamOK, Framed
<1>8. Settled(a, p) /\ Told(a, e)
  BY Zenon, <1>3, <1>5 DEF Settled, Told
<1>9. Accounted(s, a, B)
  BY Zenon, <1>3, <1>4, <1>5 DEF Accounted
<1>10. Once(s, a, B)
  BY Zenon DEF Once
<1> QED
  BY Zenon, <1>5, <1>6, <1>7, <1>8, <1>9, <1>10 DEF StreamOK, a, b

(* A packet arrives: the same packet, but that the peer has it.             *)
Arrives(s, d, B, p, e, f, g, B1, C, q) ==
    /\ s \in Streams /\ d \in Halves /\ p \in Peers /\ StreamOK(s, d, B, p, e)
    /\ f \in B /\ f \in Frames /\ f.stream = s /\ ~f.arrived
    /\ g \in Frames /\ g = [f EXCEPT !.arrived = TRUE]
    /\ Less(B, B1, f) /\ C = B1 \cup {g}
    /\ q \in Peers /\ q.bytes = p.bytes \cup Span(f) /\ q.ended = (p.ended \/ f.fin)

(* The stream stays in order.                                               *)
LEMMA ArrivedOK ==
    ASSUME NEW s, NEW d, NEW B, NEW p, NEW e, NEW f, NEW g, NEW B1, NEW C, NEW q,
           Arrives(s, d, B, p, e, f, g, B1, C, q)
    PROVE  StreamOK(s, d, C, q, e)
<1>0. /\ s \in Streams /\ d \in Halves /\ p \in Peers /\ StreamOK(s, d, B, p, e)
      /\ f \in B /\ f \in Frames /\ f.stream = s /\ ~f.arrived
      /\ g \in Frames /\ g = [f EXCEPT !.arrived = TRUE]
      /\ Less(B, B1, f) /\ C = B1 \cup {g}
      /\ q \in Peers /\ q.bytes = p.bytes \cup Span(f) /\ q.ended = (p.ended \/ f.fin)
  BY Zenon DEF Arrives
<1> USE <1>0
<1>1. Ordered(d) /\ Settled(d, p) /\ Accounted(s, d, B) /\ Once(s, d, B) /\ Told(d, e)
  BY Zenon DEF StreamOK
<1>2. /\ g.stream = f.stream /\ g.kind = f.kind /\ g.low = f.low /\ g.high = f.high /\ g.fin = f.fin
      /\ g.arrived
  BY Zenon DEF Frames
<1>3. Span(g) = Span(f) /\ f # g
  BY Zenon, <1>2 DEF Span
<1>4. \A h \in C : h.stream = s => Framed(d, q, h)
  <2>1. ASSUME NEW h \in B, h.stream = s PROVE Framed(d, q, h)
    <3>1. Framed(d, p, h)
      BY Zenon, <2>1 DEF StreamOK
    <3> QED
      BY Zenon, <3>1 DEF Framed
  <2>2. Framed(d, q, g)
    <3>1. Framed(d, p, f)
      BY Zenon DEF StreamOK
    <3> QED
      BY Zenon, <1>2, <1>3, <3>1 DEF Framed
  <2> QED
    BY Zenon, <2>1, <2>2 DEF Less
<1>5. Settled(d, q)
  BY Zenon, <1>1 DEF Settled
<1>6. \A h \in Carried(B, s) : h # f => h \in Carried(C, s)
  BY Zenon DEF Carried, Less
<1>7. f \in Carried(B, s) => g \in Carried(C, s)
  BY Zenon, <1>2 DEF Carried
<1>8. Accounted(s, d, C)
  <2>1. Taken(B, s) \subseteq Taken(C, s)
    <3>1. ASSUME NEW h \in Carried(B, s), NEW n \in Span(h) PROVE n \in Taken(C, s)
      <4>1. CASE h = f
        BY Zenon, <1>3, <1>7, <3>1, <4>1 DEF Taken
      <4>2. CASE h # f
        BY Zenon, <1>6, <3>1, <4>2 DEF Taken
      <4> QED
        BY Zenon, <4>1, <4>2
    <3>2. ASSUME NEW n \in Taken(B, s) PROVE n \in Taken(C, s)
      <4>1. PICK h \in Carried(B, s) : n \in Span(h)
        BY Zenon, <3>2, TakenIs
      <4> QED
        BY Zenon, <3>1, <4>1
    <3> QED
      BY Zenon, <3>2
  <2>2. (\E h \in Carried(B, s) : h.fin) => \E h \in Carried(C, s) : h.fin
    BY Zenon, <1>2, <1>6, <1>7
  <2> QED
    BY Zenon, <1>1, <2>1, <2>2 DEF Accounted
<1>9. \A h \in Carried(C, s) :
         (h = g => f \in Carried(B, s)) /\ (h # g => h \in Carried(B, s) /\ h \in B1)
  <2>1. ASSUME g \in Carried(C, s) PROVE f \in Carried(B, s)
    BY Zenon, <1>2, <2>1 DEF Carried
  <2>2. ASSUME NEW h \in Carried(C, s), h # g PROVE h \in Carried(B, s) /\ h \in B1
    BY Zenon, <2>2 DEF Carried, Less
  <2> QED
    BY Zenon, <2>1, <2>2
<1>10. ASSUME ~Crypto
       PROVE  /\ Offsets(d.lost) \cap Taken(C, s) = {}
              /\ \A h, k \in Carried(C, s) : h # k => Span(h) \cap Span(k) = {}
  <2>1. /\ Offsets(d.lost) \cap Taken(B, s) = {}
        /\ \A h, k \in Carried(B, s) : h # k => Span(h) \cap Span(k) = {}
    BY Zenon, <1>1, <1>10 DEF Once
  <2>2. Taken(C, s) \subseteq Taken(B, s)
    <3>1. ASSUME NEW n \in Taken(C, s) PROVE n \in Taken(B, s)
      <4>1. PICK h \in Carried(C, s) : n \in Span(h)
        BY Zenon, <3>1, TakenIs
      <4>2. CASE h = g
        BY Zenon, <1>3, <1>9, <4>1, <4>2, TakenIs
      <4>3. CASE h # g
        BY Zenon, <1>9, <4>1, <4>3, TakenIs
      <4> QED
        BY Zenon, <4>2, <4>3
    <3> QED
      BY Zenon, <3>1
  <2>3. ASSUME NEW h \in Carried(C, s), h # g PROVE h # f
    <3>1. h \in B1
      BY Zenon, <1>9, <2>3
    <3> QED
      BY Zenon, <3>1 DEF Less
  <2>4. ASSUME g \in Carried(C, s), NEW h \in Carried(C, s), h # g, NEW n, n \in Span(h), n \in Span(g) PROVE FALSE
    <3>1. h # f /\ h \in Carried(B, s) /\ f \in B
      BY Zenon, <1>9, <2>3, <2>4
    <3>2. f \in Carried(B, s) => Span(h) \cap Span(f) = {}
      BY Zenon, <2>1, <3>1
    <3>3. f \in Carried(B, s)
      BY Zenon, <1>9, <2>4
    <3> QED
      BY Zenon, <1>3, <2>4, <3>2, <3>3
  <2>6. \A h, k \in Carried(C, s) : h # k => Span(h) \cap Span(k) = {}
    <3>1. ASSUME NEW h \in Carried(C, s), NEW k \in Carried(C, s), h # k, NEW n, n \in Span(h), n \in Span(k)
          PROVE  FALSE
      <4>1. CASE h = g
        BY Zenon, <2>4, <3>1, <4>1
      <4>2. CASE k = g
        BY Zenon, <2>4, <3>1, <4>2
      <4>3. CASE h # g /\ k # g
        BY Zenon, <1>9, <2>1, <3>1, <4>3
      <4> QED
        BY Zenon, <4>1, <4>2, <4>3
    <3> QED
      BY Zenon, <3>1
  <2> QED
    BY Zenon, <2>1, <2>2, <2>6
<1>11. Once(s, d, C)
  BY Zenon, <1>10 DEF Once
<1> QED
  BY Zenon, <1>1, <1>4, <1>5, <1>8, <1>11 DEF StreamOK

-----------------------------------------------------------------------------
(* The bytes writeOneStream may take are in the buffer: lost ones are all   *)
(* lost, and new ones within both limits.                                   *)
LEMMA AvailableIs ==
    ASSUME NEW d \in Halves, Ordered(d), sentBytes \in Nat, sendLimit \in Nat, ~Crypto => sentBytes <= sendLimit
    PROVE  /\ Offset(d) \in Nat /\ Available(d) \in Nat
           /\ d.base <= Offset(d) /\ Offset(d) + Available(d) <= d.written
           /\ Retransmits(d) =>
                 /\ Offset(d) + Available(d) <= d.sent
                 /\ \A n \in Nat : Offset(d) <= n /\ n < Offset(d) + Available(d) => n \in Offsets(d.lost)
           /\ ~Retransmits(d) =>
                 /\ Offset(d) = d.sent
                 /\ ~Crypto => d.sent + Available(d) <= d.limit /\ sentBytes + Available(d) <= sendLimit
<1>1. d.lost \in Lists /\ d.base \in Nat /\ d.sent \in Nat /\ d.written \in Nat /\ d.limit \in Nat
  BY Zenon, HalfType
<1>2. /\ d.base <= d.sent /\ d.sent <= d.written /\ (~Crypto => d.sent <= d.limit)
      /\ 0..d.base - 1 \subseteq Offsets(d.acked)
      /\ Offsets(d.lost) \subseteq 0..d.sent - 1
      /\ Offsets(d.lost) \cap Offsets(d.acked) = {}
  BY Zenon DEF Ordered
<1>3. CASE Retransmits(d)
  <2> DEFINE low == d.lost[1].low  high == d.lost[1].high
  <2>1. Offset(d) = low /\ Available(d) = high - low
    BY Zenon, <1>3 DEF Offset, Available
  <2>2. d.lost \in Seq(Ranges) /\ Len(d.lost) \in Nat
    BY Zenon, <1>1, ListType
  <2>3. Len(d.lost) # 0
    BY Zenon, <1>3, <2>2, EmptySeq DEF Retransmits
  <2>4. 1 \in 1..Len(d.lost)
    BY <2>2, <2>3
  <2>5. low \in Nat /\ high \in Nat /\ low < high
    BY Zenon, <1>1, <2>4, ListType
  <2>6. ASSUME NEW n \in Nat, low <= n, n < high PROVE n \in Offsets(d.lost)
    BY Zenon, <1>1, <2>4, <2>6, OffsetsAre DEF Holds, Elems
  <2> HIDE DEF low, high
  <2>7. high <= d.sent
    <3>1. high - 1 \in Nat /\ low <= high - 1 /\ high - 1 < high
      BY <2>5
    <3>2. high - 1 \in 0..d.sent - 1
      BY Zenon, <1>2, <2>6, <3>1
    <3> QED
      BY <1>1, <2>5, <3>2
  <2>8. d.base <= low
    <3>1. low \in Offsets(d.lost)
      <4>1. low <= low
        BY <2>5
      <4> QED
        BY Zenon, <2>5, <2>6, <4>1
    <3>2. low \notin 0..d.base - 1
      BY Zenon, <1>2, <3>1
    <3> QED
      BY <1>1, <2>5, <3>2
  <2>9. /\ Offset(d) \in Nat /\ Available(d) \in Nat /\ Offset(d) + Available(d) = high
        /\ Offset(d) + Available(d) <= d.written
    BY <1>1, <1>2, <2>1, <2>5, <2>7
  <2> QED
    BY Zenon, <1>3, <2>1, <2>6, <2>7, <2>8, <2>9
<1>4. CASE ~Retransmits(d)
  <2> DEFINE room == IF sendLimit > sentBytes THEN sendLimit - sentBytes ELSE 0
             avail == IF Crypto THEN pending(d) ELSE Lesser(pending(d), Lesser(window(d), room))
  <2>1. Offset(d) = d.sent /\ Available(d) = avail
    BY Zenon, <1>4 DEF Offset, Available
  <2>2. pending(d) \in Nat /\ d.sent + pending(d) = d.written
    BY <1>1, <1>2 DEF pending
  <2>3. window(d) \in Nat /\ (~Crypto => d.sent + window(d) = d.limit)
    BY <1>1, <1>2 DEF window
  <2>4. room \in Nat /\ (~Crypto => sentBytes + room = sendLimit)
    BY SMT
  <2> HIDE DEF room
  <2>5. /\ avail \in Nat /\ avail <= pending(d)
        /\ ~Crypto => avail <= window(d) /\ avail <= room
    BY <2>2, <2>3, <2>4 DEF Lesser
  <2> HIDE DEF avail
  <2>6. d.sent + avail <= d.written
    BY <1>1, <2>2, <2>5
  <2>7. ~Crypto => d.sent + avail <= d.limit /\ sentBytes + avail <= sendLimit
    BY <1>1, <2>3, <2>4, <2>5
  <2> QED
    BY Zenon, <1>1, <1>2, <1>4, <2>1, <2>5, <2>6, <2>7
<1> QED
  BY Zenon, <1>3, <1>4

(* The half after a frame: what was taken from the lost bytes, and how far  *)
(* it has sent.                                                             *)
LEMMA WroteIs ==
    ASSUME NEW d \in Halves, Ordered(d), sentBytes \in Nat, sendLimit \in Nat, ~Crypto => sentBytes <= sendLimit,
           NEW length \in Nat, length <= Available(d)
    PROVE  LET w == Wrote(d, length)
               a == [w EXCEPT !.writable = owes(w)]
               X == Offset(d)..(Offset(d) + length) - 1
           IN  /\ a \in Halves /\ a.base = d.base /\ a.acked = d.acked /\ a.written = d.written
               /\ a.limit = d.limit /\ a.finQueued = d.finQueued /\ a.finAcked = d.finAcked
               /\ a.reset = d.reset /\ a.finSent = (d.finSent \/ FinOn(d, length))
               /\ Retransmits(d) => a.sent = d.sent /\ X \subseteq Offsets(d.lost)
               /\ ~Retransmits(d) => a.sent = d.sent + length /\ Offset(d) = d.sent
               /\ Offsets(a.lost) = Offsets(d.lost) \ X
               /\ Offset(d) + length <= a.sent /\ d.sent <= a.sent /\ Ordered(a)
<1> DEFINE off == Offset(d)
           av == Available(d)
           w == Wrote(d, length)
           a == [w EXCEPT !.writable = owes(w)]
           h == off + length
           L == IF Retransmits(d) THEN subtract(d.lost, off, h) ELSE d.lost
           t == Greater(d.sent, h)
           fin == d.finSent \/ FinOn(d, length)
           X == off..h - 1
<1>1. /\ d.lost \in Lists /\ d.base \in Nat /\ d.sent \in Nat /\ d.written \in Nat /\ d.limit \in Nat
      /\ d.finSent \in BOOLEAN
  BY Zenon, HalfType
<1>2. /\ d.base <= d.sent /\ d.sent <= d.written /\ (~Crypto => d.sent <= d.limit)
      /\ 0..d.base - 1 \subseteq Offsets(d.acked)
      /\ Offsets(d.acked) \subseteq 0..d.sent - 1
      /\ Offsets(d.lost) \subseteq 0..d.sent - 1
      /\ Offsets(d.lost) \cap Offsets(d.acked) = {}
  BY Zenon DEF Ordered
<1>3. /\ off \in Nat /\ av \in Nat /\ off + av <= d.written
      /\ Retransmits(d) => off + av <= d.sent /\ \A n \in Nat : off <= n /\ n < off + av => n \in Offsets(d.lost)
      /\ ~Retransmits(d) => off = d.sent /\ (~Crypto => d.sent + av <= d.limit)
  BY Zenon, AvailableIs
<1>4. length <= av
  BY Zenon
<1>5. w = [d EXCEPT !.lost = L, !.sent = t, !.finSent = fin]
  BY Zenon DEF Wrote
<1> HIDE DEF off, av
<1>6. off + length \in Nat /\ off + length <= d.written /\ (Retransmits(d) => off + length <= d.sent)
  BY <1>1, <1>3, <1>4
<1>7. t \in Nat /\ d.sent <= t /\ off + length <= t /\ t <= d.written
  BY <1>1, <1>2, <1>3, <1>6 DEF Greater
<1>8. (Retransmits(d) => t = d.sent) /\ (~Retransmits(d) => t = d.sent + length)
  BY <1>1, <1>3, <1>6 DEF Greater
<1>9. ~Crypto => t <= d.limit
  BY <1>1, <1>2, <1>3, <1>4, <1>8
<1>10. Retransmits(d) => X \subseteq Offsets(d.lost)
  <2>1. \A n \in X : n \in Nat /\ off <= n /\ n < off + av
    BY <1>3, <1>4
  <2> QED
    BY Zenon, <1>3, <2>1
<1> HIDE DEF h
<1>11. L \in Lists /\ Offsets(L) = Offsets(d.lost) \ X
  <2>1. CASE Retransmits(d)
    <3>1. h \in Nat /\ off \in Nat /\ d.lost \in Lists
      BY Zenon, <1>1, <1>3, <1>6 DEF h
    <3>2. subtract(d.lost, off, h) \in Lists /\ Offsets(subtract(d.lost, off, h)) = Offsets(d.lost) \ X
      BY Zenon, <3>1, SubtractOffsets
    <3> QED
      BY Zenon, <2>1, <3>2
  <2>2. CASE ~Retransmits(d)
    <3>1. \A n \in X : n \notin 0..d.sent - 1
      BY <1>1, <1>3, <2>2 DEF h
    <3>2. Offsets(d.lost) = Offsets(d.lost) \ X
      BY Zenon, <1>2, <3>1
    <3> QED
      BY Zenon, <1>1, <2>2, <3>2
  <2> QED
    BY Zenon, <2>1, <2>2
<1>12. fin \in BOOLEAN
  BY Zenon
<1> HIDE DEF w, L, t, fin
<1>13. w \in Halves
  BY Zenon, <1>5, <1>7, <1>11, <1>12 DEF Halves
<1>14. owes(w) \in BOOLEAN
  BY Zenon DEF owes
<1> DEFINE o == owes(w)
<1>15. a \in Halves
  <2> HIDE DEF o
  <2>1. [w EXCEPT !.writable = o] \in Halves
    BY Zenon, <1>13, <1>14 DEF Halves, o
  <2> QED
    BY Zenon, <2>1 DEF o
<1>16. /\ a.base = d.base /\ a.acked = d.acked /\ a.written = d.written
       /\ a.limit = d.limit /\ a.finQueued = d.finQueued /\ a.finAcked = d.finAcked
       /\ a.reset = d.reset /\ a.finSent = fin /\ a.sent = t /\ a.lost = L
  <2> HIDE DEF o
  <2> DEFINE c == [w EXCEPT !.writable = o]
  <2>1. /\ c.base = d.base /\ c.acked = d.acked /\ c.written = d.written
        /\ c.limit = d.limit /\ c.finQueued = d.finQueued /\ c.finAcked = d.finAcked
        /\ c.reset = d.reset /\ c.finSent = fin /\ c.sent = t /\ c.lost = L
    BY Zenon, <1>5 DEF Halves
  <2> QED
    BY Zenon, <2>1 DEF o
<1> HIDE DEF a
<1>17. Ordered(a)
  <2>1. a.base <= a.sent
    BY <1>1, <1>2, <1>7, <1>16
  <2>2. 0..d.sent - 1 \subseteq 0..a.sent - 1
    BY <1>1, <1>7, <1>16
  <2>3. a.sent <= a.written /\ (~Crypto => a.sent <= a.limit)
    BY Zenon, <1>7, <1>9, <1>16
  <2>4. Offsets(a.lost) \subseteq Offsets(d.lost)
    BY Zenon, <1>11, <1>16
  <2>5. Offsets(a.acked) = Offsets(d.acked) /\ 0..a.base - 1 = 0..d.base - 1
    BY Zenon, <1>16
  <2> QED
    BY ZenonT(30), <1>2, <2>1, <2>2, <2>3, <2>4, <2>5 DEF Ordered
<1>18. (~Retransmits(d) => a.sent = d.sent + length /\ off = d.sent) /\ (Retransmits(d) => a.sent = d.sent)
  BY Zenon, <1>3, <1>8, <1>16
<1>19. Offsets(a.lost) = Offsets(d.lost) \ X /\ h <= a.sent /\ d.sent <= a.sent
  BY Zenon, <1>7, <1>11, <1>16 DEF h
<1>20. Retransmits(d) => off..(off + length) - 1 \subseteq Offsets(d.lost)
  BY Zenon, <1>10 DEF h
<1>21. /\ Offsets(a.lost) = Offsets(d.lost) \ (off..(off + length) - 1)
       /\ off + length <= a.sent /\ d.sent <= a.sent
  BY Zenon, <1>19 DEF h
<1> QED
  BY Zenon, <1>15, <1>16, <1>17, <1>18, <1>20, <1>21 DEF a, w, off, fin

After(d, length) == [Wrote(d, length) EXCEPT !.writable = owes(Wrote(d, length))]
Claims(d, length, e) == IF FinOn(d, length) THEN e \cup {Offset(d) + length} ELSE e

(* A frame f of so many of the stream's bytes joins the packets of B.       *)
Sends(s, d, B, C, p, e, length, f) ==
    /\ s \in Streams /\ d \in Halves /\ p \in Peers /\ StreamOK(s, d, B, p, e) /\ B \subseteq Frames
    /\ sentBytes \in Nat /\ sendLimit \in Nat /\ (~Crypto => sentBytes <= sendLimit)
    /\ length \in Nat /\ length <= Available(d)
    /\ f \in Frames /\ f.stream = s /\ f.kind = "stream" /\ f.low = Offset(d) /\ f.high = Offset(d) + length
    /\ f.fin = FinOn(d, length) /\ ~f.arrived
    /\ C = B \cup {f}

(* A frame of a stream's bytes, put in a packet.                            *)
LEMMA SentOK ==
    ASSUME NEW s, NEW d, NEW B, NEW C, NEW p, NEW e, NEW length, NEW f, Sends(s, d, B, C, p, e, length, f)
    PROVE  After(d, length) \in Halves /\ StreamOK(s, After(d, length), C, p, Claims(d, length, e))
<1>0. /\ s \in Streams /\ d \in Halves /\ p \in Peers /\ StreamOK(s, d, B, p, e) /\ B \subseteq Frames
      /\ sentBytes \in Nat /\ sendLimit \in Nat /\ (~Crypto => sentBytes <= sendLimit)
      /\ length \in Nat /\ length <= Available(d)
      /\ f \in Frames /\ f.stream = s /\ f.kind = "stream" /\ f.low = Offset(d) /\ f.high = Offset(d) + length
      /\ f.fin = FinOn(d, length) /\ ~f.arrived
      /\ C = B \cup {f}
  BY Zenon DEF Sends
<1> DEFINE off == Offset(d)
           w == Wrote(d, length)
           a == [w EXCEPT !.writable = owes(w)]
           fin == FinOn(d, length)
           top == off + length
           e2 == IF fin THEN e \cup {top} ELSE e
           X == off..top - 1
<1>1. Ordered(d) /\ Settled(d, p) /\ Accounted(s, d, B) /\ Once(s, d, B) /\ Told(d, e)
  BY Zenon, <1>0 DEF StreamOK
<1>2. /\ a \in Halves /\ a.base = d.base /\ a.acked = d.acked /\ a.written = d.written
      /\ a.limit = d.limit /\ a.finQueued = d.finQueued /\ a.finAcked = d.finAcked
      /\ a.reset = d.reset /\ a.finSent = (d.finSent \/ fin)
      /\ Retransmits(d) => a.sent = d.sent /\ X \subseteq Offsets(d.lost)
      /\ ~Retransmits(d) => a.sent = d.sent + length /\ off = d.sent
      /\ Offsets(a.lost) = Offsets(d.lost) \ X
      /\ off + length <= a.sent /\ d.sent <= a.sent /\ Ordered(a)
  BY Zenon, <1>0, <1>1, WroteIs
<1>3. off \in Nat
  BY Zenon, <1>0, <1>1, AvailableIs
<1>4. fin => d.finQueued /\ off + length = d.written
  BY Zenon DEF FinOn, FinPending
<1>5. fin \in BOOLEAN
  BY Zenon DEF FinOn
<1>6. d.sent \in Nat /\ a.sent \in Nat /\ d.written \in Nat
  BY Zenon, <1>0, <1>2, HalfType
<1>7. top \in Nat /\ off <= top
  BY <1>0, <1>3
<1>8. f.low = off /\ f.high = top /\ f.fin = fin
  BY Zenon, <1>0
<1> HIDE DEF off, fin, w, a
<1>9. \A n \in 0..a.sent - 1 : n \in 0..d.sent - 1 \/ n \in X
  <2>1. Retransmits(d) => a.sent = d.sent
    BY Zenon, <1>2
  <2>2. ~Retransmits(d) => a.sent = d.sent + length /\ off = d.sent
    BY Zenon, <1>2
  <2> QED
    BY <1>3, <1>6, <2>1, <2>2
<1>10. top <= a.sent
  BY Zenon, <1>2
<1> HIDE DEF top
<1>11. Span(f) = X
  BY Zenon, <1>8 DEF Span
<1>12. ~Retransmits(d) => \A n \in X : n \notin 0..d.sent - 1
  <2>1. ~Retransmits(d) => off = d.sent
    BY Zenon, <1>2
  <2> QED
    BY <1>6, <2>1
<1> HIDE DEF X
<1>13. \A g \in C : g.stream = s => Framed(a, p, g)
  <2>1. ASSUME NEW g \in B, g.stream = s PROVE Framed(a, p, g)
    <3>1. Framed(d, p, g) /\ g \in Frames
      BY Zenon, <1>0, <2>1 DEF StreamOK
    <3>2. g.high \in Nat
      BY Zenon, <3>1, FrameType
    <3>3. g.high <= d.sent => g.high <= a.sent
      <4>1. d.sent <= a.sent
        BY Zenon, <1>2
      <4> QED
        BY <1>6, <3>2, <4>1
    <3> QED
      BY Zenon, <1>2, <3>1, <3>3 DEF Framed
  <2>2. Framed(a, p, f)
    BY Zenon, <1>0, <1>2, <1>4, <1>7, <1>8, <1>10 DEF Framed, top
  <2> QED
    BY Zenon, <1>0, <2>1, <2>2
<1>14. Settled(a, p)
  BY Zenon, <1>1, <1>2 DEF Settled
<1>15. f \in Carried(C, s) /\ Carried(B, s) \subseteq Carried(C, s)
  BY Zenon, <1>0 DEF Carried
<1>16. \A g \in Carried(C, s) : g = f \/ g \in Carried(B, s)
  BY Zenon, <1>0 DEF Carried
<1>17. \A n : n \in Taken(C, s) <=> n \in Taken(B, s) \/ n \in X
  <2>1. ASSUME NEW n, n \in Taken(C, s) PROVE n \in Taken(B, s) \/ n \in X
    BY Zenon, <1>11, <1>16, <2>1, TakenIs
  <2>2. ASSUME NEW n, n \in X PROVE n \in Taken(C, s)
    BY Zenon, <1>11, <1>15, <2>2, TakenIs
  <2>3. ASSUME NEW n, n \in Taken(B, s) PROVE n \in Taken(C, s)
    <3>1. PICK g \in Carried(B, s) : n \in Span(g)
      BY Zenon, <2>3, TakenIs
    <3> QED
      BY Zenon, <1>15, <3>1, TakenIs
  <2> QED
    BY Zenon, <2>1, <2>2, <2>3
<1>18. Accounted(s, a, C)
  <2>1. ASSUME NEW n \in 0..a.sent - 1 PROVE n \in Offsets(a.acked) \cup Taken(C, s) \cup Offsets(a.lost)
    <3>1. n \in 0..d.sent - 1 => n \in Offsets(d.acked) \cup Taken(B, s) \cup Offsets(d.lost)
      BY Zenon, <1>1 DEF Accounted
    <3>2. Offsets(a.acked) = Offsets(d.acked) /\ Offsets(a.lost) = Offsets(d.lost) \ X
      BY Zenon, <1>2
    <3> QED
      BY Zenon, <1>9, <1>17, <3>1, <3>2
  <2>2. ASSUME a.finSent PROVE a.finAcked \/ \E g \in Carried(C, s) : g.fin
    <3>1. CASE fin
      BY Zenon, <1>8, <1>15, <3>1
    <3>2. CASE ~fin
      <4>1. d.finSent
        BY Zenon, <1>2, <2>2, <3>2
      <4>2. d.finAcked \/ \E g \in Carried(B, s) : g.fin
        BY Zenon, <1>1, <4>1 DEF Accounted
      <4> QED
        BY Zenon, <1>2, <1>15, <4>2
    <3> QED
      BY Zenon, <3>1, <3>2
  <2> QED
    BY Zenon, <2>1, <2>2 DEF Accounted
<1>19. ASSUME ~Crypto
       PROVE  /\ Offsets(a.lost) \cap Taken(C, s) = {}
              /\ \A h, g \in Carried(C, s) : h # g => Span(h) \cap Span(g) = {}
  <2>1. /\ Offsets(d.lost) \cap Taken(B, s) = {}
        /\ \A h, g \in Carried(B, s) : h # g => Span(h) \cap Span(g) = {}
    BY Zenon, <1>1, <1>19 DEF Once
  <2>2. Offsets(a.lost) = Offsets(d.lost) \ X
    BY Zenon, <1>2
  <2>3. ASSUME NEW n, n \in X, n \in Taken(B, s) PROVE FALSE
    <3>1. PICK g \in Carried(B, s) : n \in Span(g)
      BY Zenon, <2>3, TakenIs
    <3>2. g \in Frames /\ Framed(d, p, g) /\ g.kind = "stream"
      BY Zenon, <1>0 DEF StreamOK, Carried
    <3>3. g.high <= d.sent /\ g.high \in Nat /\ n \in Nat /\ n < g.high
      BY Zenon, <3>1, <3>2, FrameType DEF Framed
    <3>4. n \in 0..d.sent - 1
      BY <1>6, <3>3
    <3>5. Retransmits(d)
      BY Zenon, <1>12, <2>3, <3>4
    <3>6. n \in Offsets(d.lost)
      BY Zenon, <1>2, <2>3, <3>5
    <3> QED
      BY Zenon, <2>1, <2>3, <3>6
  <2>4. Offsets(a.lost) \cap Taken(C, s) = {}
    BY Zenon, <1>17, <2>1, <2>2
  <2>5. ASSUME NEW g \in Carried(B, s), NEW n, n \in Span(g), n \in X PROVE FALSE
    BY Zenon, <2>3, <2>5, TakenIs
  <2>6. ASSUME NEW h \in Carried(C, s), NEW g \in Carried(C, s), h # g, NEW n, n \in Span(h), n \in Span(g)
        PROVE  FALSE
    <3>1. CASE h = f
      BY Zenon, <1>11, <1>16, <2>5, <2>6, <3>1
    <3>2. CASE g = f
      BY Zenon, <1>11, <1>16, <2>5, <2>6, <3>2
    <3>3. CASE h # f /\ g # f
      BY Zenon, <1>16, <2>1, <2>6, <3>3
    <3> QED
      BY Zenon, <3>1, <3>2, <3>3
  <2>8. \A h, g \in Carried(C, s) : h # g => Span(h) \cap Span(g) = {}
    BY Zenon, <2>6
  <2> QED
    BY Zenon, <2>4, <2>8
<1>20. Once(s, a, C)
  BY Zenon, <1>19 DEF Once
<1>21. Told(a, e2)
  <2>1. e \subseteq {d.written} /\ (e # {} => d.reset \/ d.finQueued)
    BY Zenon, <1>1 DEF Told
  <2>2. e2 \subseteq {d.written}
    BY Zenon, <1>4, <2>1 DEF top
  <2>3. e2 # {} => d.reset \/ d.finQueued
    BY Zenon, <1>4, <2>1 DEF top
  <2> HIDE DEF e2
  <2> QED
    BY Zenon, <1>2, <2>2, <2>3 DEF Told
<1>22. StreamOK(s, a, C, p, e2)
  <2> HIDE DEF e2
  <2>1. Ordered(a)
    BY Zenon, <1>2
  <2> QED
    BY Zenon, <1>13, <1>14, <1>18, <1>20, <1>21, <2>1 DEF StreamOK
<1> QED
  BY Zenon, <1>2, <1>22 DEF a, w, off, fin, top, After, Claims

-----------------------------------------------------------------------------
(* A frame as writeOneStream makes it.                                      *)
LEMMA FrameIs ==
    ASSUME NEW s \in Streams, NEW kind \in Kinds, NEW low \in Nat, NEW high \in Nat, NEW fin \in Modes,
           NEW n \in Nat
    PROVE  LET f == [Frame(s, kind, low, high, fin) EXCEPT !.copy = n] IN
           /\ f \in Frames /\ f.stream = s /\ f.kind = kind /\ f.low = low /\ f.high = high
           /\ f.fin = fin /\ ~f.arrived
<1>1. FALSE \in BOOLEAN
  BY Zenon
<1> QED
  BY Zenon, <1>1 DEF Frame, Frames, Modes

(* A step that changes one stream keeps the others.                         *)
LEMMA Assemble ==
    ASSUME SendInv, NEW s \in Streams, Types',
           \A t \in Streams : t # s => send'[t] = send[t] /\ peer'[t] = peer[t] /\ ends'[t] = ends[t],
           \A f \in flight' : f.stream # s => f \in flight,
           \A f \in flight : f.stream # s => f \in flight',
           StreamOK(s, send'[s], flight', peer'[s], ends'[s]),
           ~Crypto => sentBytes' <= sendLimit'
    PROVE  SendInv'
<1>1. ASSUME NEW t \in Streams, t # s PROVE StreamOK(t, send'[t], flight', peer'[t], ends'[t])
  <2>1. StreamOK(t, send[t], flight, peer[t], ends[t])
    BY Zenon DEF SendInv
  <2>2. send[t] \in Halves /\ peer[t] \in Peers
    BY Zenon DEF SendInv, Types
  <2>3. \A f \in flight' : f.stream = t => f \in flight
    BY Zenon, <1>1
  <2>4. \A f \in flight : f.stream = t => f \in flight'
    BY Zenon, <1>1
  <2>5. StreamOK(t, send[t], flight', peer[t], ends[t])
    BY Zenon, <2>1, <2>2, <2>3, <2>4, OtherOK
  <2> QED
    BY Zenon, <1>1, <2>5
<1>2. \A t \in Streams : StreamOK(t, send'[t], flight', peer'[t], ends'[t])
  BY Zenon, <1>1
<1> QED
  BY Zenon, <1>2 DEF SendInv

(* The same, when only the half changes.                                    *)
LEMMA AssembleHalf ==
    ASSUME SendInv, NEW s \in Streams, NEW a \in Halves, send' = [send EXCEPT ![s] = a],
           StreamOK(s, a, flight, peer[s], ends[s]),
           UNCHANGED <<sentBytes, sendLimit, flight, peer, ends>>
    PROVE  SendInv'
<1>1. send \in [Streams -> Halves]
  BY Zenon DEF SendInv, Types
<1>2. send'[s] = a /\ (\A t \in Streams : t # s => send'[t] = send[t]) /\ send' \in [Streams -> Halves]
  BY Zenon, <1>1
<1>3. Types'
  BY Zenon, <1>2 DEF SendInv, Types
<1>4. \A t \in Streams : t # s => send'[t] = send[t] /\ peer'[t] = peer[t] /\ ends'[t] = ends[t]
  BY Zenon, <1>2
<1>5. StreamOK(s, send'[s], flight', peer'[s], ends'[s])
  BY Zenon, <1>2
<1>6. ~Crypto => sentBytes' <= sendLimit'
  BY Zenon DEF SendInv
<1> QED
  BY Zenon, <1>3, <1>4, <1>5, <1>6, Assemble

(* The application's steps, and the peer's limits.                          *)
LEMMA WriteKeeps ==
    ASSUME SendInv, SendConstants, NEW s \in Streams, write(s)
    PROVE  SendInv'
<1> DEFINE d == send[s]
<1>1. d \in Halves /\ peer[s] \in Peers /\ StreamOK(s, d, flight, peer[s], ends[s])
  BY Zenon DEF SendInv, Types
<1>2. PICK n \in 0..MaxWritten - d.written, fin \in BOOLEAN :
         /\ ~d.reset /\ ~d.finQueued
         /\ send' = [send EXCEPT ![s] = [d EXCEPT !.written = @ + n, !.finQueued = fin, !.writable = TRUE]]
         /\ UNCHANGED <<sentBytes, sendLimit, flight, peer, ends>>
  BY Zenon DEF write
<1>3. n \in Nat
  <2>1. MaxWritten \in Nat /\ d.written \in Nat
    BY Zenon, <1>1, HalfType DEF SendConstants
  <2> QED
    BY <2>1
<1> DEFINE a == [d EXCEPT !.written = @ + n, !.finQueued = fin, !.writable = TRUE]
<1>4. a \in Halves /\ StreamOK(s, a, flight, peer[s], ends[s])
  BY Zenon, <1>1, <1>2, <1>3, WrittenOK
<1>5. send' = [send EXCEPT ![s] = a] /\ UNCHANGED <<sentBytes, sendLimit, flight, peer, ends>>
  BY Zenon, <1>2
<1> HIDE DEF a
<1> QED
  BY Zenon, <1>4, <1>5, AssembleHalf

(* A reset.                                                                 *)
LEMMA ResetKeeps ==
    ASSUME SendInv, NEW s \in Streams, resetStream(s)
    PROVE  SendInv'
<1> DEFINE d == send[s]
           a == [d EXCEPT !.reset = TRUE, !.writable = TRUE]
<1>1. d \in Halves /\ peer[s] \in Peers /\ StreamOK(s, d, flight, peer[s], ends[s]) /\ send \in [Streams -> Halves]
  BY Zenon DEF SendInv, Types
<1>2. send' = [send EXCEPT ![s] = a]
  <2>1. send' = [send EXCEPT ![s].reset = TRUE, ![s].writable = TRUE]
    BY Zenon DEF resetStream
  <2> QED
    BY Zenon, <1>1, <2>1
<1>3. /\ a \in Halves /\ a.base = d.base /\ a.sent = d.sent /\ a.written = d.written /\ a.acked = d.acked
      /\ a.lost = d.lost /\ a.finQueued = d.finQueued /\ a.finSent = d.finSent /\ a.finAcked = d.finAcked
      /\ a.reset = TRUE /\ a.limit = d.limit
  BY Zenon, <1>1 DEF Halves
<1> HIDE DEF a
<1>4. ~Crypto => a.sent <= a.limit
  BY Zenon, <1>1, <1>3 DEF StreamOK, Ordered
<1>5. StreamOK(s, a, flight, peer[s], ends[s])
  BY Zenon, <1>1, <1>3, <1>4, SameOK
<1> QED
  BY Zenon, <1>2, <1>3, <1>5, AssembleHalf DEF resetStream

(* A raised limit of a stream.                                              *)
LEMMA LimitKeeps ==
    ASSUME SendInv, NEW s \in Streams, NEW limit \in Nat, maxStreamData(s, limit)
    PROVE  SendInv'
<1> DEFINE d == send[s]
           a == [d EXCEPT !.limit = limit, !.writable = TRUE]
<1>1. d \in Halves /\ peer[s] \in Peers /\ StreamOK(s, d, flight, peer[s], ends[s]) /\ send \in [Streams -> Halves]
  BY Zenon DEF SendInv, Types
<1>2. send' = [send EXCEPT ![s] = a]
  <2>1. send' = [send EXCEPT ![s].limit = limit, ![s].writable = TRUE]
    BY Zenon DEF maxStreamData
  <2> QED
    BY Zenon, <1>1, <2>1
<1>3. /\ a \in Halves /\ a.base = d.base /\ a.sent = d.sent /\ a.written = d.written /\ a.acked = d.acked
      /\ a.lost = d.lost /\ a.finQueued = d.finQueued /\ a.finSent = d.finSent /\ a.finAcked = d.finAcked
      /\ a.reset = d.reset /\ a.limit = limit
  BY Zenon, <1>1 DEF Halves
<1>4. ~Crypto => a.sent <= a.limit
  <2>1. (~Crypto => d.sent <= d.limit) /\ d.limit < limit /\ d.sent \in Nat /\ d.limit \in Nat
    BY Zenon, <1>1, HalfType DEF StreamOK, Ordered, maxStreamData
  <2> HIDE DEF d, a
  <2> QED
    BY <1>3, <2>1
<1> HIDE DEF a
<1>5. StreamOK(s, a, flight, peer[s], ends[s])
  BY Zenon, <1>1, <1>3, <1>4, SameOK
<1> QED
  BY Zenon, <1>2, <1>3, <1>5, AssembleHalf DEF maxStreamData

(* A raised limit of the connection.                                        *)
LEMMA DataKeeps ==
    ASSUME SendInv, NEW limit \in Nat, maxData(limit)
    PROVE  SendInv'
<1>1. Types'
  BY Zenon DEF maxData, SendInv, Types
<1>2. ~Crypto => sentBytes' <= sendLimit'
  <2>1. /\ sentBytes \in Nat /\ sendLimit \in Nat /\ (~Crypto => sentBytes <= sendLimit)
        /\ sendLimit < limit /\ sendLimit' = limit /\ sentBytes' = sentBytes
    BY Zenon DEF maxData, SendInv, Types
  <2> QED
    BY <2>1
<1>3. \A t \in Streams : StreamOK(t, send'[t], flight', peer'[t], ends'[t])
  BY Zenon DEF maxData, SendInv
<1> QED
  BY Zenon, <1>1, <1>2, <1>3 DEF SendInv

(* A probe timeout.                                                         *)
LEMMA ProbeKeeps ==
    ASSUME SendInv, NEW s \in Streams, onProbeTimeout(s)
    PROVE  SendInv'
<1> DEFINE d == send[s]
           a == [declareLost(d, d.base, d.sent) EXCEPT !.writable = TRUE]
<1>1. d \in Halves /\ peer[s] \in Peers /\ StreamOK(s, d, flight, peer[s], ends[s])
  BY Zenon DEF SendInv, Types
<1>2. Crypto /\ send' = [send EXCEPT ![s] = a] /\ UNCHANGED <<sentBytes, sendLimit, flight, peer, ends>>
  BY Zenon DEF onProbeTimeout
<1>3. a \in Halves /\ StreamOK(s, a, flight, peer[s], ends[s])
  BY Zenon, <1>1, <1>2, ProbedOK
<1> HIDE DEF a
<1> QED
  BY Zenon, <1>2, <1>3, AssembleHalf

-----------------------------------------------------------------------------
(* A copy is a number.                                                      *)
LEMMA CopyIs == \A S, n : n \in (1..MaxFlight) \ S => n \in Nat
<1>1. \A n \in 1..MaxFlight : n \in Nat
  OBVIOUS
<1> QED
  BY Zenon, <1>1

(* One packet more: what there was of the other streams is there still.     *)
LEMMA Launched ==
    ASSUME SendInv, NEW s \in Streams, NEW f \in Frames, f.stream = s, flight' = flight \cup {f}
    PROVE  /\ flight' \subseteq Frames
           /\ \A g \in flight' : g.stream # s => g \in flight
           /\ \A g \in flight : g.stream # s => g \in flight'
  BY Zenon DEF SendInv, Types

(* One packet less.                                                         *)
LEMMA Landed ==
    ASSUME SendInv, NEW f \in flight, flight' = flight \ {f}
    PROVE  /\ flight' \subseteq Frames /\ Less(flight, flight', f)
           /\ \A g \in flight' : g.stream # f.stream => g \in flight
           /\ \A g \in flight : g.stream # f.stream => g \in flight'
  BY Zenon DEF SendInv, Types, Less

(* A RESET_STREAM is sent, or there was no room for it.                     *)
LEMMA WriteResetKeeps ==
    ASSUME SendInv, NEW s \in Streams, writeReset(s)
    PROVE  SendInv'
<1> DEFINE d == send[s]
           w == d.written
<1>1. /\ d \in Halves /\ peer[s] \in Peers /\ StreamOK(s, d, flight, peer[s], ends[s])
      /\ send \in [Streams -> Halves] /\ ends \in [Streams -> SUBSET Nat]
  BY Zenon DEF SendInv, Types
<1>2. d.reset /\ UNCHANGED <<sentBytes, sendLimit, peer>>
  BY Zenon DEF writeReset
<1>3. ~Crypto => d.sent <= d.limit
  BY Zenon, <1>1 DEF StreamOK, Ordered
<1>4. ASSUME NEW n \in Nat, flight' = flight \cup {[Frame(s, "reset", w, w, TRUE) EXCEPT !.copy = n]},
             send' = [send EXCEPT ![s] = [d EXCEPT !.resetSent = TRUE, !.writable = FALSE]],
             ends' = [ends EXCEPT ![s] = @ \cup {w}]
      PROVE  SendInv'
  <2> DEFINE f == [Frame(s, "reset", w, w, TRUE) EXCEPT !.copy = n]
             a == [d EXCEPT !.resetSent = TRUE, !.writable = FALSE]
             e == ends[s] \cup {w}
  <2>1. /\ a \in Halves /\ a.base = d.base /\ a.sent = d.sent /\ a.written = d.written /\ a.acked = d.acked
        /\ a.lost = d.lost /\ a.finQueued = d.finQueued /\ a.finSent = d.finSent /\ a.finAcked = d.finAcked
        /\ a.reset = d.reset /\ a.limit = d.limit
    BY Zenon, <1>1 DEF Halves
  <2>2. w \in Nat /\ "reset" \in Kinds /\ TRUE \in Modes
    BY Zenon, <1>1, HalfType DEF Kinds, Modes
  <2> HIDE DEF w
  <2>3. /\ f \in Frames /\ f.stream = s /\ f.kind = "reset" /\ f.low = w /\ f.high = w
        /\ f.fin = TRUE /\ ~f.arrived
    BY Zenon, <2>2, FrameIs
  <2> HIDE DEF f, a
  <2>0. flight' = flight \cup {f}
    BY Zenon, <1>4 DEF f
  <2>4. /\ flight' = flight \cup {f} /\ flight' \subseteq Frames
        /\ \A g \in flight' : g.stream # s => g \in flight
        /\ \A g \in flight : g.stream # s => g \in flight'
    BY Zenon, <2>0, <2>3, Launched
  <2>5. StreamOK(s, a, flight, peer[s], ends[s])
    BY Zenon, <1>1, <1>3, <2>1, SameOK
  <2>6. Framed(a, peer[s], f)
    <3>1. f.low <= f.high
      BY <2>2, <2>3
    <3>2. "reset" # "stream"
      BY Zenon
    <3> QED
      BY Zenon, <2>3, <3>1, <3>2 DEF Framed
  <2>7. StreamOK(s, a, flight', peer[s], ends[s])
    <3>1. \A g \in flight' : g.stream = s => Framed(a, peer[s], g)
      BY Zenon, <2>4, <2>5, <2>6 DEF StreamOK
    <3>2. "reset" # "stream"
      BY Zenon
    <3>3. \A g \in flight' : g.stream = s /\ g.kind = "stream" => g \in flight
      BY Zenon, <2>3, <2>4, <3>2
    <3>4. \A g \in flight : g.stream = s /\ g.kind = "stream" => g \in flight'
      BY Zenon, <2>4
    <3> QED
      BY Zenon, <1>1, <2>1, <2>5, <3>1, <3>3, <3>4, CarriedOK
  <2>8. StreamOK(s, a, flight', peer[s], e)
    <3>1. Told(a, ends[s])
      BY Zenon, <2>7 DEF StreamOK
    <3>2. Told(a, e)
      BY Zenon, <1>2, <2>1, <3>1 DEF Told, w
    <3> QED
      BY Zenon, <2>7, <3>2 DEF StreamOK
  <2>9. e \in SUBSET Nat
    BY Zenon, <1>1, <2>2
  <2> HIDE DEF e
  <2>10. /\ send'[s] = a /\ (\A t \in Streams : t # s => send'[t] = send[t]) /\ send' \in [Streams -> Halves]
    BY Zenon, <1>1, <1>4, <2>1 DEF a
  <2>11. /\ ends'[s] = e /\ (\A t \in Streams : t # s => ends'[t] = ends[t]) /\ ends' \in [Streams -> SUBSET Nat]
    BY Zenon, <1>1, <1>4, <2>9 DEF e
  <2>12. Types'
    BY Zenon, <1>2, <2>4, <2>10, <2>11 DEF SendInv, Types
  <2>13. StreamOK(s, send'[s], flight', peer'[s], ends'[s])
    BY Zenon, <1>2, <2>8, <2>10, <2>11
  <2>14. \A t \in Streams : t # s => send'[t] = send[t] /\ peer'[t] = peer[t] /\ ends'[t] = ends[t]
    BY Zenon, <1>2, <2>10, <2>11
  <2>15. ~Crypto => sentBytes' <= sendLimit'
    BY Zenon, <1>2 DEF SendInv
  <2> QED
    BY Zenon, <2>4, <2>12, <2>13, <2>14, <2>15, Assemble
<1>5. CASE send' = [send EXCEPT ![s] = [d EXCEPT !.writable = FALSE]] /\ UNCHANGED <<flight, ends>>
  <2> DEFINE a == [d EXCEPT !.writable = FALSE]
  <2>1. /\ a \in Halves /\ a.base = d.base /\ a.sent = d.sent /\ a.written = d.written /\ a.acked = d.acked
        /\ a.lost = d.lost /\ a.finQueued = d.finQueued /\ a.finSent = d.finSent /\ a.finAcked = d.finAcked
        /\ a.reset = d.reset /\ a.limit = d.limit
    BY Zenon, <1>1 DEF Halves
  <2>2. send' = [send EXCEPT ![s] = a] /\ UNCHANGED <<sentBytes, sendLimit, flight, peer, ends>>
    BY Zenon, <1>2, <1>5
  <2> HIDE DEF a
  <2>3. StreamOK(s, a, flight, peer[s], ends[s])
    BY Zenon, <1>1, <1>3, <2>1, SameOK
  <2> QED
    BY Zenon, <2>1, <2>2, <2>3, AssembleHalf
<1> QED
  <2>1. ASSUME NEW f, Launch(f) PROVE \E n \in Nat : flight' = flight \cup {[f EXCEPT !.copy = n]}
    BY Zenon, <2>1, CopyIs DEF Launch
  <2> QED
    BY Zenon, <1>4, <1>5, <2>1 DEF writeReset

(* The bytes of a stream are sent, or it leaves the list.                   *)
LEMMA WriteStreamKeeps ==
    ASSUME SendInv, SendConstants, NEW s \in Streams, writeStream(s)
    PROVE  SendInv'
<1> DEFINE d == send[s]
           off == Offset(d)
           av == Available(d)
<1>1. /\ d \in Halves /\ peer[s] \in Peers /\ StreamOK(s, d, flight, peer[s], ends[s])
      /\ send \in [Streams -> Halves] /\ ends \in [Streams -> SUBSET Nat]
      /\ sentBytes \in Nat /\ sendLimit \in Nat /\ flight \subseteq Frames
      /\ ~Crypto => sentBytes <= sendLimit
  BY Zenon DEF SendInv, Types
<1>2. Ordered(d)
  BY Zenon, <1>1 DEF StreamOK
<1>3. /\ off \in Nat /\ av \in Nat
      /\ ~Retransmits(d) => (~Crypto => sentBytes + av <= sendLimit)
  BY Zenon, <1>1, <1>2, AvailableIs
<1>4. UNCHANGED <<sendLimit, peer>>
  BY Zenon DEF writeStream
<1>5. ASSUME NEW n \in 1..MaxFrame, NEW k \in Nat,
             LET length == Lesser(av, n)
                 fin == FinOn(d, length)
                 after == Wrote(d, length)
             IN  /\ flight' = flight \cup {[Frame(s, "stream", off, off + length, fin) EXCEPT !.copy = k]}
                 /\ send' = [send EXCEPT ![s] = [after EXCEPT !.writable = owes(after)]]
                 /\ sentBytes' = IF Retransmits(d) \/ Crypto THEN sentBytes ELSE sentBytes + length
                 /\ ends' = [ends EXCEPT ![s] = IF fin THEN @ \cup {off + length} ELSE @]
      PROVE  SendInv'
  <2> DEFINE length == Lesser(av, n)
             fin == FinOn(d, length)
             after == Wrote(d, length)
             top == off + length
             f == [Frame(s, "stream", off, top, fin) EXCEPT !.copy = k]
             a == [after EXCEPT !.writable = owes(after)]
             e == IF fin THEN ends[s] \cup {top} ELSE ends[s]
  <2>1. /\ flight' = flight \cup {f}
        /\ send' = [send EXCEPT ![s] = a]
        /\ sentBytes' = IF Retransmits(d) \/ Crypto THEN sentBytes ELSE sentBytes + length
        /\ ends' = [ends EXCEPT ![s] = e]
    BY Zenon, <1>1, <1>5
  <2>2. length \in Nat /\ length <= av
    <3>1. MaxFrame \in Nat
      BY Zenon DEF SendConstants
    <3> HIDE DEF av
    <3> QED
      BY <1>3, <3>1 DEF Lesser
  <2> HIDE DEF length
  <2>3. top \in Nat
    <3> HIDE DEF off
    <3> QED
      BY <1>3, <2>2
  <2>4. fin \in Modes /\ "stream" \in Kinds
    BY Zenon DEF FinOn, Kinds, Modes
  <2>5. /\ f \in Frames /\ f.stream = s /\ f.kind = "stream" /\ f.low = off /\ f.high = top
        /\ f.fin = fin /\ ~f.arrived
    <3> HIDE DEF off, top, fin
    <3> QED
      BY Zenon, <1>3, <2>3, <2>4, FrameIs
  <2> HIDE DEF f
  <2>6. /\ flight' = flight \cup {f} /\ flight' \subseteq Frames
        /\ \A g \in flight' : g.stream # s => g \in flight
        /\ \A g \in flight : g.stream # s => g \in flight'
    BY Zenon, <2>1, <2>5, Launched
  <2>7. a \in Halves /\ StreamOK(s, a, flight', peer[s], e)
    <3>1. f.low = Offset(d) /\ f.high = Offset(d) + length /\ f.fin = FinOn(d, length) /\ length <= Available(d)
      BY Zenon, <2>2, <2>5
    <3>2. After(d, length) \in Halves /\ StreamOK(s, After(d, length), flight', peer[s], Claims(d, length, ends[s]))
      <4>1. f \in Frames /\ f.stream = s /\ f.kind = "stream" /\ ~f.arrived
        BY Zenon, <2>5
      <4>2. /\ d \in Halves /\ peer[s] \in Peers /\ StreamOK(s, d, flight, peer[s], ends[s])
            /\ flight \subseteq Frames
        BY Zenon, <1>1
      <4>3. sentBytes \in Nat /\ sendLimit \in Nat /\ (~Crypto => sentBytes <= sendLimit)
        BY Zenon, <1>1
      <4>4. flight' = flight \cup {f}
        BY Zenon, <2>6
      <4>5. length \in Nat
        BY Zenon, <2>2
      <4>6. Sends(s, d, flight, flight', peer[s], ends[s], length, f)
        BY Zenon, <3>1, <4>1, <4>2, <4>3, <4>4, <4>5 DEF Sends
      <4> QED
        BY Zenon, <4>6, SentOK
    <3> QED
      BY Zenon, <3>2 DEF After, Claims
  <2>8. e \in SUBSET Nat
    BY Zenon, <1>1, <2>3
  <2> HIDE DEF a, e
  <2>9. /\ send'[s] = a /\ (\A t \in Streams : t # s => send'[t] = send[t]) /\ send' \in [Streams -> Halves]
    BY Zenon, <1>1, <2>1, <2>7
  <2>10. /\ ends'[s] = e /\ (\A t \in Streams : t # s => ends'[t] = ends[t]) /\ ends' \in [Streams -> SUBSET Nat]
    BY Zenon, <1>1, <2>1, <2>8
  <2>11. sentBytes' \in Nat /\ (~Crypto => sentBytes' <= sendLimit')
    <3>1. CASE Retransmits(d) \/ Crypto
      BY Zenon, <1>1, <1>4, <2>1, <3>1
    <3>2. CASE ~(Retransmits(d) \/ Crypto)
      <4>1. sentBytes' = sentBytes + length /\ sentBytes + av <= sendLimit /\ sendLimit' = sendLimit
        BY Zenon, <1>3, <1>4, <2>1, <3>2
      <4> HIDE DEF av
      <4> QED
        BY <1>1, <1>3, <2>2, <4>1
    <3> QED
      BY Zenon, <3>1, <3>2
  <2>12. Types'
    BY Zenon, <1>4, <2>6, <2>9, <2>10, <2>11 DEF SendInv, Types
  <2>13. StreamOK(s, send'[s], flight', peer'[s], ends'[s])
    BY Zenon, <1>4, <2>7, <2>9, <2>10
  <2>14. \A t \in Streams : t # s => send'[t] = send[t] /\ peer'[t] = peer[t] /\ ends'[t] = ends[t]
    BY Zenon, <1>4, <2>9, <2>10
  <2> QED
    BY Zenon, <2>6, <2>11, <2>12, <2>13, <2>14, Assemble
<1>6. CASE send' = [send EXCEPT ![s].writable = owes(d)] /\ UNCHANGED <<sentBytes, flight, ends>>
  <2> DEFINE o == owes(d)
             a == [d EXCEPT !.writable = o]
  <2>1. o \in BOOLEAN
    BY Zenon DEF owes
  <2>2. send' = [send EXCEPT ![s] = a]
    BY Zenon, <1>1, <1>6
  <2> HIDE DEF o
  <2>3. /\ a \in Halves /\ a.base = d.base /\ a.sent = d.sent /\ a.written = d.written /\ a.acked = d.acked
        /\ a.lost = d.lost /\ a.finQueued = d.finQueued /\ a.finSent = d.finSent /\ a.finAcked = d.finAcked
        /\ a.reset = d.reset /\ a.limit = d.limit
    BY Zenon, <1>1, <2>1 DEF Halves
  <2> HIDE DEF a
  <2>4. ~Crypto => a.sent <= a.limit
    BY Zenon, <1>2, <2>3 DEF Ordered
  <2>5. StreamOK(s, a, flight, peer[s], ends[s])
    BY Zenon, <1>1, <2>3, <2>4, SameOK
  <2>6. UNCHANGED <<sentBytes, sendLimit, flight, peer, ends>>
    BY Zenon, <1>4, <1>6
  <2> QED
    BY Zenon, <2>2, <2>3, <2>5, <2>6, AssembleHalf
<1> QED
  <2>1. ASSUME NEW f, Launch(f) PROVE \E k \in Nat : flight' = flight \cup {[f EXCEPT !.copy = k]}
    BY Zenon, <2>1, CopyIs DEF Launch
  <2> QED
    BY Zenon, <1>5, <1>6, <2>1 DEF writeStream

(* The halves of onPacketAcked and onPacketLost.                            *)
Acks(d, f) ==
    IF f.kind = "reset" THEN [d EXCEPT !.resetAcked = TRUE]
    ELSE [acknowledge(d, f.low, f.high) EXCEPT !.finAcked = @ \/ f.fin]
Loses(d, f) ==
    IF f.kind = "reset" THEN [d EXCEPT !.resetSent = FALSE, !.writable = TRUE]
    ELSE [declareLost(d, f.low, f.high) EXCEPT !.finSent = @ /\ ~f.fin, !.writable = TRUE]

(* A packet is settled: what is left of its stream is in order.             *)
LEMMA SettledOK ==
    ASSUME SendInv, NEW f \in flight, flight' = flight \ {f}
    PROVE  LET s == f.stream IN
           /\ f.arrived => /\ Acks(send[s], f) \in Halves
                           /\ StreamOK(s, Acks(send[s], f), flight', peer[s], ends[s])
           /\ Loses(send[s], f) \in Halves
           /\ StreamOK(s, Loses(send[s], f), flight', peer[s], ends[s])
<1> DEFINE s == f.stream
           d == send[s]
<1>1. f \in Frames /\ s \in Streams /\ f.kind \in Kinds
  BY Zenon, FrameType DEF SendInv, Types
<1>2. /\ d \in Halves /\ peer[s] \in Peers /\ StreamOK(s, d, flight, peer[s], ends[s])
      /\ flight \subseteq Frames
  BY Zenon, <1>1 DEF SendInv, Types
<1>3. Less(flight, flight', f)
  BY Zenon, Landed
<1>4. CASE f.kind = "reset"
  <2> DEFINE a == [d EXCEPT !.resetAcked = TRUE]
             b == [d EXCEPT !.resetSent = FALSE, !.writable = TRUE]
  <2>1. Acks(d, f) = a /\ Loses(d, f) = b
    BY Zenon, <1>4 DEF Acks, Loses
  <2>2. /\ a \in Halves /\ a.base = d.base /\ a.sent = d.sent /\ a.written = d.written /\ a.acked = d.acked
        /\ a.lost = d.lost /\ a.finQueued = d.finQueued /\ a.finSent = d.finSent /\ a.finAcked = d.finAcked
        /\ a.reset = d.reset /\ a.limit = d.limit
    BY Zenon, <1>2 DEF Halves
  <2>3. /\ b \in Halves /\ b.base = d.base /\ b.sent = d.sent /\ b.written = d.written /\ b.acked = d.acked
        /\ b.lost = d.lost /\ b.finQueued = d.finQueued /\ b.finSent = d.finSent /\ b.finAcked = d.finAcked
        /\ b.reset = d.reset /\ b.limit = d.limit
    BY Zenon, <1>2 DEF Halves
  <2>4. StreamOK(s, d, flight', peer[s], ends[s])
    <3>1. \A g \in flight' : g.stream = s => Framed(d, peer[s], g)
      BY Zenon, <1>2, <1>3 DEF StreamOK, Less
    <3>2. \A g \in flight : g.kind = "stream" => g # f
      BY Zenon, <1>4
    <3>3. \A g \in flight' : g.stream = s /\ g.kind = "stream" => g \in flight
      BY Zenon, <1>3, <3>2 DEF Less
    <3>4. \A g \in flight : g.stream = s /\ g.kind = "stream" => g \in flight'
      BY Zenon, <1>3, <3>2 DEF Less
    <3> HIDE DEF s, d
    <3> QED
      BY Zenon, <1>1, <1>2, <3>1, <3>3, <3>4, CarriedOK
  <2> HIDE DEF a, b
  <2>5. (~Crypto => a.sent <= a.limit) /\ (~Crypto => b.sent <= b.limit)
    BY Zenon, <1>2, <2>2, <2>3 DEF StreamOK, Ordered
  <2>6. StreamOK(s, a, flight', peer[s], ends[s])
    BY Zenon, <1>1, <1>2, <2>2, <2>4, <2>5, SameOK
  <2>7. StreamOK(s, b, flight', peer[s], ends[s])
    BY Zenon, <1>1, <1>2, <2>3, <2>4, <2>5, SameOK
  <2> QED
    BY Zenon, <2>1, <2>2, <2>3, <2>6, <2>7
<1>5. CASE f.kind # "reset"
  <2>1. f.kind = "stream"
    BY Zenon, <1>1, <1>5 DEF Kinds
  <2> DEFINE a == [acknowledge(d, f.low, f.high) EXCEPT !.finAcked = @ \/ f.fin]
             b == [declareLost(d, f.low, f.high) EXCEPT !.finSent = @ /\ ~f.fin, !.writable = TRUE]
  <2>2. Acks(d, f) = a /\ Loses(d, f) = b
    BY Zenon, <1>5 DEF Acks, Loses
  <2>3. f.arrived => a \in Halves /\ StreamOK(s, a, flight', peer[s], ends[s])
    <3> SUFFICES ASSUME f.arrived PROVE a \in Halves /\ StreamOK(s, a, flight', peer[s], ends[s])
      BY Zenon
    <3> QED
      BY Zenon, <1>1, <1>2, <1>3, <2>1, AckedOK
  <2>4. b \in Halves /\ StreamOK(s, b, flight', peer[s], ends[s])
    BY Zenon, <1>1, <1>2, <1>3, <2>1, LostOK
  <2> HIDE DEF a, b
  <2> QED
    BY Zenon, <2>2, <2>3, <2>4
<1> QED
  BY Zenon, <1>4, <1>5

(* The same, when a half changes and a packet is settled.                   *)
LEMMA AssembleSettled ==
    ASSUME SendInv, NEW f \in flight, flight' = flight \ {f}, NEW a \in Halves,
           send' = [send EXCEPT ![f.stream] = a], StreamOK(f.stream, a, flight', peer[f.stream], ends[f.stream]),
           UNCHANGED <<sentBytes, sendLimit, peer, ends>>
    PROVE  SendInv'
<1> DEFINE s == f.stream
<1>1. send \in [Streams -> Halves] /\ s \in Streams
  BY Zenon, FrameType DEF SendInv, Types
<1>2. send'[s] = a /\ (\A t \in Streams : t # s => send'[t] = send[t]) /\ send' \in [Streams -> Halves]
  BY Zenon, <1>1
<1>3. /\ flight' \subseteq Frames
      /\ \A g \in flight' : g.stream # s => g \in flight
      /\ \A g \in flight : g.stream # s => g \in flight'
  BY Zenon, Landed
<1>4. Types'
  BY Zenon, <1>2, <1>3 DEF SendInv, Types
<1>5. \A t \in Streams : t # s => send'[t] = send[t] /\ peer'[t] = peer[t] /\ ends'[t] = ends[t]
  BY Zenon, <1>2
<1>6. StreamOK(s, send'[s], flight', peer'[s], ends'[s])
  BY Zenon, <1>2
<1>7. ~Crypto => sentBytes' <= sendLimit'
  BY Zenon DEF SendInv
<1> HIDE DEF s
<1> QED
  BY Zenon, <1>1, <1>3, <1>4, <1>5, <1>6, <1>7, Assemble

(* An acknowledgement, and a loss.                                          *)
LEMMA AckedKeeps ==
    ASSUME SendInv, NEW f \in flight, onPacketAcked(f)
    PROVE  SendInv'
<1> DEFINE a == Acks(send[f.stream], f)
<1>1. /\ f.arrived /\ flight' = flight \ {f} /\ send' = [send EXCEPT ![f.stream] = a]
      /\ UNCHANGED <<sentBytes, sendLimit, peer, ends>>
  BY Zenon DEF onPacketAcked, Settle, Acks
<1>2. a \in Halves /\ StreamOK(f.stream, a, flight', peer[f.stream], ends[f.stream])
  BY Zenon, <1>1, SettledOK
<1> HIDE DEF a
<1> QED
  BY Zenon, <1>1, <1>2, AssembleSettled

(* A loss.                                                                  *)
LEMMA LostKeeps ==
    ASSUME SendInv, NEW f \in flight, onPacketLost(f)
    PROVE  SendInv'
<1> DEFINE a == Loses(send[f.stream], f)
<1>1. /\ flight' = flight \ {f} /\ send' = [send EXCEPT ![f.stream] = a]
      /\ UNCHANGED <<sentBytes, sendLimit, peer, ends>>
  BY Zenon DEF onPacketLost, Settle, Loses
<1>2. a \in Halves /\ StreamOK(f.stream, a, flight', peer[f.stream], ends[f.stream])
  BY Zenon, <1>1, SettledOK
<1> HIDE DEF a
<1> QED
  BY Zenon, <1>1, <1>2, AssembleSettled

(* What the peer has once a packet reached it.                              *)
With(p, f) == [bytes |-> p.bytes \cup Span(f), ended |-> p.ended \/ f.fin]

(* Reach changes the peer of one stream, to With.                           *)
LEMMA ReachIs ==
    ASSUME peer \in [Streams -> Peers], NEW f \in Frames, Reach(f)
    PROVE  /\ With(peer[f.stream], f) \in Peers
           /\ peer' = [peer EXCEPT ![f.stream] = With(peer[f.stream], f)]
<1> DEFINE s == f.stream
           p == peer[s]
<1>1. f.stream \in Streams /\ f.low \in Nat /\ f.high \in Nat /\ f.fin \in BOOLEAN
  BY Zenon DEF Frames
<1>2. p \in Peers
  BY Zenon, <1>1
<1>3. Span(f) \in SUBSET Nat
  BY <1>1 DEF Span
<1>4. With(p, f) \in Peers
  BY Zenon, <1>1, <1>2, <1>3 DEF Peers, With
<1>5. [[p EXCEPT !.bytes = @ \cup Span(f)] EXCEPT !.ended = @ \/ f.fin] = With(p, f)
  <2> DEFINE r == [[p EXCEPT !.bytes = @ \cup Span(f)] EXCEPT !.ended = @ \/ f.fin]
             w == With(p, f)
  <2>1. r \in Peers /\ r.bytes = p.bytes \cup Span(f) /\ r.ended = (p.ended \/ f.fin)
    BY Zenon, <1>1, <1>2, <1>3 DEF Peers
  <2>2. w \in Peers /\ w.bytes = p.bytes \cup Span(f) /\ w.ended = (p.ended \/ f.fin)
    BY Zenon, <1>4 DEF With
  <2> HIDE DEF r, w
  <2>3. r.bytes = w.bytes /\ r.ended = w.ended
    BY Zenon, <2>1, <2>2
  <2>4. r = [bytes |-> r.bytes, ended |-> r.ended] /\ w = [bytes |-> w.bytes, ended |-> w.ended]
    <3>1. ASSUME NEW x \in Peers PROVE x = [bytes |-> x.bytes, ended |-> x.ended]
      BY Zenon, <3>1 DEF Peers
    <3> QED
      BY Zenon, <2>1, <2>2, <3>1
  <2> QED
    BY Zenon, <2>3, <2>4 DEF r, w
<1>6. peer' = [peer EXCEPT ![s] = [[p EXCEPT !.bytes = @ \cup Span(f)] EXCEPT !.ended = @ \/ f.fin]]
  BY Zenon, <1>1 DEF Reach, Span
<1> HIDE DEF p
<1> QED
  BY Zenon, <1>4, <1>5, <1>6 DEF p

(* A packet arrives.                                                        *)
LEMMA ArriveKeeps ==
    ASSUME SendInv, NEW f \in flight, arrive(f)
    PROVE  SendInv'
<1> DEFINE s == f.stream
           g == [f EXCEPT !.arrived = TRUE]
           B1 == flight \ {f}
           q == With(peer[s], f)
<1>1. f \in Frames /\ s \in Streams /\ flight \subseteq Frames
  BY Zenon, FrameType DEF SendInv, Types
<1>2. ~f.arrived /\ flight' = B1 \cup {g} /\ Reach(f) /\ UNCHANGED <<send, sentBytes, sendLimit, ends>>
  BY Zenon DEF arrive
<1>3. g \in Frames /\ g.stream = s /\ g = [f EXCEPT !.arrived = TRUE]
  BY Zenon, <1>1 DEF Frames
<1>4. peer \in [Streams -> Peers]
  BY Zenon DEF SendInv, Types
<1>5. q \in Peers /\ peer' = [peer EXCEPT ![s] = q]
  BY Zenon, <1>1, <1>2, <1>4, ReachIs
<1>6. q.bytes = peer[s].bytes \cup Span(f) /\ q.ended = (peer[s].ended \/ f.fin)
  BY Zenon DEF With
<1>7. Less(flight, B1, f)
  BY Zenon DEF Less
<1> HIDE DEF B1, q, g
<1>8. flight' = B1 \cup {g}
  BY Zenon, <1>2
<1>9. peer'[s] = q /\ (\A t \in Streams : t # s => peer'[t] = peer[t]) /\ peer' \in [Streams -> Peers]
  BY Zenon, <1>1, <1>4, <1>5
<1>10. /\ send[s] \in Halves /\ peer[s] \in Peers /\ StreamOK(s, send[s], flight, peer[s], ends[s])
  BY Zenon, <1>1 DEF SendInv, Types
<1>11. flight' \subseteq Frames
  BY Zenon, <1>1, <1>3, <1>7, <1>8 DEF Less
<1>12. Types'
  BY Zenon, <1>2, <1>8, <1>9, <1>11 DEF SendInv, Types
<1>13. /\ \A h \in flight' : h.stream # s => h \in flight
       /\ \A h \in flight : h.stream # s => h \in flight'
  BY Zenon, <1>3, <1>7, <1>8 DEF Less
<1>14. StreamOK(s, send[s], flight', q, ends[s])
  <2>1. f.stream = s
    OBVIOUS
  <2> HIDE DEF s
  <2>2. Arrives(s, send[s], flight, peer[s], ends[s], f, g, B1, flight', q)
    BY Zenon, <1>1, <1>2, <1>3, <1>5, <1>6, <1>7, <1>8, <1>10, <2>1 DEF Arrives
  <2> QED
    BY Zenon, <2>2, ArrivedOK
<1>15. StreamOK(s, send'[s], flight', peer'[s], ends'[s])
  BY Zenon, <1>2, <1>9, <1>14
<1>16. \A t \in Streams : t # s => send'[t] = send[t] /\ peer'[t] = peer[t] /\ ends'[t] = ends[t]
  BY Zenon, <1>2, <1>9
<1>17. ~Crypto => sentBytes' <= sendLimit'
  BY Zenon, <1>2 DEF SendInv
<1> HIDE DEF s
<1> QED
  BY Zenon, <1>1, <1>12, <1>13, <1>15, <1>16, <1>17, Assemble

(* A packet arrives after it was taken for lost: the peer has more, and     *)
(* nothing else changes.                                                    *)
LEMMA LateKeeps ==
    ASSUME SendInv, NEW f \in Frames, Reach(f), UNCHANGED <<send, sentBytes, sendLimit, flight, ends>>
    PROVE  SendInv'
<1> DEFINE s == f.stream
           p == peer[s]
           q == With(p, f)
<1>1. peer \in [Streams -> Peers] /\ s \in Streams
  BY Zenon DEF SendInv, Types, Frames
<1>2. q \in Peers /\ peer' = [peer EXCEPT ![s] = q]
  BY Zenon, <1>1, ReachIs
<1>3. p.bytes \subseteq q.bytes /\ (p.ended => q.ended)
  BY Zenon DEF With
<1> HIDE DEF q
<1>4. peer'[s] = q /\ (\A t \in Streams : t # s => peer'[t] = peer[t]) /\ peer' \in [Streams -> Peers]
  BY Zenon, <1>1, <1>2
<1>5. StreamOK(s, send[s], flight, p, ends[s])
  BY Zenon, <1>1 DEF SendInv
<1>6. \A g \in flight : g.stream = s => Framed(send[s], q, g)
  BY Zenon, <1>3, <1>5 DEF StreamOK, Framed
<1>7. Settled(send[s], q)
  BY Zenon, <1>3, <1>5 DEF StreamOK, Settled
<1>8. StreamOK(s, send[s], flight, q, ends[s])
  BY Zenon, <1>5, <1>6, <1>7 DEF StreamOK
<1>9. Types'
  BY Zenon, <1>4 DEF SendInv, Types
<1>10. \A t \in Streams : t # s => send'[t] = send[t] /\ peer'[t] = peer[t] /\ ends'[t] = ends[t]
  BY Zenon, <1>4
<1>11. StreamOK(s, send'[s], flight', peer'[s], ends'[s])
  BY Zenon, <1>4, <1>8
<1>12. ~Crypto => sentBytes' <= sendLimit'
  BY Zenon DEF SendInv
<1> HIDE DEF s
<1> QED
  BY Zenon, <1>1, <1>9, <1>10, <1>11, <1>12, Assemble

-----------------------------------------------------------------------------
(* A packet that was taken for lost arrives after all.                      *)
Late(f) == Reach(f) /\ UNCHANGED <<send, sentBytes, sendLimit, flight, ends>>

(* The steps, with whatever limits the peer grants.                         *)
Steps ==
    \/ \E s \in Streams :
        \/ write(s) \/ resetStream(s) \/ writeReset(s) \/ writeStream(s) \/ onProbeTimeout(s)
        \/ \E limit \in Nat : maxStreamData(s, limit)
    \/ \E limit \in Nat : maxData(limit)
    \/ \E f \in flight : arrive(f) \/ onPacketAcked(f) \/ onPacketLost(f)
    \/ \E f \in Frames : Late(f)

(* Every step keeps the invariant.                                          *)
LEMMA StepKeeps ==
    ASSUME SendInv, SendConstants, [Steps]_vars
    PROVE  SendInv'
<1>1. ASSUME NEW s \in Streams,
             write(s) \/ resetStream(s) \/ writeReset(s) \/ writeStream(s) \/ onProbeTimeout(s)
      PROVE  SendInv'
  BY Zenon, <1>1, WriteKeeps, ResetKeeps, WriteResetKeeps, WriteStreamKeeps, ProbeKeeps
<1>2. ASSUME NEW s \in Streams, NEW limit \in Nat, maxStreamData(s, limit)
      PROVE  SendInv'
  BY Zenon, <1>2, LimitKeeps
<1>3. ASSUME NEW limit \in Nat, maxData(limit)
      PROVE  SendInv'
  BY Zenon, <1>3, DataKeeps
<1>4. ASSUME NEW f \in flight, arrive(f) \/ onPacketAcked(f) \/ onPacketLost(f)
      PROVE  SendInv'
  BY Zenon, <1>4, ArriveKeeps, AckedKeeps, LostKeeps
<1>5. ASSUME NEW f \in Frames, Late(f)
      PROVE  SendInv'
  BY Zenon, <1>5, LateKeeps DEF Late
<1>6. ASSUME UNCHANGED vars
      PROVE  SendInv'
  BY Zenon, <1>6 DEF vars, SendInv, Types
<1> QED
  BY Zenon, <1>1, <1>2, <1>3, <1>4, <1>5, <1>6 DEF Steps

(* A stream that nothing was written on.                                    *)
LEMMA FreshOK ==
    ASSUME SendConstants, NEW s \in Streams
    PROVE  /\ NewStream \in Halves
           /\ StreamOK(s, NewStream, {}, [bytes |-> {}, ended |-> FALSE], {})
<1>1. <<>> \in Lists /\ Offsets(<<>>) = {}
  <2>1. Len(<<>>) = 0 /\ 1..0 = {}
    BY SMT
  <2> QED
    BY Zenon, <2>1, EmptyList DEF Offsets
<1>2. NewStream \in Halves
  BY <1>1, 0 \in Nat DEF NewStream, Halves, SendConstants
<1>4. Carried({}, s) = {}
  BY Zenon DEF Carried
<1>5. Ordered(NewStream)
  BY <1>1 DEF NewStream, Ordered, SendConstants
<1>6. Settled(NewStream, [bytes |-> {}, ended |-> FALSE])
  BY Zenon, <1>1 DEF NewStream, Settled
<1>7. Accounted(s, NewStream, {})
  <2>1. 0..0 - 1 = {}
    OBVIOUS
  <2> QED
    BY Zenon, <2>1 DEF NewStream, Accounted
<1>8. Once(s, NewStream, {})
  BY Zenon, <1>1, <1>4 DEF NewStream, Once
<1>9. Told(NewStream, {})
  BY Zenon DEF Told
<1> QED
  BY Zenon, <1>2, <1>5, <1>6, <1>7, <1>8, <1>9 DEF StreamOK

(* The invariant holds at the start.                                        *)
LEMMA InitKeeps ==
    ASSUME SendConstants, Init
    PROVE  SendInv
<1>2. [bytes |-> {}, ended |-> FALSE] \in Peers
  BY Zenon DEF Peers
<1>3. Types
  <2>1. 0 \in Nat /\ InitialData \in Nat
    BY DEF SendConstants
  <2> QED
    BY Zenon, <1>2, <2>1, FreshOK DEF Types, Init
<1>4. ASSUME NEW s \in Streams PROVE StreamOK(s, send[s], flight, peer[s], ends[s])
  <2>1. /\ send[s] = NewStream /\ flight = {} /\ peer[s] = [bytes |-> {}, ended |-> FALSE]
        /\ ends[s] = {}
    BY Zenon DEF Init
  <2> QED
    BY Zenon, <2>1, FreshOK
<1>5. sentBytes <= sendLimit
  BY DEF Init, SendConstants
<1> QED
  BY Zenon, <1>3, <1>4, <1>5 DEF SendInv

(* The invariant of the sending half, for every number of streams, frame    *)
(* size, limit and packet in flight: each half is in order, what is in      *)
(* flight was sent, what arrived has arrived, what was sent is acknowledged,*)
(* in flight or owed, and a byte is in one of these places only.            *)
THEOREM SendInvariant ==
    ASSUME SendConstants
    PROVE  Spec => []SendInv
<1>1. Init => SendInv
  BY Zenon, InitKeeps
<1>2. SendInv /\ [Next]_vars => SendInv'
  <2>1. MaxLimit \in Nat
    BY Zenon DEF SendConstants
  <2>2. [Next]_vars => [Steps]_vars
    BY Zenon, <2>1 DEF Next, Steps
  <2> QED
    BY Zenon, <2>2, StepKeeps
<1> QED
  BY <1>1, <1>2, PTL DEF Spec

(* declareLost, acknowledge, writeOneStream: the lists of acknowledged and  *)
(* of lost ranges stay in the form the binary search needs, and base, sent  *)
(* and written in order.                                                    *)
THEOREM SendTypes ==
    ASSUME SendConstants
    PROVE  Spec => []TypeOK
<1>1. SendInv => TypeOK
  <2> SUFFICES ASSUME SendInv PROVE TypeOK
    OBVIOUS
  <2>1. ASSUME NEW s \in Streams
        PROVE  LET d == send[s] IN
               /\ 0 <= d.base /\ d.base <= d.sent /\ d.sent <= d.written /\ Apart(d.acked) /\ Apart(d.lost)
    <3>1. send[s] \in Halves /\ Ordered(send[s])
      BY Zenon, <2>1 DEF SendInv, Types, StreamOK
    <3>2. send[s].base \in Nat /\ send[s].acked \in Lists /\ send[s].lost \in Lists
      BY Zenon, <3>1, HalfType
    <3>3. 0 <= send[s].base
      BY <3>2
    <3> QED
      BY Zenon, <3>1, <3>2, <3>3 DEF Ordered, Lists
  <2> QED
    BY Zenon, <2>1 DEF TypeOK
<1> QED
  BY <1>1, SendInvariant, PTL

(* writeOneStream, acknowledge, declareLost: no byte is forgotten.  What    *)
(* was put in a packet, the end of the stream included, is acknowledged, in *)
(* flight or owed again.                                                    *)
THEOREM SentIsAccounted ==
    ASSUME SendConstants
    PROVE  Spec => []NothingForgotten
<1>1. SendInv => NothingForgotten
  <2> SUFFICES ASSUME SendInv, NEW s \in Streams
               PROVE  LET d == send[s] IN
                      /\ 0..d.sent - 1 \subseteq Offsets(d.acked) \cup FlightBytes(s) \cup Offsets(d.lost)
                      /\ d.finSent => d.finAcked \/ \E f \in FlightOf(s) : f.fin
    BY Zenon DEF NothingForgotten
  <2>1. Accounted(s, send[s], flight)
    BY Zenon DEF SendInv, StreamOK
  <2>2. FlightOf(s) = Carried(flight, s)
    BY Zenon DEF FlightOf, Carried
  <2>3. FlightBytes(s) = Taken(flight, s)
    BY Zenon, <2>2 DEF FlightBytes, Taken, Span
  <2> QED
    BY Zenon, <2>1, <2>2, <2>3 DEF Accounted
<1> QED
  BY <1>1, SendInvariant, PTL

(* onPacketAcked, onPacketLost: nothing is owed that was acknowledged, and  *)
(* on a stream of the application nothing that is still in flight, nor is a *)
(* byte in two packets.                                                     *)
THEOREM SentOnce ==
    ASSUME SendConstants
    PROVE  Spec => []NothingTwice
<1>1. SendInv => NothingTwice
  <2> SUFFICES ASSUME SendInv, NEW s \in Streams
               PROVE  LET d == send[s] IN
                      /\ Offsets(d.lost) \cap Offsets(d.acked) = {}
                      /\ ~Crypto => /\ Offsets(d.lost) \cap FlightBytes(s) = {}
                                    /\ \A f, g \in FlightOf(s) :
                                          f # g => (f.low..f.high - 1) \cap (g.low..g.high - 1) = {}
    BY Zenon DEF NothingTwice
  <2>1. Ordered(send[s]) /\ Once(s, send[s], flight)
    BY Zenon DEF SendInv, StreamOK
  <2>2. FlightOf(s) = Carried(flight, s)
    BY Zenon DEF FlightOf, Carried
  <2>3. FlightBytes(s) = Taken(flight, s)
    BY Zenon, <2>2 DEF FlightBytes, Taken, Span
  <2>4. Offsets(send[s].lost) \cap Offsets(send[s].acked) = {}
    BY Zenon, <2>1 DEF Ordered
  <2>5. ~Crypto => Offsets(send[s].lost) \cap FlightBytes(s) = {}
    BY Zenon, <2>1, <2>3 DEF Once
  <2>6. ~Crypto => \A f, g \in FlightOf(s) : f # g => (f.low..f.high - 1) \cap (g.low..g.high - 1) = {}
    BY Zenon, <2>1, <2>2 DEF Once, Span
  <2> QED
    BY Zenon, <2>4, <2>5, <2>6
<1> QED
  BY <1>1, SendInvariant, PTL

(* slice: the bytes of a frame, new or sent again, are still in the buffer. *)
THEOREM SliceIsHeld ==
    ASSUME SendConstants
    PROVE  Spec => []SliceHeld
<1>1. SendInv => SliceHeld
  <2> SUFFICES ASSUME SendInv, NEW s \in Streams
               PROVE  Offset(send[s]) >= send[s].base /\ Offset(send[s]) + Available(send[s]) <= send[s].written
    BY Zenon DEF SliceHeld
  <2>1. send[s] \in Halves /\ Ordered(send[s])
    BY Zenon DEF SendInv, Types, StreamOK
  <2>2. sentBytes \in Nat /\ sendLimit \in Nat /\ (~Crypto => sentBytes <= sendLimit)
    BY Zenon DEF SendInv, Types
  <2>3. /\ Offset(send[s]) \in Nat /\ send[s].base <= Offset(send[s])
        /\ Offset(send[s]) + Available(send[s]) <= send[s].written
    BY Zenon, <2>1, <2>2, AvailableIs
  <2>4. send[s].base \in Nat
    BY Zenon, <2>1, HalfType
  <2> QED
    BY <2>3, <2>4
<1> QED
  BY <1>1, SendInvariant, PTL

(* isDrained, which lets the connection forget a stream: all that was       *)
(* written, and the end, has arrived.                                       *)
THEOREM DrainedArrived ==
    ASSUME SendConstants
    PROVE  Spec => []DrainedHasArrived
<1>1. SendInv => DrainedHasArrived
  <2> SUFFICES ASSUME SendInv, NEW s \in Streams, isDrained(send[s])
               PROVE  /\ 0..send[s].written - 1 \subseteq peer[s].bytes
                      /\ send[s].finQueued => peer[s].ended
    BY Zenon DEF DrainedHasArrived
  <2>1. Ordered(send[s]) /\ Settled(send[s], peer[s])
    BY Zenon DEF SendInv, StreamOK
  <2>2. send[s].written = send[s].base /\ (send[s].finQueued => send[s].finAcked)
    BY Zenon DEF isDrained
  <2>3. 0..send[s].base - 1 \subseteq peer[s].bytes
    BY Zenon, <2>1 DEF Ordered, Settled
  <2> QED
    BY Zenon, <2>1, <2>2, <2>3 DEF Settled
<1> QED
  BY <1>1, SendInvariant, PTL

(* writeOneStream, maxStreamData, maxData: both of the peer's limits are    *)
(* kept, however the streams share them and whatever is sent again.         *)
THEOREM LimitsKept ==
    ASSUME SendConstants
    PROVE  Spec => []WithinLimits
<1>1. SendInv => WithinLimits
  BY Zenon DEF SendInv, StreamOK, Ordered, WithinLimits
<1> QED
  BY <1>1, SendInvariant, PTL

(* writeOneStream, writeStreamFrames: the peer is told one end of a stream, *)
(* by a FIN or by a RESET_STREAM, and no byte past it.                      *)
THEOREM ToldOneEnd ==
    ASSUME SendConstants
    PROVE  Spec => []OneEnd
<1>1. SendInv => OneEnd
  <2> SUFFICES ASSUME SendInv, NEW s \in Streams
               PROVE  \A e \in ends[s] : ends[s] = {e} /\ send[s].sent <= e
    BY Zenon DEF OneEnd
  <2>1. Ordered(send[s]) /\ Told(send[s], ends[s])
    BY Zenon DEF SendInv, StreamOK
  <2> QED
    BY Zenon, <2>1 DEF Told, Ordered
<1> QED
  BY <1>1, SendInvariant, PTL

(* A half that owes nothing.                                                *)
Idle(d) ==
    IF d.reset THEN d.resetSent
    ELSE d.sent = d.written /\ d.lost = <<>> /\ ~FinPending(d)

(* There is nothing to take away from an empty list.                        *)
LEMMA SubtractNone ==
    ASSUME NEW low \in Nat, NEW high \in Nat
    PROVE  subtract(<<>>, low, high) = <<>>
<1> DEFINE rs == subtract(<<>>, low, high)
<1>1. <<>> \in Lists
  BY Zenon, EmptyList
<1>2. rs \in Lists /\ Offsets(rs) = Offsets(<<>>) \ (low..high - 1)
  BY Zenon, <1>1, SubtractOffsets
<1>3. Offsets(<<>>) = {}
  <2>1. Len(<<>>) = 0 /\ 1..0 = {}
    BY SMT
  <2> QED
    BY Zenon, <2>1 DEF Offsets
<1> HIDE DEF rs
<1>4. Offsets(rs) = {}
  BY Zenon, <1>2, <1>3
<1>5. rs \in Seq(Ranges) /\ \A i \in 1..Len(rs) : rs[i].low < rs[i].high
  BY Zenon, <1>2 DEF Lists, Apart
<1>6. Len(rs) = 0
  <2> SUFFICES ASSUME Len(rs) # 0 PROVE FALSE
    BY Zenon
  <2>1. 1 \in 1..Len(rs) /\ rs[1] \in Ranges
    BY <1>5
  <2>2. rs[1].low \in Nat /\ rs[1].high \in Nat
    BY Zenon, <2>1 DEF Ranges
  <2>3. rs[1].low < rs[1].high
    BY Zenon, <1>5, <2>1
  <2>4. rs[1].low \in rs[1].low..rs[1].high - 1
    BY <2>2, <2>3
  <2>5. rs[1].low \in Offsets(rs)
    BY Zenon, <2>1, <2>4 DEF Offsets
  <2> QED
    BY Zenon, <1>4, <2>5
<1>7. rs = <<>>
  BY <1>5, <1>6
<1> QED
  BY Zenon, <1>7 DEF rs

(* One half of OwesIsListed, and the step that leaves it unlisted.          *)
Listed(d) == d.writable \/ Idle(d)

(* A half that does not owe is idle.                                        *)
LEMMA ListedWrote ==
    ASSUME NEW d \in Halves, Ordered(d), ~owes(d), d.reset => d.resetSent
    PROVE  Idle(d)
<1>1. d.sent \in Nat /\ d.written \in Nat
  BY Zenon, HalfType
<1>2. d.sent <= d.written
  BY Zenon DEF Ordered
<1>3. pending(d) = 0
  BY <1>1 DEF owes, pending
<1>4. d.sent = d.written
  BY <1>1, <1>2, <1>3 DEF pending
<1> QED
  BY Zenon, <1>4 DEF owes, Idle, FinPending

(* A step of one stream keeps the others listed.                            *)
LEMMA ListedOne ==
    ASSUME OwesIsListed, NEW s, send \in [Streams -> Halves], NEW a, send' = [send EXCEPT ![s] = a],
           s \in Streams => Listed(a)
    PROVE  OwesIsListed'
<1>1. \A t \in Streams : Listed(send[t])
  BY Zenon DEF OwesIsListed, Listed, Idle
<1>2. \A t \in Streams : Listed(send'[t])
  BY Zenon, <1>1
<1> QED
  BY Zenon, <1>2 DEF OwesIsListed, Listed, Idle, FinPending

(* writeStreamFrames takes a stream out of its list only when it owes       *)
(* nothing.                                                                 *)
LEMMA ListedWrite ==
    ASSUME SendInv, SendConstants, OwesIsListed, NEW s \in Streams, writeStream(s)
    PROVE  OwesIsListed'
<1> DEFINE d == send[s]
<1>1. d \in Halves /\ Ordered(d) /\ send \in [Streams -> Halves]
  BY Zenon DEF SendInv, Types, StreamOK
<1>2. d.reset => d.resetSent
  BY Zenon DEF writeStream
<1>3. sentBytes \in Nat /\ sendLimit \in Nat /\ (~Crypto => sentBytes <= sendLimit)
  BY Zenon DEF SendInv, Types
<1>4. ASSUME NEW n \in 1..MaxFrame,
             send' = [send EXCEPT ![s] = [Wrote(d, Lesser(Available(d), n)) EXCEPT
                                             !.writable = owes(Wrote(d, Lesser(Available(d), n)))]]
      PROVE  OwesIsListed'
  <2> DEFINE length == Lesser(Available(d), n)
             w == Wrote(d, length)
             a == [w EXCEPT !.writable = owes(w)]
  <2>1. Available(d) \in Nat
    BY Zenon, <1>1, <1>3, AvailableIs
  <2>2. length \in Nat /\ length <= Available(d)
    BY <2>1, SMT DEF Lesser
  <2> HIDE DEF length
  <2>3. a \in Halves /\ Ordered(a)
    BY Zenon, <1>1, <1>3, <2>2, WroteIs
  <2>4. a.reset = d.reset /\ a.resetSent = d.resetSent /\ a.writable = owes(w) /\ owes(a) = owes(w)
    BY Zenon, <1>1 DEF Halves, Wrote, owes, pending
  <2> HIDE DEF a, w
  <2>5. Listed(a)
    BY Zenon, <1>2, <2>3, <2>4, ListedWrote DEF Listed
  <2>6. send' = [send EXCEPT ![s] = a]
    BY Zenon, <1>4 DEF a, w, length
  <2> QED
    BY Zenon, <1>1, <2>5, <2>6, ListedOne
<1>5. ASSUME send' = [send EXCEPT ![s].writable = owes(d)]
      PROVE  OwesIsListed'
  <2> DEFINE a == [d EXCEPT !.writable = owes(d)]
  <2>1. a.writable = owes(d) /\ (Idle(d) => Idle(a))
    BY Zenon, <1>1 DEF Halves, Idle, FinPending
  <2>2. send' = [send EXCEPT ![s] = a]
    BY Zenon, <1>5
  <2> HIDE DEF a
  <2>3. Listed(a)
    BY Zenon, <1>1, <1>2, <2>1, ListedWrote DEF Listed
  <2> HIDE DEF d
  <2> QED
    BY Zenon, <1>1, <2>2, <2>3, ListedOne
<1> QED
  BY Zenon, <1>4, <1>5 DEF writeStream

(* An acknowledgement gives a stream nothing to send, and a loss lists it.  *)
LEMMA ListedSettled ==
    ASSUME SendInv, OwesIsListed, NEW f \in flight, onPacketAcked(f) \/ onPacketLost(f)
    PROVE  OwesIsListed'
<1> DEFINE s == f.stream
           d == send[s]
<1>1. f \in Frames /\ s \in Streams /\ f.low \in Nat /\ f.high \in Nat
  BY Zenon, FrameType DEF SendInv, Types
<1>2. d \in Halves /\ Listed(d) /\ send \in [Streams -> Halves]
  BY Zenon, <1>1 DEF SendInv, Types, OwesIsListed, Listed, Idle
<1>3. CASE onPacketAcked(f)
  <2> DEFINE a == Acks(d, f)
             k == acknowledge(d, f.low, f.high)
  <2>1. send' = [send EXCEPT ![s] = a]
    BY Zenon, <1>3 DEF onPacketAcked, Acks
  <2>2. CASE f.kind = "reset"
    <3>1. a = [d EXCEPT !.resetAcked = TRUE]
      BY Zenon, <2>2 DEF Acks
    <3>2. Listed(a)
      BY Zenon, <1>2, <3>1 DEF Halves, Listed, Idle, FinPending
    <3> HIDE DEF a, d
    <3> QED
      BY Zenon, <1>2, <2>1, <3>2, ListedOne
  <2>3. CASE f.kind # "reset"
    <3>1. a = [k EXCEPT !.finAcked = @ \/ f.fin]
      BY Zenon, <2>3 DEF Acks
    <3>2. k.lost = subtract(d.lost, f.low, f.high)
      BY Zenon, <1>1, <1>2, AcknowledgeFields
    <3>3. d.lost = <<>> => k.lost = <<>>
      BY Zenon, <1>1, <3>2, SubtractNone
    <3>4. /\ a.writable = d.writable /\ a.reset = d.reset /\ a.resetSent = d.resetSent /\ a.sent = d.sent
          /\ a.written = d.written /\ a.finQueued = d.finQueued /\ a.finSent = d.finSent /\ a.lost = k.lost
      BY Zenon, <1>2, <3>1 DEF Halves, acknowledge
    <3> HIDE DEF a, k
    <3>5. Listed(a)
      BY Zenon, <1>2, <3>3, <3>4 DEF Listed, Idle, FinPending
    <3> HIDE DEF d
    <3> QED
      BY Zenon, <1>2, <2>1, <3>5, ListedOne
  <2> QED
    BY Zenon, <2>2, <2>3
<1>4. CASE onPacketLost(f)
  <2> DEFINE a == Loses(d, f)
             k == declareLost(d, f.low, f.high)
  <2>1. send' = [send EXCEPT ![s] = a]
    BY Zenon, <1>4 DEF onPacketLost, Loses
  <2>2. a \in Halves
    BY Zenon, <1>4, SettledOK DEF onPacketLost, Settle
  <2>3. a.writable
    <3>1. ASSUME NEW x, a = [x EXCEPT !.resetSent = FALSE, !.writable = TRUE] PROVE a.writable
      BY Zenon, <2>2, <3>1 DEF Halves
    <3>2. ASSUME NEW x, a = [x EXCEPT !.finSent = @ /\ ~f.fin, !.writable = TRUE] PROVE a.writable
      BY Zenon, <2>2, <3>2 DEF Halves
    <3> QED
      BY Zenon, <3>1, <3>2 DEF Loses
  <2>4. Listed(a)
    BY Zenon, <2>3 DEF Listed
  <2> HIDE DEF a, d
  <2> QED
    BY Zenon, <1>2, <2>1, <2>4, ListedOne
<1> QED
  BY Zenon, <1>3, <1>4

(* Whatever else the stream does lists it.                                  *)
LEMMA ListedOther ==
    ASSUME SendInv, OwesIsListed, ~Tight, NEW s \in Streams, NEW limit,
           write(s) \/ resetStream(s) \/ writeReset(s) \/ onProbeTimeout(s) \/ maxStreamData(s, limit)
    PROVE  OwesIsListed'
<1> DEFINE d == send[s]
<1>1. d \in Halves /\ Ordered(d) /\ send \in [Streams -> Halves]
  BY Zenon DEF SendInv, Types, StreamOK
<1>2. CASE write(s)
  <2>1. PICK n, fin : send' = [send EXCEPT ![s] = [d EXCEPT !.written = @ + n, !.finQueued = fin, !.writable = TRUE]]
    BY Zenon, <1>2 DEF write
  <2>2. Listed([d EXCEPT !.written = @ + n, !.finQueued = fin, !.writable = TRUE])
    BY Zenon, <1>1 DEF Halves, Listed
  <2> QED
    BY Zenon, <1>1, <2>1, <2>2, ListedOne
<1>3. CASE resetStream(s)
  <2> DEFINE a == [[d EXCEPT !.reset = TRUE] EXCEPT !.writable = TRUE]
  <2>1. send' = [send EXCEPT ![s] = a]
    BY Zenon, <1>1, <1>3 DEF resetStream
  <2>2. Listed(a)
    BY Zenon, <1>1 DEF Halves, Listed
  <2> HIDE DEF a
  <2> QED
    BY Zenon, <1>1, <2>1, <2>2, ListedOne
<1>4. CASE writeReset(s)
  <2> DEFINE a == [d EXCEPT !.resetSent = TRUE, !.writable = FALSE]
  <2>1. send' = [send EXCEPT ![s] = a] /\ d.reset
    BY Zenon, <1>4 DEF writeReset
  <2>2. Listed(a)
    BY Zenon, <1>1, <2>1 DEF Halves, Listed, Idle
  <2> HIDE DEF a
  <2> QED
    BY Zenon, <1>1, <2>1, <2>2, ListedOne
<1>5. CASE onProbeTimeout(s)
  <2> DEFINE k == declareLost(d, d.base, d.sent)
             a == [k EXCEPT !.writable = TRUE]
  <2>1. send' = [send EXCEPT ![s] = a]
    BY Zenon, <1>5 DEF onProbeTimeout
  <2>2. k \in Halves
    <3>1. d.base \in Nat /\ d.sent \in Nat /\ d.sent <= d.sent
      BY <1>1 DEF Halves
    <3> QED
      BY Zenon, <1>1, <3>1, DeclareLostIs
  <2> HIDE DEF k
  <2>3. Listed(a)
    BY Zenon, <2>2 DEF Halves, Listed
  <2> HIDE DEF a
  <2> QED
    BY Zenon, <1>1, <2>1, <2>3, ListedOne
<1>6. CASE maxStreamData(s, limit)
  <2> DEFINE a == [[d EXCEPT !.limit = limit] EXCEPT !.writable = TRUE]
  <2>1. send' = [send EXCEPT ![s] = a]
    BY Zenon, <1>1, <1>6 DEF maxStreamData
  <2>2. Listed(a)
    BY Zenon, <1>1 DEF Halves, Listed
  <2> HIDE DEF a
  <2> QED
    BY Zenon, <1>1, <2>1, <2>2, ListedOne
<1> QED
  BY Zenon, <1>2, <1>3, <1>4, <1>5, <1>6

(* writeStreamFrames: where a packet always has room for a RESET_STREAM, a  *)
(* stream with something to send is in the list the sender walks.  (Without *)
(* room for one a stream leaves the list with its RESET_STREAM unsent.)     *)
THEOREM OwedIsListed ==
    ASSUME SendConstants, ~Tight
    PROVE  Spec => []OwesIsListed
<1>1. Init => OwesIsListed
  <2>1. ~NewStream.reset /\ NewStream.sent = NewStream.written /\ NewStream.lost = <<>> /\ ~FinPending(NewStream)
    BY Zenon DEF NewStream, FinPending
  <2>2. Init => \A s \in Streams : send[s] = NewStream
    BY Zenon DEF Init
  <2> HIDE DEF NewStream
  <2> QED
    BY Zenon, <2>1, <2>2 DEF OwesIsListed
<1>2. SendInv /\ OwesIsListed /\ [Next]_vars => OwesIsListed'
  <2> SUFFICES ASSUME SendInv, OwesIsListed, [Next]_vars PROVE OwesIsListed'
    OBVIOUS
  <2>1. ASSUME UNCHANGED send PROVE OwesIsListed'
    BY Zenon, <2>1 DEF OwesIsListed, FinPending
  <2>2. ASSUME NEW s \in Streams, writeStream(s) PROVE OwesIsListed'
    BY Zenon, <2>2, ListedWrite
  <2>3. ASSUME NEW s \in Streams,
               write(s) \/ resetStream(s) \/ writeReset(s) \/ onProbeTimeout(s) \/ maxStreamData(s, MaxLimit)
        PROVE  OwesIsListed'
    BY Zenon, <2>3, ListedOther
  <2>4. ASSUME NEW f \in flight, onPacketAcked(f) \/ onPacketLost(f) PROVE OwesIsListed'
    BY Zenon, <2>4, ListedSettled
  <2>5. \A f : arrive(f) => UNCHANGED send
    BY Zenon DEF arrive
  <2>6. maxData(MaxLimit) => UNCHANGED send
    BY Zenon DEF maxData
  <2>7. UNCHANGED vars => UNCHANGED send
    BY Zenon DEF vars
  <2> QED
    BY Zenon, <2>1, <2>2, <2>3, <2>4, <2>5, <2>6, <2>7 DEF Next
<1> QED
  BY <1>1, <1>2, SendInvariant, PTL DEF Spec
=============================================================================
