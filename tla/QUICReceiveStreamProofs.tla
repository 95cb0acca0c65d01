---------------------- MODULE QUICReceiveStreamProofs -----------------------
(***************************************************************************)
(* The receiving half of a connection's streams (QUICReceiveStream), for   *)
(* any number of streams and windows of any size, whatever frames arrive:  *)
(* the application reads the bytes in order, each once, and none that was  *)
(* accepted is dropped; what has not been read fits the window; and a      *)
(* final size stays.                                                       *)
(***************************************************************************)
EXTENDS QUICReceiveStream, SequenceTheorems, WellFoundedInduction, FiniteSetTheorems, TLAPS

(* What the constants are: no final size is not a number, and windows are.  *)
ReceiveConstants ==
    /\ Unknown \notin Nat
    /\ InitialMaxStreamData \in Nat /\ InitialMaxData \in Nat /\ MaxOffset \in Nat

(* A piece of early data holds the bytes of its offsets, and a list of them *)
(* is in order.                                                             *)
Pieces == {h \in [offset : Nat, bytes : Seq(Nat)] :
                h.offset < End(h) /\ h.bytes = Bytes(h.offset, End(h))}
Lists == {e \in Seq(Pieces) : \A i, j \in 1..Len(e) : i < j => End(e[i]) <= e[j].offset}
Elems(e) == {e[i] : i \in 1..Len(e)}
Below(A, B) == \A a \in A, b \in B : End(a) <= b.offset

(* The offsets of a set of pieces, one at a time.                           *)
Holds(E, n) == \E h \in E : h.offset <= n /\ n < End(h)

-----------------------------------------------------------------------------
(* A set of numbers has a least one.                                        *)
LEMMA LeastIn ==
    ASSUME NEW S \in SUBSET Nat, S # {}
    PROVE  \E x \in S : \A j \in S : x <= j
<1> DEFINE R == OpToRel(<, Nat)
<1>1. IsWellFoundedOn(R, Nat)
  BY Zenon, NatLessThanWellFounded
<1>2. \A x, y \in Nat : <<y, x>> \in R <=> y < x
  BY Zenon DEF OpToRel
<1> HIDE DEF R
<1>3. PICK x \in S : \A y \in S : ~(<<y, x>> \in R)
  BY Zenon, <1>1, WFMin
<1>4. ASSUME NEW y \in S PROVE x <= y
  <2>1. x \in Nat /\ y \in Nat
    BY Zenon
  <2>2. ~(y < x)
    BY Zenon, <1>2, <1>3, <2>1
  <2> QED
    BY <2>1, <2>2
<1> QED
  BY Zenon, <1>4

(* Induction from m up to n, with the set that the property describes.      *)
LEMMA UpTo ==
    ASSUME NEW m \in Nat, NEW n \in Nat, NEW S, m \in S,
           \A i \in m..n - 1 : i \in S => i + 1 \in S
    PROVE  m..n \subseteq S
<1> DEFINE Out == (m..n) \ S
<1> SUFFICES ASSUME Out # {} PROVE FALSE
  BY Zenon
<1>1. Out \subseteq Nat
  BY SMT
<1>2. PICK x \in Out : \A j \in Out : x <= j
  BY Zenon, <1>1, LeastIn
<1>3. x \in m..n /\ x \notin S /\ x # m
  BY Zenon, <1>2
<1>4. x - 1 \in m..n - 1 /\ x - 1 \in m..n /\ ~(x <= x - 1) /\ (x - 1) + 1 = x
  BY <1>3
<1>5. x - 1 \in S
  BY Zenon, <1>2, <1>4
<1> QED
  BY Zenon, <1>3, <1>4, <1>5

(* A function on m..n given by its first value and each from the one before.*)
Recurs(m, n, a, F, f) == f = [i \in m..n |-> IF i = m THEN a ELSE F[<<i, f[i - 1]>>]]

(* There is such a function.                                                *)
LEMMA PrimRec ==
    ASSUME NEW m \in Nat, NEW n \in Nat, m <= n, NEW A, NEW a \in A,
           NEW F \in [(m + 1..n) \X A -> A]
    PROVE  \E f \in [m..n -> A] : Recurs(m, n, a, F, f)
<1> DEFINE Rec(k, f) == Recurs(m, k, a, F, f)
           S == {k \in m..n : \E f \in [m..k -> A] : Rec(k, f)}
<1>1. m \in S
  <2> DEFINE f == [i \in m..m |-> a]
  <2>1. m \in m..n /\ m..m = {m}
    BY SMT
  <2>2. f \in [m..m -> A]
    BY Zenon
  <2>3. \A i \in m..m : i = m
    BY Zenon, <2>1
  <2>4. Rec(m, f)
    BY Zenon, <2>3 DEF Recurs
  <2> QED
    BY Zenon, <2>1, <2>2, <2>4
<1>2. ASSUME NEW k \in m..n - 1, k \in S PROVE k + 1 \in S
  <2>1. PICK f \in [m..k -> A] : Rec(k, f)
    BY Zenon, <1>2
  <2> HIDE DEF Rec
  <2>2. k + 1 \in m..n /\ k + 1 \in m + 1..n /\ k \in m..k /\ k + 1 # m /\ (k + 1) - 1 = k
    BY <1>2
  <2>3. \A i \in m..k + 1 : i = k + 1 \/ (i \in m..k /\ i # k + 1)
    BY <1>2
  <2>4. \A i \in m..k : i # m => i - 1 \in m..k /\ i - 1 # k + 1 /\ i \in m + 1..n
    BY <1>2
  <2> DEFINE new == F[<<k + 1, f[k]>>]
             g == [i \in m..k + 1 |-> IF i = k + 1 THEN new ELSE f[i]]
  <2>5. new \in A
    BY Zenon, <2>2
  <2>6. g \in [m..k + 1 -> A]
    BY Zenon, <2>3, <2>5
  <2>7. \A i \in m..k : g[i] = f[i]
    <3>1. \A i \in m..k : i \in m..k + 1 /\ i # k + 1
      BY <1>2
    <3> QED
      BY Zenon, <3>1
  <2>8. \A i \in m..k : f[i] = IF i = m THEN a ELSE F[<<i, f[i - 1]>>]
    BY Zenon, <2>1 DEF Rec, Recurs
  <2>9. ASSUME NEW i \in m..k + 1 PROVE g[i] = IF i = m THEN a ELSE F[<<i, g[i - 1]>>]
    <3>1. CASE i = k + 1
      BY Zenon, <3>1, <2>2, <2>7
    <3>2. CASE i # k + 1
      BY Zenon, <3>2, <2>3, <2>4, <2>7, <2>8
    <3> QED
      BY Zenon, <3>1, <3>2
  <2>10. Rec(k + 1, g)
    BY Zenon, <2>6, <2>9 DEF Rec, Recurs
  <2> QED
    BY Zenon, <2>2, <2>6, <2>10
<1> HIDE DEF S
<1>3. m..n \subseteq S
  BY Zenon, <1>1, <1>2, UpTo
<1>4. n \in S
  BY <1>3
<1> QED
  BY Zenon, <1>4 DEF S

-----------------------------------------------------------------------------
(* The bytes of a range.                                                    *)
LEMMA BytesAre ==
    ASSUME NEW a \in Nat, NEW b \in Nat, a <= b
    PROVE  /\ Bytes(a, b) \in Seq(Nat) /\ Len(Bytes(a, b)) = b - a
           /\ \A k \in 1..b - a : Bytes(a, b)[k] = a + k - 1
  BY DEF Bytes

(* Bytes that follow on.                                                    *)
LEMMA BytesJoin ==
    ASSUME NEW a \in Nat, NEW b \in Nat, NEW c \in Nat, a <= b, b <= c
    PROVE  Bytes(a, b) \o Bytes(b, c) = Bytes(a, c)
<1> DEFINE x == Bytes(a, b)
           y == Bytes(b, c)
           z == Bytes(a, c)
<1>0. a <= c
  OBVIOUS
<1>1. /\ x \in Seq(Nat) /\ y \in Seq(Nat) /\ z \in Seq(Nat)
      /\ Len(x) = b - a /\ Len(y) = c - b /\ Len(z) = c - a
      /\ \A k \in 1..b - a : x[k] = a + k - 1
      /\ \A k \in 1..c - b : y[k] = b + k - 1
      /\ \A k \in 1..c - a : z[k] = a + k - 1
  BY Zenon, <1>0, BytesAre
<1> HIDE DEF x, y, z
<1> DEFINE w == x \o y
<1>2. /\ w \in Seq(Nat) /\ Len(w) = Len(x) + Len(y)
      /\ \A i \in 1..Len(x) + Len(y) : w[i] = IF i <= Len(x) THEN x[i] ELSE y[i - Len(x)]
  BY Zenon, <1>1, ConcatProperties
<1> HIDE DEF w
<1>3. Len(w) = Len(z)
  BY <1>1, <1>2
<1>5. ASSUME NEW i \in 1..Len(w) PROVE w[i] = z[i]
  <2>1. w[i] = (IF i <= Len(x) THEN x[i] ELSE y[i - Len(x)]) /\ z[i] = a + i - 1
    BY Zenon, <1>1, <1>2, <1>3
  <2> QED
    BY SMTT(30), <1>1, <1>2, <2>1
<1>4. w = z
  BY Zenon, <1>1, <1>2, <1>3, <1>5, SeqEqual
<1> QED
  BY Zenon, <1>4 DEF w, x, y, z

(* A part of the bytes of a range.                                          *)
Chain(a, m, n, b) == a \in Nat /\ m \in Nat /\ n \in Nat /\ b \in Nat /\ a <= m /\ m <= n /\ n <= b

(* A part of a run of bytes.                                                *)
LEMMA BytesPart ==
    ASSUME NEW a, NEW m, NEW n, NEW b, Chain(a, m, n, b)
    PROVE  SubSeq(Bytes(a, b), m - a + 1, n - a) = Bytes(m, n)
<1> DEFINE x == Bytes(a, b)
           z == Bytes(m, n)
           w == SubSeq(x, m - a + 1, n - a)
<1>7. a \in Nat /\ m \in Nat /\ n \in Nat /\ b \in Nat /\ a <= m /\ m <= n /\ n <= b
  BY Zenon DEF Chain
<1>0. a <= b
  BY <1>7
<1>1. /\ x \in Seq(Nat) /\ z \in Seq(Nat) /\ Len(x) = b - a /\ Len(z) = n - m
      /\ \A k \in 1..b - a : x[k] = a + k - 1
      /\ \A k \in 1..n - m : z[k] = m + k - 1
  BY Zenon, <1>0, <1>7, BytesAre
<1> HIDE DEF x, z
<1>2. m - a + 1 \in Int /\ n - a \in Int /\ \A i \in m - a + 1..n - a : x[i] \in Nat
  BY SMTT(30), <1>1, <1>7
<1>3. /\ w \in Seq(Nat)
      /\ Len(w) = IF m - a + 1 <= n - a THEN (n - a) - (m - a + 1) + 1 ELSE 0
      /\ \A i \in 1..(n - a) - (m - a + 1) + 1 : w[i] = x[(m - a + 1) + i - 1]
  BY <1>2, SubSeqProperties
<1> HIDE DEF w
<1>4. Len(w) = Len(z)
  BY <1>1, <1>3, <1>7
<1>5. ASSUME NEW i \in 1..Len(w) PROVE w[i] = z[i]
  <2>1. i \in 1..n - m /\ i \in 1..(n - a) - (m - a + 1) + 1 /\ (m - a + 1) + i - 1 \in 1..b - a
    BY <1>1, <1>4, <1>7
  <2>2. w[i] = x[(m - a + 1) + i - 1] /\ z[i] = m + i - 1
    BY Zenon, <1>1, <1>3, <2>1
  <2> QED
    BY <1>1, <1>7, <2>1, <2>2
<1>6. w = z
  BY Zenon, <1>1, <1>3, <1>4, <1>5, SeqEqual
<1> QED
  BY Zenon, <1>6 DEF w, x, z

-----------------------------------------------------------------------------
(* A piece.                                                                 *)
LEMMA PieceType ==
    ASSUME NEW h \in Pieces
    PROVE  /\ h.offset \in Nat /\ h.bytes \in Seq(Nat) /\ End(h) \in Nat /\ h.offset < End(h)
           /\ h.bytes = Bytes(h.offset, End(h)) /\ Len(h.bytes) = End(h) - h.offset
<1>1. h.offset \in Nat /\ h.bytes \in Seq(Nat) /\ h.offset < End(h) /\ h.bytes = Bytes(h.offset, End(h))
  BY Zenon DEF Pieces
<1>2. Len(h.bytes) \in Nat
  BY Zenon, <1>1, LenProperties
<1>3. End(h) \in Nat /\ Len(h.bytes) = End(h) - h.offset
  BY <1>1, <1>2 DEF End
<1> QED
  BY Zenon, <1>1, <1>3

(* What is left of it from an offset on.                                    *)
LEMMA PieceTail ==
    ASSUME NEW h \in Pieces, NEW n \in Nat, h.offset <= n, n <= End(h)
    PROVE  SubSeq(h.bytes, n - h.offset + 1, Len(h.bytes)) = Bytes(n, End(h))
<1> DEFINE a == h.offset
           b == End(h)
<1>1. a \in Nat /\ b \in Nat /\ a <= n /\ n <= b /\ h.bytes = Bytes(a, b) /\ Len(h.bytes) = b - a
  BY Zenon, PieceType
<1> HIDE DEF a, b
<1>2. b <= b
  BY <1>1
<1>5. Chain(a, n, b, b)
  BY Zenon, <1>1, <1>2 DEF Chain
<1>3. SubSeq(Bytes(a, b), n - a + 1, b - a) = Bytes(n, b)
  BY Zenon, <1>5, BytesPart
<1>4. SubSeq(h.bytes, n - a + 1, Len(h.bytes)) = Bytes(n, b)
  BY Zenon, <1>1, <1>3
<1> QED
  BY Zenon, <1>4 DEF a, b

(* A list of pieces.                                                        *)
LEMMA ListType ==
    ASSUME NEW e \in Lists
    PROVE  /\ e \in Seq(Pieces) /\ Len(e) \in Nat
           /\ \A i \in 1..Len(e) : /\ e[i] \in Pieces /\ e[i].offset \in Nat /\ End(e[i]) \in Nat
                                   /\ e[i].offset < End(e[i])
           /\ \A i, j \in 1..Len(e) : i < j => End(e[i]) <= e[j].offset
<1>1. e \in Seq(Pieces) /\ \A i, j \in 1..Len(e) : i < j => End(e[i]) <= e[j].offset
  BY Zenon DEF Lists
<1>2. Len(e) \in Nat /\ \A i \in 1..Len(e) : e[i] \in Pieces
  BY Zenon, <1>1, LenProperties, ElementOfSeq
<1> QED
  BY Zenon, <1>1, <1>2, PieceType

(* Its elements are pieces.                                                 *)
LEMMA ElemType ==
    ASSUME NEW e \in Lists, NEW h \in Elems(e)
    PROVE  /\ h \in Pieces /\ h.offset \in Nat /\ End(h) \in Nat /\ h.offset < End(h)
  BY Zenon, ListType DEF Elems

(* The list of one piece, and the empty list.                               *)
LEMMA OneIs ==
    ASSUME NEW h \in Pieces
    PROVE  <<h>> \in Lists /\ Elems(<<h>>) = {h}
<1>1. <<h>> \in Seq(Pieces) /\ Len(<<h>>) = 1 /\ <<h>>[1] = h
  OBVIOUS
<1>2. 1..1 = {1} /\ \A i, j \in {1} : ~(i < j)
  BY SMT
<1> QED
  BY Zenon, <1>1, <1>2 DEF Lists, Elems

(* The empty list.                                                          *)
LEMMA NoneIs == <<>> \in Lists /\ Elems(<<>>) = {}
<1>1. <<>> \in Seq(Pieces) /\ Len(<<>>) = 0 /\ 1..0 = {}
  BY SMT
<1> QED
  BY Zenon, <1>1 DEF Lists, Elems

(* The list of the bytes from low to high: one piece or none.               *)
LEMMA PieceIs ==
    ASSUME NEW low \in Nat, NEW high \in Nat
    PROVE  /\ Piece(low, high) \in Lists
           /\ \A h \in Elems(Piece(low, high)) : low < high /\ h.offset = low /\ End(h) = high
           /\ \A n \in Nat : Holds(Elems(Piece(low, high)), n) <=> low <= n /\ n < high
<1>1. CASE low < high
  <2> DEFINE h == [offset |-> low, bytes |-> Bytes(low, high)]
  <2>1. low <= high /\ low + (high - low) = high
    BY <1>1
  <2>2. Bytes(low, high) \in Seq(Nat) /\ Len(Bytes(low, high)) = high - low
    BY Zenon, <2>1, BytesAre
  <2>3. h \in [offset : Nat, bytes : Seq(Nat)] /\ h.offset = low /\ h.bytes = Bytes(low, high)
    BY Zenon, <2>2
  <2>4. End(h) = high
    BY Zenon, <2>1, <2>2, <2>3 DEF End
  <2>5. Piece(low, high) = <<h>>
    BY Zenon, <1>1 DEF Piece
  <2> HIDE DEF h
  <2>6. h \in Pieces
    BY Zenon, <1>1, <2>3, <2>4 DEF Pieces
  <2>7. Piece(low, high) \in Lists /\ Elems(Piece(low, high)) = {h}
    BY Zenon, <2>5, <2>6, OneIs
  <2> QED
    BY Zenon, <1>1, <2>3, <2>4, <2>7 DEF Holds
<1>2. CASE ~(low < high)
  <2>1. Piece(low, high) = <<>>
    BY Zenon, <1>2 DEF Piece
  <2>2. Piece(low, high) \in Lists /\ Elems(Piece(low, high)) = {}
    BY Zenon, <2>1, NoneIs
  <2>3. \A n \in Nat : ~(low <= n /\ n < high)
    BY <1>2
  <2> QED
    BY Zenon, <2>2, <2>3 DEF Holds
<1> QED
  BY Zenon, <1>1, <1>2

(* Two lists make one when the second lies above the first.                 *)
LEMMA Join ==
    ASSUME NEW a \in Lists, NEW b \in Lists, Below(Elems(a), Elems(b))
    PROVE  a \o b \in Lists /\ Elems(a \o b) = Elems(a) \cup Elems(b)
<1> DEFINE c == a \o b
<1>1. /\ a \in Seq(Pieces) /\ b \in Seq(Pieces) /\ Len(a) \in Nat /\ Len(b) \in Nat
      /\ \A i, j \in 1..Len(a) : i < j => End(a[i]) <= a[j].offset
      /\ \A i, j \in 1..Len(b) : i < j => End(b[i]) <= b[j].offset
  BY Zenon, ListType
<1>2. /\ c \in Seq(Pieces) /\ Len(c) = Len(a) + Len(b)
      /\ \A i \in 1..Len(a) + Len(b) : c[i] = IF i <= Len(a) THEN a[i] ELSE b[i - Len(a)]
  BY Zenon, <1>1, ConcatProperties
<1> HIDE DEF c
<1>3. \A i \in 1..Len(c) : \/ i \in 1..Len(a) /\ c[i] = a[i]
                          \/ /\ ~(i \in 1..Len(a)) /\ Len(a) < i /\ i - Len(a) \in 1..Len(b)
                             /\ c[i] = b[i - Len(a)]
  <2> SUFFICES ASSUME NEW i \in 1..Len(c)
               PROVE  \/ i \in 1..Len(a) /\ c[i] = a[i]
                      \/ /\ ~(i \in 1..Len(a)) /\ Len(a) < i /\ i - Len(a) \in 1..Len(b)
                         /\ c[i] = b[i - Len(a)]
    BY Zenon
  <2>1. c[i] = IF i <= Len(a) THEN a[i] ELSE b[i - Len(a)]
    BY Zenon, <1>2
  <2>2. CASE i <= Len(a)
    <3>1. i \in 1..Len(a)
      BY <1>1, <1>2, <2>2
    <3> QED
      BY Zenon, <2>1, <2>2, <3>1
  <2>3. CASE ~(i <= Len(a))
    <3>1. ~(i \in 1..Len(a)) /\ Len(a) < i /\ i - Len(a) \in 1..Len(b)
      BY <1>1, <1>2, <2>3
    <3> QED
      BY Zenon, <2>1, <2>3, <3>1
  <2> QED
    BY Zenon, <2>2, <2>3
<1>4. \A i \in 1..Len(a) : i \in 1..Len(c) /\ c[i] = a[i]
  <2>1. \A i \in 1..Len(a) : i \in 1..Len(c) /\ i <= Len(a)
    BY <1>1, <1>2
  <2> QED
    BY Zenon, <1>2, <2>1
<1>5. \A i \in 1..Len(b) : Len(a) + i \in 1..Len(c) /\ c[Len(a) + i] = b[i]
  <2>1. \A i \in 1..Len(b) : /\ Len(a) + i \in 1..Len(c) /\ ~(Len(a) + i <= Len(a))
                             /\ (Len(a) + i) - Len(a) = i
    BY <1>1, <1>2
  <2> QED
    BY Zenon, <1>2, <2>1
<1>6. Elems(c) = Elems(a) \cup Elems(b)
  <2>1. ASSUME NEW x \in Elems(c) PROVE x \in Elems(a) \cup Elems(b)
    BY Zenon, <1>3 DEF Elems
  <2>2. ASSUME NEW x \in Elems(a) PROVE x \in Elems(c)
    BY Zenon, <1>4 DEF Elems
  <2>3. ASSUME NEW x \in Elems(b) PROVE x \in Elems(c)
    BY Zenon, <1>5 DEF Elems
  <2> QED
    BY Zenon, <2>1, <2>2, <2>3
<1>8. ASSUME NEW i \in 1..Len(c), NEW j \in 1..Len(c), i < j PROVE End(c[i]) <= c[j].offset
  <2>1. CASE i \in 1..Len(a) /\ j \in 1..Len(a)
    BY Zenon, <1>1, <1>3, <1>8, <2>1
  <2>2. CASE i \in 1..Len(a) /\ ~(j \in 1..Len(a))
    <3>1. c[i] \in Elems(a) /\ c[j] \in Elems(b)
      BY Zenon, <1>3, <2>2 DEF Elems
    <3> QED
      BY Zenon, <3>1 DEF Below
  <2>3. CASE ~(i \in 1..Len(a))
    <3>1. ~(j \in 1..Len(a)) /\ i - Len(a) < j - Len(a)
      BY <1>1, <1>2, <1>8, <2>3
    <3> QED
      BY Zenon, <1>1, <1>3, <2>3, <3>1
  <2> QED
    BY Zenon, <2>1, <2>2, <2>3
<1> QED
  BY Zenon, <1>2, <1>6, <1>8 DEF Lists, c

-----------------------------------------------------------------------------
(* The walk of insertEarly after i pieces: what it has kept is in order,    *)
(* ends before the rest, and is what those pieces hold and what is new of   *)
(* the bytes walked past.                                                   *)
Had(e, i, n) == \E j \in 1..i : e[j].offset <= n /\ n < End(e[j])
Accs == [low : Nat, kept : Seq(Pieces)]
Walked(e, low, high, i, acc) ==
    /\ acc \in Accs /\ acc.kept \in Lists /\ low <= acc.low
    /\ \A h \in Elems(acc.kept) :
        /\ End(h) <= acc.low \/ high <= acc.low
        /\ \A j \in 1..Len(e) : i < j => End(h) <= e[j].offset
    /\ \A n \in Nat : Holds(Elems(acc.kept), n) <=> Had(e, i, n) \/ (low <= n /\ n < acc.low /\ n < high)

(* What a list holds up to one piece more.                                  *)
LEMMA HadNext ==
    ASSUME NEW e, NEW i \in Nat
    PROVE  \A n : Had(e, i + 1, n) <=> Had(e, i, n) \/ (e[i + 1].offset <= n /\ n < End(e[i + 1]))
<1>1. \A j \in 1..i + 1 : j \in 1..i \/ j = i + 1
  OBVIOUS
<1>2. i + 1 \in 1..i + 1 /\ \A j \in 1..i : j \in 1..i + 1
  OBVIOUS
<1> QED
  BY Zenon, <1>1, <1>2 DEF Had

(* What a whole list holds.                                                 *)
LEMMA HadAll == \A e, n : Had(e, Len(e), n) <=> Holds(Elems(e), n)
  BY Zenon DEF Had, Holds, Elems

(* What two lists hold together.                                            *)
LEMMA HoldsCup == \A A, B, n : Holds(A \cup B, n) <=> Holds(A, n) \/ Holds(B, n)
  BY Zenon DEF Holds

(* What one piece holds.                                                    *)
LEMMA HoldsOne == \A h, n : Holds({h}, n) <=> h.offset <= n /\ n < End(h)
  BY Zenon DEF Holds

(* One piece of the walk is appended.                                       *)
LEMMA WalkSkips ==
    ASSUME NEW e \in Lists, NEW low \in Nat, NEW high \in Nat, NEW i \in Nat, i + 1 \in 1..Len(e),
           NEW acc, Walked(e, low, high, i, acc), End(e[i + 1]) <= acc.low
    PROVE  Walked(e, low, high, i + 1, Walk(acc, e[i + 1], high))
<1> DEFINE h == e[i + 1]
           k == acc.kept \o <<h>>
           new == [acc EXCEPT !.kept = k]
<1>1. h \in Pieces /\ \A j \in 1..Len(e) : i + 1 < j => End(h) <= e[j].offset
  BY Zenon, ListType
<1>2. acc \in Accs /\ acc.low \in Nat /\ acc.kept \in Lists /\ acc.kept \in Seq(Pieces)
  BY Zenon DEF Walked, Accs, Lists
<1>3. Walk(acc, h, high) = new
  BY Zenon, <1>1, <1>2, AppendIsConcat DEF Walk
<1>4. <<h>> \in Lists /\ Elems(<<h>>) = {h}
  BY Zenon, <1>1, OneIs
<1>5. i < i + 1 /\ \A j \in 1..Len(e) : i + 1 < j => i < j
  BY ListType
<1>6. \A g \in Elems(acc.kept) : End(g) <= h.offset
  BY Zenon, <1>5 DEF Walked
<1>7. k \in Lists /\ Elems(k) = Elems(acc.kept) \cup {h}
  BY ZenonT(60), <1>2, <1>4, <1>6, Join DEF Below
<1> HIDE DEF k
<1>8. new \in Accs /\ new.low = acc.low /\ new.kept = k
  BY Zenon, <1>2, <1>7 DEF Accs, Lists
<1>9. \A n \in Nat : Holds(Elems(k), n) <=> Had(e, i + 1, n) \/ (low <= n /\ n < acc.low /\ n < high)
  <2> SUFFICES ASSUME NEW n \in Nat
               PROVE  Holds(Elems(k), n) <=> Had(e, i + 1, n) \/ (low <= n /\ n < acc.low /\ n < high)
    BY Zenon
  <2>1. Holds(Elems(acc.kept), n) <=> Had(e, i, n) \/ (low <= n /\ n < acc.low /\ n < high)
    BY Zenon DEF Walked
  <2>2. Holds(Elems(k), n) <=> Holds(Elems(acc.kept), n) \/ (h.offset <= n /\ n < End(h))
    <3>1. Holds(Elems(acc.kept) \cup {h}, n) <=> Holds(Elems(acc.kept), n) \/ Holds({h}, n)
      BY Zenon, HoldsCup
    <3>2. Holds({h}, n) <=> h.offset <= n /\ n < End(h)
      BY Zenon, HoldsOne
    <3> QED
      BY Zenon, <1>7, <3>1, <3>2
  <2>3. Had(e, i + 1, n) <=> Had(e, i, n) \/ (h.offset <= n /\ n < End(h))
    BY Zenon, HadNext
  <2> QED
    BY Zenon, <2>1, <2>2, <2>3
<1>10. \A g \in Elems(k) : /\ End(g) <= acc.low \/ high <= acc.low
                          /\ \A j \in 1..Len(e) : i + 1 < j => End(g) <= e[j].offset
  BY Zenon, <1>1, <1>5, <1>7 DEF Walked
<1> HIDE DEF new
<1>11. Walked(e, low, high, i + 1, new)
  BY Zenon, <1>7, <1>8, <1>9, <1>10 DEF Walked
<1> QED
  BY Zenon, <1>3, <1>11

(* The lower of two numbers.                                                *)
LEMMA LowerIs ==
    \A a, b \in Nat : Lower(a, b) \in Nat /\ Lower(a, b) <= a /\ Lower(a, b) <= b
                      /\ \A n \in Nat : n < Lower(a, b) <=> n < a /\ n < b
  BY DEF Lower

(* The higher of two numbers.                                               *)
LEMMA HigherIs ==
    \A a, b \in Nat : Higher(a, b) \in Nat /\ a <= Higher(a, b) /\ b <= Higher(a, b)
                      /\ \A n \in Nat : n < Higher(a, b) <=> n < a \/ n < b
  BY DEF Higher

(* The gap before a piece is filled, and the piece put back.                *)
LEMMA WalkFills ==
    ASSUME NEW e \in Lists, NEW low \in Nat, NEW high \in Nat, NEW i \in Nat, i + 1 \in 1..Len(e),
           NEW acc, Walked(e, low, high, i, acc), ~(End(e[i + 1]) <= acc.low)
    PROVE  Walked(e, low, high, i + 1, Walk(acc, e[i + 1], high))
<1> DEFINE h == e[i + 1]
           o == Lower(h.offset, high)
           l == Higher(acc.low, Lower(End(h), high))
           gap == Piece(acc.low, o)
           k == acc.kept \o gap \o <<h>>
           new == [low |-> l, kept |-> k]
<1>1. /\ h \in Pieces /\ h.offset \in Nat /\ End(h) \in Nat /\ h.offset < End(h)
      /\ \A j \in 1..Len(e) : i + 1 < j => End(h) <= e[j].offset
  BY Zenon, ListType
<1>2. acc \in Accs /\ acc.low \in Nat /\ acc.kept \in Lists /\ low <= acc.low
  BY Zenon DEF Walked, Accs
<1>3. Walk(acc, h, high) = new
  BY Zenon DEF Walk
<1>4. <<h>> \in Lists /\ Elems(<<h>>) = {h}
  BY Zenon, <1>1, OneIs
<1>5. /\ o \in Nat /\ o <= h.offset /\ o <= high /\ \A n \in Nat : n < o <=> n < h.offset /\ n < high
  BY Zenon, <1>1, LowerIs
<1>6. /\ l \in Nat /\ acc.low <= l
      /\ \A n \in Nat : n < l <=> n < acc.low \/ (n < End(h) /\ n < high)
  <2> DEFINE m == Lower(End(h), high)
  <2>1. m \in Nat /\ \A n \in Nat : n < m <=> n < End(h) /\ n < high
    BY Zenon, <1>1, LowerIs
  <2> HIDE DEF m
  <2>2. /\ Higher(acc.low, m) \in Nat /\ acc.low <= Higher(acc.low, m)
        /\ \A n \in Nat : n < Higher(acc.low, m) <=> n < acc.low \/ n < m
    BY Zenon, <1>2, <2>1, HigherIs
  <2>3. l = Higher(acc.low, m)
    BY Zenon DEF m
  <2> HIDE DEF l
  <2> QED
    BY Zenon, <2>1, <2>2, <2>3
<1> HIDE DEF o, l
<1>7. /\ gap \in Lists
      /\ \A g \in Elems(gap) : acc.low < o /\ g.offset = acc.low /\ End(g) = o
      /\ \A n \in Nat : Holds(Elems(gap), n) <=> acc.low <= n /\ n < o
  BY Zenon, <1>2, <1>5, PieceIs
<1> HIDE DEF gap
<1>8. /\ \A j \in 1..Len(e) : i + 1 < j => i < j
      /\ i < i + 1
  BY ListType
<1>9. \A g \in Elems(acc.kept) : End(g) <= h.offset /\ (End(g) <= acc.low \/ high <= acc.low)
  BY Zenon, <1>8 DEF Walked
<1>10. acc.kept \o gap \in Lists /\ Elems(acc.kept \o gap) = Elems(acc.kept) \cup Elems(gap)
  <2>1. Below(Elems(acc.kept), Elems(gap))
    <3>1. ASSUME NEW g \in Elems(acc.kept), NEW b \in Elems(gap) PROVE End(g) <= b.offset
      <4>1. acc.low < o /\ b.offset = acc.low /\ (End(g) <= acc.low \/ high <= acc.low)
        BY Zenon, <1>7, <1>9
      <4> QED
        BY <1>2, <1>5, <4>1
    <3> QED
      BY Zenon, <3>1 DEF Below
  <2> QED
    BY Zenon, <1>2, <1>7, <2>1, Join
<1>11. k \in Lists /\ Elems(k) = Elems(acc.kept) \cup Elems(gap) \cup {h}
  <2>1. Below(Elems(acc.kept \o gap), Elems(<<h>>))
    BY Zenon, <1>4, <1>5, <1>7, <1>9, <1>10 DEF Below
  <2> QED
    BY Zenon, <1>4, <1>10, <2>1, Join
<1> HIDE DEF k
<1>12. new \in Accs /\ new.low = l /\ new.kept = k
  BY Zenon, <1>6, <1>11 DEF Accs, Lists
<1> HIDE DEF new
<1>13. low <= l
  BY <1>2, <1>6
<1>14. ASSUME NEW n \in Nat
       PROVE  Holds(Elems(k), n) <=> Had(e, i + 1, n) \/ (low <= n /\ n < l /\ n < high)
  <2>1. Holds(Elems(acc.kept), n) <=> Had(e, i, n) \/ (low <= n /\ n < acc.low /\ n < high)
    BY Zenon DEF Walked
  <2>2. Holds(Elems(gap), n) <=> acc.low <= n /\ n < o
    BY Zenon, <1>7
  <2>3. Holds(Elems(k), n) <=> Holds(Elems(acc.kept), n) \/ Holds(Elems(gap), n) \/ (h.offset <= n /\ n < End(h))
    <3>1. Holds((Elems(acc.kept) \cup Elems(gap)) \cup {h}, n) <=>
              Holds(Elems(acc.kept) \cup Elems(gap), n) \/ Holds({h}, n)
      BY Zenon, HoldsCup
    <3>2. Holds(Elems(acc.kept) \cup Elems(gap), n) <=> Holds(Elems(acc.kept), n) \/ Holds(Elems(gap), n)
      BY Zenon, HoldsCup
    <3>3. Holds({h}, n) <=> h.offset <= n /\ n < End(h)
      BY Zenon, HoldsOne
    <3> QED
      BY Zenon, <1>11, <3>1, <3>2, <3>3
  <2>4. Had(e, i + 1, n) <=> Had(e, i, n) \/ (h.offset <= n /\ n < End(h))
    BY Zenon, HadNext
  <2>5. (n < o <=> n < h.offset /\ n < high) /\ (n < l <=> n < acc.low \/ (n < End(h) /\ n < high))
    BY Zenon, <1>5, <1>6
  <2> QED
    BY <1>1, <1>2, <2>1, <2>2, <2>3, <2>4, <2>5
<1>15. ASSUME NEW g \in Elems(k)
       PROVE  /\ End(g) <= l \/ high <= l
              /\ \A j \in 1..Len(e) : i + 1 < j => End(g) <= e[j].offset
  <2>1. End(h) <= l \/ high <= l
    <3>1. ~(l < l) /\ (~(l < End(h)) => End(h) <= l) /\ (~(l < high) => high <= l)
      BY <1>1, <1>6
    <3> QED
      BY Zenon, <1>6, <3>1
  <2>2. CASE g \in Elems(acc.kept)
    <3>1. (End(g) <= acc.low \/ high <= acc.low) /\ End(g) \in Nat
      BY Zenon, <1>2, <1>9, <2>2, ElemType
    <3>2. End(g) <= l \/ high <= l
      BY <1>2, <1>6, <3>1
    <3> QED
      BY Zenon, <1>8, <2>2, <3>2 DEF Walked
  <2>3. CASE g = h
    BY Zenon, <1>1, <2>1, <2>3
  <2>4. CASE g \in Elems(gap)
    <3>1. acc.low < o /\ End(g) = o
      BY Zenon, <1>7, <2>4
    <3>2. o <= l \/ high <= l
      BY <1>1, <1>5, <1>6, <2>1
    <3>3. ASSUME NEW j \in 1..Len(e), i + 1 < j PROVE o <= e[j].offset
      <4>1. End(h) <= e[j].offset /\ e[j].offset \in Nat
        BY Zenon, <1>1, <3>3, ListType
      <4> QED
        BY <1>1, <1>5, <4>1
    <3> QED
      BY Zenon, <3>1, <3>2, <3>3
  <2> QED
    BY Zenon, <1>11, <2>2, <2>3, <2>4
<1> QED
  BY Zenon, <1>3, <1>11, <1>12, <1>13, <1>14, <1>15 DEF Walked

(* The walk stays within its type, whatever it has kept.                    *)
LEMMA WalkType ==
    ASSUME NEW acc \in Accs, NEW h \in Pieces, NEW high \in Nat
    PROVE  Walk(acc, h, high) \in Accs
<1>1. acc.low \in Nat /\ acc.kept \in Seq(Pieces) /\ h.offset \in Nat /\ End(h) \in Nat
  BY Zenon, PieceType DEF Accs
<1>2. Append(acc.kept, h) \in Seq(Pieces)
  BY Zenon, <1>1, AppendProperties
<1>3. Lower(h.offset, high) \in Nat /\ Lower(End(h), high) \in Nat
  BY Zenon, <1>1, LowerIs
<1>4. Higher(acc.low, Lower(End(h), high)) \in Nat
  BY Zenon, <1>1, <1>3, HigherIs
<1>5. Piece(acc.low, Lower(h.offset, high)) \in Seq(Pieces) /\ <<h>> \in Seq(Pieces)
  BY Zenon, <1>1, <1>3, PieceIs, OneIs DEF Lists
<1>6. acc.kept \o Piece(acc.low, Lower(h.offset, high)) \o <<h>> \in Seq(Pieces)
  BY Zenon, <1>1, <1>5, ConcatProperties
<1> QED
  BY Zenon, <1>1, <1>2, <1>4, <1>6 DEF Walk, Accs

(* Early data is kept in order, and is what was held and what came.         *)
LEMMA InsertIs ==
    ASSUME NEW e \in Lists, NEW low \in Nat, NEW high \in Nat
    PROVE  /\ insertEarly(e, low, high) \in Lists
           /\ \A n \in Nat : Holds(Elems(insertEarly(e, low, high)), n) <=>
                 Holds(Elems(e), n) \/ (low <= n /\ n < high)
<1> DEFINE N == Len(e)
           start == [low |-> low, kept |-> <<>>]
           F == [x \in (0 + 1..N) \X Accs |-> Walk(x[2], e[x[1]], high)]
           Fixed(f) == f = [i \in 0..N |-> IF i = 0 THEN start ELSE Walk(f[i - 1], e[i], high)]
           walk == CHOOSE f : Fixed(f)
           end == walk[N]
<1>1. N \in Nat /\ 0 \in Nat /\ 0 <= N /\ \A i \in 1..N : e[i] \in Pieces
  <2>1. N \in Nat /\ \A i \in 1..N : e[i] \in Pieces
    BY Zenon, ListType
  <2> QED
    BY <2>1
<1>2. insertEarly(e, low, high) = end.kept \o Piece(end.low, high)
  BY Zenon DEF insertEarly
<1> HIDE DEF N
<1>3. start \in Accs
  BY Zenon, NoneIs DEF Accs, Lists
<1>4. \A i \in 0 + 1..N : i \in 1..N /\ i # 0 /\ i - 1 \in 0..N
  BY <1>1
<1>5. F \in [(0 + 1..N) \X Accs -> Accs]
  BY Zenon, <1>1, <1>4, WalkType
<1>6. PICK f \in [0..N -> Accs] : Recurs(0, N, start, F, f)
  BY Zenon, <1>1, <1>3, <1>5, PrimRec
<1>7. \A i \in 0..N : i # 0 => i \in 0 + 1..N /\ i - 1 \in 0..N
  BY <1>1
<1>8. Fixed(f)
  <2>1. \A i \in 0..N : i # 0 => F[<<i, f[i - 1]>>] = Walk(f[i - 1], e[i], high)
    <3> SUFFICES ASSUME NEW i \in 0..N, i # 0 PROVE F[<<i, f[i - 1]>>] = Walk(f[i - 1], e[i], high)
      BY Zenon
    <3>1. <<i, f[i - 1]>> \in (0 + 1..N) \X Accs
      BY Zenon, <1>7
    <3> QED
      BY Zenon, <3>1
  <2> HIDE DEF F, start
  <2>2. \A i \in 0..N : f[i] = IF i = 0 THEN start ELSE F[<<i, f[i - 1]>>]
    BY Zenon, <1>6 DEF Recurs
  <2>3. \A i \in 0..N : f[i] = IF i = 0 THEN start ELSE Walk(f[i - 1], e[i], high)
    BY Zenon, <2>1, <2>2
  <2> QED
    BY Zenon, <1>6, <2>3
<1>9. Fixed(walk)
  BY Zenon, <1>8
<1> HIDE DEF walk
<1> DEFINE S == {i \in 0..N : Walked(e, low, high, i, walk[i])}
<1>10. 0 \in S
  <2>1. 0 \in 0..N /\ low <= low /\ 1..0 = {} /\ \A n \in Nat : ~(low <= n /\ n < low)
    BY <1>1
  <2>2. walk[0] = start
    BY Zenon, <1>9, <2>1
  <2>3. start.low = low /\ start.kept = <<>>
    BY Zenon
  <2> HIDE DEF start
  <2>4. Elems(start.kept) = {} /\ start.kept \in Lists
    BY Zenon, <2>3, NoneIs
  <2>5. \A n : ~Had(e, 0, n) /\ ~Holds(Elems(start.kept), n)
    BY Zenon, <2>1, <2>4 DEF Had, Holds
  <2>6. Walked(e, low, high, 0, start)
    BY Zenon, <1>3, <2>1, <2>3, <2>4, <2>5 DEF Walked
  <2> QED
    BY Zenon, <2>1, <2>2, <2>6
<1>11. ASSUME NEW i \in 0..N - 1, i \in S PROVE i + 1 \in S
  <2>1. i \in Nat /\ i + 1 \in 1..N /\ i + 1 \in 0..N /\ i + 1 # 0 /\ (i + 1) - 1 = i
    BY <1>1
  <2>2. walk[i + 1] = Walk(walk[i], e[i + 1], high)
    BY Zenon, <1>9, <2>1
  <2>3. Walked(e, low, high, i, walk[i]) /\ i + 1 \in 1..Len(e)
    BY Zenon, <1>11, <2>1 DEF N
  <2>4. Walked(e, low, high, i + 1, Walk(walk[i], e[i + 1], high))
    BY Zenon, <2>1, <2>3, WalkSkips, WalkFills
  <2> QED
    BY Zenon, <2>1, <2>2, <2>4
<1> HIDE DEF S
<1>12. 0..N \subseteq S
  BY Zenon, <1>1, <1>10, <1>11, UpTo
<1>13. Walked(e, low, high, N, end)
  <2>1. N \in 0..N
    BY <1>1
  <2> QED
    BY Zenon, <1>12, <2>1 DEF S
<1> HIDE DEF end
<1>14. end.low \in Nat /\ end.kept \in Lists /\ low <= end.low
  BY Zenon, <1>13 DEF Walked, Accs
<1> DEFINE last == Piece(end.low, high)
<1>15. /\ last \in Lists
       /\ \A h \in Elems(last) : end.low < high /\ h.offset = end.low /\ End(h) = high
       /\ \A n \in Nat : Holds(Elems(last), n) <=> end.low <= n /\ n < high
  BY Zenon, <1>14, PieceIs
<1> HIDE DEF last
<1>16. Below(Elems(end.kept), Elems(last))
  <2>1. ASSUME NEW g \in Elems(end.kept), NEW h \in Elems(last) PROVE End(g) <= h.offset
    <3>1. end.low < high /\ h.offset = end.low /\ (End(g) <= end.low \/ high <= end.low)
      BY Zenon, <1>13, <1>15 DEF Walked
    <3> QED
      BY <1>14, <3>1
  <2> QED
    BY Zenon, <2>1 DEF Below
<1>17. end.kept \o last \in Lists /\ Elems(end.kept \o last) = Elems(end.kept) \cup Elems(last)
  BY Zenon, <1>14, <1>15, <1>16, Join
<1>18. ASSUME NEW n \in Nat
       PROVE  Holds(Elems(end.kept \o last), n) <=> Holds(Elems(e), n) \/ (low <= n /\ n < high)
  <2>1. Holds(Elems(end.kept), n) <=> Had(e, N, n) \/ (low <= n /\ n < end.low /\ n < high)
    BY Zenon, <1>13 DEF Walked
  <2>2. Holds(Elems(last), n) <=> end.low <= n /\ n < high
    BY Zenon, <1>15
  <2>3. Holds(Elems(end.kept \o last), n) <=> Holds(Elems(end.kept), n) \/ Holds(Elems(last), n)
    BY Zenon, <1>17, HoldsCup
  <2>4. Had(e, N, n) <=> Holds(Elems(e), n)
    BY Zenon, HadAll DEF N
  <2> QED
    BY <1>14, <2>1, <2>2, <2>3, <2>4
<1>19. insertEarly(e, low, high) = end.kept \o last
  BY Zenon, <1>2 DEF last
<1> QED
  BY Zenon, <1>17, <1>18, <1>19

-----------------------------------------------------------------------------
Receives ==
    [ready : Seq(Nat), received : Nat, early : Seq(Pieces), highWater : Nat, limit : Nat,
     finalSize : Nat \cup {Unknown}, finished : BOOLEAN, reset : BOOLEAN]

(* Two receiving halves that differ in their bytes only.                    *)
Same(a, r) ==
    /\ a.highWater = r.highWater /\ a.limit = r.limit /\ a.finalSize = r.finalSize
    /\ a.finished = r.finished /\ a.reset = r.reset

(* A half whose bytes from m on are ready, with its early data in order     *)
(* below its highest offset, and, but for `drainEarly', above what is ready.*)
Ready(r, m) ==
    /\ r \in Receives /\ r.early \in Lists
    /\ m \in Nat /\ m <= r.received /\ r.received <= r.highWater /\ r.ready = Bytes(m, r.received)
    /\ \A h \in Elems(r.early) : End(h) <= r.highWater
Ahead(r) == \A h \in Elems(r.early) : r.received < h.offset

(* drainEarly after i pieces.                                               *)
Drained(r, m, i, acc) ==
    /\ Ready(acc, m) /\ Ahead(acc) /\ Same(acc, r) /\ r.received <= acc.received
    /\ \A h \in Elems(acc.early), j \in 1..Len(r.early) : i < j => End(h) <= r.early[j].offset
    /\ \A n \in Nat : Had(r.early, i, n) => n < acc.received \/ Holds(Elems(acc.early), n)

(* The fields of a half.                                                    *)
LEMMA ReceiveType ==
    ASSUME NEW r \in Receives
    PROVE  /\ r.ready \in Seq(Nat) /\ r.received \in Nat /\ r.early \in Seq(Pieces) /\ r.highWater \in Nat
           /\ r.limit \in Nat /\ r.finalSize \in Nat \cup {Unknown}
           /\ r.finished \in BOOLEAN /\ r.reset \in BOOLEAN
  BY Zenon DEF Receives

(* A piece that is not reached yet is kept.                                 *)
LEMMA DrainKeeps ==
    ASSUME NEW r, NEW m, Ready(r, m), NEW i \in Nat, i + 1 \in 1..Len(r.early),
           NEW acc, Drained(r, m, i, acc), r.early[i + 1].offset > acc.received
    PROVE  Drained(r, m, i + 1, Drain(acc, r.early[i + 1]))
<1> DEFINE e == r.early
           h == e[i + 1]
           k == acc.early \o <<h>>
           new == [acc EXCEPT !.early = k]
<1>1. e \in Lists /\ \A g \in Elems(e) : End(g) <= r.highWater
  BY Zenon DEF Ready
<1> HIDE DEF e
<1>2. /\ h \in Pieces /\ \A j \in 1..Len(e) : i + 1 < j => End(h) <= e[j].offset
      /\ End(h) <= r.highWater /\ h.offset \in Nat
  <2>1. i + 1 \in 1..Len(e)
    BY Zenon DEF e
  <2> QED
    BY Zenon, <1>1, <2>1, ListType DEF Elems
<1>3. acc \in Receives /\ acc.early \in Lists /\ acc.early \in Seq(Pieces) /\ Same(acc, r)
  BY Zenon DEF Drained, Ready, Lists
<1>4. Drain(acc, h) = new
  BY Zenon, <1>2, <1>3, AppendIsConcat DEF Drain, e
<1>5. <<h>> \in Lists /\ Elems(<<h>>) = {h}
  BY Zenon, <1>2, OneIs
<1>6. i < i + 1 /\ \A j \in 1..Len(e) : i + 1 < j => i < j
  BY <1>1, ListType
<1>7. \A g \in Elems(acc.early) : End(g) <= h.offset
  BY Zenon, <1>6 DEF Drained, e
<1>8. k \in Lists /\ Elems(k) = Elems(acc.early) \cup {h}
  BY Zenon, <1>3, <1>5, <1>7, Join DEF Below
<1> HIDE DEF k
<1>9. /\ new \in Receives /\ new.early = k /\ new.received = acc.received /\ new.ready = acc.ready
      /\ Same(new, acc)
  BY Zenon, <1>3, <1>8 DEF Receives, Lists, Same
<1> HIDE DEF new
<1>10. acc.received < h.offset
  <2>1. acc.received \in Nat /\ h.offset > acc.received
    BY Zenon, <1>3, ReceiveType DEF e
  <2> QED
    BY <1>2, <2>1
<1>11. Ready(new, m) /\ Ahead(new) /\ Same(new, r) /\ r.received <= new.received
  BY Zenon, <1>2, <1>3, <1>8, <1>9, <1>10 DEF Drained, Ready, Ahead, Same
<1>12. ASSUME NEW n \in Nat, Had(e, i + 1, n) PROVE n < new.received \/ Holds(Elems(new.early), n)
  <2>1. Had(e, i, n) \/ (h.offset <= n /\ n < End(h))
    BY Zenon, <1>12, HadNext
  <2>2. Had(e, i, n) => n < acc.received \/ Holds(Elems(acc.early), n)
    BY Zenon DEF Drained, e
  <2> QED
    BY Zenon, <1>8, <1>9, <2>1, <2>2 DEF Holds
<1>13. \A g \in Elems(new.early), j \in 1..Len(e) : i + 1 < j => End(g) <= e[j].offset
  BY Zenon, <1>2, <1>6, <1>8, <1>9 DEF Drained, e
<1>14. Drained(r, m, i + 1, new)
  BY Zenon, <1>11, <1>12, <1>13 DEF Drained, e
<1> QED
  BY Zenon, <1>4, <1>14 DEF e

(* A piece that is reached: what is new of it becomes ready.                *)
LEMMA DrainTakes ==
    ASSUME NEW r, NEW m, Ready(r, m), NEW i \in Nat, i + 1 \in 1..Len(r.early),
           NEW acc, Drained(r, m, i, acc), ~(r.early[i + 1].offset > acc.received)
    PROVE  Drained(r, m, i + 1, Drain(acc, r.early[i + 1]))
<1> DEFINE e == r.early
           h == e[i + 1]
<1>1. e \in Lists /\ \A g \in Elems(e) : End(g) <= r.highWater
  BY Zenon DEF Ready
<1>0. i + 1 \in 1..Len(e)
  BY Zenon
<1>2. /\ h \in Pieces /\ \A j \in 1..Len(e) : i + 1 < j => End(h) <= e[j].offset
      /\ End(h) <= r.highWater
  BY Zenon, <1>0, <1>1, ListType DEF Elems
<1>3. /\ h.offset \in Nat /\ End(h) \in Nat /\ h.offset < End(h) /\ h.bytes = Bytes(h.offset, End(h))
      /\ Len(h.bytes) = End(h) - h.offset
  BY Zenon, <1>2, PieceType
<1>4. /\ acc \in Receives /\ acc.early \in Lists /\ Same(acc, r) /\ acc.received \in Nat /\ m \in Nat
      /\ m <= acc.received /\ acc.ready = Bytes(m, acc.received)
  BY Zenon, ReceiveType DEF Drained, Ready
<1>5. h.offset <= acc.received
  BY <1>3, <1>4
<1>6. i < i + 1 /\ \A j \in 1..Len(e) : i + 1 < j => i < j
  BY <1>1, ListType
<1>7. ASSUME NEW n \in Nat, Had(e, i + 1, n)
      PROVE  n < acc.received \/ Holds(Elems(acc.early), n) \/ n < End(h)
  <2>1. Had(e, i, n) \/ (h.offset <= n /\ n < End(h))
    BY Zenon, <1>7, HadNext
  <2> QED
    BY Zenon, <2>1 DEF Drained
<1>8. \A g \in Elems(acc.early), j \in 1..Len(e) : i + 1 < j => End(g) <= e[j].offset
  BY Zenon, <1>6 DEF Drained
<1>9. CASE End(h) <= acc.received
  <2>1. Drain(acc, h) = acc
    BY Zenon, <1>9 DEF Drain
  <2>2. \A n \in Nat : n < End(h) => n < acc.received
    BY <1>3, <1>4, <1>9
  <2>3. Drained(r, m, i + 1, acc)
    BY Zenon, <1>7, <1>8, <2>2 DEF Drained
  <2> QED
    BY Zenon, <2>1, <2>3
<1>10. CASE ~(End(h) <= acc.received)
  <2> DEFINE q == SubSeq(h.bytes, acc.received - h.offset + 1, Len(h.bytes))
             b == acc.ready \o q
             new == [acc EXCEPT !.ready = b, !.received = End(h)]
  <2>1. Drain(acc, h) = new
    BY Zenon, <1>10 DEF Drain
  <2>2. acc.received < End(h) /\ acc.received <= End(h) /\ End(h) <= End(h) /\ m <= End(h)
    BY <1>3, <1>4, <1>10
  <2>3. q = Bytes(acc.received, End(h))
    BY Zenon, <1>2, <1>4, <1>5, <2>2, PieceTail
  <2> HIDE DEF q
  <2>4. b = Bytes(m, End(h)) /\ b \in Seq(Nat)
    <3>1. Bytes(m, acc.received) \o Bytes(acc.received, End(h)) = Bytes(m, End(h))
      BY Zenon, <1>3, <1>4, <2>2, BytesJoin
    <3>2. Bytes(m, End(h)) \in Seq(Nat)
      BY Zenon, <1>3, <1>4, <2>2, BytesAre
    <3> QED
      BY Zenon, <1>4, <2>3, <3>1, <3>2
  <2> HIDE DEF b
  <2>5. /\ new \in Receives /\ new.ready = b /\ new.received = End(h) /\ new.early = acc.early
        /\ Same(new, acc)
    BY Zenon, <1>3, <1>4, <2>4 DEF Receives, Same
  <2> HIDE DEF new
  <2>6. Elems(acc.early) = {}
    <3>1. ASSUME NEW g \in Elems(acc.early) PROVE FALSE
      <4>1. acc.received < g.offset /\ End(g) <= h.offset
        BY Zenon, <1>0, <1>6 DEF Drained, Ahead
      <4>2. g.offset \in Nat /\ End(g) \in Nat /\ g.offset < End(g)
        BY Zenon, <1>4, ElemType
      <4> QED
        BY <1>3, <1>4, <1>5, <4>1, <4>2
    <3> QED
      BY Zenon, <3>1
  <2>7. r.received <= End(h)
    <3>1. r.received \in Nat /\ r.received <= acc.received
      BY Zenon, ReceiveType DEF Ready, Drained
    <3> QED
      BY <1>3, <1>4, <2>2, <3>1
  <2>8. Ready(new, m) /\ Ahead(new) /\ Same(new, r) /\ r.received <= new.received
    BY Zenon, <1>2, <1>4, <2>2, <2>4, <2>5, <2>6, <2>7 DEF Ready, Ahead, Same
  <2>9. \A n \in Nat : n < acc.received => n < End(h)
    BY <1>3, <1>4, <2>2
  <2>10. \A n : ~Holds(Elems(acc.early), n)
    BY Zenon, <2>6 DEF Holds
  <2>11. Drained(r, m, i + 1, new)
    BY Zenon, <1>7, <2>5, <2>6, <2>8, <2>9, <2>10 DEF Drained
  <2> QED
    BY Zenon, <2>1, <2>11
<1> QED
  BY Zenon, <1>9, <1>10

(* drainEarly stays within its type, whatever it has kept.                  *)
LEMMA DrainType ==
    ASSUME NEW acc \in Receives, NEW h \in Pieces
    PROVE  Drain(acc, h) \in Receives
<1>1. /\ acc.ready \in Seq(Nat) /\ acc.received \in Nat /\ acc.early \in Seq(Pieces)
      /\ h.offset \in Nat /\ End(h) \in Nat /\ h.bytes \in Seq(Nat)
  BY Zenon, ReceiveType, PieceType
<1>2. Append(acc.early, h) \in Seq(Pieces)
  BY Zenon, <1>1, AppendProperties
<1>3. CASE h.offset > acc.received
  BY Zenon, <1>2, <1>3 DEF Drain, Receives
<1>4. CASE ~(h.offset > acc.received)
  <2> DEFINE x == acc.received - h.offset + 1
             q == SubSeq(h.bytes, x, Len(h.bytes))
  <2>1. x \in Int /\ Len(h.bytes) \in Int /\ \A i \in x..Len(h.bytes) : i \in 1..Len(h.bytes)
    BY <1>1, <1>4, LenProperties
  <2>2. \A i \in x..Len(h.bytes) : h.bytes[i] \in Nat
    BY Zenon, <1>1, <2>1, ElementOfSeq
  <2> HIDE DEF x
  <2>3. q \in Seq(Nat)
    BY Zenon, <2>1, <2>2, SubSeqProperties
  <2>4. acc.ready \o q \in Seq(Nat)
    BY Zenon, <1>1, <2>3, ConcatProperties
  <2>5. Drain(acc, h) = IF End(h) <= acc.received THEN acc
                        ELSE [acc EXCEPT !.ready = @ \o q, !.received = End(h)]
    BY Zenon, <1>4 DEF Drain, x
  <2> HIDE DEF q
  <2> QED
    BY Zenon, <1>1, <2>4, <2>5 DEF Receives
<1> QED
  BY Zenon, <1>3, <1>4

(* drainEarly makes ready what it has reached, and drops nothing.           *)
LEMMA DrainIs ==
    ASSUME NEW r, NEW m, Ready(r, m)
    PROVE  Drained(r, m, Len(r.early), drainEarly(r))
<1> DEFINE e == r.early
           N == Len(e)
           start == [r EXCEPT !.early = <<>>]
           F == [x \in (0 + 1..N) \X Receives |-> Drain(x[2], e[x[1]])]
           Fixed(f) == f = [i \in 0..N |-> IF i = 0 THEN start ELSE Drain(f[i - 1], e[i])]
           drain == CHOOSE f : Fixed(f)
<1>1. N \in Nat /\ 0 \in Nat /\ 0 <= N /\ \A i \in 1..N : e[i] \in Pieces
  <2>1. e \in Lists
    BY Zenon DEF Ready
  <2>2. N \in Nat /\ \A i \in 1..N : e[i] \in Pieces
    BY Zenon, <2>1, ListType
  <2> QED
    BY <2>2
<1>2. drainEarly(r) = drain[N]
  BY Zenon DEF drainEarly
<1>0. r \in Receives /\ e \in Seq(Pieces)
  BY Zenon DEF Ready, Lists
<1> HIDE DEF N, e
<1>3. /\ start \in Receives /\ start.early = <<>> /\ Same(start, r)
      /\ start.received = r.received /\ start.ready = r.ready
  <2>1. <<>> \in Seq(Pieces)
    BY Zenon, EmptySeq
  <2> QED
    BY Zenon, <1>0, <2>1 DEF Receives, Same
<1>4. \A i \in 0 + 1..N : i \in 1..N /\ i # 0 /\ i - 1 \in 0..N
  BY <1>1
<1>5. F \in [(0 + 1..N) \X Receives -> Receives]
  BY Zenon, <1>1, <1>4, DrainType
<1>6. PICK f \in [0..N -> Receives] : Recurs(0, N, start, F, f)
  BY Zenon, <1>1, <1>3, <1>5, PrimRec
<1>7. \A i \in 0..N : i # 0 => i \in 0 + 1..N /\ i - 1 \in 0..N
  BY <1>1
<1>8. Fixed(f)
  <2>1. \A i \in 0..N : i # 0 => F[<<i, f[i - 1]>>] = Drain(f[i - 1], e[i])
    <3> SUFFICES ASSUME NEW i \in 0..N, i # 0 PROVE F[<<i, f[i - 1]>>] = Drain(f[i - 1], e[i])
      BY Zenon
    <3>1. <<i, f[i - 1]>> \in (0 + 1..N) \X Receives
      BY Zenon, <1>7
    <3> QED
      BY Zenon, <3>1
  <2> HIDE DEF F, start
  <2>2. \A i \in 0..N : f[i] = IF i = 0 THEN start ELSE F[<<i, f[i - 1]>>]
    BY Zenon, <1>6 DEF Recurs
  <2>3. \A i \in 0..N : f[i] = IF i = 0 THEN start ELSE Drain(f[i - 1], e[i])
    BY Zenon, <2>1, <2>2
  <2> QED
    BY Zenon, <1>6, <2>3
<1>9. Fixed(drain)
  BY Zenon, <1>8
<1> HIDE DEF drain, start
<1> DEFINE S == {i \in 0..N : Drained(r, m, i, drain[i])}
<1>10. 0 \in S
  <2>1. 0 \in 0..N /\ 1..0 = {} /\ r.received <= r.received
    BY <1>0, <1>1, ReceiveType
  <2>2. drain[0] = start
    BY Zenon, <1>9, <2>1
  <2>3. Elems(start.early) = {} /\ start.early \in Lists
    BY Zenon, <1>3, NoneIs
  <2>4. \A n : ~Had(e, 0, n)
    BY Zenon, <2>1 DEF Had
  <2>5. Ready(start, m)
    BY Zenon, <1>3, <2>3 DEF Ready, Same
  <2>6. Drained(r, m, 0, start)
    BY Zenon, <1>3, <2>1, <2>3, <2>4, <2>5 DEF Drained, Ahead, e
  <2> QED
    BY Zenon, <2>1, <2>2, <2>6
<1>11. ASSUME NEW i \in 0..N - 1, i \in S PROVE i + 1 \in S
  <2>1. i \in Nat /\ i + 1 \in 1..N /\ i + 1 \in 0..N /\ i + 1 # 0 /\ (i + 1) - 1 = i
    BY <1>1
  <2>2. drain[i + 1] = Drain(drain[i], e[i + 1])
    BY Zenon, <1>9, <2>1
  <2>3. Drained(r, m, i, drain[i]) /\ i + 1 \in 1..Len(r.early)
    BY Zenon, <1>11, <2>1 DEF N, e
  <2>4. Drained(r, m, i + 1, Drain(drain[i], r.early[i + 1]))
    BY Zenon, <2>1, <2>3, DrainKeeps, DrainTakes
  <2> QED
    BY Zenon, <2>1, <2>2, <2>4 DEF e
<1> HIDE DEF S
<1>12. 0..N \subseteq S
  BY Zenon, <1>1, <1>10, <1>11, UpTo
<1>13. N \in 0..N
  BY <1>1
<1>14. Drained(r, m, N, drain[N])
  BY Zenon, <1>12, <1>13 DEF S
<1> QED
  BY Zenon, <1>2, <1>14 DEF N, e

-----------------------------------------------------------------------------
(* What a half has: ready, or held early.                                   *)
Gets(r, n) == n < r.received \/ Holds(Elems(r.early), n)

(* A half's bytes after a frame, and those before it.                       *)
Grown(p, r, m) == Ready(p, m) /\ Ahead(p) /\ Same(p, r) /\ r.received <= p.received

(* A frame that goes on where the ready bytes end, or before.               *)
LEMMA PlacedReady ==
    ASSUME NEW r, NEW m, Ready(r, m), Ahead(r), NEW low \in Nat, NEW high \in Nat,
           high <= r.highWater, ~(high <= r.received), low <= r.received
    PROVE  /\ Grown(Placed(r, low, high), r, m)
           /\ \A n \in Nat : Gets(r, n) \/ (low <= n /\ n < high) => Gets(Placed(r, low, high), n)
<1> DEFINE b == r.ready \o Bytes(r.received, high)
           x == [r EXCEPT !.ready = b, !.received = high]
           d == drainEarly(x)
<1>1. /\ r \in Receives /\ r.received \in Nat /\ r.highWater \in Nat /\ m \in Nat /\ m <= r.received
      /\ r.ready = Bytes(m, r.received) /\ r.early \in Lists
  BY Zenon, ReceiveType DEF Ready
<1>2. r.received < high /\ r.received <= high /\ m <= high
  BY <1>1
<1>3. b = Bytes(m, high) /\ b \in Seq(Nat)
  <2>1. Bytes(m, r.received) \o Bytes(r.received, high) = Bytes(m, high)
    BY Zenon, <1>1, <1>2, BytesJoin
  <2>2. Bytes(m, high) \in Seq(Nat)
    BY Zenon, <1>1, <1>2, BytesAre
  <2> QED
    BY Zenon, <1>1, <2>1, <2>2
<1>4. Placed(r, low, high) = d
  BY Zenon DEF Placed
<1> HIDE DEF b
<1>5. /\ x \in Receives /\ x.ready = b /\ x.received = high /\ x.early = r.early /\ Same(x, r)
  BY Zenon, <1>1, <1>3 DEF Receives, Same
<1> HIDE DEF x
<1>6. Ready(x, m)
  BY Zenon, <1>1, <1>2, <1>3, <1>5 DEF Ready, Same
<1>7. Drained(x, m, Len(x.early), d)
  BY Zenon, <1>6, DrainIs
<1> HIDE DEF d
<1>8. d.received \in Nat /\ high <= d.received /\ Ready(d, m) /\ Ahead(d) /\ Same(d, r)
  BY Zenon, <1>5, <1>7, ReceiveType DEF Drained, Ready, Same
<1>9. r.received <= d.received /\ \A n \in Nat : n < high => n < d.received
  BY <1>1, <1>2, <1>8
<1>10. \A n \in Nat : n < r.received => n < high
  BY <1>1, <1>2
<1>11. \A n \in Nat : Holds(Elems(r.early), n) => n < d.received \/ Holds(Elems(d.early), n)
  BY Zenon, <1>5, <1>7, HadAll DEF Drained
<1> QED
  BY Zenon, <1>4, <1>8, <1>9, <1>10, <1>11 DEF Grown, Gets

(* A frame ahead of the ready bytes.                                        *)
LEMMA PlacedEarly ==
    ASSUME NEW r, NEW m, Ready(r, m), Ahead(r), NEW low \in Nat, NEW high \in Nat,
           high <= r.highWater, ~(high <= r.received), ~(low <= r.received)
    PROVE  /\ Grown(Placed(r, low, high), r, m)
           /\ \A n \in Nat : Gets(r, n) \/ (low <= n /\ n < high) => Gets(Placed(r, low, high), n)
<1> DEFINE e == r.early
           k == insertEarly(e, low, high)
           x == [r EXCEPT !.early = k]
<1>1. /\ r \in Receives /\ r.received \in Nat /\ r.highWater \in Nat /\ e \in Lists
  BY Zenon, ReceiveType DEF Ready
<1>2. /\ k \in Lists
      /\ \A n \in Nat : Holds(Elems(k), n) <=> Holds(Elems(e), n) \/ (low <= n /\ n < high)
  BY Zenon, <1>1, InsertIs
<1>3. Placed(r, low, high) = x
  BY Zenon DEF Placed
<1> HIDE DEF k
<1>4. /\ x \in Receives /\ x.ready = r.ready /\ x.received = r.received /\ x.early = k /\ Same(x, r)
  BY Zenon, <1>1, <1>2 DEF Receives, Same, Lists
<1> HIDE DEF x
<1>5. ASSUME NEW h \in Elems(k) PROVE r.received < h.offset /\ End(h) <= r.highWater
  <2>1. h.offset \in Nat /\ End(h) \in Nat /\ h.offset < End(h)
    BY Zenon, <1>2, ElemType
  <2>2. ASSUME NEW n \in Nat, h.offset <= n, n < End(h) PROVE r.received < n /\ n < r.highWater
    <3>1. Holds(Elems(e), n) \/ (low <= n /\ n < high)
      BY Zenon, <1>2, <2>2 DEF Holds
    <3>2. ASSUME low <= n, n < high PROVE r.received < n /\ n < r.highWater
      BY <1>1, <3>2
    <3>3. ASSUME NEW g \in Elems(e), g.offset <= n, n < End(g) PROVE r.received < n /\ n < r.highWater
      <4>1. r.received < g.offset /\ End(g) <= r.highWater
        BY Zenon DEF Ready, Ahead
      <4>2. g.offset \in Nat /\ End(g) \in Nat
        BY Zenon, <1>1, ElemType
      <4> QED
        BY <1>1, <3>3, <4>1, <4>2
    <3> QED
      BY Zenon, <3>1, <3>2, <3>3 DEF Holds
  <2>3. h.offset <= h.offset /\ End(h) - 1 \in Nat /\ h.offset <= End(h) - 1 /\ End(h) - 1 < End(h)
    BY <2>1
  <2>4. r.received < h.offset /\ End(h) - 1 < r.highWater
    BY Zenon, <2>1, <2>2, <2>3
  <2> QED
    BY <1>1, <2>1, <2>4
<1>6. Ready(x, m) /\ Ahead(x)
  BY Zenon, <1>2, <1>4, <1>5 DEF Ready, Ahead, Same
<1>7. r.received <= r.received
  BY <1>1
<1> QED
  BY Zenon, <1>2, <1>3, <1>4, <1>6, <1>7 DEF Grown, Gets

(* A frame, wherever it starts.                                             *)
LEMMA PlacedIs ==
    ASSUME NEW r, NEW m, Ready(r, m), Ahead(r), NEW low \in Nat, NEW high \in Nat, high <= r.highWater
    PROVE  /\ Grown(Placed(r, low, high), r, m)
           /\ \A n \in Nat : Gets(r, n) \/ (low <= n /\ n < high) => Gets(Placed(r, low, high), n)
<1>1. CASE high <= r.received
  <2>1. r.received \in Nat
    BY Zenon, ReceiveType DEF Ready
  <2>2. r.received <= r.received /\ \A n \in Nat : n < high => n < r.received
    BY <1>1, <2>1
  <2>3. Placed(r, low, high) = r
    BY Zenon, <1>1 DEF Placed
  <2>4. Grown(r, r, m)
    BY Zenon, <2>2 DEF Grown, Same
  <2> QED
    BY Zenon, <2>2, <2>3, <2>4 DEF Gets
<1> QED
  BY Zenon, <1>1, PlacedReady, PlacedEarly

-----------------------------------------------------------------------------
(* A half, what the application has read of it, and the offsets accepted.   *)
HalfOK(r, c, a) ==
    /\ Ready(r, Len(c)) /\ Ahead(r) /\ c = Bytes(0, Len(c))
    /\ a \subseteq Nat /\ \A n \in a : Gets(r, n)
    /\ r.finalSize # Unknown => r.highWater <= r.finalSize
    /\ r.finished /\ ~r.reset => r.received = r.finalSize
    /\ ~r.reset => r.highWater <= r.limit
    /\ r.limit <= Len(c) + InitialMaxStreamData

(* The final size after a frame.                                            *)
FinalAfter(r, high, fin) == IF fin /\ r.finalSize = Unknown THEN high ELSE r.finalSize

(* What a frame makes of a half.                                            *)
Accepted(q, r, c, a, high, fin) ==
    /\ HalfOK(q, c, a)
    /\ q.highWater = Higher(r.highWater, high) /\ q.finalSize = FinalAfter(r, high, fin)
    /\ q.limit = r.limit /\ q.reset = r.reset /\ r.received <= q.received
    /\ q.finished = (r.finished \/ (q.finalSize # Unknown /\ q.received >= q.finalSize))

(* A frame that is not refused.                                             *)
LEMMA AcceptKeeps ==
    ASSUME ReceiveConstants, NEW r, NEW c, NEW a, HalfOK(r, c, a),
           NEW low \in Nat, NEW high \in Nat, NEW fin, ~Refused(r, low, high, fin)
    PROVE  Accepted(accept(r, low, high, fin), r, c, a \cup (low..high - 1), high, fin)
<1> DEFINE f == FinalAfter(r, high, fin)
           w == Higher(r.highWater, high)
           m == Len(c)
           x == [r EXCEPT !.finalSize = f, !.highWater = w]
           p == Placed(x, low, high)
           q == [p EXCEPT !.finished = @ \/ (p.finalSize # Unknown /\ p.received >= p.finalSize)]
<1>1. accept(r, low, high, fin) = q
  BY Zenon DEF accept, checkFinished, FinalAfter
<1>2. /\ Ready(r, m) /\ Ahead(r) /\ r \in Receives /\ r.received \in Nat /\ r.highWater \in Nat
      /\ r.finalSize \in Nat \cup {Unknown} /\ r.limit \in Nat
      /\ r.received <= r.highWater
  BY Zenon, ReceiveType DEF HalfOK, Ready
<1>3. f \in Nat \cup {Unknown}
  BY Zenon, <1>2 DEF FinalAfter
<1>4. w \in Nat /\ r.highWater <= w /\ high <= w /\ (w = high \/ w = r.highWater)
  <2>1. w = high \/ w = r.highWater
    BY Zenon DEF Higher
  <2> QED
    BY Zenon, <1>2, <2>1, HigherIs
<1>5. Unknown \notin Nat /\ InitialMaxStreamData \in Nat
  BY Zenon DEF ReceiveConstants
<1>6. f # Unknown => w <= f
  <2>1. CASE r.finalSize # Unknown
    <3>1. f = r.finalSize /\ ~(high > r.finalSize) /\ r.highWater <= r.finalSize /\ r.finalSize \in Nat
      BY Zenon, <1>2, <2>1 DEF FinalAfter, Refused, HalfOK
    <3> QED
      BY <1>2, <1>4, <3>1
  <2>2. CASE r.finalSize = Unknown /\ fin
    <3>1. f = high /\ ~(high < r.highWater)
      BY Zenon, <2>2 DEF FinalAfter, Refused
    <3> QED
      BY <1>2, <1>4, <3>1
  <2>3. CASE r.finalSize = Unknown /\ ~fin
    BY Zenon, <2>3 DEF FinalAfter
  <2> QED
    BY Zenon, <2>1, <2>2, <2>3
<1>7. r.finalSize # Unknown => f = r.finalSize
  BY Zenon DEF FinalAfter
<1>8. ~r.reset => w <= r.limit
  <2>1. ~(high > r.limit) /\ (~r.reset => r.highWater <= r.limit)
    BY Zenon DEF Refused, HalfOK
  <2> QED
    BY <1>2, <1>4, <2>1
<1> HIDE DEF f, w
<1>9. /\ x \in Receives /\ x.finalSize = f /\ x.highWater = w /\ x.ready = r.ready /\ x.received = r.received
      /\ x.early = r.early /\ x.limit = r.limit /\ x.finished = r.finished /\ x.reset = r.reset
  BY Zenon, <1>2, <1>3, <1>4 DEF Receives
<1> HIDE DEF x
<1>10. Ready(x, m) /\ Ahead(x)
  <2>1. r.received <= w
    BY <1>2, <1>4
  <2>2. ASSUME NEW h \in Elems(r.early) PROVE End(h) <= w
    <3>1. End(h) \in Nat /\ End(h) <= r.highWater
      BY Zenon, <1>2, ElemType DEF Ready
    <3> QED
      BY <1>2, <1>4, <3>1
  <2> QED
    BY Zenon, <1>2, <1>9, <2>1, <2>2 DEF Ready, Ahead
<1>11. high <= x.highWater
  BY Zenon, <1>4, <1>9
<1>12. /\ Grown(p, x, m)
       /\ \A n \in Nat : Gets(x, n) \/ (low <= n /\ n < high) => Gets(p, n)
  BY Zenon, <1>10, <1>11, PlacedIs
<1> HIDE DEF p, m
<1>13. /\ p \in Receives /\ Ready(p, m) /\ Ahead(p) /\ p.finalSize = f /\ p.highWater = w
       /\ p.limit = r.limit /\ p.reset = r.reset /\ p.finished = r.finished /\ r.received <= p.received
       /\ p.received \in Nat /\ p.received <= w
  BY Zenon, <1>9, <1>12, ReceiveType DEF Grown, Same, Ready
<1> DEFINE fin1 == p.finished \/ (p.finalSize # Unknown /\ p.received >= p.finalSize)
<1>14. fin1 \in BOOLEAN
  BY Zenon
<1>15. q = [p EXCEPT !.finished = fin1]
  BY Zenon
<1> HIDE DEF q, fin1
<1>16. /\ q \in Receives /\ q.ready = p.ready /\ q.received = p.received /\ q.early = p.early
       /\ q.highWater = w /\ q.limit = r.limit /\ q.finalSize = f /\ q.reset = r.reset /\ q.finished = fin1
  BY Zenon, <1>13, <1>14, <1>15 DEF Receives
<1>17. Ready(q, m) /\ Ahead(q)
  BY Zenon, <1>13, <1>16 DEF Ready, Ahead
<1>18. q.finished = (r.finished \/ (q.finalSize # Unknown /\ q.received >= q.finalSize))
  BY Zenon, <1>13, <1>16 DEF fin1
<1>19. ASSUME q.finished, ~q.reset PROVE q.received = q.finalSize
  <2>1. CASE r.finished
    <3>1. r.received = r.finalSize
      BY Zenon, <1>16, <1>19, <2>1 DEF HalfOK
    <3>2. f = r.finalSize /\ f # Unknown
      BY Zenon, <1>2, <1>5, <1>7, <3>1
    <3> QED
      BY <1>2, <1>4, <1>6, <1>13, <1>16, <3>1, <3>2
  <2>2. CASE ~r.finished
    <3>1. f # Unknown /\ p.received >= f
      BY Zenon, <1>13, <1>16, <1>18, <1>19, <2>2
    <3>2. f \in Nat /\ w <= f
      BY Zenon, <1>3, <1>6, <3>1
    <3> QED
      BY <1>4, <1>13, <1>16, <3>1, <3>2
  <2> QED
    BY Zenon, <2>1, <2>2
<1>20. /\ a \cup (low..high - 1) \subseteq Nat
       /\ \A n \in a \cup (low..high - 1) : Gets(q, n)
  <2>1. \A n \in low..high - 1 : n \in Nat /\ low <= n /\ n < high
    BY SMT
  <2>2. \A n \in a : n \in Nat /\ Gets(x, n)
    BY Zenon, <1>9 DEF HalfOK, Gets
  <2>3. \A n : Gets(p, n) => Gets(q, n)
    BY Zenon, <1>16 DEF Gets
  <2> QED
    BY Zenon, <1>12, <2>1, <2>2, <2>3
<1>21. HalfOK(q, c, a \cup (low..high - 1))
  BY Zenon, <1>6, <1>8, <1>16, <1>17, <1>19, <1>20 DEF HalfOK, m
<1> QED
  BY Zenon, <1>1, <1>13, <1>16, <1>18, <1>21 DEF f, w, Accepted

-----------------------------------------------------------------------------
(* The offsets below one limit for each stream.                             *)
Under(f) == UNION {{s} \X (0..f[s] - 1) : s \in Streams}

(* A pair of a stream and an offset.                                        *)
LEMMA OfPair ==
    ASSUME NEW s, NEW S
    PROVE  \A i \in S : <<s, i>> \in {s} \X S
  BY SMT

(* What is in Under, as pairs.                                              *)
LEMMA UnderIs ==
    ASSUME NEW f
    PROVE  /\ \A x \in Under(f) : x = <<x[1], x[2]>> /\ x[1] \in Streams /\ x[2] \in 0..f[x[1]] - 1
           /\ \A s \in Streams : \A i \in 0..f[s] - 1 : <<s, i>> \in Under(f)
<1>1. ASSUME NEW x \in Under(f) PROVE x = <<x[1], x[2]>> /\ x[1] \in Streams /\ x[2] \in 0..f[x[1]] - 1
  <2>1. PICK s \in Streams : x \in {s} \X (0..f[s] - 1)
    BY Zenon, <1>1 DEF Under
  <2>2. x = <<x[1], x[2]>> /\ x[1] = s /\ x[2] \in 0..f[s] - 1
    BY <2>1
  <2> QED
    BY Zenon, <2>2
<1>2. ASSUME NEW s \in Streams, NEW i \in 0..f[s] - 1 PROVE <<s, i>> \in Under(f)
  <2>1. <<s, i>> \in {s} \X (0..f[s] - 1)
    BY Zenon, OfPair
  <2> QED
    BY Zenon, <2>1 DEF Under
<1> QED
  BY Zenon, <1>1, <1>2

(* The bytes of one stream are as many as their offsets.                    *)
LEMMA OfOne ==
    ASSUME NEW s, NEW a \in Nat, NEW b \in Nat, a <= b
    PROVE  IsFiniteSet({s} \X (a..b - 1)) /\ Cardinality({s} \X (a..b - 1)) = b - a
<1> DEFINE S == a..b - 1
           T == {s} \X S
           g == [i \in S |-> <<s, i>>]
<1>1. IsFiniteSet(S) /\ Cardinality(S) = b - a
  <2>1. a \in Int /\ b - 1 \in Int
    OBVIOUS
  <2>2. IsFiniteSet(S) /\ Cardinality(S) = IF a > b - 1 THEN 0 ELSE (b - 1) - a + 1
    BY <2>1, FS_Interval
  <2> QED
    BY <2>2
<1> HIDE DEF S
<1>2. g \in Bijection(S, T)
  <2>1. g \in [S -> T]
    BY Zenon
  <2>2. \A i, j \in S : g[i] = g[j] => i = j
    BY Zenon
  <2>3. ASSUME NEW t \in T PROVE \E i \in S : g[i] = t
    <3>1. t = <<s, t[2]>> /\ t[2] \in S
      BY SMT
    <3>2. g[t[2]] = <<s, t[2]>>
      BY Zenon, <3>1
    <3> QED
      BY Zenon, <3>1, <3>2
  <2> QED
    BY Zenon, <2>1, <2>2, <2>3 DEF Bijection, Injection, Surjection, IsInjective
<1>3. ExistsBijection(S, T)
  BY Zenon, <1>2 DEF ExistsBijection
<1>4. IsFiniteSet(T) /\ Cardinality(T) = Cardinality(S)
  BY Zenon, <1>1, <1>3, FS_Bijection
<1> QED
  BY Zenon, <1>1, <1>4 DEF S

(* One stream grows.                                                        *)
LEMMA UnderGrows ==
    ASSUME NEW f \in [Streams -> Nat], NEW s \in Streams, NEW w \in Nat, f[s] <= w, IsFiniteSet(Under(f))
    PROVE  /\ IsFiniteSet(Under([f EXCEPT ![s] = w]))
           /\ Cardinality(Under([f EXCEPT ![s] = w])) = Cardinality(Under(f)) + (w - f[s])
<1> DEFINE g == [f EXCEPT ![s] = w]
           D == {s} \X (f[s]..w - 1)
<1>1. f[s] \in Nat /\ g[s] = w /\ \A t \in Streams : t # s => g[t] = f[t]
  BY Zenon
<1> HIDE DEF g
<1>2. IsFiniteSet(D) /\ Cardinality(D) = w - f[s]
  BY Zenon, <1>1, OfOne
<1>3. /\ \A i \in 0..w - 1 : i \in 0..f[s] - 1 \/ i \in f[s]..w - 1
      /\ \A i \in 0..f[s] - 1 : i \in 0..w - 1 /\ ~(i \in f[s]..w - 1)
      /\ \A i \in f[s]..w - 1 : i \in 0..w - 1
  BY <1>1
<1>4. Under(g) = Under(f) \cup D
  <2>1. ASSUME NEW x \in Under(g) PROVE x \in Under(f) \cup D
    <3>1. x = <<x[1], x[2]>> /\ x[1] \in Streams /\ x[2] \in 0..g[x[1]] - 1
      BY Zenon, UnderIs
    <3>2. CASE x[1] = s
      <4>1. x = <<s, x[2]>> /\ (x[2] \in 0..f[s] - 1 \/ x[2] \in f[s]..w - 1)
        BY Zenon, <1>1, <1>3, <3>1, <3>2
      <4>2. x[2] \in 0..f[s] - 1 => <<s, x[2]>> \in Under(f)
        BY Zenon, UnderIs
      <4>3. x[2] \in f[s]..w - 1 => <<s, x[2]>> \in D
        BY Zenon, OfPair
      <4> QED
        BY Zenon, <4>1, <4>2, <4>3
    <3>3. CASE x[1] # s
      <4>1. x[2] \in 0..f[x[1]] - 1
        BY Zenon, <1>1, <3>1, <3>3
      <4>2. <<x[1], x[2]>> \in Under(f)
        BY Zenon, <3>1, <4>1, UnderIs
      <4> QED
        BY Zenon, <3>1, <4>2
    <3> QED
      BY Zenon, <3>2, <3>3
  <2>2. ASSUME NEW x \in Under(f) PROVE x \in Under(g)
    <3>1. x = <<x[1], x[2]>> /\ x[1] \in Streams /\ x[2] \in 0..f[x[1]] - 1
      BY Zenon, UnderIs
    <3>2. x[2] \in 0..g[x[1]] - 1
      BY Zenon, <1>1, <1>3, <3>1
    <3> QED
      BY Zenon, <3>1, <3>2, UnderIs
  <2>3. ASSUME NEW x \in D PROVE x \in Under(g)
    <3>0. x = <<s, x[2]>> /\ x[2] \in f[s]..w - 1
      BY <2>3
    <3>1. x = <<s, x[2]>> /\ x[2] \in 0..g[s] - 1
      BY Zenon, <1>1, <1>3, <3>0
    <3>2. <<s, x[2]>> \in Under(g)
      BY Zenon, <3>1, UnderIs
    <3> QED
      BY Zenon, <3>1, <3>2
  <2> QED
    BY Zenon, <2>1, <2>2, <2>3
<1>5. Under(f) \cap D = {}
  <2>1. ASSUME NEW x \in Under(f), x \in D PROVE FALSE
    <3>1. x[1] = s /\ x[2] \in f[s]..w - 1
      BY Zenon, <2>1
    <3>2. x[2] \in 0..f[s] - 1
      BY Zenon, <3>1, UnderIs
    <3> QED
      BY Zenon, <1>3, <3>1, <3>2
  <2> QED
    BY Zenon, <2>1
<1> HIDE DEF D
<1>6. /\ IsFiniteSet(Under(f) \cup D)
      /\ Cardinality(Under(f) \cup D) = Cardinality(Under(f)) + Cardinality(D) - Cardinality(Under(f) \cap D)
  BY Zenon, <1>2, FS_Union
<1>7. Cardinality(Under(f) \cap D) = 0 /\ Cardinality(Under(f)) \in Nat
  BY Zenon, <1>5, FS_EmptySet, FS_CardinalityType
<1>8. Cardinality(Under(f) \cup D) = Cardinality(Under(f)) + (w - f[s])
  BY <1>1, <1>2, <1>6, <1>7
<1> QED
  BY Zenon, <1>4, <1>6, <1>8 DEF g

(* Lower limits leave no more below them.                                   *)
LEMMA UnderLess ==
    ASSUME NEW f \in [Streams -> Nat], NEW g \in [Streams -> Nat], \A s \in Streams : f[s] <= g[s],
           IsFiniteSet(Under(g))
    PROVE  Cardinality(Under(f)) <= Cardinality(Under(g))
<1>1. \A s \in Streams : 0..f[s] - 1 \subseteq 0..g[s] - 1
  <2>1. ASSUME NEW s \in Streams PROVE 0..f[s] - 1 \subseteq 0..g[s] - 1
    <3>1. f[s] \in Nat /\ g[s] \in Nat /\ f[s] <= g[s]
      BY Zenon
    <3> QED
      BY <3>1
  <2> QED
    BY Zenon, <2>1
<1>2. Under(f) \subseteq Under(g)
  <2>1. ASSUME NEW x \in Under(f) PROVE x \in Under(g)
    <3>1. x = <<x[1], x[2]>> /\ x[1] \in Streams /\ x[2] \in 0..f[x[1]] - 1
      BY Zenon, UnderIs
    <3> QED
      BY ZenonT(30), <1>1, <3>1, UnderIs
  <2> QED
    BY Zenon, <2>1
<1> QED
  BY Zenon, <1>2, FS_Subset

(* Nothing is below 0.                                                      *)
LEMMA UnderNone ==
    ASSUME NEW f, \A s \in Streams : f[s] = 0
    PROVE  IsFiniteSet(Under(f)) /\ Cardinality(Under(f)) = 0
<1>1. 0..0 - 1 = {}
  OBVIOUS
<1>2. Under(f) = {}
  BY Zenon, <1>1, UnderIs
<1> QED
  BY Zenon, <1>2, FS_EmptySet

-----------------------------------------------------------------------------
(* The inductive invariant: every half by itself, and the connection's      *)
(* count.                                                                   *)
Types ==
    /\ receive \in [Streams -> Receives] /\ consumed \in [Streams -> Seq(Nat)]
    /\ arrived \in [Streams -> SUBSET Nat]
    /\ receivedBytes \in Nat /\ receiveLimit \in Nat /\ closed \in BOOLEAN

ReceiveInv ==
    /\ Types
    /\ \A s \in Streams : HalfOK(receive[s], consumed[s], arrived[s])
    /\ receivedBytes <= receiveLimit
    /\ IsFiniteSet(Counted) /\ CountedOnce

Waters(rs) == [s \in Streams |-> rs[s].highWater]

(* Waters gives each half's high water.                                     *)
LEMMA WatersAre ==
    \A rs : Waters(rs) = [s \in Streams |-> Waters(rs)[s]] /\ \A s \in Streams : Waters(rs)[s] = rs[s].highWater
  BY Zenon DEF Waters

(* Counted is Under of the high waters.                                     *)
LEMMA CountedIs == Counted = Under(Waters(receive)) /\ Counted' = Under(Waters(receive'))
<1>1. \A rs : \A s \in Streams : Waters(rs)[s] = rs[s].highWater
  BY Zenon, WatersAre
<1>2. ASSUME NEW rs PROVE Under(Waters(rs)) = UNION {{s} \X (0..rs[s].highWater - 1) : s \in Streams}
  <2> DEFINE V == UNION {{s} \X (0..rs[s].highWater - 1) : s \in Streams}
  <2>1. ASSUME NEW x \in Under(Waters(rs)) PROVE x \in V
    <3>1. PICK s \in Streams : x \in {s} \X (0..Waters(rs)[s] - 1)
      BY Zenon, <2>1 DEF Under
    <3>2. x \in {s} \X (0..rs[s].highWater - 1)
      BY Zenon, <1>1, <3>1
    <3> QED
      BY Zenon, <3>2
  <2>2. ASSUME NEW x \in V PROVE x \in Under(Waters(rs))
    <3>1. PICK s \in Streams : x \in {s} \X (0..rs[s].highWater - 1)
      BY Zenon, <2>2
    <3>2. x \in {s} \X (0..Waters(rs)[s] - 1)
      BY Zenon, <1>1, <3>1
    <3> QED
      BY Zenon, <3>2 DEF Under
  <2> HIDE DEF V
  <2>3. Under(Waters(rs)) = V
    BY Zenon, <2>1, <2>2
  <2> QED
    BY Zenon, <2>3 DEF V
<1> QED
  BY Zenon, <1>2 DEF Counted

(* One stream's highest offset rises.                                       *)
LEMMA CountRises ==
    ASSUME ReceiveInv, NEW s \in Streams, NEW q \in Receives, receive[s].highWater <= q.highWater,
           receive' = [receive EXCEPT ![s] = q]
    PROVE  /\ IsFiniteSet(Counted')
           /\ ~closed => Cardinality(Counted') = receivedBytes + (q.highWater - receive[s].highWater)
<1> DEFINE f == Waters(receive)
           w == q.highWater
<1>1. receive \in [Streams -> Receives] /\ IsFiniteSet(Counted) /\ CountedOnce
  BY Zenon DEF ReceiveInv, Types
<1>2. \A t \in Streams : receive[t].highWater \in Nat
  BY Zenon, <1>1, ReceiveType
<1>3. f \in [Streams -> Nat] /\ f[s] = receive[s].highWater /\ w \in Nat /\ f[s] <= w
  BY Zenon, <1>2, ReceiveType DEF Waters
<1>4. Waters(receive') = [f EXCEPT ![s] = w]
  <2>1. \A t \in Streams : receive'[t] = IF t = s THEN q ELSE receive[t]
    BY Zenon, <1>1
  <2>2. \A t \in Streams : Waters(receive')[t] = [f EXCEPT ![s] = w][t]
    <3> SUFFICES ASSUME NEW t \in Streams PROVE Waters(receive')[t] = [f EXCEPT ![s] = w][t]
      BY Zenon
    <3>1. Waters(receive')[t] = receive'[t].highWater /\ f[t] = receive[t].highWater
      BY Zenon, WatersAre
    <3>2. [f EXCEPT ![s] = w][t] = IF t = s THEN w ELSE f[t]
      BY Zenon, <1>3
    <3> QED
      BY Zenon, <2>1, <3>1, <3>2
  <2>3. Waters(receive') = [t \in Streams |-> Waters(receive')[t]]
    BY Zenon, WatersAre
  <2>4. [f EXCEPT ![s] = w] = [t \in Streams |-> [f EXCEPT ![s] = w][t]]
    BY Zenon, <1>3
  <2> QED
    BY Zenon, <2>2, <2>3, <2>4
<1>5. Counted = Under(f) /\ Counted' = Under([f EXCEPT ![s] = w])
  BY Zenon, <1>4, CountedIs
<1> HIDE DEF f, w
<1>6. /\ IsFiniteSet(Under([f EXCEPT ![s] = w]))
      /\ Cardinality(Under([f EXCEPT ![s] = w])) = Cardinality(Under(f)) + (w - f[s])
  BY Zenon, <1>1, <1>3, <1>5, UnderGrows
<1> QED
  BY Zenon, <1>1, <1>3, <1>5, <1>6 DEF CountedOnce, w

(* Nothing else of the streams changes.                                     *)
LEMMA OthersKeep ==
    ASSUME ReceiveInv, NEW s \in Streams, NEW q \in Receives, NEW c \in Seq(Nat), NEW a \in SUBSET Nat,
           receive' = [receive EXCEPT ![s] = q], HalfOK(q, c, a),
           consumed' = [consumed EXCEPT ![s] = c], arrived' = [arrived EXCEPT ![s] = a]
    PROVE  /\ receive' \in [Streams -> Receives] /\ consumed' \in [Streams -> Seq(Nat)]
           /\ arrived' \in [Streams -> SUBSET Nat]
           /\ \A t \in Streams : HalfOK(receive'[t], consumed'[t], arrived'[t])
<1>1. /\ receive \in [Streams -> Receives] /\ consumed \in [Streams -> Seq(Nat)]
      /\ arrived \in [Streams -> SUBSET Nat]
  BY Zenon DEF ReceiveInv, Types
<1>2. /\ receive'[s] = q /\ consumed'[s] = c /\ arrived'[s] = a
      /\ \A t \in Streams : t # s => receive'[t] = receive[t] /\ consumed'[t] = consumed[t] /\ arrived'[t] = arrived[t]
  BY Zenon, <1>1
<1>3. ASSUME NEW t \in Streams PROVE HalfOK(receive'[t], consumed'[t], arrived'[t])
  BY Zenon, <1>2 DEF ReceiveInv
<1> QED
  BY Zenon, <1>1, <1>3

(* A closed connection.                                                     *)
LEMMA CloseKeeps ==
    ASSUME ReceiveInv, Close, UNCHANGED receiveLimit, receivedBytes' \in Nat, receivedBytes' <= receiveLimit
    PROVE  ReceiveInv'
<1>1. Counted' = Counted /\ closed' = TRUE
  BY Zenon DEF Close, Counted
<1>2. CountedOnce'
  BY Zenon, <1>1 DEF CountedOnce
<1>3. Types'
  BY Zenon DEF ReceiveInv, Types, Close
<1> QED
  BY Zenon, <1>1, <1>2, <1>3 DEF ReceiveInv, Close

(* The growth takes the high water to the higher of the two.                *)
LEMMA GrowthIs ==
    ASSUME ReceiveInv, NEW s \in Streams, NEW high \in Nat
    PROVE  /\ Growth(s, high) \in Nat /\ receive[s].highWater \in Nat
           /\ Higher(receive[s].highWater, high) = receive[s].highWater + Growth(s, high)
           /\ receivedBytes + Growth(s, high) \in Nat /\ receivedBytes \in Nat
<1>1. receive[s].highWater \in Nat /\ receivedBytes \in Nat
  BY Zenon, ReceiveType DEF ReceiveInv, Types
<1> QED
  BY <1>1 DEF Growth, Higher

(* A STREAM frame.                                                          *)
LEMMA StreamKeeps ==
    ASSUME ReceiveConstants, ReceiveInv, NEW s \in Streams, NEW low \in Nat, NEW high \in Nat,
           NEW fin, handleStream(s, low, high, fin)
    PROVE  ReceiveInv'
<1> DEFINE r == receive[s]
           g == Growth(s, high)
<1>1. /\ g \in Nat /\ r.highWater \in Nat /\ Higher(r.highWater, high) = r.highWater + g
      /\ receivedBytes + g \in Nat /\ receivedBytes \in Nat
  BY Zenon, GrowthIs
<1>2. receiveLimit' = receiveLimit /\ receiveLimit \in Nat /\ ~closed /\ receivedBytes <= receiveLimit
  BY Zenon DEF handleStream, ReceiveInv, Types
<1>3. CASE receivedBytes + g > receiveLimit
  BY Zenon, <1>1, <1>2, <1>3, CloseKeeps DEF handleStream
<1>4. CASE ~(receivedBytes + g > receiveLimit)
  <2>1. receivedBytes' = receivedBytes + g
    BY Zenon, <1>4 DEF handleStream
  <2>2. receivedBytes' <= receiveLimit
    BY <1>1, <1>2, <1>4, <2>1
  <2>3. CASE Refused(r, low, high, fin)
    <3>1. Close
      BY Zenon, <1>4, <2>3 DEF handleStream
    <3> QED
      BY Zenon, <1>1, <1>2, <2>1, <2>2, <3>1, CloseKeeps
  <2>4. CASE ~Refused(r, low, high, fin)
    <3> DEFINE q == accept(r, low, high, fin)
               c == consumed[s]
               a == arrived[s] \cup (low..high - 1)
    <3>1. /\ receive' = [receive EXCEPT ![s] = q] /\ arrived' = [arrived EXCEPT ![s] = a]
          /\ closed' = closed /\ consumed' = consumed
      BY Zenon, <1>4, <2>4 DEF handleStream
    <3>2. HalfOK(r, c, arrived[s]) /\ consumed \in [Streams -> Seq(Nat)]
      BY Zenon DEF ReceiveInv, Types
    <3>3. Accepted(q, r, c, a, high, fin)
      BY Zenon, <2>4, <3>2, AcceptKeeps
    <3>11. HalfOK(q, c, a) /\ q.highWater = Higher(r.highWater, high)
      BY Zenon, <3>3 DEF Accepted
    <3> HIDE DEF q
    <3>4. q \in Receives /\ a \in SUBSET Nat /\ c \in Seq(Nat)
      BY Zenon, <3>2, <3>11 DEF HalfOK, Ready
    <3>5. consumed' = [consumed EXCEPT ![s] = c]
      BY Zenon, <3>1, <3>2
    <3> HIDE DEF a, c
    <3>6. /\ receive' \in [Streams -> Receives] /\ consumed' \in [Streams -> Seq(Nat)]
          /\ arrived' \in [Streams -> SUBSET Nat]
          /\ \A t \in Streams : HalfOK(receive'[t], consumed'[t], arrived'[t])
      BY Zenon, <3>1, <3>11, <3>4, <3>5, OthersKeep
    <3>7. r.highWater <= q.highWater /\ q.highWater - r.highWater = g
      BY <1>1, <3>11
    <3>8. IsFiniteSet(Counted') /\ Cardinality(Counted') = receivedBytes + (q.highWater - r.highWater)
      BY Zenon, <1>2, <3>1, <3>4, <3>7, CountRises
    <3>9. CountedOnce'
      BY Zenon, <2>1, <3>7, <3>8 DEF CountedOnce
    <3>10. Types'
      BY Zenon, <1>1, <1>2, <2>1, <3>1, <3>6 DEF Types, ReceiveInv
    <3> QED
      BY Zenon, <1>2, <2>2, <3>6, <3>8, <3>9, <3>10 DEF ReceiveInv
  <2> QED
    BY Zenon, <2>3, <2>4
<1> QED
  BY Zenon, <1>3, <1>4

(* A RESET_STREAM.                                                          *)
LEMMA ResetKeeps ==
    ASSUME ReceiveConstants, ReceiveInv, NEW s \in Streams, NEW finalSize \in Nat,
           handleResetStream(s, finalSize)
    PROVE  ReceiveInv'
<1> DEFINE r == receive[s]
           g == Growth(s, finalSize)
           Bad == \/ r.finalSize # Unknown /\ r.finalSize # finalSize
                  \/ finalSize < r.highWater
                  \/ receivedBytes + g > receiveLimit
<1>1. /\ g \in Nat /\ r.highWater \in Nat /\ Higher(r.highWater, finalSize) = r.highWater + g
      /\ receivedBytes + g \in Nat /\ receivedBytes \in Nat
  BY Zenon, GrowthIs
<1>2. receiveLimit' = receiveLimit /\ receiveLimit \in Nat /\ ~closed /\ receivedBytes <= receiveLimit
  BY Zenon DEF handleResetStream, ReceiveInv, Types
<1>3. CASE Bad
  <2>1. Close /\ receivedBytes' = receivedBytes
    BY Zenon, <1>3 DEF handleResetStream
  <2> QED
    BY Zenon, <1>1, <1>2, <2>1, CloseKeeps
<1>4. CASE ~Bad
  <2> DEFINE q == [r EXCEPT !.highWater = finalSize, !.finalSize = finalSize, !.finished = TRUE, !.reset = TRUE]
             c == consumed[s]
             a == arrived[s]
  <2>1. /\ receivedBytes' = receivedBytes + g /\ receive' = [receive EXCEPT ![s] = q]
        /\ closed' = closed /\ consumed' = consumed /\ arrived' = arrived
    BY Zenon, <1>4 DEF handleResetStream
  <2>2. ~(finalSize < r.highWater) /\ ~(receivedBytes + g > receiveLimit)
    BY Zenon, <1>4
  <2>3. /\ receivedBytes' <= receiveLimit /\ r.highWater <= finalSize /\ finalSize - r.highWater = g
        /\ finalSize <= finalSize
    BY <1>1, <1>2, <2>1, <2>2 DEF Higher
  <2>4. /\ HalfOK(r, c, a) /\ consumed \in [Streams -> Seq(Nat)] /\ arrived \in [Streams -> SUBSET Nat]
        /\ r \in Receives
    BY Zenon DEF ReceiveInv, Types
  <2>5. /\ q \in Receives /\ q.ready = r.ready /\ q.received = r.received /\ q.early = r.early
        /\ q.highWater = finalSize /\ q.limit = r.limit /\ q.finalSize = finalSize /\ q.reset = TRUE
    BY Zenon, <2>4 DEF Receives
  <2> HIDE DEF q
  <2>6. Ready(q, Len(c)) /\ Ahead(q)
    <3>1. Ready(r, Len(c)) /\ Ahead(r) /\ r.received \in Nat
      BY Zenon, <2>4, ReceiveType DEF HalfOK
    <3>2. r.received <= finalSize
      <4>1. r.received <= r.highWater
        BY Zenon, <3>1 DEF Ready
      <4> QED
        BY <1>1, <2>3, <3>1, <4>1
    <3>3. ASSUME NEW h \in Elems(r.early) PROVE End(h) <= finalSize
      <4>1. End(h) \in Nat /\ End(h) <= r.highWater
        BY Zenon, <3>1, ElemType DEF Ready
      <4> QED
        BY <1>1, <2>3, <4>1
    <3> QED
      BY Zenon, <2>5, <3>1, <3>2, <3>3 DEF Ready, Ahead
  <2>7. HalfOK(q, c, a)
    BY Zenon, <2>3, <2>4, <2>5, <2>6 DEF HalfOK, Gets
  <2>8. c \in Seq(Nat) /\ a \in SUBSET Nat /\ consumed' = [consumed EXCEPT ![s] = c] /\ arrived' = [arrived EXCEPT ![s] = a]
    BY Zenon, <2>1, <2>4
  <2> HIDE DEF a, c
  <2>9. /\ receive' \in [Streams -> Receives] /\ consumed' \in [Streams -> Seq(Nat)]
        /\ arrived' \in [Streams -> SUBSET Nat]
        /\ \A t \in Streams : HalfOK(receive'[t], consumed'[t], arrived'[t])
    BY Zenon, <2>1, <2>5, <2>7, <2>8, OthersKeep
  <2>10. IsFiniteSet(Counted') /\ Cardinality(Counted') = receivedBytes + (q.highWater - r.highWater)
    BY Zenon, <1>2, <2>1, <2>3, <2>5, CountRises
  <2>11. CountedOnce'
    BY Zenon, <2>1, <2>3, <2>5, <2>10 DEF CountedOnce
  <2>12. Types'
    BY Zenon, <1>1, <1>2, <2>1, <2>9 DEF Types, ReceiveInv
  <2> QED
    BY Zenon, <1>2, <2>3, <2>9, <2>10, <2>11, <2>12 DEF ReceiveInv
<1> QED
  BY Zenon, <1>3, <1>4

(* The half after n bytes are read, and its limit raised to l.              *)
After(r, n, l) == [r EXCEPT !.ready = SubSeq(@, n + 1, Len(@)), !.limit = l]

(* The application reads n bytes of a half.                                 *)
LEMMA ReadHalf ==
    ASSUME ReceiveConstants, NEW r, NEW c, NEW a, HalfOK(r, c, a), NEW n \in Nat, n <= Len(r.ready), NEW l \in Nat,
           r.limit <= l, l <= Len(c) + n + InitialMaxStreamData
    PROVE  /\ HalfOK(After(r, n, l), c \o SubSeq(r.ready, 1, n), a)
           /\ c \o SubSeq(r.ready, 1, n) \in Seq(Nat) /\ Len(c \o SubSeq(r.ready, 1, n)) = Len(c) + n
           /\ After(r, n, l).highWater = r.highWater /\ After(r, n, l) \in Receives
           /\ SubSeq(r.ready, 1, n) = Bytes(Len(c), Len(c) + n) /\ Len(c) + n <= r.received
<1> DEFINE m == Len(c)
           k == m + n
           b == SubSeq(r.ready, n + 1, Len(r.ready))
           d == c \o SubSeq(r.ready, 1, n)
           q == After(r, n, l)
<1>1. /\ r \in Receives /\ m \in Nat /\ r.received \in Nat /\ m <= r.received
      /\ r.ready = Bytes(m, r.received) /\ c = Bytes(0, m) /\ InitialMaxStreamData \in Nat
  BY Zenon, ReceiveType DEF HalfOK, Ready, ReceiveConstants
<1>2. Len(r.ready) = r.received - m
  BY Zenon, <1>1, BytesAre
<1> HIDE DEF m
<1>3. /\ k \in Nat /\ m <= k /\ k <= r.received /\ m <= m /\ r.received <= r.received
      /\ 0 \in Nat /\ 0 <= m /\ 0 <= k /\ k - 0 = k
  BY <1>1, <1>2
<1>14. n + 1 = k - m + 1 /\ n = k - m /\ 1 = m - m + 1
  BY <1>1
<1> DEFINE top == r.received
<1>15. top \in Nat /\ m \in Nat /\ k \in Nat /\ m <= k /\ k <= top /\ top <= top /\ m <= m
  BY Zenon, <1>1, <1>3
<1> HIDE DEF k, top
<1>4. b = Bytes(k, top) /\ b \in Seq(Nat)
  <2>0. Chain(m, k, top, top)
    BY Zenon, <1>15 DEF Chain
  <2>1. SubSeq(Bytes(m, top), k - m + 1, top - m) = Bytes(k, top)
    BY Zenon, <2>0, BytesPart
  <2>2. Bytes(k, top) \in Seq(Nat)
    BY Zenon, <1>15, BytesAre
  <2> QED
    BY Zenon, <1>1, <1>2, <1>14, <2>1, <2>2 DEF top
<1>5. SubSeq(r.ready, 1, n) = Bytes(m, k)
  <2>0. Chain(m, m, k, top)
    BY Zenon, <1>15 DEF Chain
  <2>1. SubSeq(Bytes(m, top), m - m + 1, k - m) = Bytes(m, k)
    BY Zenon, <2>0, BytesPart
  <2> QED
    BY Zenon, <1>1, <1>14, <2>1 DEF top
<1>6. d = Bytes(0, k) /\ Len(d) = k /\ d \in Seq(Nat)
  <2>1. Bytes(0, m) \o Bytes(m, k) = Bytes(0, k)
    BY Zenon, <1>1, <1>3, BytesJoin
  <2>2. Len(Bytes(0, k)) = k - 0 /\ Bytes(0, k) \in Seq(Nat)
    BY Zenon, <1>3, BytesAre
  <2>3. d = Bytes(0, k)
    BY Zenon, <1>1, <1>5, <2>1
  <2> QED
    BY Zenon, <1>3, <2>2, <2>3
<1>8. q = [r EXCEPT !.ready = b, !.limit = l]
  BY Zenon DEF After
<1> HIDE DEF b, d, q
<1>9. /\ q \in Receives /\ q.ready = b /\ q.received = r.received /\ q.early = r.early /\ q.highWater = r.highWater
      /\ q.limit = l /\ q.finalSize = r.finalSize /\ q.finished = r.finished /\ q.reset = r.reset
  BY Zenon, <1>1, <1>4, <1>8 DEF Receives
<1>10. Ready(q, k) /\ Ahead(q)
  BY Zenon, <1>3, <1>4, <1>9 DEF HalfOK, Ready, Ahead, top
<1>11. ~r.reset => r.highWater <= l
  <2>1. r.highWater \in Nat /\ r.limit \in Nat /\ (~r.reset => r.highWater <= r.limit)
    BY Zenon, <1>1, ReceiveType DEF HalfOK
  <2> QED
    BY <2>1
<1>12. l <= k + InitialMaxStreamData
  BY <1>1 DEF k, m
<1>13. HalfOK(q, d, a)
  BY Zenon, <1>6, <1>9, <1>10, <1>11, <1>12 DEF HalfOK, Gets
<1> QED
  BY Zenon, <1>3, <1>5, <1>6, <1>9, <1>13 DEF d, q, k, m

(* Half a window, rounded down.                                             *)
LEMMA HalfDown == \A n \in Nat : n \div 2 \in Nat
  BY SMT

(* The limits after a read: never lower, and never above the window.        *)
LEMMA Raised ==
    ASSUME NEW old \in Nat, NEW new \in Nat, NEW half \in Nat, NEW x, x = IF new > old + half THEN new ELSE old
    PROVE  x \in Nat /\ old <= x /\ (x = new \/ x = old)
  BY SMT

(* The application reads.                                                   *)
LEMMA ReadKeeps ==
    ASSUME ReceiveConstants, ReceiveInv, NEW s \in Streams, NEW n \in Nat, extendStreamWindow(s, n)
    PROVE  /\ ReceiveInv'
           /\ consumed' = [consumed EXCEPT ![s] = consumed[s] \o Bytes(Len(consumed[s]), Len(consumed[s]) + n)]
           /\ Len(consumed[s]) \in Nat /\ Len(consumed[s]) + n <= receive[s].received
           /\ receive[s].limit <= receive'[s].limit /\ receiveLimit <= receiveLimit'
           /\ receive' = [receive EXCEPT ![s] = receive'[s]] /\ closed' = closed
           /\ receive'[s].highWater = receive[s].highWater /\ receive'[s].finalSize = receive[s].finalSize
           /\ receive'[s].reset = receive[s].reset /\ receive'[s].received = receive[s].received
           /\ receive'[s].finished = receive[s].finished
<1> DEFINE r == receive[s]
           c == consumed[s]
           a == arrived[s]
           d == c \o SubSeq(r.ready, 1, n)
           grant == Granted(s)
           l == IF grant > r.limit + InitialMaxStreamData \div 2 THEN grant ELSE r.limit
           q == After(r, n, l)
           data == receivedBytes + InitialMaxData
<1>1. /\ receive \in [Streams -> Receives] /\ consumed \in [Streams -> Seq(Nat)] /\ HalfOK(r, c, a)
      /\ arrived \in [Streams -> SUBSET Nat] /\ receivedBytes \in Nat /\ receiveLimit \in Nat
      /\ receivedBytes <= receiveLimit /\ closed \in BOOLEAN
  BY Zenon DEF ReceiveInv, Types
<1>2. /\ n <= Len(r.ready) /\ consumed' = [consumed EXCEPT ![s] = d] /\ receive' = [receive EXCEPT ![s] = q]
      /\ receiveLimit' = (IF data > receiveLimit + InitialMaxData \div 2 THEN data ELSE receiveLimit)
      /\ receivedBytes' = receivedBytes /\ closed' = closed /\ arrived' = arrived
  BY Zenon DEF extendStreamWindow, After
<1>3. /\ InitialMaxStreamData \in Nat /\ InitialMaxData \in Nat /\ InitialMaxStreamData \div 2 \in Nat
      /\ InitialMaxData \div 2 \in Nat /\ Len(c) \in Nat /\ r.limit \in Nat
      /\ r.limit <= Len(c) + InitialMaxStreamData
  BY Zenon, <1>1, HalfDown, ReceiveType DEF ReceiveConstants, HalfOK, Ready
<1>4. data \in Nat /\ receivedBytes <= data /\ Len(c) + n + InitialMaxStreamData \in Nat
      /\ r.limit <= Len(c) + n + InitialMaxStreamData
      /\ Len(c) + n + InitialMaxStreamData <= Len(c) + n + InitialMaxStreamData
  BY <1>1, <1>3
<1> HIDE DEF data
<1>5. /\ receiveLimit' \in Nat /\ receiveLimit <= receiveLimit' /\ (receiveLimit' = data \/ receiveLimit' = receiveLimit)
  <2>1. receiveLimit' = (IF data > receiveLimit + InitialMaxData \div 2 THEN data ELSE receiveLimit)
    BY Zenon, <1>2 DEF data
  <2>2. data \in Nat /\ receiveLimit \in Nat /\ InitialMaxData \div 2 \in Nat
    BY Zenon, <1>1, <1>3, <1>4 DEF data
  <2> QED
    BY Zenon, <2>1, <2>2, Raised
<1>6. receivedBytes <= receiveLimit'
  BY Zenon, <1>1, <1>4, <1>5
<1>7. Len(d) = Len(c) + n
  <2> DEFINE top == Len(c) + n + InitialMaxStreamData
  <2>1. top \in Nat /\ r.limit <= top /\ top <= Len(c) + n + InitialMaxStreamData
    BY Zenon, <1>4
  <2>2. HalfOK(r, c, a) /\ n <= Len(r.ready)
    BY Zenon, <1>1, <1>2
  <2> HIDE DEF top, r, c, a
  <2>3. Len(c \o SubSeq(r.ready, 1, n)) = Len(c) + n
    BY Zenon, <2>1, <2>2, ReadHalf
  <2> QED
    BY Zenon, <2>3
<1>8. grant = Len(c) + n + InitialMaxStreamData
  <2>1. consumed'[s] = d
    BY Zenon, <1>1, <1>2
  <2> HIDE DEF d
  <2> QED
    BY Zenon, <1>7, <2>1 DEF Granted
<1>9. l \in Nat /\ r.limit <= l /\ (l = Len(c) + n + InitialMaxStreamData \/ l = r.limit)
  <2> DEFINE top == Len(c) + n + InitialMaxStreamData
  <2>1. l = IF top > r.limit + InitialMaxStreamData \div 2 THEN top ELSE r.limit
    BY Zenon, <1>8
  <2>2. top \in Nat
    BY Zenon, <1>4
  <2> HIDE DEF top, l
  <2>3. l \in Nat /\ r.limit <= l /\ (l = top \/ l = r.limit)
    BY Zenon, <1>3, <2>1, <2>2, Raised
  <2> QED
    BY Zenon, <2>3 DEF top
<1> HIDE DEF l, grant
<1>10. l <= Len(c) + n + InitialMaxStreamData
  BY Zenon, <1>4, <1>9
<1>11. /\ HalfOK(q, d, a) /\ d \in Seq(Nat) /\ q.highWater = r.highWater /\ q \in Receives
       /\ SubSeq(r.ready, 1, n) = Bytes(Len(c), Len(c) + n) /\ Len(c) + n <= r.received
  <2>1. HalfOK(r, c, a) /\ n <= Len(r.ready) /\ l \in Nat /\ r.limit <= l /\ l <= Len(c) + n + InitialMaxStreamData
    BY Zenon, <1>1, <1>2, <1>9, <1>10
  <2> HIDE DEF r, c, a
  <2> QED
    BY Zenon, <2>1, ReadHalf
<1>12. /\ q.limit = l /\ q.finalSize = r.finalSize /\ q.reset = r.reset /\ q.received = r.received
       /\ q.finished = r.finished
  <2>1. r \in Receives
    BY Zenon, <1>1
  <2> QED
    BY Zenon, <2>1 DEF After, Receives
<1> HIDE DEF q
<1>13. consumed' = [consumed EXCEPT ![s] = c \o Bytes(Len(c), Len(c) + n)]
  BY Zenon, <1>2, <1>11
<1> HIDE DEF d
<1>14. a \in SUBSET Nat /\ arrived' = [arrived EXCEPT ![s] = a] /\ receive'[s] = q
  BY Zenon, <1>1, <1>2
<1>15. /\ receive' \in [Streams -> Receives] /\ consumed' \in [Streams -> Seq(Nat)]
       /\ arrived' \in [Streams -> SUBSET Nat]
       /\ \A t \in Streams : HalfOK(receive'[t], consumed'[t], arrived'[t])
  <2> HIDE DEF a
  <2> QED
    BY Zenon, <1>2, <1>11, <1>14, OthersKeep
<1>16. r.highWater \in Nat /\ r.highWater <= r.highWater /\ r.highWater - r.highWater = 0 /\ receivedBytes + 0 = receivedBytes
  <2>1. r.highWater \in Nat
    BY Zenon, <1>1, ReceiveType
  <2> QED
    BY <1>1, <2>1
<1>17. IsFiniteSet(Counted') /\ (~closed => Cardinality(Counted') = receivedBytes + (q.highWater - r.highWater))
  <2>1. r.highWater <= q.highWater
    BY Zenon, <1>11, <1>16
  <2> QED
    BY Zenon, <1>2, <1>11, <2>1, CountRises
<1>18. CountedOnce'
  BY Zenon, <1>2, <1>11, <1>16, <1>17 DEF CountedOnce
<1>19. Types'
  BY Zenon, <1>1, <1>2, <1>5, <1>15 DEF Types
<1>20. ReceiveInv'
  BY Zenon, <1>2, <1>6, <1>15, <1>17, <1>18, <1>19 DEF ReceiveInv
<1>21. receive' = [receive EXCEPT ![s] = receive'[s]] /\ closed' = closed
  BY Zenon, <1>2, <1>14
<1>22. /\ receive[s].limit <= receive'[s].limit /\ receive'[s].highWater = receive[s].highWater
       /\ receive'[s].finalSize = receive[s].finalSize
       /\ receive'[s].reset = receive[s].reset /\ receive'[s].received = receive[s].received
       /\ receive'[s].finished = receive[s].finished
  BY Zenon, <1>9, <1>11, <1>12, <1>14
<1> QED
  BY Zenon, <1>3, <1>5, <1>11, <1>13, <1>20, <1>21, <1>22

-----------------------------------------------------------------------------
(* At first nothing is there.                                               *)
LEMMA InitKeeps ==
    ASSUME ReceiveConstants, Init
    PROVE  ReceiveInv
<1>1. <<>> \in Seq(Nat) /\ <<>> \in Lists /\ Elems(<<>>) = {} /\ Len(<<>>) = 0 /\ <<>> \in Seq(Pieces)
  BY Zenon, NoneIs, EmptySeq DEF Lists
<1>2. /\ 0 \in Nat /\ 0 <= 0 /\ Bytes(0, 0) = <<>> /\ 0 <= InitialMaxStreamData /\ InitialMaxStreamData \in Nat
      /\ InitialMaxStreamData <= 0 + InitialMaxStreamData /\ 0 <= InitialMaxData /\ InitialMaxData \in Nat
  BY DEF Bytes, ReceiveConstants
<1>3. /\ NewStream \in Receives /\ NewStream.ready = <<>> /\ NewStream.received = 0 /\ NewStream.early = <<>>
      /\ NewStream.highWater = 0 /\ NewStream.limit = InitialMaxStreamData /\ NewStream.finalSize = Unknown
      /\ NewStream.finished = FALSE /\ NewStream.reset = FALSE
  BY Zenon, <1>1, <1>2 DEF NewStream, Receives
<1>4. Ready(NewStream, 0) /\ Ahead(NewStream)
  BY Zenon, <1>1, <1>2, <1>3 DEF Ready, Ahead
<1>5. HalfOK(NewStream, <<>>, {})
  BY Zenon, <1>1, <1>2, <1>3, <1>4 DEF HalfOK
<1>6. \A s \in Streams : receive[s] = NewStream /\ consumed[s] = <<>> /\ arrived[s] = {}
  BY Zenon DEF Init
<1>7. Types
  <2> HIDE DEF NewStream
  <2> QED
    BY Zenon, <1>1, <1>2, <1>3 DEF Types, Init
<1>8. IsFiniteSet(Counted) /\ Cardinality(Counted) = 0
  <2>1. \A s \in Streams : Waters(receive)[s] = 0
    BY ZenonT(60), <1>3, <1>6, WatersAre
  <2> QED
    BY Zenon, <2>1, UnderNone, CountedIs
<1>9. receivedBytes <= receiveLimit /\ receivedBytes = 0
  BY Zenon, <1>2 DEF Init
<1> QED
  BY Zenon, <1>5, <1>6, <1>7, <1>8, <1>9 DEF ReceiveInv, CountedOnce

(* The steps, with frames and resets at any offset.                         *)
Steps ==
    \E s \in Streams :
        \/ \E low, high \in Nat, fin \in BOOLEAN : handleStream(s, low, high, fin)
        \/ \E finalSize \in Nat : handleResetStream(s, finalSize)
        \/ \E n \in Nat : extendStreamWindow(s, n)

(* Every step keeps the invariant.                                          *)
LEMMA StepKeeps ==
    ASSUME ReceiveConstants, ReceiveInv, [Steps]_vars
    PROVE  ReceiveInv'
<1>1. CASE Steps
  BY Zenon, <1>1, StreamKeeps, ResetKeeps, ReadKeeps DEF Steps
<1>2. CASE UNCHANGED vars
  <2>1. Counted' = Counted
    BY Zenon, <1>2 DEF vars, Counted
  <2> QED
    BY Zenon, <1>2, <2>1 DEF vars, ReceiveInv, Types, CountedOnce
<1> QED
  BY Zenon, <1>1, <1>2

(* Next has no other steps.                                                 *)
LEMMA NextSteps ==
    ASSUME ReceiveConstants, [Next]_vars
    PROVE  [Steps]_vars
<1>1. \A i \in 0..MaxOffset : i \in Nat
  BY DEF ReceiveConstants
<1>2. \A i \in 1..MaxOffset : i \in Nat
  BY DEF ReceiveConstants
<1> QED
  BY Zenon, <1>1, <1>2 DEF Next, Steps

-----------------------------------------------------------------------------
(* One stream's half changes, and its final size was not known or stays.    *)
LEMMA FinalStays ==
    ASSUME NEW s \in Streams, receive \in [Streams -> Receives], NEW q, receive' = [receive EXCEPT ![s] = q],
           receive[s].finalSize # Unknown => q.finalSize = receive[s].finalSize
    PROVE  \A t \in Streams : receive[t].finalSize # Unknown => receive'[t].finalSize = receive[t].finalSize
<1> SUFFICES ASSUME NEW t \in Streams, receive[t].finalSize # Unknown
             PROVE  receive'[t].finalSize = receive[t].finalSize
  BY Zenon
<1>1. receive'[t] = IF t = s THEN q ELSE receive[t]
  BY Zenon
<1> QED
  BY Zenon, <1>1

(* No step changes a final size that is known.                              *)
LEMMA FinalKept ==
    ASSUME ReceiveConstants, ReceiveInv, [Steps]_vars
    PROVE  \A t \in Streams : receive[t].finalSize # Unknown => receive'[t].finalSize = receive[t].finalSize
<1>1. receive \in [Streams -> Receives]
  BY Zenon DEF ReceiveInv, Types
<1>2. CASE receive' = receive
  BY Zenon, <1>2
<1>3. ASSUME NEW s \in Streams, NEW low \in Nat, NEW high \in Nat, NEW fin, handleStream(s, low, high, fin),
             receive' # receive
      PROVE  \A t \in Streams : receive[t].finalSize # Unknown => receive'[t].finalSize = receive[t].finalSize
  <2> DEFINE q == accept(receive[s], low, high, fin)
  <2>1. ~Refused(receive[s], low, high, fin) /\ receive' = [receive EXCEPT ![s] = q]
    BY Zenon, <1>3 DEF handleStream, Close
  <2>2. Accepted(q, receive[s], consumed[s], arrived[s] \cup (low..high - 1), high, fin)
    BY Zenon, <2>1, AcceptKeeps DEF ReceiveInv
  <2>3. q.finalSize = FinalAfter(receive[s], high, fin)
    BY Zenon, <2>2 DEF Accepted
  <2> HIDE DEF q
  <2>4. receive[s].finalSize # Unknown => q.finalSize = receive[s].finalSize
    BY Zenon, <2>3 DEF FinalAfter
  <2> QED
    BY Zenon, <1>1, <2>1, <2>4, FinalStays
<1>4. ASSUME NEW s \in Streams, NEW finalSize \in Nat, handleResetStream(s, finalSize), receive' # receive
      PROVE  \A t \in Streams : receive[t].finalSize # Unknown => receive'[t].finalSize = receive[t].finalSize
  <2> DEFINE r == receive[s]
             q == [r EXCEPT !.highWater = finalSize, !.finalSize = finalSize, !.finished = TRUE, !.reset = TRUE]
  <2>1. /\ ~(r.finalSize # Unknown /\ r.finalSize # finalSize) /\ receive' = [receive EXCEPT ![s] = q]
    BY Zenon, <1>4 DEF handleResetStream, Close
  <2>2. q.finalSize = finalSize
    <3>1. r \in Receives
      BY Zenon, <1>1
    <3> QED
      BY Zenon, <3>1 DEF Receives
  <2> HIDE DEF q
  <2> QED
    BY Zenon, <1>1, <2>1, <2>2, FinalStays
<1>5. ASSUME NEW s \in Streams, NEW n \in Nat, extendStreamWindow(s, n)
      PROVE  \A t \in Streams : receive[t].finalSize # Unknown => receive'[t].finalSize = receive[t].finalSize
  <2> DEFINE r == receive[s]
             l == IF Granted(s) > r.limit + InitialMaxStreamData \div 2 THEN Granted(s) ELSE r.limit
             q == After(r, n, l)
  <2>1. receive' = [receive EXCEPT ![s] = q]
    BY Zenon, <1>5 DEF extendStreamWindow, After
  <2> HIDE DEF l
  <2>2. q.finalSize = r.finalSize
    <3>1. r \in Receives
      BY Zenon, <1>1
    <3> QED
      BY Zenon, <3>1 DEF Receives, After
  <2> HIDE DEF q
  <2> QED
    BY Zenon, <1>1, <2>1, <2>2, FinalStays
<1> QED
  BY Zenon, <1>2, <1>3, <1>4, <1>5 DEF Steps, vars

-----------------------------------------------------------------------------
(* What holds in every reachable state of the receiving halves.             *)
THEOREM ReceiveInvariant ==
    ASSUME ReceiveConstants
    PROVE  Spec => []ReceiveInv
<1>1. Init => ReceiveInv
  BY Zenon, InitKeeps
<1>2. ReceiveInv /\ [Next]_vars => ReceiveInv'
  BY Zenon, NextSteps, StepKeeps
<1> QED
  BY <1>1, <1>2, PTL DEF Spec

(* read and takeReady hand the application the stream's bytes in order,     *)
(* each once: what it has read and what is ready are the bytes from 0 on.   *)
THEOREM BytesInOrder ==
    ASSUME ReceiveConstants
    PROVE  Spec => []InOrder
<1>1. ReceiveInv => InOrder
  <2> SUFFICES ASSUME ReceiveInv, NEW s \in Streams
               PROVE  consumed[s] \o receive[s].ready = Bytes(0, receive[s].received)
    BY Zenon DEF InOrder
  <2> DEFINE r == receive[s]
             c == consumed[s]
  <2>1. /\ Ready(r, Len(c)) /\ c = Bytes(0, Len(c))
    BY Zenon DEF ReceiveInv, HalfOK
  <2>2. /\ r.received \in Nat /\ Len(c) \in Nat /\ Len(c) <= r.received /\ r.ready = Bytes(Len(c), r.received)
    BY Zenon, <2>1, ReceiveType DEF Ready
  <2>3. 0 \in Nat /\ 0 <= Len(c)
    BY <2>2
  <2> HIDE DEF c, r
  <2>4. Bytes(0, Len(c)) \o Bytes(Len(c), r.received) = Bytes(0, r.received)
    BY Zenon, <2>2, <2>3, BytesJoin
  <2> QED
    BY Zenon, <2>1, <2>2, <2>4 DEF c, r
<1> QED
  BY <1>1, ReceiveInvariant, PTL

(* insertEarly and drainEarly keep the early pieces apart, in order, above  *)
(* what is ready, each with its own bytes.                                  *)
THEOREM EarlyIsDisjoint ==
    ASSUME ReceiveConstants
    PROVE  Spec => []EarlyDisjoint
<1>1. ReceiveInv => EarlyDisjoint
  <2> SUFFICES ASSUME ReceiveInv, NEW s \in Streams
               PROVE  LET r == receive[s] IN
                      /\ \A i \in 1..Len(r.early) :
                          /\ r.early[i].bytes # <<>>
                          /\ r.early[i].offset > r.received /\ End(r.early[i]) <= r.highWater
                          /\ r.early[i].bytes = Bytes(r.early[i].offset, End(r.early[i]))
                      /\ \A i, j \in 1..Len(r.early) : i < j => End(r.early[i]) <= r.early[j].offset
    BY Zenon DEF EarlyDisjoint
  <2> DEFINE r == receive[s]
  <2>1. Ready(r, Len(consumed[s])) /\ Ahead(r)
    BY Zenon DEF ReceiveInv, HalfOK
  <2>2. r.early \in Lists /\ r \in Receives /\ r.received \in Nat
    BY Zenon, <2>1, ReceiveType DEF Ready
  <2> HIDE DEF r
  <2>3. ASSUME NEW i \in 1..Len(r.early)
        PROVE  /\ r.early[i].bytes # <<>>
               /\ r.early[i].offset > r.received /\ End(r.early[i]) <= r.highWater
               /\ r.early[i].bytes = Bytes(r.early[i].offset, End(r.early[i]))
    <3>1. r.early[i] \in Elems(r.early)
      BY Zenon DEF Elems
    <3>2. r.early[i] \in Pieces
      BY Zenon, <2>2, ListType, ElemType
    <3>3. r.received < r.early[i].offset /\ End(r.early[i]) <= r.highWater
      BY Zenon, <2>1, <3>1 DEF Ahead, Ready
    <3>4. r.early[i].offset \in Nat
      BY Zenon, <3>2, PieceType
    <3>5. r.early[i].offset > r.received
      BY <2>2, <3>3, <3>4
    <3>6. r.early[i].bytes # <<>> /\ r.early[i].bytes = Bytes(r.early[i].offset, End(r.early[i]))
      <4>1. /\ r.early[i].bytes = Bytes(r.early[i].offset, End(r.early[i])) /\ End(r.early[i]) \in Nat
            /\ Len(r.early[i].bytes) = End(r.early[i]) - r.early[i].offset /\ r.early[i].offset < End(r.early[i])
        BY Zenon, <3>2, PieceType
      <4>2. Len(r.early[i].bytes) # 0
        BY <3>4, <4>1
      <4> QED
        BY Zenon, <4>1, <4>2, EmptySeq
    <3> QED
      BY Zenon, <3>3, <3>5, <3>6
  <2>4. \A i, j \in 1..Len(r.early) : i < j => End(r.early[i]) <= r.early[j].offset
    BY Zenon, <2>2 DEF Lists
  <2> QED
    BY Zenon, <2>3, <2>4 DEF r
<1> QED
  BY <1>1, ReceiveInvariant, PTL

(* Every byte of a frame that handleStream accepted is ready, read or held  *)
(* early.                                                                   *)
THEOREM AcceptedIsKept ==
    ASSUME ReceiveConstants
    PROVE  Spec => []NothingDropped
<1>1. ReceiveInv => NothingDropped
  <2> SUFFICES ASSUME ReceiveInv, NEW s \in Streams
               PROVE  LET r == receive[s] IN
                      arrived[s] \subseteq (0..r.received - 1) \cup
                          UNION {r.early[i].offset..End(r.early[i]) - 1 : i \in 1..Len(r.early)}
    BY Zenon DEF NothingDropped
  <2> DEFINE r == receive[s]
  <2>1. /\ Ready(r, Len(consumed[s])) /\ arrived[s] \subseteq Nat
        /\ \A n \in arrived[s] : Gets(r, n)
    BY Zenon DEF ReceiveInv, HalfOK
  <2>2. r.early \in Lists /\ r.received \in Nat
    BY Zenon, <2>1, ReceiveType DEF Ready
  <2> HIDE DEF r
  <2>3. ASSUME NEW n \in arrived[s]
        PROVE  \/ n \in 0..r.received - 1
               \/ \E i \in 1..Len(r.early) : n \in r.early[i].offset..End(r.early[i]) - 1
    <3>1. n \in Nat /\ Gets(r, n)
      BY Zenon, <2>1
    <3>2. CASE n < r.received
      BY <2>2, <3>1, <3>2
    <3>3. CASE Holds(Elems(r.early), n)
      <4>1. PICK i \in 1..Len(r.early) : r.early[i].offset <= n /\ n < End(r.early[i])
        BY Zenon, <3>3 DEF Holds, Elems
      <4>2. r.early[i].offset \in Nat /\ End(r.early[i]) \in Nat
        BY Zenon, <2>2, ListType, ElemType, PieceType
      <4>3. n \in r.early[i].offset..End(r.early[i]) - 1
        BY <3>1, <4>1, <4>2
      <4> QED
        BY Zenon, <4>3
    <3> QED
      BY Zenon, <3>1, <3>2, <3>3 DEF Gets
  <2> QED
    BY Zenon, <2>3 DEF r
<1> QED
  BY <1>1, ReceiveInvariant, PTL

(* checkFinished: a stream that finished without a reset has all its bytes, *)
(* up to the end its FIN gave, and holds nothing early.                     *)
THEOREM FinishedHasAll ==
    ASSUME ReceiveConstants
    PROVE  Spec => []FinishedIsWhole
<1>1. ReceiveInv => FinishedIsWhole
  <2> SUFFICES ASSUME ReceiveInv, NEW s \in Streams, receive[s].finished, ~receive[s].reset
               PROVE  receive[s].received = receive[s].finalSize /\ receive[s].early = <<>>
    BY Zenon DEF FinishedIsWhole
  <2> DEFINE r == receive[s]
  <2>1. HalfOK(r, consumed[s], arrived[s])
    BY Zenon DEF ReceiveInv
  <2>2. /\ r.received = r.finalSize /\ r.received \in Nat /\ r.highWater \in Nat
        /\ (r.finalSize # Unknown => r.highWater <= r.finalSize) /\ r.early \in Lists
        /\ Ahead(r) /\ \A h \in Elems(r.early) : End(h) <= r.highWater
    BY Zenon, <2>1, ReceiveType DEF HalfOK, Ready
  <2>3. r.highWater <= r.received
    BY Zenon, <2>2 DEF ReceiveConstants
  <2>4. ASSUME r.early # <<>>
        PROVE  FALSE
    <3>1. PICK h : h \in Elems(r.early)
      <4>1. r.early \in Seq(Pieces) /\ Len(r.early) \in Nat
        BY Zenon, <2>2, ListType
      <4>2. 1 \in 1..Len(r.early)
        BY <2>4, <4>1
      <4> QED
        BY Zenon, <4>2 DEF Elems
    <3>2. /\ h.offset \in Nat /\ End(h) \in Nat /\ h.offset < End(h) /\ r.received < h.offset /\ End(h) <= r.highWater
      BY Zenon, <2>2, <3>1, ElemType DEF Ahead
    <3> HIDE DEF r
    <3> QED
      BY <2>2, <2>3, <3>2
  <2> QED
    BY Zenon, <2>2, <2>4
<1> QED
  BY <1>1, ReceiveInvariant, PTL

(* Flow control: what a stream holds unread is no more than its window, and *)
(* the connection never counts more than the limit it last announced.       *)
THEOREM WindowKept ==
    ASSUME ReceiveConstants
    PROVE  Spec => []Bounded
<1>1. ReceiveInv => Bounded
  <2> SUFFICES ASSUME ReceiveInv, NEW s \in Streams, ~receive[s].reset
               PROVE  receive[s].highWater <= Len(consumed[s]) + InitialMaxStreamData
    BY Zenon DEF Bounded, ReceiveInv
  <2> DEFINE r == receive[s]
  <2>1. HalfOK(r, consumed[s], arrived[s])
    BY Zenon DEF ReceiveInv
  <2>2. /\ r.highWater <= r.limit /\ r.limit <= Len(consumed[s]) + InitialMaxStreamData
        /\ r.highWater \in Nat /\ r.limit \in Nat /\ Len(consumed[s]) \in Nat /\ InitialMaxStreamData \in Nat
    BY Zenon, <2>1, ReceiveType DEF HalfOK, Ready, ReceiveConstants
  <2> HIDE DEF r
  <2>3. r.highWater <= Len(consumed[s]) + InitialMaxStreamData
    BY <2>2
  <2> QED
    BY Zenon, <2>3 DEF r
<1> QED
  BY <1>1, ReceiveInvariant, PTL

(* receivedBytes, which handleStream and handleResetStream raise by each    *)
(* frame's growth, is the number of offsets below the streams' high waters: *)
(* an offset is counted once, however often it is sent.                     *)
THEOREM OffsetsCountedOnce ==
    ASSUME ReceiveConstants
    PROVE  Spec => []CountedOnce
<1>1. ReceiveInv => CountedOnce
  BY Zenon DEF ReceiveInv
<1> QED
  BY <1>1, ReceiveInvariant, PTL

(* A step never changes a final size that a FIN or a reset gave, nor lets   *)
(* a frame past it.                                                         *)
THEOREM FinalSizeStays ==
    ASSUME ReceiveConstants
    PROVE  Spec => [][FinalSizeFixed]_vars
<1>1. ReceiveInv /\ ReceiveInv' /\ [Next]_vars => [FinalSizeFixed]_vars
  <2> SUFFICES ASSUME ReceiveInv, ReceiveInv', [Next]_vars, NEW s \in Streams, receive[s].finalSize # Unknown
               PROVE  /\ receive'[s].finalSize = receive[s].finalSize
                      /\ receive'[s].highWater <= receive[s].finalSize
    BY Zenon DEF FinalSizeFixed
  <2>1. receive'[s].finalSize = receive[s].finalSize
    BY Zenon, NextSteps, FinalKept
  <2>2. HalfOK(receive'[s], consumed'[s], arrived'[s])
    BY Zenon DEF ReceiveInv
  <2> QED
    BY Zenon, <2>1, <2>2 DEF HalfOK
<1> QED
  BY <1>1, ReceiveInvariant, PTL DEF Spec

=============================================================================
