------------------------ MODULE QUICHandshakeProofs -------------------------
(***************************************************************************)
(* Proofs about the handshake for any number of certificate pieces, any    *)
(* number of packets lost and any limits: HandshakeInv of QUICHandshake is *)
(* inductive, so nothing the client still needs is stranded, and an        *)
(* address not validated is not sent more than it may be.                  *)
(***************************************************************************)
EXTENDS QUICHandshake, FiniteSetTheorems, TLAPS

(* Only keeps the packets it is told to keep, and no others.                *)
LEMMA OnlyKeeps ==
    ASSUME NEW S, NEW packets \in Seq(S), NEW keep \in SUBSET (1..Len(packets))
    PROVE  /\ Only(packets, keep) \in Seq(S)
           /\ \A i \in keep : \E k \in 1..Len(Only(packets, keep)) : Only(packets, keep)[k] = packets[i]
           /\ \A k \in 1..Len(Only(packets, keep)) : \E i \in keep : Only(packets, keep)[k] = packets[i]
<1> DEFINE n == Cardinality(keep)
           upto(i) == {j \in keep : j <= i}
<1>0. \A i \in keep : i \in Nat
  OBVIOUS
<1>1. IsFiniteSet(keep) /\ n \in Nat
  <2>1. IsFiniteSet(1..Len(packets))
    BY FS_Interval
  <2>2. IsFiniteSet(keep)
    BY Zenon, <2>1, FS_Subset
  <2> QED
    BY Zenon, <2>2, FS_CardinalityType
<1>2. ASSUME NEW i \in keep
      PROVE  IsFiniteSet(upto(i)) /\ Position(keep, i) \in 1..n
  <2>1. upto(i) \in SUBSET keep /\ i \in upto(i)
    OBVIOUS
  <2>2. IsFiniteSet(upto(i)) /\ Cardinality(upto(i)) <= n
    BY Zenon, <1>1, <2>1, FS_Subset
  <2>3. Cardinality(upto(i)) \in Nat
    BY Zenon, <2>2, FS_CardinalityType
  <2>4. Cardinality(upto(i)) # 0
    BY Zenon, <2>1, <2>2, FS_EmptySet
  <2>5. Cardinality(upto(i)) \in 1..n
    BY <1>1, <2>2, <2>3, <2>4
  <2> QED
    BY Zenon, <2>2, <2>5 DEF Position
<1>3. ASSUME NEW i \in keep, NEW j \in keep, Position(keep, i) = Position(keep, j)
      PROVE  i = j
  <2>1. ASSUME NEW a \in keep, NEW b \in keep, a < b, Position(keep, a) = Position(keep, b)
        PROVE  FALSE
    <3>1. upto(a) \in SUBSET upto(b)
      <4>1. \A k \in keep : k <= a => k <= b
        BY <1>0, <2>1
      <4> QED
        BY Zenon, <4>1
    <3>2. b \in upto(b) /\ b \notin upto(a)
      BY <1>0, <2>1
    <3>3. upto(a) = upto(b)
      <4>1. IsFiniteSet(upto(b)) /\ Cardinality(upto(b)) = Cardinality(upto(a))
        BY Zenon, <1>2, <2>1 DEF Position
      <4> HIDE DEF upto
      <4> QED
        BY Zenon, <3>1, <4>1, FS_Subset
    <3> QED
      BY Zenon, <3>2, <3>3
  <2> QED
    BY <1>3, <2>1
<1>4. \A k \in 1..n : \E i \in keep : Position(keep, i) = k
  <2> DEFINE f == [i \in keep |-> Position(keep, i)]
  <2>1. f \in Injection(keep, 1..n)
    BY Zenon, <1>2, <1>3 DEF Injection, IsInjective
  <2>2. IsFiniteSet(1..n) /\ Cardinality(1..n) = n
    BY <1>1, FS_Interval
  <2>3. f \in Surjection(keep, 1..n)
    <3> HIDE DEF f
    <3> QED
      BY Zenon, <2>1, <2>2, FS_Injection
  <2> QED
    BY Zenon, <2>3 DEF Surjection
<1>5. ASSUME NEW i \in keep
      PROVE  (CHOOSE j \in keep : Position(keep, j) = Position(keep, i)) = i
  BY Zenon, <1>3
<1> DEFINE o == Only(packets, keep)
<1>6. /\ o = [k \in 1..n |-> packets[CHOOSE i \in keep : Position(keep, i) = k]]
      /\ DOMAIN o = 1..n
  BY Zenon DEF Only
<1>7. \A k \in 1..n : \E i \in keep : o[k] = packets[i]
  BY ZenonT(30), <1>4, <1>5, <1>6
<1>8. o \in Seq(S) /\ Len(o) = n
  <2>1. \A k \in 1..n : o[k] \in S
    <3> TAKE k \in 1..n
    <3>1. PICK i \in keep : o[k] = packets[i]
      BY Zenon, <1>7
    <3>2. packets[i] \in S
      OBVIOUS
    <3> QED
      BY Zenon, <3>1, <3>2
  <2>2. o = [k \in 1..n |-> o[k]]
    BY Zenon, <1>6
  <2> HIDE DEF o
  <2>3. o \in [1..n -> S]
    BY Zenon, <2>1, <2>2
  <2> QED
    BY <1>1, <2>3
<1>9. ASSUME NEW i \in keep PROVE o[Position(keep, i)] = packets[i]
  <2>1. Position(keep, i) \in 1..n
    BY Zenon, <1>2
  <2>2. o[Position(keep, i)] = packets[CHOOSE j \in keep : Position(keep, j) = Position(keep, i)]
    BY Zenon, <1>6, <2>1
  <2> QED
    BY Zenon, <1>5, <2>2
<1> HIDE DEF o
<1>10. \A i \in keep : \E k \in 1..Len(o) : o[k] = packets[i]
  BY Zenon, <1>2, <1>8, <1>9
<1>11. \A k \in 1..Len(o) : \E i \in keep : o[k] = packets[i]
  BY Zenon, <1>7, <1>8
<1> QED
  BY Zenon, <1>8, <1>10, <1>11 DEF o

-----------------------------------------------------------------------------
(* What a step that leaves the packets and the pieces alone has to show.    *)
LEMMA Untouched ==
    ASSUME HandshakeInv, UNCHANGED <<keys, cryptoSend, sent, client, handshakeComplete>>,
           allowance' \in Int, ~addressValidated' => allowance' >= 0,
           handshakeDonePending => handshakeDonePending'
    PROVE  HandshakeInv'
  BY Zenon DEF HandshakeInv, TypeOK, SentHasKeys, ArrivedIsTold, OwedHasKeys, OwedPieces, SentIsWatched,
               DoneIsTold, Amplification

(* The packets that an acknowledgement leaves: those that did not arrive.   *)
LEMMA StillSentKeeps ==
    ASSUME TypeOK, NEW l \in Levels
    PROVE  /\ StillSent(l) \in Seq(Packet)
           /\ \A i \in 1..Len(sent[l]) : sent[l][i].fate # "arrived" =>
                \E k \in 1..Len(StillSent(l)) :
                    /\ StillSent(l)[k].crypto = sent[l][i].crypto
                    /\ StillSent(l)[k].done = sent[l][i].done
           /\ \A k \in 1..Len(StillSent(l)) : StillSent(l)[k].fate # "arrived"
<1> DEFINE s == sent[l]
           marked == [i \in 1..Len(s) |-> [s[i] EXCEPT !.overtaken = @ \/ i < LastArrived(l)]]
           keep == 1..Len(s) \ Arrived(l)
<1>1. s \in Seq(Packet)
  BY Zenon DEF TypeOK
<1>2. Len(s) \in Nat /\ \A i \in 1..Len(s) : s[i] \in Packet
  BY <1>1
<1>3. ASSUME NEW i \in 1..Len(s)
      PROVE  /\ marked[i] \in Packet /\ marked[i].crypto = s[i].crypto
             /\ marked[i].done = s[i].done /\ marked[i].fate = s[i].fate
  <2> DEFINE m == i < LastArrived(l)
             o == s[i].overtaken \/ m
  <2>1. o \in BOOLEAN
    BY Zenon
  <2>2. marked[i] = [s[i] EXCEPT !.overtaken = o]
    BY Zenon
  <2> HIDE DEF o
  <2>3. s[i] \in Packet
    BY Zenon, <1>2
  <2> HIDE DEF s, marked
  <2> QED
    BY <2>1, <2>2, <2>3 DEF Packet
<1>4. marked \in Seq(Packet) /\ Len(marked) = Len(s)
  <2>1. marked \in [1..Len(s) -> Packet]
    BY Zenon, <1>3
  <2> HIDE DEF s, marked
  <2> QED
    BY <1>2, <2>1
<1>5. keep \in SUBSET (1..Len(marked)) /\ StillSent(l) = Only(marked, keep)
  BY Zenon, <1>4 DEF StillSent
<1>6. \A i \in 1..Len(s) : i \in keep <=> s[i].fate # "arrived"
  BY Zenon DEF Arrived
<1> HIDE DEF marked, keep
<1>7. /\ StillSent(l) \in Seq(Packet)
      /\ \A i \in keep : \E k \in 1..Len(StillSent(l)) : StillSent(l)[k] = marked[i]
      /\ \A k \in 1..Len(StillSent(l)) : \E i \in keep : StillSent(l)[k] = marked[i]
  <2> DEFINE o == Only(marked, keep)
  <2>1. /\ o \in Seq(Packet)
        /\ \A i \in keep : \E k \in 1..Len(o) : o[k] = marked[i]
        /\ \A k \in 1..Len(o) : \E i \in keep : o[k] = marked[i]
    BY Zenon, <1>4, <1>5, OnlyKeeps
  <2>2. o = StillSent(l)
    BY Zenon, <1>5
  <2> HIDE DEF o
  <2> QED
    BY Zenon, <2>1, <2>2
<1>8. ASSUME NEW i \in 1..Len(s), s[i].fate # "arrived"
      PROVE  \E k \in 1..Len(StillSent(l)) :
                StillSent(l)[k].crypto = s[i].crypto /\ StillSent(l)[k].done = s[i].done
  <2>1. i \in keep
    BY Zenon, <1>6, <1>8
  <2>2. PICK k \in 1..Len(StillSent(l)) : StillSent(l)[k] = marked[i]
    BY Zenon, <1>7, <2>1
  <2> QED
    BY Zenon, <1>3, <2>2
<1>9. ASSUME NEW k \in 1..Len(StillSent(l)) PROVE StillSent(l)[k].fate # "arrived"
  <2>1. PICK i \in keep : StillSent(l)[k] = marked[i]
    BY Zenon, <1>7
  <2>2. i \in 1..Len(s)
    BY Zenon DEF keep
  <2> QED
    BY Zenon, <1>3, <1>6, <2>1, <2>2
<1> QED
  BY Zenon, <1>7, <1>8, <1>9

-----------------------------------------------------------------------------
(* The limit on what is sent: what arrives adds to it, a datagram takes one *)
(* away that was there.                                                     *)
LEMMA AllowanceKept ==
    ASSUME TypeOK, Amplification, addressValidated => addressValidated',
           \/ allowance' = allowance
           \/ allowance' = allowance + 3
           \/ Allowed /\ allowance' = IF addressValidated THEN allowance ELSE allowance - 1
    PROVE  allowance' \in Int /\ Amplification'
<1>1. allowance \in Int
  BY Zenon DEF TypeOK
<1> QED
  BY <1>1 DEF Amplification, Allowed

(* A packet from the client.                                                *)
LEMMA ReceivePacketKeeps ==
    ASSUME HandshakeInv, NEW l \in Levels, NEW kind \in Kinds, NEW acked \in BOOLEAN,
           keys[l] = "have", receivePacket(l, kind, acked),
           allowance' = allowance \/ allowance' = allowance + 3
    PROVE  HandshakeInv'
<1> DEFINE hello == HelloRead(l, kind)
           finished == FinishedRead(l, kind)
           validates == l = "handshake" /\ ~addressValidated
           gone == (IF validates THEN {"initial"} ELSE {}) \cup (IF finished THEN {"handshake"} ELSE {})
           news == acked /\ Arrived(l) # {}
<1>1. /\ keys' = IF hello THEN [keys EXCEPT !["handshake"] = "have", !["application"] = "have"]
                          ELSE [m \in Levels |-> IF m \in gone THEN "gone" ELSE keys[m]]
      /\ addressValidated' = (addressValidated \/ validates)
      /\ handshakeComplete' = (handshakeComplete \/ finished)
      /\ handshakeDonePending' = ((handshakeDonePending /\ ~(news /\ \E i \in Arrived(l) : sent[l][i].done)) \/ finished)
      /\ client' = client
  BY Zenon DEF receivePacket, DiscardedKeys
<1>2. sent' = [m \in Levels |-> IF m \in gone THEN <<>> ELSE IF m = l /\ news THEN StillSent(l) ELSE sent[m]]
  BY Zenon DEF receivePacket
<1>3. cryptoSend' = [m \in Levels |-> [i \in 1..Pieces[m] |->
           IF hello THEN "owed"
           ELSE IF news /\ m = l /\ m \notin gone /\ i \in AckedPieces(l) THEN "acked" ELSE DiscardedCrypto(gone)[m][i]]]
  BY Zenon DEF receivePacket
<1>4. TypeOK /\ SentHasKeys /\ ArrivedIsTold /\ OwedHasKeys /\ SentIsWatched /\ DoneIsTold /\ Amplification
  BY Zenon DEF HandshakeInv
<1>5. ASSUME NEW m \in Levels, NEW i \in 1..Pieces[m]
      PROVE  /\ hello => cryptoSend'[m][i] = "owed"
             /\ ~hello /\ m \in gone => cryptoSend'[m][i] = "none"
             /\ ~hello /\ m \notin gone /\ m = l /\ news /\ i \in AckedPieces(l) => cryptoSend'[m][i] = "acked"
             /\ ~hello /\ m \notin gone /\ ~(m = l /\ news /\ i \in AckedPieces(l)) =>
                    cryptoSend'[m][i] = cryptoSend[m][i]
  <2> HIDE DEF hello, gone, news
  <2>1. cryptoSend'[m][i] =
           IF hello THEN "owed"
           ELSE IF news /\ m = l /\ m \notin gone /\ i \in AckedPieces(l) THEN "acked" ELSE DiscardedCrypto(gone)[m][i]
    BY Zenon, <1>3
  <2>2. DiscardedCrypto(gone)[m][i] = IF m \in gone THEN "none" ELSE cryptoSend[m][i]
    BY Zenon DEF DiscardedCrypto
  <2> QED
    BY Zenon, <2>1, <2>2
<1>6. "application" \notin gone /\ (hello => gone = {} /\ l = "initial")
  BY Zenon DEF HelloRead, FinishedRead
<1>7. ASSUME NEW m \in Levels
      PROVE  /\ m \in gone => sent'[m] = <<>>
             /\ m \notin gone /\ m = l /\ news => sent'[m] = StillSent(m)
             /\ m \notin gone /\ ~(m = l /\ news) => sent'[m] = sent[m]
  <2> HIDE DEF gone, news
  <2> QED
    BY Zenon, <1>2
<1>8. ASSUME NEW m \in Levels PROVE keys'[m] \in {"none", "have", "gone"} /\ (m \notin gone /\ keys[m] = "have" => keys'[m] = "have")
  <2>1. keys \in [Levels -> {"none", "have", "gone"}]
    BY Zenon, <1>4 DEF TypeOK
  <2> HIDE DEF hello, gone, news
  <2> QED
    BY Zenon, <1>1, <2>1
<1> HIDE DEF gone, news, hello, finished
<1>9. TypeOK'
  <2>1. keys' \in [Levels -> {"none", "have", "gone"}]
    <3>1. keys \in [Levels -> {"none", "have", "gone"}]
      BY Zenon, <1>4 DEF TypeOK
    <3> QED
      BY Zenon, <1>1, <1>8, <3>1
  <2>2. sent' \in [Levels -> Seq(Packet)]
    <3>1. \A m \in Levels : sent[m] \in Seq(Packet) /\ StillSent(m) \in Seq(Packet)
      BY Zenon, <1>4, StillSentKeeps DEF TypeOK
    <3>2. <<>> \in Seq(Packet)
      OBVIOUS
    <3> QED
      BY Zenon, <1>2, <3>1, <3>2
  <2>3. DOMAIN cryptoSend' = Levels
    BY Zenon, <1>3
  <2>4. ASSUME NEW m \in Levels PROVE cryptoSend'[m] \in [1..Pieces[m] -> PieceStates]
    <3>1. \A i \in 1..Pieces[m] : cryptoSend'[m][i] \in PieceStates
      <4>1. \A i \in 1..Pieces[m] : cryptoSend[m][i] \in PieceStates
        BY Zenon, <1>4 DEF TypeOK
      <4> QED
        BY Zenon, <1>5, <4>1 DEF PieceStates
    <3> QED
      BY Zenon, <1>3, <3>1
  <2>5. allowance' \in Int
    BY Zenon, <1>1, <1>4, AllowanceKept
  <2> QED
    BY Zenon, <2>1, <2>2, <2>3, <2>4, <2>5 DEF TypeOK
<1>10. SentHasKeys'
  <2> SUFFICES ASSUME NEW m \in Levels, sent'[m] # <<>> PROVE keys'[m] = "have"
    BY Zenon DEF SentHasKeys
  <2>1. m \notin gone
    BY Zenon, <1>7
  <2>2. keys[m] = "have"
    BY Zenon, <1>4, <1>7, <2>1 DEF SentHasKeys
  <2> QED
    BY Zenon, <1>8, <2>1, <2>2
<1>11. ArrivedIsTold'
  <2> SUFFICES ASSUME NEW m \in Levels, NEW i \in 1..Len(sent'[m]), sent'[m][i].fate = "arrived", sent'[m][i].done
               PROVE  client.done
    BY Zenon, <1>1 DEF ArrivedIsTold
  <2>1. m \notin gone
    <3>1. Len(<<>>) = 0
      OBVIOUS
    <3>2. sent'[m] # <<>>
      BY <3>1
    <3> QED
      BY Zenon, <1>7, <3>2
  <2>2. ~(m = l /\ news)
    <3> SUFFICES ASSUME m = l, news PROVE FALSE
      BY Zenon
    <3>1. sent'[m] = StillSent(m)
      BY Zenon, <1>7, <2>1
    <3>2. \A k \in 1..Len(StillSent(m)) : StillSent(m)[k].fate # "arrived"
      BY Zenon, <1>4, StillSentKeeps
    <3> QED
      BY Zenon, <3>1, <3>2
  <2> QED
    BY Zenon, <1>4, <1>7, <2>1, <2>2 DEF ArrivedIsTold
<1>12. OwedHasKeys'
  <2> SUFFICES ASSUME NEW m \in Levels, NEW i \in 1..Pieces[m], cryptoSend'[m][i] \in {"owed", "lost"}
               PROVE  keys'[m] = "have"
    BY Zenon DEF OwedHasKeys, OwedPieces
  <2>1. CASE hello
    BY Zenon, <1>1, <1>4, <1>6, <2>1 DEF TypeOK, Levels
  <2>2. CASE ~hello
    <3>1. m \notin gone /\ cryptoSend[m][i] \in {"owed", "lost"}
      BY Zenon, <1>5, <2>2
    <3> QED
      BY Zenon, <1>4, <1>8, <3>1 DEF OwedHasKeys, OwedPieces
  <2> QED
    BY Zenon, <2>1, <2>2
<1>13. SentIsWatched'
  <2> SUFFICES ASSUME NEW m \in Levels, NEW i \in 1..Pieces[m], cryptoSend'[m][i] = "sent"
               PROVE  \E j \in 1..Len(sent'[m]) : i \in sent'[m][j].crypto
    BY Zenon DEF SentIsWatched
  <2>1. m \notin gone /\ cryptoSend[m][i] = "sent" /\ ~(m = l /\ news /\ i \in AckedPieces(l))
    BY Zenon, <1>5
  <2>2. PICK j \in 1..Len(sent[m]) : i \in sent[m][j].crypto
    BY Zenon, <1>4, <2>1 DEF SentIsWatched
  <2>3. CASE m = l /\ news
    <3>1. sent[m][j].fate # "arrived"
      BY Zenon, <2>1, <2>2, <2>3 DEF AckedPieces, Arrived
    <3>2. PICK k \in 1..Len(StillSent(m)) : StillSent(m)[k].crypto = sent[m][j].crypto
      BY Zenon, <1>4, <2>2, <3>1, StillSentKeeps
    <3> QED
      BY Zenon, <1>7, <2>1, <2>2, <2>3, <3>2
  <2>4. CASE ~(m = l /\ news)
    BY Zenon, <1>7, <2>1, <2>2, <2>4
  <2> QED
    BY Zenon, <2>3, <2>4
<1>14. DoneIsTold'
  <2> SUFFICES ASSUME handshakeComplete', ~client.done, ~handshakeDonePending'
               PROVE  \E j \in 1..Len(sent'["application"]) : sent'["application"][j].done
    BY Zenon, <1>1 DEF DoneIsTold
  <2>1. "application" \in Levels
    BY Zenon DEF Levels
  <2>2. handshakeComplete /\ ~finished
    BY Zenon, <1>1
  <2>3. ~handshakeDonePending
    <3>1. \A i \in Arrived(l) : ~sent[l][i].done
      BY Zenon, <1>4 DEF ArrivedIsTold, Arrived
    <3> QED
      BY Zenon, <1>1, <3>1
  <2>4. PICK j \in 1..Len(sent["application"]) : sent["application"][j].done
    BY Zenon, <1>4, <2>2, <2>3 DEF DoneIsTold
  <2>5. sent["application"][j].fate # "arrived"
    BY Zenon, <1>4, <2>1, <2>4 DEF ArrivedIsTold
  <2>6. CASE "application" = l /\ news
    <3>1. PICK k \in 1..Len(StillSent(l)) : StillSent(l)[k].done = sent[l][j].done
      BY Zenon, <1>4, <2>4, <2>5, <2>6, StillSentKeeps
    <3> QED
      BY Zenon, <1>6, <1>7, <2>1, <2>4, <2>6, <3>1
  <2>7. CASE ~("application" = l /\ news)
    BY Zenon, <1>6, <1>7, <2>1, <2>4, <2>7
  <2> QED
    BY Zenon, <2>6, <2>7
<1>15. Amplification'
  BY Zenon, <1>1, <1>4, AllowanceKept
<1> QED
  BY Zenon, <1>9, <1>10, <1>11, <1>12, <1>13, <1>14, <1>15 DEF HandshakeInv

-----------------------------------------------------------------------------
(* What buildPacket puts in a packet.                                       *)
LEMMA BuiltIs ==
    ASSUME TypeOK, NEW l \in Levels, NEW ping
    PROVE  /\ Built(l, ping) \in Packet
           /\ Built(l, ping).crypto \subseteq OwedPieces(l)
           /\ Built(l, ping).done = (l = "application" /\ handshakeDonePending)
           /\ Built(l, ping).fate = "way"
<1> DEFINE lost == {i \in OwedPieces(l) : cryptoSend[l][i] = "lost"}
           from == IF lost # {} THEN lost ELSE OwedPieces(l)
           piece == {i \in from : \A j \in from : i <= j}
           done == l = "application" /\ handshakeDonePending
           eliciting == piece # {} \/ done \/ ping
<1>1. Built(l, ping) = [crypto |-> piece, done |-> done, eliciting |-> eliciting, fate |-> "way", overtaken |-> FALSE]
  BY Zenon DEF Built
<1>2. piece \subseteq OwedPieces(l)
  BY Zenon
<1>3. OwedPieces(l) \subseteq Nat
  BY DEF OwedPieces
<1>4. done \in BOOLEAN /\ eliciting \in BOOLEAN
  BY Zenon
<1>5. done = (l = "application" /\ handshakeDonePending)
  BY Zenon
<1> HIDE DEF piece, done, eliciting
<1>6. piece \in SUBSET Nat
  BY Zenon, <1>2, <1>3
<1>7. Built(l, ping) \in Packet
  BY <1>1, <1>4, <1>6 DEF Packet
<1>8. Built(l, ping).crypto = piece /\ Built(l, ping).done = done /\ Built(l, ping).fate = "way"
  BY <1>1
<1> QED
  BY Zenon, <1>2, <1>5, <1>7, <1>8

(* A datagram: what it takes from the lists it puts in packets.             *)
LEMMA DatagramKeeps ==
    ASSUME HandshakeInv, NEW last \in Levels, nextDatagram(last)
    PROVE  HandshakeInv'
<1> DEFINE into == {l \in Below(last) \cup {last} : CanSendAt(l) /\ HasFrames(l)}
           First(l) == Below(l) \cap into = {}
           packet == [l \in into |-> Built(l, pingPending /\ First(l))]
           real == {l \in into : packet[l].eliciting \/ ackPending[l]}
<1>1. /\ sent' = [l \in Levels |-> IF l \in real THEN Append(sent[l], packet[l]) ELSE sent[l]]
      /\ cryptoSend' = [l \in Levels |-> [i \in 1..Pieces[l] |->
             IF l \in real /\ i \in packet[l].crypto THEN "sent" ELSE cryptoSend[l][i]]]
      /\ handshakeDonePending' = (handshakeDonePending /\ "application" \notin real)
      /\ Allowed /\ allowance' = IF addressValidated THEN allowance ELSE allowance - 1
      /\ UNCHANGED <<keys, addressValidated, handshakeComplete, client>>
  BY Zenon DEF nextDatagram
<1>2. TypeOK /\ SentHasKeys /\ ArrivedIsTold /\ OwedHasKeys /\ SentIsWatched /\ DoneIsTold /\ Amplification
  BY Zenon DEF HandshakeInv
<1>3. \A l \in real : l \in Levels /\ keys[l] = "have" /\ \E ping : packet[l] = Built(l, ping)
  BY Zenon DEF CanSendAt, Below, Levels
<1> HIDE DEF packet, real
<1>4. ASSUME NEW l \in real
      PROVE  /\ packet[l] \in Packet /\ packet[l].crypto \subseteq OwedPieces(l)
             /\ packet[l].done = (l = "application" /\ handshakeDonePending)
             /\ packet[l].fate = "way"
  <2>1. PICK ping : packet[l] = Built(l, ping)
    BY Zenon, <1>3
  <2>2. /\ Built(l, ping) \in Packet /\ Built(l, ping).crypto \subseteq OwedPieces(l)
        /\ Built(l, ping).done = (l = "application" /\ handshakeDonePending)
        /\ Built(l, ping).fate = "way"
    BY Zenon, <1>2, <1>3, BuiltIs
  <2> QED
    BY Zenon, <2>1, <2>2
<1>5. \A l \in Levels : sent[l] \in Seq(Packet)
  BY Zenon, <1>2 DEF TypeOK
<1>6. ASSUME NEW l \in real
      PROVE  /\ sent'[l] \in Seq(Packet) /\ Len(sent'[l]) = Len(sent[l]) + 1
             /\ Len(sent[l]) + 1 \in 1..Len(sent'[l]) /\ sent'[l][Len(sent[l]) + 1] = packet[l]
             /\ \A i \in 1..Len(sent'[l]) : i = Len(sent[l]) + 1 \/ i \in 1..Len(sent[l])
             /\ \A i \in 1..Len(sent[l]) : i \in 1..Len(sent'[l]) /\ sent'[l][i] = sent[l][i]
  <2>1. sent'[l] = Append(sent[l], packet[l])
    BY Zenon, <1>1, <1>3
  <2>2. sent[l] \in Seq(Packet) /\ packet[l] \in Packet
    BY Zenon, <1>3, <1>4, <1>5
  <2> QED
    BY <2>1, <2>2
<1>7. \A l \in Levels : l \notin real => sent'[l] = sent[l]
  BY Zenon, <1>1
<1>8. \A l \in Levels : \A i \in 1..Pieces[l] :
          cryptoSend'[l][i] = IF l \in real /\ i \in packet[l].crypto THEN "sent" ELSE cryptoSend[l][i]
  BY Zenon, <1>1
<1>9. TypeOK'
  <2>1. \A l \in Levels : sent'[l] \in Seq(Packet)
    BY Zenon, <1>5, <1>6, <1>7
  <2>2. sent' \in [Levels -> Seq(Packet)]
    BY Zenon, <1>1, <2>1
  <2>3. DOMAIN cryptoSend' = Levels
    BY Zenon, <1>1
  <2>4. ASSUME NEW l \in Levels PROVE cryptoSend'[l] \in [1..Pieces[l] -> PieceStates]
    <3>1. \A i \in 1..Pieces[l] : cryptoSend[l][i] \in PieceStates
      BY Zenon, <1>2 DEF TypeOK
    <3>2. \A i \in 1..Pieces[l] : cryptoSend'[l][i] \in PieceStates
      BY Zenon, <1>8, <3>1 DEF PieceStates
    <3> QED
      BY Zenon, <1>1, <3>2
  <2>5. allowance' \in Int
    BY Zenon, <1>1, <1>2, AllowanceKept
  <2> QED
    BY Zenon, <1>1, <1>2, <2>2, <2>3, <2>4, <2>5 DEF TypeOK
<1>10. SentHasKeys'
  BY Zenon, <1>1, <1>2, <1>3, <1>7 DEF SentHasKeys
<1>11. ArrivedIsTold'
  <2> SUFFICES ASSUME NEW l \in Levels, NEW i \in 1..Len(sent'[l]), sent'[l][i].fate = "arrived", sent'[l][i].done
               PROVE  client.done
    BY Zenon, <1>1 DEF ArrivedIsTold
  <2>1. CASE l \in real
    <3>1. i # Len(sent[l]) + 1
      BY ZenonT(30), <1>4, <1>6, <2>1
    <3> QED
      BY Zenon, <1>2, <1>6, <2>1, <3>1 DEF ArrivedIsTold
  <2>2. CASE l \notin real
    BY Zenon, <1>2, <1>7, <2>2 DEF ArrivedIsTold
  <2> QED
    BY Zenon, <2>1, <2>2
<1>12. OwedHasKeys'
  BY Zenon, <1>1, <1>2, <1>8 DEF OwedHasKeys, OwedPieces
<1>13. SentIsWatched'
  <2> SUFFICES ASSUME NEW l \in Levels, NEW i \in 1..Pieces[l], cryptoSend'[l][i] = "sent"
               PROVE  \E j \in 1..Len(sent'[l]) : i \in sent'[l][j].crypto
    BY Zenon DEF SentIsWatched
  <2>1. CASE l \in real /\ i \in packet[l].crypto
    BY Zenon, <1>6, <2>1
  <2>2. CASE ~(l \in real /\ i \in packet[l].crypto)
    <3>1. PICK j \in 1..Len(sent[l]) : i \in sent[l][j].crypto
      BY Zenon, <1>2, <1>8, <2>2 DEF SentIsWatched
    <3>2. j \in 1..Len(sent'[l]) /\ sent'[l][j] = sent[l][j]
      BY Zenon, <1>6, <1>7, <3>1
    <3> QED
      BY Zenon, <3>1, <3>2
  <2> QED
    BY Zenon, <2>1, <2>2
<1>14. DoneIsTold'
  <2> SUFFICES ASSUME handshakeComplete, ~client.done, ~handshakeDonePending'
               PROVE  \E j \in 1..Len(sent'["application"]) : sent'["application"][j].done
    BY Zenon, <1>1 DEF DoneIsTold
  <2>1. "application" \in Levels
    BY Zenon DEF Levels
  <2>2. CASE handshakeDonePending
    <3>1. "application" \in real
      BY Zenon, <1>1, <2>2
    <3> QED
      BY Zenon, <1>4, <1>6, <2>2, <3>1
  <2>3. CASE ~handshakeDonePending
    <3>1. PICK j \in 1..Len(sent["application"]) : sent["application"][j].done
      BY Zenon, <1>2, <2>3 DEF DoneIsTold
    <3>2. j \in 1..Len(sent'["application"]) /\ sent'["application"][j] = sent["application"][j]
      BY Zenon, <1>6, <1>7, <2>1, <3>1
    <3> QED
      BY Zenon, <3>1, <3>2
  <2> QED
    BY Zenon, <2>2, <2>3
<1>15. Amplification'
  BY Zenon, <1>1, <1>2, AllowanceKept
<1> QED
  BY Zenon, <1>9, <1>10, <1>11, <1>12, <1>13, <1>14, <1>15 DEF HandshakeInv

-----------------------------------------------------------------------------
(* The loss timer: what was in the packets it gives up is owed again.       *)
LEMMA LossKeeps ==
    ASSUME HandshakeInv, NEW l \in Levels, NEW due \in SUBSET Levels, onTimeoutLoss(l, due)
    PROVE  HandshakeInv'
<1> DEFINE keep == 1..Len(sent[l]) \ LostAt(l)
           given(i) == cryptoSend[l][i] = "sent" /\ \E j \in LostAt(l) : i \in sent[l][j].crypto
<1>1. /\ LostAt(l) # {}
      /\ cryptoSend' = [cryptoSend EXCEPT ![l] = [i \in DOMAIN cryptoSend[l] |->
             IF given(i) THEN "lost" ELSE cryptoSend[l][i]]]
      /\ handshakeDonePending' = (handshakeDonePending \/ DoneLost(l))
      /\ sent' = [sent EXCEPT ![l] = Only(sent[l], keep)]
      /\ UNCHANGED <<keys, addressValidated, handshakeComplete, allowance, client>>
  BY Zenon DEF onTimeoutLoss
<1>2. TypeOK /\ SentHasKeys /\ ArrivedIsTold /\ OwedHasKeys /\ SentIsWatched /\ DoneIsTold /\ Amplification
  BY Zenon DEF HandshakeInv
<1>3. sent \in [Levels -> Seq(Packet)] /\ keep \in SUBSET (1..Len(sent[l]))
  BY Zenon, <1>2 DEF TypeOK
<1>4. \A i \in 1..Len(sent[l]) : i \in keep <=> i \notin LostAt(l)
  BY Zenon
<1> HIDE DEF keep
<1>5. /\ sent'[l] \in Seq(Packet)
      /\ \A i \in keep : \E k \in 1..Len(sent'[l]) : sent'[l][k] = sent[l][i]
      /\ \A k \in 1..Len(sent'[l]) : \E i \in keep : sent'[l][k] = sent[l][i]
  <2> DEFINE o == Only(sent[l], keep)
  <2>1. /\ o \in Seq(Packet)
        /\ \A i \in keep : \E k \in 1..Len(o) : o[k] = sent[l][i]
        /\ \A k \in 1..Len(o) : \E i \in keep : o[k] = sent[l][i]
    <3>1. sent[l] \in Seq(Packet)
      BY Zenon, <1>3
    <3> QED
      BY Zenon, <1>3, <3>1, OnlyKeeps
  <2>2. sent'[l] = o
    BY Zenon, <1>1, <1>3
  <2> HIDE DEF o
  <2> QED
    BY Zenon, <2>1, <2>2
<1>6. \A m \in Levels : m # l => sent'[m] = sent[m]
  BY Zenon, <1>1, <1>3
<1>7. /\ DOMAIN cryptoSend = Levels
      /\ \A m \in Levels : cryptoSend[m] \in [1..Pieces[m] -> PieceStates] /\ DOMAIN cryptoSend[m] = 1..Pieces[m]
  BY Zenon, <1>2 DEF TypeOK
<1>8. /\ \A m \in Levels : m # l => cryptoSend'[m] = cryptoSend[m]
      /\ cryptoSend'[l] = [i \in 1..Pieces[l] |-> IF given(i) THEN "lost" ELSE cryptoSend[l][i]]
      /\ DOMAIN cryptoSend' = Levels
  <2> HIDE DEF given
  <2> QED
    BY Zenon, <1>1, <1>7
<1>9. TypeOK'
  <2>1. sent' \in [Levels -> Seq(Packet)]
    BY Zenon, <1>1, <1>3, <1>5
  <2>2. cryptoSend'[l] \in [1..Pieces[l] -> PieceStates]
    <3>1. \A i \in 1..Pieces[l] : cryptoSend'[l][i] \in PieceStates
      BY Zenon, <1>7, <1>8 DEF PieceStates
    <3> QED
      BY Zenon, <1>8, <3>1
  <2> QED
    BY Zenon, <1>1, <1>2, <1>8, <2>1, <2>2 DEF TypeOK
<1>10. SentHasKeys' /\ keys[l] = "have"
  <2>1. sent[l] # <<>>
    <3>1. PICK i \in 1..Len(sent[l]) : i \in LostAt(l)
      BY Zenon, <1>1 DEF LostAt
    <3>2. Len(<<>>) = 0
      OBVIOUS
    <3> QED
      BY <3>1, <3>2
  <2>2. keys[l] = "have"
    BY Zenon, <1>2, <2>1 DEF SentHasKeys
  <2> QED
    BY Zenon, <1>1, <1>2, <1>6, <2>2 DEF SentHasKeys
<1>11. ArrivedIsTold'
  <2> SUFFICES ASSUME NEW m \in Levels, NEW i \in 1..Len(sent'[m]), sent'[m][i].fate = "arrived", sent'[m][i].done
               PROVE  client.done
    BY Zenon, <1>1 DEF ArrivedIsTold
  <2>1. CASE m = l
    <3>1. PICK j \in keep : sent'[l][i] = sent[l][j]
      BY Zenon, <1>5, <2>1
    <3>2. j \in 1..Len(sent[l])
      BY Zenon, <1>3
    <3> QED
      BY Zenon, <1>2, <2>1, <3>1, <3>2 DEF ArrivedIsTold
  <2>2. CASE m # l
    BY Zenon, <1>2, <1>6, <2>2 DEF ArrivedIsTold
  <2> QED
    BY Zenon, <2>1, <2>2
<1>12. OwedHasKeys'
  <2> SUFFICES ASSUME NEW m \in Levels, NEW i \in 1..Pieces[m], cryptoSend'[m][i] \in {"owed", "lost"}
               PROVE  keys[m] = "have"
    BY Zenon, <1>1 DEF OwedHasKeys, OwedPieces
  <2>1. CASE m = l
    BY Zenon, <1>10, <2>1
  <2>2. CASE m # l
    BY Zenon, <1>2, <1>8, <2>2 DEF OwedHasKeys, OwedPieces
  <2> QED
    BY Zenon, <2>1, <2>2
<1>13. SentIsWatched'
  <2> SUFFICES ASSUME NEW m \in Levels, NEW i \in 1..Pieces[m], cryptoSend'[m][i] = "sent"
               PROVE  \E j \in 1..Len(sent'[m]) : i \in sent'[m][j].crypto
    BY Zenon DEF SentIsWatched
  <2>1. CASE m = l
    <3>1. cryptoSend[l][i] = "sent" /\ ~given(i)
      BY Zenon, <1>8, <2>1
    <3>2. PICK j \in 1..Len(sent[l]) : i \in sent[l][j].crypto
      BY Zenon, <1>2, <2>1, <3>1 DEF SentIsWatched
    <3>3. j \in keep
      BY Zenon, <1>4, <3>1, <3>2
    <3> QED
      BY Zenon, <1>5, <2>1, <3>2, <3>3
  <2>2. CASE m # l
    <3>1. cryptoSend[m][i] = "sent" /\ sent'[m] = sent[m]
      BY Zenon, <1>6, <1>8, <2>2
    <3> QED
      BY Zenon, <1>2, <3>1 DEF SentIsWatched
  <2> QED
    BY Zenon, <2>1, <2>2
<1>14. DoneIsTold'
  <2> SUFFICES ASSUME handshakeComplete, ~client.done, ~handshakeDonePending'
               PROVE  \E j \in 1..Len(sent'["application"]) : sent'["application"][j].done
    BY Zenon, <1>1 DEF DoneIsTold
  <2>1. "application" \in Levels /\ ~handshakeDonePending /\ ~DoneLost(l)
    BY Zenon, <1>1 DEF Levels
  <2>2. PICK j \in 1..Len(sent["application"]) : sent["application"][j].done
    BY Zenon, <1>2, <2>1 DEF DoneIsTold
  <2>3. CASE l = "application"
    <3>1. j \in keep
      BY Zenon, <1>4, <2>1, <2>2, <2>3 DEF DoneLost
    <3> QED
      BY Zenon, <1>5, <2>2, <2>3, <3>1
  <2>4. CASE l # "application"
    BY Zenon, <1>6, <2>1, <2>2, <2>4
  <2> QED
    BY Zenon, <2>3, <2>4
<1>15. Amplification'
  BY Zenon, <1>1, <1>2 DEF Amplification
<1> QED
  BY Zenon, <1>9, <1>10, <1>11, <1>12, <1>13, <1>14, <1>15 DEF HandshakeInv

(* A probe: what is unacknowledged is owed again, and stays watched.        *)
LEMMA ProbeKeeps ==
    ASSUME HandshakeInv, NEW due \in SUBSET Levels, onTimeout(due)
    PROVE  HandshakeInv'
<1>1. /\ cryptoSend' = [l \in Levels |-> [i \in 1..Pieces[l] |->
             IF i \in Unacknowledged(l) THEN "lost" ELSE cryptoSend[l][i]]]
      /\ UNCHANGED <<keys, addressValidated, handshakeComplete, handshakeDonePending, allowance, sent, client>>
  BY Zenon DEF onTimeout
<1>2. TypeOK /\ SentHasKeys /\ ArrivedIsTold /\ OwedHasKeys /\ SentIsWatched /\ DoneIsTold /\ Amplification
  BY Zenon DEF HandshakeInv
<1>3. \A l \in Levels : \A i \in 1..Pieces[l] :
          cryptoSend'[l][i] = IF i \in Unacknowledged(l) THEN "lost" ELSE cryptoSend[l][i]
  BY Zenon, <1>1
<1>4. TypeOK'
  <2>1. ASSUME NEW l \in Levels PROVE cryptoSend'[l] \in [1..Pieces[l] -> PieceStates]
    <3>1. \A i \in 1..Pieces[l] : cryptoSend[l][i] \in PieceStates
      BY Zenon, <1>2 DEF TypeOK
    <3>2. \A i \in 1..Pieces[l] : cryptoSend'[l][i] \in PieceStates
      BY Zenon, <1>3, <3>1 DEF PieceStates
    <3> QED
      BY Zenon, <1>1, <3>2
  <2> QED
    BY Zenon, <1>1, <1>2, <2>1 DEF TypeOK
<1>5. SentHasKeys' /\ ArrivedIsTold' /\ DoneIsTold' /\ Amplification'
  BY Zenon, <1>1, <1>2 DEF SentHasKeys, ArrivedIsTold, DoneIsTold, Amplification
<1>6. OwedHasKeys'
  BY Zenon, <1>1, <1>2, <1>3 DEF OwedHasKeys, OwedPieces, Unacknowledged
<1>7. SentIsWatched'
  BY Zenon, <1>1, <1>2, <1>3 DEF SentIsWatched
<1> QED
  BY Zenon, <1>2, <1>4, <1>5, <1>6, <1>7 DEF HandshakeInv

-----------------------------------------------------------------------------
(* The network: a packet arrives, and tells the client what it carries, or  *)
(* vanishes, which nobody sees.                                             *)
LEMMA NetworkKeeps ==
    ASSUME HandshakeInv, NEW l \in Levels, NEW i \in 1..Len(sent[l]), arrive(l, i) \/ vanish(l, i)
    PROVE  HandshakeInv'
<1>1. /\ UNCHANGED <<keys, addressValidated, handshakeComplete, handshakeDonePending, allowance, cryptoSend>>
      /\ client.done => client'.done
      /\ \E fate \in {"arrived", "vanished"} :
            /\ sent' = [sent EXCEPT ![l][i].fate = fate]
            /\ fate = "arrived" /\ sent[l][i].done => client'.done
  <2>1. CASE arrive(l, i)
    <3>1. client'.done = (client.done \/ sent[l][i].done)
      BY Zenon, <2>1 DEF arrive
    <3> QED
      BY Zenon, <2>1, <3>1 DEF arrive
  <2>2. CASE vanish(l, i)
    BY Zenon, <2>2 DEF vanish
  <2> QED
    BY Zenon, <2>1, <2>2
<1>2. TypeOK /\ SentHasKeys /\ ArrivedIsTold /\ OwedHasKeys /\ SentIsWatched /\ DoneIsTold /\ Amplification
  BY Zenon DEF HandshakeInv
<1>3. PICK fate \in {"arrived", "vanished"} :
          /\ sent' = [sent EXCEPT ![l] = [sent[l] EXCEPT ![i] = [sent[l][i] EXCEPT !.fate = fate]]]
          /\ fate = "arrived" /\ sent[l][i].done => client'.done
  BY Zenon, <1>1
<1> DEFINE new == [sent[l][i] EXCEPT !.fate = fate]
<1>4. sent \in [Levels -> Seq(Packet)] /\ sent[l] \in Seq(Packet)
  BY Zenon, <1>2 DEF TypeOK
<1>5. new \in Packet /\ new.crypto = sent[l][i].crypto /\ new.done = sent[l][i].done /\ new.fate = fate
  <2>1. sent[l][i] \in Packet
    BY <1>4
  <2> QED
    BY <2>1 DEF Packet
<1> HIDE DEF new
<1>6. sent'[l] = [sent[l] EXCEPT ![i] = new] /\ \A m \in Levels : m # l => sent'[m] = sent[m]
  BY Zenon, <1>3, <1>4 DEF new
<1>7. /\ sent'[l] \in Seq(Packet) /\ Len(sent'[l]) = Len(sent[l]) /\ sent'[l][i] = new
      /\ \A j \in 1..Len(sent[l]) : j # i => sent'[l][j] = sent[l][j]
  BY <1>4, <1>5, <1>6
<1>8. ASSUME NEW m \in Levels
      PROVE  /\ Len(sent'[m]) = Len(sent[m]) /\ sent'[m] \in Seq(Packet)
             /\ \A j \in 1..Len(sent[m]) :
                   /\ sent'[m][j].crypto = sent[m][j].crypto /\ sent'[m][j].done = sent[m][j].done
                   /\ sent'[m][j].fate = sent[m][j].fate \/ (m = l /\ j = i)
  <2>1. CASE m = l
    BY Zenon, <1>5, <1>7, <2>1
  <2>2. CASE m # l
    BY Zenon, <1>4, <1>6, <2>2
  <2> QED
    BY Zenon, <2>1, <2>2
<1>9. TypeOK'
  <2>1. sent' \in [Levels -> Seq(Packet)]
    BY Zenon, <1>3, <1>4, <1>8
  <2> QED
    BY Zenon, <1>1, <1>2, <2>1 DEF TypeOK
<1>10. SentHasKeys'
  <2> SUFFICES ASSUME NEW m \in Levels, sent'[m] # <<>> PROVE sent[m] # <<>>
    BY Zenon, <1>1, <1>2 DEF SentHasKeys
  <2>1. Len(sent'[m]) = Len(sent[m]) /\ sent'[m] \in Seq(Packet)
    BY Zenon, <1>8
  <2> QED
    BY <2>1
<1>11. ArrivedIsTold'
  <2> SUFFICES ASSUME NEW m \in Levels, NEW j \in 1..Len(sent'[m]), sent'[m][j].fate = "arrived", sent'[m][j].done
               PROVE  client'.done
    BY Zenon DEF ArrivedIsTold
  <2>1. CASE m = l /\ j = i
    BY Zenon, <1>3, <1>5, <1>7, <2>1
  <2>2. CASE ~(m = l /\ j = i)
    <3>1. j \in 1..Len(sent[m])
      BY Zenon, <1>8
    <3>2. sent[m][j].fate = "arrived" /\ sent[m][j].done = sent'[m][j].done
      BY Zenon, <1>8, <2>2, <3>1
    <3> QED
      BY Zenon, <1>1, <1>2, <3>1, <3>2 DEF ArrivedIsTold
  <2> QED
    BY Zenon, <2>1, <2>2
<1>12. OwedHasKeys' /\ Amplification'
  BY Zenon, <1>1, <1>2 DEF OwedHasKeys, OwedPieces, Amplification
<1>13. SentIsWatched'
  <2> SUFFICES ASSUME NEW m \in Levels, NEW k \in 1..Pieces[m], cryptoSend[m][k] = "sent"
               PROVE  \E j \in 1..Len(sent'[m]) : k \in sent'[m][j].crypto
    BY Zenon, <1>1 DEF SentIsWatched
  <2>1. PICK j \in 1..Len(sent[m]) : k \in sent[m][j].crypto
    BY Zenon, <1>2 DEF SentIsWatched
  <2> QED
    BY Zenon, <1>8, <2>1
<1>14. DoneIsTold'
  <2>1. "application" \in Levels
    BY Zenon DEF Levels
  <2>2. Len(sent'["application"]) = Len(sent["application"])
    BY Zenon, <1>8, <2>1
  <2>3. \A j \in 1..Len(sent["application"]) : sent'["application"][j].done = sent["application"][j].done
    BY Zenon, <1>8, <2>1
  <2> QED
    BY Zenon, <1>1, <1>2, <2>2, <2>3 DEF DoneIsTold
<1> QED
  BY Zenon, <1>9, <1>10, <1>11, <1>12, <1>13, <1>14 DEF HandshakeInv

-----------------------------------------------------------------------------
(* The connection starts in the invariant.                                  *)
LEMMA HandshakeInit == Init => HandshakeInv
<1> SUFFICES ASSUME Init PROVE HandshakeInv
  BY Zenon
<1>1. sent = [l \in Levels |-> <<>>] /\ \A l \in Levels : sent[l] = <<>>
  BY Zenon DEF Init
<1>2. Len(<<>>) = 0 /\ <<>> \in Seq(Packet)
  OBVIOUS
<1>3. \A l \in Levels : 1..Len(sent[l]) = {}
  BY <1>1, <1>2
<1>4. cryptoSend = [l \in Levels |-> [i \in 1..Pieces[l] |-> "none"]]
  BY Zenon DEF Init
<1>5. allowance = 0
  BY Zenon DEF Init
<1>6. TypeOK
  <2>1. keys \in [Levels -> {"none", "have", "gone"}]
    BY Zenon DEF Init
  <2>2. allowance \in Int
    BY <1>5
  <2>3. DOMAIN cryptoSend = Levels /\ \A l \in Levels : cryptoSend[l] \in [1..Pieces[l] -> PieceStates]
    BY Zenon, <1>4 DEF PieceStates
  <2>4. sent \in [Levels -> Seq(Packet)]
    BY Zenon, <1>1, <1>2
  <2> QED
    BY Zenon, <2>1, <2>2, <2>3, <2>4 DEF TypeOK
<1>7. SentHasKeys /\ ArrivedIsTold
  BY Zenon, <1>1, <1>3 DEF SentHasKeys, ArrivedIsTold
<1>8. OwedHasKeys /\ SentIsWatched
  BY Zenon, <1>4 DEF OwedHasKeys, OwedPieces, SentIsWatched
<1>9. DoneIsTold
  BY Zenon DEF DoneIsTold, Init
<1>10. Amplification
  BY <1>5 DEF Amplification
<1> QED
  BY Zenon, <1>6, <1>7, <1>8, <1>9, <1>10 DEF HandshakeInv

(* Every step keeps it.                                                     *)
LEMMA HandshakeNext == HandshakeInv /\ [Next]_vars => HandshakeInv'
<1> SUFFICES ASSUME HandshakeInv, [Next]_vars PROVE HandshakeInv'
  BY Zenon
<1>0. TypeOK /\ Amplification /\ allowance \in Int
  BY Zenon DEF HandshakeInv, TypeOK
<1>1. ASSUME NEW l \in Levels, NEW kind \in Kinds, NEW acked \in BOOLEAN, receive(l, kind, acked)
      PROVE  HandshakeInv'
  <2>1. allowance' = allowance \/ allowance' = allowance + 3
    BY Zenon, <1>1 DEF receive
  <2>2. CASE keys[l] = "have"
    BY Zenon, <1>1, <2>1, <2>2, ReceivePacketKeeps DEF receive
  <2>3. CASE keys[l] # "have"
    <3>1. UNCHANGED <<keys, cryptoSend, sent, client, handshakeComplete, handshakeDonePending, addressValidated>>
      BY Zenon, <1>1, <2>3 DEF receive
    <3>2. allowance' \in Int /\ Amplification'
      BY Zenon, <1>0, <2>1, <3>1, AllowanceKept
    <3> QED
      BY Zenon, <3>1, <3>2, Untouched DEF Amplification
  <2> QED
    BY Zenon, <2>2, <2>3
<1>2. CASE buildClose
  <2>1. UNCHANGED <<keys, cryptoSend, sent, client, handshakeComplete, handshakeDonePending, addressValidated>>
    BY Zenon, <1>2 DEF buildClose
  <2>2. allowance' \in Int /\ Amplification'
    <3>1. Allowed /\ allowance' = IF addressValidated THEN allowance ELSE allowance - 1
      BY Zenon, <1>2 DEF buildClose
    <3> QED
      BY Zenon, <1>0, <2>1, <3>1, AllowanceKept
  <2> QED
    BY Zenon, <2>1, <2>2, Untouched DEF Amplification
<1>3. CASE close \/ drained \/ passProbe \/ UNCHANGED vars
  <2>1. UNCHANGED <<keys, cryptoSend, sent, client, handshakeComplete, handshakeDonePending, addressValidated, allowance>>
    BY Zenon, <1>3 DEF close, drained, passProbe, vars
  <2> QED
    BY Zenon, <1>0, <2>1, Untouched DEF Amplification
<1> QED
  BY Zenon, <1>1, <1>2, <1>3, DatagramKeeps, LossKeeps, ProbeKeeps, NetworkKeeps DEF Next

(* The handshake's invariant holds of every state that is reached.          *)
THEOREM HandshakeInvariant == Spec => []HandshakeInv
  BY HandshakeInit, HandshakeNext, PTL DEF Spec

(* discardSpace, onPacketLost, onTimeout, applyTLSProgress: for any number   *)
(* of certificate pieces and losses, and whenever either side closes,        *)
(* handshake bytes wait only where there are keys to send them with, what    *)
(* was sent and not acknowledged is in a packet whose fate the server still  *)
(* waits to learn, and the end of the handshake has been told or will be.    *)
THEOREM NoneStranded == Spec => []NothingStranded
<1>1. HandshakeInv => NothingStranded
  BY Zenon DEF HandshakeInv, NothingStranded
<1> QED
  BY <1>1, HandshakeInvariant, PTL

(* nextDatagram, buildClose: whatever is sent, closes included, an address   *)
(* that has not been validated is sent at most three times what came from    *)
(* it.                                                                       *)
THEOREM AmplificationLimited == Spec => []Amplification
<1>1. HandshakeInv => Amplification
  BY Zenon DEF HandshakeInv
<1> QED
  BY <1>1, HandshakeInvariant, PTL

=============================================================================
