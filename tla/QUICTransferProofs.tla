------------------------- MODULE QUICTransferProofs -------------------------
(***************************************************************************)
(* The two halves of a connection's streams and the network between them   *)
(* (QUICTransfer) implement an ordered byte stream that does not fail, for *)
(* any number of streams and bytes, any windows, and any losses, delays    *)
(* and reorderings.  The sender and the receiver each keep the invariant   *)
(* proved of them alone; what is added here is what links the two.         *)
(***************************************************************************)
EXTENDS QUICTransfer, TLAPS

(* What the constants are.                                                  *)
TransferConstants ==
    /\ Unknown \notin Nat
    /\ StreamWindow \in Nat /\ DataWindow \in Nat /\ MaxWritten \in Nat /\ MaxFrame \in Nat

(* A sending half, with range lists in L; and a packet.                     *)
Half(L) ==
    [base : Nat, written : Nat, sent : Nat, acked : L, lost : L, limit : Nat,
     finQueued : BOOLEAN, finSent : BOOLEAN, finAcked : BOOLEAN,
     reset : BOOLEAN, resetSent : BOOLEAN, resetAcked : BOOLEAN, writable : BOOLEAN]
Packets ==
    [stream : Streams, kind : {"stream", "reset"}, low : Nat, high : Nat, fin : BOOLEAN,
     arrived : BOOLEAN, copy : Nat]

(* The offsets below a number for each stream, of all streams.              *)
Below(f) == UNION {{s} \X (0..f[s] - 1) : s \in Streams}
Sents(ds) == [s \in Streams |-> ds[s].sent]
Highs(rs) == [s \in Streams |-> rs[s].highWater]

(* A frame has nothing that was not sent, and an end only where the stream  *)
(* ends.                                                                    *)
FrameOK(ds, f) ==
    /\ f \in Packets /\ f.kind = "stream" /\ f.low <= f.high /\ f.high <= ds[f.stream].sent
    /\ f.fin => ds[f.stream].finQueued /\ f.high = ds[f.stream].written

(* What the sender's own invariant gives.                                   *)
LostOK(d) ==
    d.lost # <<>> => /\ d.lost[1].low \in Nat /\ d.lost[1].high \in Nat
                     /\ d.lost[1].low <= d.lost[1].high /\ d.lost[1].high <= d.sent
SendFacts(L) ==
    /\ send \in [Streams -> Half(L)]
    /\ sentBytes \in Nat /\ sendLimit \in Nat /\ sentBytes <= sendLimit
    /\ \A s \in Streams : send[s].sent <= send[s].written /\ send[s].sent <= send[s].limit /\ LostOK(send[s])
    /\ flight \subseteq Packets
    /\ \A f \in flight : f.kind = "stream" => FrameOK(send, f)

(* What the receiver's own invariant gives.                                 *)
Got(r) ==
    /\ r.received \in Nat /\ r.highWater \in Nat /\ r.limit \in Nat /\ r.received <= r.highWater
    /\ r.finalSize \in Nat \cup {Unknown} /\ r.finished \in BOOLEAN
ReceiveFacts ==
    /\ receive = [s \in Streams |-> receive[s]] /\ \A s \in Streams : Got(receive[s])
    /\ receivedBytes \in Nat /\ receiveLimit \in Nat
    /\ ~closed => receivedBytes = Cardinality(Below(Highs(receive)))
    /\ IsFiniteSet(Below(Highs(receive)))

(* What links the two halves: the receiver has nothing that was not sent,   *)
(* nor another end, and no limit the sender knows, or will hear of, is      *)
(* above the receiver's; what the sender counts is what it has sent.        *)
Pair(d, r) ==
    /\ ~d.reset /\ ~r.reset /\ r.highWater <= d.sent /\ d.limit <= r.limit
    /\ r.finalSize # Unknown => d.finQueued /\ r.finalSize = d.written
Grants == [kind : {"stream", "data"}, stream : Streams \cup {"all"}, limit : Nat, arrived : BOOLEAN]
GrantOK(rs, n, g) ==
    /\ g \in Grants
    /\ \/ g.kind = "stream" /\ g.stream \in Streams /\ g.limit <= rs[g.stream].limit
       \/ g.kind = "data" /\ g.limit <= n
Counts(ds, n) == IsFiniteSet(Below(Sents(ds))) /\ n = Cardinality(Below(Sents(ds)))
Linked ==
    /\ ~closed
    /\ \A s \in Streams : Pair(send[s], receive[s])
    /\ sendLimit <= receiveLimit
    /\ \A f \in flight : f.kind = "stream"
    /\ \A f \in late : FrameOK(send, f)
    /\ \A g \in grants : GrantOK(receive, receiveLimit, g)
    /\ Counts(send, sentBytes)

-----------------------------------------------------------------------------
(* A half in which nothing but what is sent, owed or acknowledged changed.  *)
Kept(d, e) ==
    /\ e.written = d.written /\ e.finQueued = d.finQueued /\ e.limit = d.limit /\ e.reset = d.reset
    /\ d.sent <= e.sent /\ e.sent \in Nat

(* A step of the sender at one stream.                                      *)
Moved(s) ==
    /\ send' = [send EXCEPT ![s] = send'[s]] /\ Kept(send[s], send'[s])
    /\ sentBytes' = sentBytes + (send'[s].sent - send[s].sent) /\ sendLimit' = sendLimit

(* The same, but for the limit and what the application may write.          *)
Onward(d, e) ==
    /\ d.sent <= e.sent /\ e.sent \in Nat /\ e.reset = d.reset
    /\ d.finQueued => e.finQueued /\ e.written = d.written
Stepped(s) ==
    /\ send' = [send EXCEPT ![s] = send'[s]] /\ Onward(send[s], send'[s])
    /\ sentBytes' = sentBytes + (send'[s].sent - send[s].sent)

(* A half is a record of numbers and switches.                              *)
LEMMA HalfType ==
    ASSUME NEW L, NEW d \in Half(L)
    PROVE  /\ d.written \in Nat /\ d.sent \in Nat /\ d.limit \in Nat /\ d.base \in Nat
           /\ d.finQueued \in BOOLEAN /\ d.reset \in BOOLEAN /\ d.sent <= d.sent
           /\ d.lost \in L /\ d.acked \in L
<1>1. /\ d.written \in Nat /\ d.sent \in Nat /\ d.limit \in Nat /\ d.base \in Nat
      /\ d.finQueued \in BOOLEAN /\ d.reset \in BOOLEAN /\ d.lost \in L /\ d.acked \in L
  BY Zenon DEF Half
<1>2. d.sent <= d.sent
  BY <1>1
<1> QED
  BY Zenon, <1>1, <1>2

(* A half that has now sent so much.                                        *)
Grew(d, e, sent) == Kept(d, e) /\ e.sent = sent

(* A half after a frame.                                                    *)
LEMMA HalfSent ==
    ASSUME NEW L, NEW d \in Half(L), NEW lost, NEW sent \in Nat, d.sent <= sent, NEW x, NEW w
    PROVE  Grew(d, [[d EXCEPT !.lost = lost, !.sent = sent, !.finSent = x] EXCEPT !.writable = w], sent)
<1> DEFINE e == [[d EXCEPT !.lost = lost, !.sent = sent, !.finSent = x] EXCEPT !.writable = w]
<1>1. d.sent <= d.sent /\ d.sent \in Nat
  BY Zenon, HalfType
<1>2. /\ e.written = d.written /\ e.finQueued = d.finQueued /\ e.limit = d.limit /\ e.reset = d.reset
      /\ e.sent = sent
  BY Zenon DEF Half
<1> HIDE DEF e
<1>3. Grew(d, e, sent)
  BY Zenon, <1>1, <1>2 DEF Kept, Grew
<1> QED
  BY Zenon, <1>3 DEF e

(* A half after an acknowledgement.                                         *)
LEMMA HalfAcked ==
    ASSUME NEW L, NEW d \in Half(L), NEW acked, NEW lost, NEW base, NEW x
    PROVE  Grew(d, [[d EXCEPT !.acked = acked, !.lost = lost, !.base = base] EXCEPT !.finAcked = x], d.sent)
<1> DEFINE e == [[d EXCEPT !.acked = acked, !.lost = lost, !.base = base] EXCEPT !.finAcked = x]
<1>1. d.sent <= d.sent /\ d.sent \in Nat
  BY Zenon, HalfType
<1>2. /\ e.written = d.written /\ e.finQueued = d.finQueued /\ e.limit = d.limit /\ e.reset = d.reset
      /\ e.sent = d.sent
  BY Zenon DEF Half
<1> HIDE DEF e
<1>3. Grew(d, e, d.sent)
  BY Zenon, <1>1, <1>2 DEF Kept, Grew
<1> QED
  BY Zenon, <1>3 DEF e

(* A half after a loss.                                                     *)
LEMMA HalfLost ==
    ASSUME NEW L, NEW d \in Half(L), NEW lost, NEW x, NEW w
    PROVE  Grew(d, [[d EXCEPT !.lost = lost] EXCEPT !.finSent = x, !.writable = w], d.sent)
<1> DEFINE e == [[d EXCEPT !.lost = lost] EXCEPT !.finSent = x, !.writable = w]
<1>1. d.sent <= d.sent /\ d.sent \in Nat
  BY Zenon, HalfType
<1>2. /\ e.written = d.written /\ e.finQueued = d.finQueued /\ e.limit = d.limit /\ e.reset = d.reset
      /\ e.sent = d.sent
  BY Zenon DEF Half
<1> HIDE DEF e
<1>3. Grew(d, e, d.sent)
  BY Zenon, <1>1, <1>2 DEF Kept, Grew
<1> QED
  BY Zenon, <1>3 DEF e

(* A half after a loss of nothing that is not acknowledged.                 *)
LEMMA HalfKept ==
    ASSUME NEW L, NEW d \in Half(L), NEW x, NEW w
    PROVE  Grew(d, [d EXCEPT !.finSent = x, !.writable = w], d.sent)
<1> DEFINE e == [d EXCEPT !.finSent = x, !.writable = w]
<1>1. d.sent <= d.sent /\ d.sent \in Nat
  BY Zenon, HalfType
<1>2. /\ e.written = d.written /\ e.finQueued = d.finQueued /\ e.limit = d.limit /\ e.reset = d.reset
      /\ e.sent = d.sent
  BY Zenon DEF Half
<1> HIDE DEF e
<1>3. Grew(d, e, d.sent)
  BY Zenon, <1>1, <1>2 DEF Kept, Grew
<1> QED
  BY Zenon, <1>3 DEF e

(* A half put in the list of writable streams, or taken out of it.          *)
LEMMA HalfListed ==
    ASSUME NEW L, NEW d \in Half(L), NEW w
    PROVE  Grew(d, [d EXCEPT !.writable = w], d.sent)
<1> DEFINE e == [d EXCEPT !.writable = w]
<1>1. d.sent <= d.sent /\ d.sent \in Nat
  BY Zenon, HalfType
<1>2. /\ e.written = d.written /\ e.finQueued = d.finQueued /\ e.limit = d.limit /\ e.reset = d.reset
      /\ e.sent = d.sent
  BY Zenon DEF Half
<1> HIDE DEF e
<1>3. Grew(d, e, d.sent)
  BY Zenon, <1>1, <1>2 DEF Kept, Grew
<1> QED
  BY Zenon, <1>3 DEF e

(* How much a half has sent after a frame.                                  *)
Sized(d, length, sent) ==
    /\ sent \in Nat /\ d.sent <= sent /\ length \in Nat
    /\ sent - d.sent = IF Sender!Retransmits(d) THEN 0 ELSE length

(* What writeOneStream takes for a frame: lost bytes, which were sent, or   *)
(* bytes not sent yet, which count.                                         *)
LEMMA FrameSize ==
    ASSUME NEW L, NEW d \in Half(L), LostOK(d), d.sent <= d.written, sendLimit \in Nat, sentBytes \in Nat, NEW n \in Nat
    PROVE  LET length == Sender!Lesser(Sender!Available(d), n)
           IN  Sized(d, length, Sender!Greater(d.sent, Sender!Offset(d) + length))
<1> DEFINE length == Sender!Lesser(Sender!Available(d), n)
           sent == Sender!Greater(d.sent, Sender!Offset(d) + length)
<1>1. d.sent \in Nat /\ d.written \in Nat /\ d.limit \in Nat
  BY Zenon, HalfType
<1>2. CASE Sender!Retransmits(d)
  <2>1. /\ d.lost[1].low \in Nat /\ d.lost[1].high \in Nat
        /\ d.lost[1].low <= d.lost[1].high /\ d.lost[1].high <= d.sent
    BY Zenon, <1>2 DEF LostOK, Sender!Retransmits
  <2>2. Sender!Offset(d) = d.lost[1].low /\ Sender!Available(d) = d.lost[1].high - d.lost[1].low
    BY Zenon, <1>2 DEF Sender!Offset, Sender!Available
  <2>3. length \in Nat /\ length <= d.lost[1].high - d.lost[1].low
    BY <2>1, <2>2 DEF Sender!Lesser
  <2> HIDE DEF length
  <2>4. sent = d.sent /\ d.sent <= d.sent /\ d.sent - d.sent = 0
    BY <1>1, <2>1, <2>2, <2>3 DEF Sender!Greater
  <2>5. Sized(d, length, sent)
    <3> HIDE DEF sent
    <3> QED
      BY Zenon, <1>1, <1>2, <2>3, <2>4 DEF Sized
  <2> QED
    BY Zenon, <2>5 DEF length
<1>3. CASE ~Sender!Retransmits(d)
  <2>1. Sender!Offset(d) = d.sent
    BY Zenon, <1>3 DEF Sender!Offset
  <2>2. Sender!pending(d) \in Nat /\ Sender!window(d) \in Nat
    BY <1>1 DEF Sender!pending, Sender!window
  <2>3. Sender!Available(d) \in Nat
    <3>1. \A a, b \in Nat : Sender!Lesser(a, b) \in Nat
      BY Zenon DEF Sender!Lesser
    <3>2. (IF sendLimit > sentBytes THEN sendLimit - sentBytes ELSE 0) \in Nat
      OBVIOUS
    <3> QED
      BY Zenon, <1>3, <2>2, <3>1, <3>2 DEF Sender!Available
  <2>4. length \in Nat
    BY Zenon, <2>3 DEF Sender!Lesser
  <2> HIDE DEF length
  <2>5. sent = d.sent + length /\ sent \in Nat /\ d.sent <= sent /\ sent - d.sent = length
    BY <1>1, <2>1, <2>4 DEF Sender!Greater
  <2>6. Sized(d, length, sent)
    <3> HIDE DEF sent
    <3> QED
      BY Zenon, <1>3, <2>4, <2>5 DEF Sized
  <2> QED
    BY Zenon, <2>6 DEF length
<1> QED
  BY Zenon, <1>2, <1>3

(* The sender's turn at a stream.                                           *)
LEMMA SendMoves ==
    ASSUME TransferConstants, NEW L, SendFacts(L), NEW s \in Streams, Sender!writeStream(s)
    PROVE  Moved(s) /\ \A f \in flight' : f \in flight \/ f.kind = "stream"
<1> DEFINE d == send[s]
<1>1. /\ send \in [Streams -> Half(L)] /\ d \in Half(L) /\ LostOK(d) /\ d.sent <= d.written /\ sendLimit \in Nat
      /\ sentBytes \in Nat
  BY Zenon DEF SendFacts
<1>2. sendLimit' = sendLimit /\ d.sent \in Nat
  BY Zenon, <1>1, HalfType DEF Sender!writeStream
<1>3. ASSUME NEW n \in 1..MaxFrame,
             LET length == Sender!Lesser(Sender!Available(d), n)
                 after == Sender!Wrote(d, length)
             IN  /\ Sender!Launch(Sender!Frame(s, "stream", Sender!Offset(d), Sender!Offset(d) + length,
                                               Sender!FinOn(d, length)))
                 /\ send' = [send EXCEPT ![s] = [after EXCEPT !.writable = Sender!owes(after)]]
                 /\ sentBytes' = IF Sender!Retransmits(d) \/ FALSE THEN sentBytes ELSE sentBytes + length
      PROVE  Moved(s) /\ \A f \in flight' : f \in flight \/ f.kind = "stream"
  <2> DEFINE length == Sender!Lesser(Sender!Available(d), n)
             after == Sender!Wrote(d, length)
             sent == Sender!Greater(d.sent, Sender!Offset(d) + length)
             lost == IF Sender!Retransmits(d) THEN Sender!subtract(d.lost, Sender!Offset(d), Sender!Offset(d) + length) ELSE d.lost
             e == [after EXCEPT !.writable = Sender!owes(after)]
             p == Sender!Frame(s, "stream", Sender!Offset(d), Sender!Offset(d) + length, Sender!FinOn(d, length))
  <2>1. n \in Nat
    BY DEF TransferConstants
  <2>2. /\ sent \in Nat /\ d.sent <= sent /\ length \in Nat
        /\ sent - d.sent = IF Sender!Retransmits(d) THEN 0 ELSE length
    BY Zenon, <1>1, <2>1, FrameSize DEF Sized
  <2>3. after = [d EXCEPT !.lost = lost, !.sent = sent, !.finSent = d.finSent \/ Sender!FinOn(d, length)]
    BY Zenon DEF Sender!Wrote
  <2>4. Sender!Launch(p) /\ send' = [send EXCEPT ![s] = e]
    BY Zenon, <1>3
  <2>5. sentBytes' = IF Sender!Retransmits(d) THEN sentBytes ELSE sentBytes + length
    BY Zenon, <1>3
  <2> HIDE DEF length, sent, lost, p, after
  <2>6. Kept(d, e) /\ e.sent = sent
    <3> DEFINE w == Sender!owes(after)
               x == d.finSent \/ Sender!FinOn(d, length)
    <3>1. e = [[d EXCEPT !.lost = lost, !.sent = sent, !.finSent = x] EXCEPT !.writable = w]
      BY Zenon, <2>3
    <3> HIDE DEF w, x
    <3> QED
      <4>1. sent \in Nat /\ d.sent <= sent /\ d \in Half(L)
        BY Zenon, <1>1, <2>2
      <4> HIDE DEF d
      <4>2. Grew(d, [[d EXCEPT !.lost = lost, !.sent = sent, !.finSent = x] EXCEPT !.writable = w], sent)
        BY Zenon, <4>1, HalfSent
      <4>3. Grew(d, e, sent)
        BY Zenon, <3>1, <4>2
      <4> HIDE DEF e
      <4> QED
        BY Zenon, <4>3 DEF Grew
  <2>7. send'[s] = e /\ send' = [send EXCEPT ![s] = send'[s]]
    BY Zenon, <1>1, <2>4
  <2>8. sentBytes' = sentBytes + (sent - d.sent)
    BY <1>1, <2>2, <2>5
  <2>9. Moved(s)
    <3> HIDE DEF e
    <3> QED
      BY Zenon, <1>2, <2>6, <2>7, <2>8 DEF Moved
  <2>10. ASSUME NEW f \in flight' PROVE f \in flight \/ f.kind = "stream"
    <3>1. PICK m : flight' = flight \cup {[p EXCEPT !.copy = m]}
      BY Zenon, <2>4 DEF Sender!Launch
    <3>2. [p EXCEPT !.copy = m].kind = "stream"
      BY Zenon DEF p, Sender!Frame
    <3> QED
      BY Zenon, <3>1, <3>2
  <2> QED
    BY Zenon, <2>9, <2>10
<1>4. ASSUME send' = [send EXCEPT ![s].writable = Sender!owes(d)], sentBytes' = sentBytes, flight' = flight
      PROVE  Moved(s) /\ \A f \in flight' : f \in flight \/ f.kind = "stream"
  <2> DEFINE w == Sender!owes(d)
             e == [d EXCEPT !.writable = w]
  <2>1. send' = [send EXCEPT ![s] = e]
    BY Zenon, <1>4
  <2> HIDE DEF w
  <2>2. Kept(d, e) /\ e.sent = d.sent
    BY Zenon, <1>1, HalfListed DEF Grew
  <2> HIDE DEF e
  <2>3. send'[s] = e /\ send' = [send EXCEPT ![s] = send'[s]]
    BY Zenon, <1>1, <2>1
  <2>4. sentBytes + (d.sent - d.sent) = sentBytes
    BY <1>1, <1>2
  <2>5. Moved(s)
    BY Zenon, <1>2, <1>4, <2>2, <2>3, <2>4 DEF Moved
  <2> QED
    BY Zenon, <1>4, <2>5
<1> QED
  BY Zenon, <1>3, <1>4 DEF Sender!writeStream

(* The sender hears that a packet arrived.                                  *)
LEMMA AckedMoves ==
    ASSUME NEW L, SendFacts(L), NEW f \in flight, f.kind = "stream", Sender!onPacketAcked(f)
    PROVE  f.stream \in Streams /\ Moved(f.stream) /\ flight' \subseteq flight
<1> DEFINE s == f.stream
           d == send[s]
           acked == Sender!add(d.acked, f.low, f.high)
           lost == Sender!subtract(d.lost, f.low, f.high)
           base == Sender!Greater(d.base, Sender!contiguousEnd(acked, d.base))
           x == Sender!acknowledge(d, f.low, f.high).finAcked \/ f.fin
           e == [[d EXCEPT !.acked = acked, !.lost = lost, !.base = base] EXCEPT !.finAcked = x]
<1>1. s \in Streams /\ send \in [Streams -> Half(L)] /\ sentBytes \in Nat
  BY Zenon DEF SendFacts, Packets
<1>2. d \in Half(L) /\ d.sent \in Nat
  BY Zenon, <1>1, HalfType
<1>3. /\ flight' = flight \ {f} /\ sentBytes' = sentBytes /\ sendLimit' = sendLimit
      /\ send' = [send EXCEPT ![s] = [Sender!acknowledge(d, f.low, f.high) EXCEPT !.finAcked = @ \/ f.fin]]
  <2>1. f.kind # "reset"
    BY Zenon
  <2> QED
    BY Zenon, <2>1 DEF Sender!onPacketAcked, Sender!Settle
<1>4. send' = [send EXCEPT ![s] = e]
  <2>1. Sender!acknowledge(d, f.low, f.high) = [d EXCEPT !.acked = acked, !.lost = lost, !.base = base]
    BY Zenon DEF Sender!acknowledge
  <2>2. [Sender!acknowledge(d, f.low, f.high) EXCEPT !.finAcked = @ \/ f.fin] = e
    <3> HIDE DEF acked, lost, base
    <3> QED
      BY Zenon, <2>1
  <2> HIDE DEF e
  <2> QED
    BY Zenon, <1>3, <2>2
<1> HIDE DEF acked, lost, base, x
<1>5. Grew(d, e, d.sent)
  BY Zenon, <1>2, HalfAcked
<1> HIDE DEF e
<1>6. send'[s] = e /\ send' = [send EXCEPT ![s] = send'[s]]
  BY Zenon, <1>1, <1>4
<1>7. sentBytes + (d.sent - d.sent) = sentBytes
  BY <1>1, <1>2
<1>8. Moved(s)
  BY Zenon, <1>3, <1>5, <1>6, <1>7 DEF Moved, Grew
<1> QED
  BY Zenon, <1>1, <1>3, <1>8

(* The sender takes a packet for lost.                                      *)
LEMMA LostMoves ==
    ASSUME NEW L, SendFacts(L), NEW f \in flight, f.kind = "stream", Sender!onPacketLost(f)
    PROVE  f.stream \in Streams /\ Moved(f.stream) /\ flight' \subseteq flight
<1> DEFINE s == f.stream
           d == send[s]
           from == Sender!Greater(f.low, d.base)
           lost == Sender!LessAcked(Sender!add(d.lost, from, f.high), d.acked, from, f.high)
           c == Sender!declareLost(d, f.low, f.high)
           x == c.finSent /\ ~f.fin
           e == [c EXCEPT !.finSent = x, !.writable = TRUE]
<1>1. s \in Streams /\ send \in [Streams -> Half(L)] /\ sentBytes \in Nat
  BY Zenon DEF SendFacts, Packets
<1>2. d \in Half(L) /\ d.sent \in Nat
  BY Zenon, <1>1, HalfType
<1>3. /\ flight' = flight \ {f} /\ sentBytes' = sentBytes /\ sendLimit' = sendLimit
      /\ send' = [send EXCEPT ![s] = e]
  <2>1. f.kind # "reset"
    BY Zenon
  <2> QED
    BY Zenon, <2>1 DEF Sender!onPacketLost, Sender!Settle
<1>4. c = d \/ c = [d EXCEPT !.lost = lost]
  BY Zenon DEF Sender!declareLost
<1> HIDE DEF lost, x, c
<1>5. Grew(d, e, d.sent)
  <2>1. CASE c = d
    <3>1. e = [d EXCEPT !.finSent = x, !.writable = TRUE]
      BY Zenon, <2>1
    <3> HIDE DEF d, e
    <3> QED
      BY Zenon, <1>2, <3>1, HalfKept
  <2>2. CASE c = [d EXCEPT !.lost = lost]
    <3>1. e = [[d EXCEPT !.lost = lost] EXCEPT !.finSent = x, !.writable = TRUE]
      BY Zenon, <2>2
    <3> HIDE DEF d, e
    <3> QED
      BY Zenon, <1>2, <3>1, HalfLost
  <2> QED
    BY Zenon, <1>4, <2>1, <2>2
<1> HIDE DEF e
<1>6. send'[s] = e /\ send' = [send EXCEPT ![s] = send'[s]]
  BY Zenon, <1>1, <1>3
<1>7. sentBytes + (d.sent - d.sent) = sentBytes
  BY <1>1, <1>2
<1>8. Moved(s)
  BY Zenon, <1>3, <1>5, <1>6, <1>7 DEF Moved, Grew
<1> QED
  BY Zenon, <1>1, <1>3, <1>8

-----------------------------------------------------------------------------
(* How many offsets there are below the numbers of the streams: one stream  *)
(* grows, all are less, or all are 0.  The receiver's proofs have these.    *)
Laws ==
    /\ \A f \in [Streams -> Nat], s \in Streams, w \in Nat : f[s] <= w /\ IsFiniteSet(Below(f)) =>
            /\ IsFiniteSet(Below([f EXCEPT ![s] = w]))
            /\ Cardinality(Below([f EXCEPT ![s] = w])) = Cardinality(Below(f)) + (w - f[s])
    /\ \A f, g \in [Streams -> Nat] : (\A s \in Streams : f[s] <= g[s]) /\ IsFiniteSet(Below(g)) =>
            Cardinality(Below(f)) <= Cardinality(Below(g))
    /\ \A f : (\A s \in Streams : f[s] = 0) => IsFiniteSet(Below(f)) /\ Cardinality(Below(f)) = 0

(* What has been sent.                                                      *)
LEMMA SentsType ==
    ASSUME NEW L, NEW ds \in [Streams -> Half(L)]
    PROVE  Sents(ds) \in [Streams -> Nat]
<1>1. \A t \in Streams : ds[t].sent \in Nat
  BY Zenon, HalfType
<1> QED
  BY Zenon, <1>1 DEF Sents

(* The sender's count after a step at a stream.                             *)
LEMMA StepCounts ==
    ASSUME Laws, NEW L, SendFacts(L), Counts(send, sentBytes), NEW s \in Streams, Stepped(s)
    PROVE  Counts(send', sentBytes')
<1> DEFINE f == Sents(send)
<1> DEFINE w == send'[s].sent
<1>1. /\ send \in [Streams -> Half(L)] /\ send' = [send EXCEPT ![s] = send'[s]] /\ w \in Nat /\ send[s].sent <= w
      /\ sentBytes' = sentBytes + (w - send[s].sent)
  BY Zenon DEF SendFacts, Stepped, Onward
<1>2. f \in [Streams -> Nat] /\ f[s] = send[s].sent /\ Sents(send') = [f EXCEPT ![s] = w]
  <2>1. \A t \in Streams : t # s => send'[t] = send[t]
    BY Zenon, <1>1
  <2>2. f \in [Streams -> Nat] /\ f[s] = send[s].sent
    <3>1. f \in [Streams -> Nat]
      BY Zenon, <1>1, SentsType
    <3>2. f[s] = send[s].sent
      BY Zenon DEF Sents
    <3> QED
      BY Zenon, <3>1, <3>2
  <2> DEFINE a == Sents(send')
             b == [f EXCEPT ![s] = w]
  <2>3. \A t \in Streams : a[t] = send'[t].sent /\ f[t] = send[t].sent
    BY Zenon DEF Sents
  <2>4. a = [t \in Streams |-> a[t]]
    BY Zenon DEF Sents
  <2> HIDE DEF a, f, w
  <2>5. \A t \in Streams : b[t] = IF t = s THEN w ELSE f[t]
    BY Zenon, <2>2
  <2>6. b = [t \in Streams |-> b[t]]
    BY Zenon, <2>2
  <2> HIDE DEF b
  <2>7. \A t \in Streams : a[t] = b[t]
    BY Zenon, <2>1, <2>3, <2>5 DEF w
  <2>8. a = b
    BY Zenon, <2>4, <2>6, <2>7
  <2> QED
    BY Zenon, <2>2, <2>8 DEF a, b
<1>3. IsFiniteSet(Below(f)) /\ sentBytes = Cardinality(Below(f))
  BY Zenon DEF Counts
<1> HIDE DEF f, w
<1>4. IsFiniteSet(Below([f EXCEPT ![s] = w])) /\ Cardinality(Below([f EXCEPT ![s] = w])) = sentBytes'
  <2>1. f \in [Streams -> Nat] /\ w \in Nat /\ f[s] <= w /\ IsFiniteSet(Below(f))
    BY Zenon, <1>1, <1>2, <1>3
  <2>2. /\ IsFiniteSet(Below([f EXCEPT ![s] = w]))
        /\ Cardinality(Below([f EXCEPT ![s] = w])) = Cardinality(Below(f)) + (w - f[s])
    BY Zenon, <2>1 DEF Laws
  <2>3. sentBytes' = Cardinality(Below(f)) + (w - f[s])
    BY Zenon, <1>1, <1>2, <1>3
  <2> QED
    BY Zenon, <2>2, <2>3
<1> QED
  BY Zenon, <1>2, <1>4 DEF Counts

(* A frame stays one of what was sent.                                      *)
LEMMA FrameStays ==
    ASSUME NEW L, send \in [Streams -> Half(L)], NEW s \in Streams, Stepped(s), NEW f, FrameOK(send, f)
    PROVE  FrameOK(send', f)
<1>1. /\ f \in Packets /\ f.stream \in Streams /\ f.high \in Nat /\ f.high <= send[f.stream].sent
      /\ f.fin => send[f.stream].finQueued /\ f.high = send[f.stream].written
  BY Zenon DEF FrameOK, Packets
<1>2. CASE f.stream # s
  <2>1. send'[f.stream] = send[f.stream]
    BY Zenon, <1>1, <1>2 DEF Stepped
  <2> QED
    BY Zenon, <2>1 DEF FrameOK
<1>3. CASE f.stream = s
  <2>1. send[s].sent \in Nat /\ send'[s].sent \in Nat /\ send[s].sent <= send'[s].sent
    BY Zenon, HalfType DEF Stepped, Onward
  <2>2. f.high <= send'[s].sent
    BY <1>1, <1>3, <2>1
  <2>3. f.fin => send'[s].finQueued /\ f.high = send'[s].written
    BY Zenon, <1>1, <1>3 DEF Stepped, Onward
  <2> QED
    BY Zenon, <1>3, <2>2, <2>3 DEF FrameOK
<1> QED
  BY Zenon, <1>2, <1>3

(* The pair of halves after a step of the sender.                           *)
LEMMA PairStays ==
    ASSUME NEW d, NEW e, NEW r, Pair(d, r), Onward(d, e), e.limit <= r.limit, d.sent \in Nat, Got(r)
    PROVE  Pair(e, r)
<1>1. r.highWater <= e.sent
  <2>1. r.highWater \in Nat /\ e.sent \in Nat /\ d.sent <= e.sent /\ r.highWater <= d.sent
    BY Zenon DEF Got, Onward, Pair
  <2> QED
    BY <2>1
<1> QED
  BY Zenon, <1>1 DEF Pair, Onward

(* A step of the sender keeps the link.                                     *)
LEMMA SenderLinks ==
    ASSUME Laws, NEW L, SendFacts(L), ReceiveFacts, Linked, NEW s \in Streams, Stepped(s),
           send'[s].limit <= receive[s].limit, sendLimit' <= receiveLimit,
           UNCHANGED <<receive, receiveLimit, closed>>,
           \A f \in flight' : f \in flight \/ f.kind = "stream", \A f \in late' : f \in late \/ f \in flight,
           \A g \in grants' : GrantOK(receive, receiveLimit, g)
    PROVE  Linked'
<1>1. send \in [Streams -> Half(L)] /\ receive' = receive /\ receiveLimit' = receiveLimit /\ closed' = closed
  BY Zenon DEF SendFacts
<1>2. Counts(send', sentBytes')
  BY Zenon, StepCounts DEF Linked
<1>3. ASSUME NEW t \in Streams PROVE Pair(send'[t], receive'[t])
  <2>1. Pair(send[t], receive[t]) /\ Got(receive[t]) /\ send[t].sent \in Nat
    BY Zenon, <1>1, HalfType DEF Linked, ReceiveFacts
  <2>2. CASE t = s
    <3>1. Onward(send[t], send'[t]) /\ send'[t].limit <= receive[t].limit
      BY Zenon, <2>2 DEF Stepped
    <3> QED
      BY Zenon, <1>1, <2>1, <3>1, PairStays
  <2>3. CASE t # s
    <3>1. send'[t] = send[t]
      BY Zenon, <1>1, <2>3 DEF Stepped
    <3> QED
      BY Zenon, <1>1, <2>1, <3>1
  <2> QED
    BY Zenon, <2>2, <2>3
<1>4. ASSUME NEW f \in late' PROVE FrameOK(send', f)
  <2>1. FrameOK(send, f)
    BY Zenon, <1>4 DEF Linked, SendFacts
  <2> QED
    BY Zenon, <1>1, <2>1, FrameStays
<1>5. \A f \in flight' : f.kind = "stream"
  BY Zenon DEF Linked
<1>6. ~closed' /\ sendLimit' <= receiveLimit' /\ \A g \in grants' : GrantOK(receive', receiveLimit', g)
  <2>0. ~closed'
    <3>1. ~closed
      BY Zenon DEF Linked
    <3> QED
      BY <1>1, <3>1
  <2>1. sendLimit' <= receiveLimit'
    BY Zenon, <1>1
  <2>2. \A g \in grants' : GrantOK(receive', receiveLimit', g)
    BY Zenon, <1>1 DEF GrantOK
  <2> QED
    BY Zenon, <2>0, <2>1, <2>2
<1> QED
  BY Zenon, <1>2, <1>3, <1>4, <1>5, <1>6 DEF Linked

(* The sender's turns and the settling of packets are such steps.           *)
LEMMA MovedLinks ==
    ASSUME Laws, NEW L, SendFacts(L), ReceiveFacts, Linked, NEW s \in Streams, Moved(s),
           UNCHANGED <<receive, receiveLimit, closed, grants>>,
           \A f \in flight' : f \in flight \/ f.kind = "stream", \A f \in late' : f \in late \/ f \in flight
    PROVE  Linked'
<1>1. Stepped(s)
  BY Zenon DEF Moved, Kept, Stepped, Onward
<1>2. send'[s].limit <= receive[s].limit
  BY Zenon DEF Moved, Kept, Linked, Pair
<1>3. sendLimit' <= receiveLimit
  BY Zenon DEF Moved, Linked
<1>4. \A g \in grants' : GrantOK(receive, receiveLimit, g)
  BY Zenon DEF Linked
<1> QED
  BY Zenon, <1>1, <1>2, <1>3, <1>4, SenderLinks

(* The application writes: only what it wrote, and the end, change.         *)
LEMMA WriteSteps ==
    ASSUME TransferConstants, NEW L, SendFacts(L), NEW s \in Streams, Sender!write(s)
    PROVE  /\ Stepped(s) /\ ~send[s].finQueued /\ send'[s].limit = send[s].limit
           /\ send'[s].written \in Nat /\ send[s].written <= send'[s].written /\ send'[s].finQueued \in BOOLEAN
           /\ UNCHANGED <<sentBytes, sendLimit, flight, peer, ends>>
<1> DEFINE d == send[s]
<1>1. /\ send \in [Streams -> Half(L)] /\ d \in Half(L) /\ sentBytes \in Nat
  BY Zenon DEF SendFacts
<1>2. d.sent \in Nat /\ d.written \in Nat /\ d.sent <= d.sent
  BY Zenon, <1>1, HalfType
<1>3. PICK n \in 0..MaxWritten - d.written, fin \in BOOLEAN :
          send' = [send EXCEPT ![s] = [d EXCEPT !.written = @ + n, !.finQueued = fin, !.writable = TRUE]]
  BY Zenon DEF Sender!write
<1>4. ~d.finQueued /\ UNCHANGED <<sentBytes, sendLimit, flight, peer, ends>>
  BY Zenon DEF Sender!write
<1>5. n \in Nat
  BY <1>2 DEF TransferConstants
<1>6. d.written + n \in Nat /\ d.written <= d.written + n /\ sentBytes + (d.sent - d.sent) = sentBytes
  BY <1>1, <1>2, <1>5
<1> DEFINE m == d.written + n
           e == [d EXCEPT !.written = m, !.finQueued = fin, !.writable = TRUE]
<1>7. send' = [send EXCEPT ![s] = e]
  BY Zenon, <1>3
<1> HIDE DEF m
<1>8. e.written = m /\ e.finQueued = fin /\ e.sent = d.sent /\ e.limit = d.limit /\ e.reset = d.reset
  BY Zenon, <1>1 DEF Half
<1> HIDE DEF e
<1>9. send'[s] = e /\ send' = [send EXCEPT ![s] = send'[s]]
  BY Zenon, <1>1, <1>7
<1>10. Stepped(s)
  BY Zenon, <1>2, <1>4, <1>6, <1>8, <1>9 DEF Stepped, Onward
<1> QED
  BY Zenon, <1>4, <1>6, <1>8, <1>9, <1>10 DEF m

(* The sender hears of a stream's limit.                                    *)
LEMMA LimitSteps ==
    ASSUME NEW L, SendFacts(L), NEW s \in Streams, NEW l \in Nat, Sender!maxStreamData(s, l)
    PROVE  /\ Stepped(s) /\ send'[s].limit = l
           /\ send'[s].written = send[s].written /\ send'[s].finQueued = send[s].finQueued
           /\ UNCHANGED <<sentBytes, sendLimit, flight, peer, ends>>
<1> DEFINE d == send[s]
           e == [d EXCEPT !.limit = l, !.writable = TRUE]
<1>1. /\ send \in [Streams -> Half(L)] /\ d \in Half(L) /\ sentBytes \in Nat
  BY Zenon DEF SendFacts
<1>2. d.sent \in Nat /\ d.sent <= d.sent
  BY Zenon, <1>1, HalfType
<1>3. send' = [send EXCEPT ![s] = e] /\ UNCHANGED <<sentBytes, sendLimit, flight, peer, ends>>
  <2>1. send' = [send EXCEPT ![s].limit = l, ![s].writable = TRUE]
    BY Zenon DEF Sender!maxStreamData
  <2>2. send' = [send EXCEPT ![s] = e]
    BY Zenon, <1>1, <2>1
  <2> QED
    BY Zenon, <2>2 DEF Sender!maxStreamData
<1>4. sentBytes + (d.sent - d.sent) = sentBytes
  BY <1>1, <1>2
<1>5. e.written = d.written /\ e.finQueued = d.finQueued /\ e.sent = d.sent /\ e.limit = l /\ e.reset = d.reset
  BY Zenon, <1>1 DEF Half
<1> HIDE DEF e
<1>6. send'[s] = e /\ send' = [send EXCEPT ![s] = send'[s]]
  BY Zenon, <1>1, <1>3
<1>7. Stepped(s)
  BY Zenon, <1>2, <1>3, <1>4, <1>5, <1>6 DEF Stepped, Onward
<1> QED
  BY Zenon, <1>3, <1>5, <1>6, <1>7

(* A step of the network, or of the receiver's announcements.               *)
LEMMA IdleLinks ==
    ASSUME Linked, UNCHANGED <<send, sentBytes, receive, receiveLimit, closed>>, sendLimit' <= receiveLimit,
           \A f \in flight' : f.kind = "stream", \A f \in late' : f \in late,
           \A g \in grants' : GrantOK(receive, receiveLimit, g)
    PROVE  Linked'
<1>1. send' = send /\ sentBytes' = sentBytes /\ receive' = receive /\ receiveLimit' = receiveLimit /\ closed' = closed
  BY Zenon
<1>2. ~closed'
  <2>1. ~closed
    BY Zenon DEF Linked
  <2> QED
    BY <1>1, <2>1
<1>3. \A s \in Streams : Pair(send'[s], receive'[s])
  BY Zenon, <1>1 DEF Linked
<1>4. sendLimit' <= receiveLimit'
  BY Zenon, <1>1
<1>5. \A f \in late' : FrameOK(send', f)
  BY Zenon, <1>1 DEF Linked, FrameOK
<1>6. \A g \in grants' : GrantOK(receive', receiveLimit', g)
  BY Zenon, <1>1 DEF GrantOK
<1>7. Counts(send', sentBytes')
  <2>1. Counts(send, sentBytes)
    BY Zenon DEF Linked
  <2> QED
    BY Zenon, <1>1, <2>1 DEF Counts, Sents
<1> QED
  BY Zenon, <1>2, <1>3, <1>4, <1>5, <1>6, <1>7 DEF Linked

(* A step of the receiver at one stream.                                    *)
LEMMA ReceiverLinks ==
    ASSUME ReceiveFacts, Linked, sendLimit \in Nat, NEW s \in Streams, receive' = [receive EXCEPT ![s] = receive'[s]],
           Pair(send[s], receive'[s]), receive[s].limit <= receive'[s].limit, receive'[s].limit \in Nat,
           receiveLimit <= receiveLimit', receiveLimit' \in Nat, closed' = closed,
           UNCHANGED <<send, sentBytes, sendLimit, grants>>,
           \A f \in flight' : f.kind = "stream", \A f \in late' : f \in late
    PROVE  Linked'
<1>1. send' = send /\ sentBytes' = sentBytes /\ sendLimit' = sendLimit /\ grants' = grants /\ closed' = closed
  BY Zenon
<1>2. ~closed'
  <2>1. ~closed
    BY Zenon DEF Linked
  <2> QED
    BY <1>1, <2>1
<1>3. \A t \in Streams : t # s => receive'[t] = receive[t]
  BY Zenon DEF ReceiveFacts
<1>4. \A t \in Streams : Pair(send'[t], receive'[t])
  BY Zenon, <1>1, <1>3 DEF Linked
<1>5. sendLimit' <= receiveLimit'
  <2>1. sendLimit <= receiveLimit /\ receiveLimit \in Nat
    BY Zenon DEF Linked, ReceiveFacts
  <2> QED
    BY <1>1, <2>1
<1>6. \A f \in late' : FrameOK(send', f)
  BY Zenon, <1>1 DEF Linked, FrameOK
<1>7. ASSUME NEW g \in grants' PROVE GrantOK(receive', receiveLimit', g)
  <2>1. GrantOK(receive, receiveLimit, g)
    BY Zenon, <1>1, <1>7 DEF Linked
  <2>2. g \in Grants /\ g.limit \in Nat /\ receiveLimit \in Nat /\ receive[s].limit \in Nat
    BY Zenon, <2>1 DEF GrantOK, Grants, ReceiveFacts, Got
  <2>3. CASE g.kind = "stream" /\ g.stream \in Streams /\ g.limit <= receive[g.stream].limit
    <3>1. CASE g.stream = s
      <4>1. g.limit <= receive'[s].limit
        BY <2>2, <2>3, <3>1
      <4> QED
        BY Zenon, <2>2, <2>3, <3>1, <4>1 DEF GrantOK
    <3>2. CASE g.stream # s
      BY Zenon, <1>3, <2>2, <2>3, <3>2 DEF GrantOK
    <3> QED
      BY Zenon, <3>1, <3>2
  <2>4. CASE g.kind = "data" /\ g.limit <= receiveLimit
    <3>1. g.limit <= receiveLimit'
      BY <2>2, <2>4
    <3> QED
      BY Zenon, <2>2, <2>4, <3>1 DEF GrantOK
  <2> QED
    BY Zenon, <2>1, <2>3, <2>4 DEF GrantOK
<1>8. Counts(send', sentBytes')
  <2>1. Counts(send, sentBytes)
    BY Zenon DEF Linked
  <2> QED
    BY Zenon, <1>1, <2>1 DEF Counts, Sents
<1> QED
  BY Zenon, <1>2, <1>4, <1>5, <1>6, <1>7, <1>8 DEF Linked

-----------------------------------------------------------------------------
(* What a frame that is not refused makes of the receiving half.            *)
Took(s, high, fin) ==
    LET r == receive[s]  q == receive'[s] IN
    /\ receive' = [receive EXCEPT ![s] = q]
    /\ q.highWater = Receiver!Higher(r.highWater, high) /\ q.limit = r.limit /\ q.reset = r.reset
    /\ q.finalSize = IF fin /\ r.finalSize = Unknown THEN high ELSE r.finalSize
    /\ r.received <= q.received /\ q.received <= q.highWater /\ q.received \in Nat
    /\ q.finished = (r.finished \/ (q.finalSize # Unknown /\ q.received >= q.finalSize))
    /\ UNCHANGED <<receiveLimit, closed, consumed>>

(* The connection counts no more offsets than the sender has sent.          *)
LEMMA FrameCounts ==
    ASSUME Laws, NEW L, SendFacts(L), ReceiveFacts, Linked, NEW f, FrameOK(send, f)
    PROVE  ~(receivedBytes + Receiver!Growth(f.stream, f.high) > receiveLimit)
<1> DEFINE s == f.stream
           w == receive[s].highWater
           h == Highs(receive)
           m == IF f.high > w THEN f.high ELSE w
           g == [h EXCEPT ![s] = m]
           k == Sents(send)
<1>1. /\ s \in Streams /\ f.high \in Nat /\ f.high <= send[s].sent /\ send \in [Streams -> Half(L)]
      /\ Got(receive[s]) /\ w <= send[s].sent /\ ~closed
  BY Zenon DEF FrameOK, Packets, SendFacts, ReceiveFacts, Linked, Pair
<1>2. w \in Nat /\ send[s].sent \in Nat
  BY Zenon, <1>1, HalfType DEF Got
<1>3. h \in [Streams -> Nat] /\ h[s] = w /\ \A t \in Streams : h[t] = receive[t].highWater
  <2>1. \A t \in Streams : receive[t].highWater \in Nat
    BY Zenon DEF ReceiveFacts, Got
  <2> QED
    BY Zenon, <1>1, <2>1 DEF Highs
<1>4. IsFiniteSet(Below(h)) /\ receivedBytes = Cardinality(Below(h)) /\ receivedBytes \in Nat /\ receiveLimit \in Nat
  BY Zenon, <1>1 DEF ReceiveFacts
<1> HIDE DEF s, w, h
<1>5. m \in Nat /\ w <= m /\ m <= send[s].sent /\ m - w = IF f.high > w THEN f.high - w ELSE 0
  BY <1>1, <1>2
<1> HIDE DEF m
<1>6. Receiver!Growth(s, f.high) = m - w
  BY Zenon, <1>5 DEF Receiver!Growth, w
<1>7. Cardinality(Below(g)) = receivedBytes + (m - w)
  <2>1. Cardinality(Below(g)) = Cardinality(Below(h)) + (m - h[s])
    BY Zenon, <1>1, <1>3, <1>4, <1>5 DEF Laws
  <2> QED
    BY Zenon, <1>3, <1>4, <2>1
<1>8. k \in [Streams -> Nat] /\ \A t \in Streams : k[t] = send[t].sent
  <2>1. k \in [Streams -> Nat]
    BY Zenon, <1>1, SentsType
  <2> QED
    BY Zenon, <2>1 DEF Sents
<1>9. IsFiniteSet(Below(k)) /\ sentBytes = Cardinality(Below(k))
  BY Zenon DEF Linked, Counts
<1> HIDE DEF k
<1>10. g \in [Streams -> Nat] /\ \A t \in Streams : g[t] = IF t = s THEN m ELSE h[t]
  BY Zenon, <1>3, <1>5
<1> HIDE DEF g
<1>11. \A t \in Streams : g[t] <= k[t]
  <2>1. \A t \in Streams : h[t] <= k[t]
    BY Zenon, <1>3, <1>8 DEF Linked, Pair
  <2> QED
    BY Zenon, <1>1, <1>5, <1>8, <1>10, <2>1
<1>12. Cardinality(Below(g)) <= sentBytes
  BY Zenon, <1>8, <1>9, <1>10, <1>11 DEF Laws
<1>13. sentBytes \in Nat /\ sendLimit \in Nat /\ sentBytes <= sendLimit /\ sendLimit <= receiveLimit
  BY Zenon DEF SendFacts, Linked
<1>14. ~(receivedBytes + (m - w) > receiveLimit)
  BY <1>2, <1>4, <1>5, <1>7, <1>12, <1>13
<1>15. ~(receivedBytes + Receiver!Growth(s, f.high) > receiveLimit)
  BY Zenon, <1>6, <1>14
<1> QED
  BY Zenon, <1>15 DEF s

(* No frame that was sent is refused.                                       *)
LEMMA FrameFits ==
    ASSUME TransferConstants, NEW L, SendFacts(L), ReceiveFacts, Linked, NEW f, FrameOK(send, f)
    PROVE  ~Receiver!Refused(receive[f.stream], f.low, f.high, f.fin)
<1> DEFINE s == f.stream
           d == send[s]
           r == receive[s]
<1>1. /\ s \in Streams /\ f.high \in Nat /\ f.high <= d.sent /\ d \in Half(L)
      /\ (f.fin => d.finQueued /\ f.high = d.written)
      /\ Got(r) /\ Pair(d, r) /\ d.sent <= d.written /\ d.sent <= d.limit
  BY Zenon DEF FrameOK, Packets, SendFacts, ReceiveFacts, Linked
<1>2. /\ d.sent \in Nat /\ d.written \in Nat /\ d.limit \in Nat /\ r.highWater \in Nat /\ r.limit \in Nat
      /\ r.highWater <= d.sent /\ d.limit <= r.limit
      /\ (r.finalSize # Unknown => r.finalSize = d.written)
  BY Zenon, <1>1, HalfType DEF Got, Pair
<1> HIDE DEF s, d, r
<1>3. ~(f.high > r.limit) /\ ~(f.high > d.written) /\ (f.fin => ~(f.high < r.highWater))
  BY <1>1, <1>2
<1>4. ~Receiver!Refused(r, f.low, f.high, f.fin)
  BY Zenon, <1>1, <1>2, <1>3 DEF Receiver!Refused
<1> QED
  BY Zenon, <1>4 DEF r, s

(* The pair of halves after such a frame, and what it gives the reader.     *)
LEMMA TookPair ==
    ASSUME TransferConstants, NEW L, SendFacts(L), ReceiveFacts, Linked, NEW f, FrameOK(send, f),
           Took(f.stream, f.high, f.fin)
    PROVE  LET d == send[f.stream]  q == receive'[f.stream] IN
           /\ Pair(d, q) /\ q.received <= d.written
           /\ (q.finalSize # Unknown /\ q.received >= q.finalSize) => d.finQueued /\ q.received = d.written
<1> DEFINE s == f.stream
           d == send[s]
           r == receive[s]
           q == receive'[s]
<1>1. /\ s \in Streams /\ f.high \in Nat /\ f.high <= d.sent /\ d \in Half(L)
      /\ (f.fin => d.finQueued /\ f.high = d.written)
      /\ Got(r) /\ Pair(d, r) /\ d.sent <= d.written
  BY Zenon DEF FrameOK, Packets, SendFacts, ReceiveFacts, Linked
<1>2. d.sent \in Nat /\ d.written \in Nat /\ r.highWater \in Nat /\ r.highWater <= d.sent
  BY Zenon, <1>1, HalfType DEF Got, Pair
<1>3. /\ q.highWater = Receiver!Higher(r.highWater, f.high) /\ q.limit = r.limit /\ q.reset = r.reset
      /\ q.finalSize = (IF f.fin /\ r.finalSize = Unknown THEN f.high ELSE r.finalSize)
      /\ q.received <= q.highWater /\ q.received \in Nat
  BY Zenon DEF Took
<1> HIDE DEF s, d, r, q
<1>4. q.highWater <= d.sent /\ q.highWater \in Nat
  BY <1>1, <1>2, <1>3 DEF Receiver!Higher
<1>5. q.finalSize # Unknown => d.finQueued /\ q.finalSize = d.written
  BY Zenon, <1>1, <1>3 DEF Pair
<1>6. Pair(d, q)
  BY Zenon, <1>1, <1>3, <1>4, <1>5 DEF Pair
<1>7. q.received <= d.written
  BY <1>1, <1>2, <1>3, <1>4
<1>8. ASSUME q.finalSize # Unknown, q.received >= q.finalSize PROVE d.finQueued /\ q.received = d.written
  <2>1. d.finQueued /\ q.finalSize = d.written
    BY Zenon, <1>5, <1>8
  <2>2. q.received = d.written
    BY <1>2, <1>3, <1>7, <1>8, <2>1
  <2> QED
    BY Zenon, <2>1, <2>2
<1> QED
  BY Zenon, <1>6, <1>7, <1>8 DEF s, d, q

-----------------------------------------------------------------------------
(* What a read makes of the receiving half.                                 *)
Reads(s, n) ==
    LET r == receive[s]  q == receive'[s]  c == consumed[s] IN
    /\ receive' = [receive EXCEPT ![s] = q]
    /\ q.highWater = r.highWater /\ q.finalSize = r.finalSize /\ q.reset = r.reset
    /\ q.received = r.received /\ q.finished = r.finished
    /\ r.limit <= q.limit /\ q.limit \in Nat /\ receiveLimit <= receiveLimit' /\ receiveLimit' \in Nat
    /\ closed' = closed
    /\ consumed' = [consumed EXCEPT ![s] = c \o [k \in 1..n |-> Len(c) + k - 1]]
    /\ n \in 1..r.received - Len(c)

(* A column of which one entry changed.                                     *)
LEMMA ColumnChange ==
    ASSUME NEW S, NEW s \in S, NEW a, NEW b, a = [t \in S |-> a[t]], b = [t \in S |-> b[t]],
           \A t \in S : t # s => b[t] = a[t], NEW x, b[s] = x
    PROVE  b = [a EXCEPT ![s] = x]
<1> DEFINE c == [a EXCEPT ![s] = x]
<1>1. c = [t \in S |-> c[t]]
  BY Zenon
<1>2. \A t \in S : c[t] = IF t = s THEN x ELSE a[t]
  BY Zenon
<1> HIDE DEF c
<1>3. \A t \in S : b[t] = c[t]
  BY Zenon, <1>2
<1>4. b = c
  BY Zenon, <1>1, <1>3
<1> QED
  BY Zenon, <1>4 DEF c

(* A write of the sender is one of the byte stream.                         *)
LEMMA WriteIs ==
    ASSUME TransferConstants, NEW L, SendFacts(L), NEW s \in Streams, Sender!write(s), UNCHANGED receiveVars
    PROVE  Stream!Write(s)
<1> DEFINE w == [t \in Streams |-> send[t].written]
           v == [t \in Streams |-> send'[t].written]
           e == [t \in Streams |-> send[t].finQueued]
           x == [t \in Streams |-> send'[t].finQueued]
<1>1. /\ Stepped(s) /\ ~send[s].finQueued
      /\ send'[s].written \in Nat /\ send[s].written <= send'[s].written /\ send'[s].finQueued \in BOOLEAN
  BY Zenon, WriteSteps
<1>2. send \in [Streams -> Half(L)] /\ send' = [send EXCEPT ![s] = send'[s]] /\ send[s].written \in Nat
  BY Zenon, <1>1, HalfType DEF SendFacts, Stepped
<1>3. \A t \in Streams : t # s => send'[t] = send[t]
  BY Zenon, <1>2
<1>4. v[s] = send'[s].written /\ w[s] = send[s].written /\ e[s] = send[s].finQueued /\ x[s] = send'[s].finQueued
  BY Zenon
<1>5. v[s] \in Nat /\ v[s] >= w[s] /\ ~e[s]
  BY <1>1, <1>2, <1>4
<1>6. \A t \in Streams : t # s => v[t] = w[t] /\ x[t] = e[t]
  BY Zenon, <1>3
<1>7. w = [t \in Streams |-> w[t]] /\ v = [t \in Streams |-> v[t]]
  BY Zenon
<1>8. e = [t \in Streams |-> e[t]] /\ x = [t \in Streams |-> x[t]]
  BY Zenon
<1>9. UNCHANGED <<[t \in Streams |-> receive[t].received], consumed, [t \in Streams |-> receive[t].finished], closed>>
  BY Zenon DEF receiveVars
<1> HIDE DEF w, v, e, x
<1>10. v = [w EXCEPT ![s] = v[s]]
  BY Zenon, <1>6, <1>7, ColumnChange
<1>11. x = [e EXCEPT ![s] = send'[s].finQueued]
  BY Zenon, <1>4, <1>6, <1>8, ColumnChange
<1>12. \E fin \in BOOLEAN : x = [e EXCEPT ![s] = fin]
  BY Zenon, <1>1, <1>11
<1> QED
  BY Zenon, <1>5, <1>9, <1>10, <1>12 DEF Stream!Write, w, v, e, x

(* A frame gives the reader bytes, and perhaps the end.                     *)
LEMMA TookIs ==
    ASSUME TransferConstants, NEW L, SendFacts(L), ReceiveFacts, Linked, NEW f, FrameOK(send, f),
           Took(f.stream, f.high, f.fin), send' = send
    PROVE  f.stream \in Streams /\ Stream!Give(f.stream)
<1> DEFINE s == f.stream
           d == send[s]
           r == receive[s]
           q == receive'[s]
           g == [t \in Streams |-> receive[t].received]
           h == [t \in Streams |-> receive'[t].received]
           a == [t \in Streams |-> receive[t].finished]
           b == [t \in Streams |-> receive'[t].finished]
           w == [t \in Streams |-> send[t].written]
           e == [t \in Streams |-> send[t].finQueued]
           end == q.finalSize # Unknown /\ q.received >= q.finalSize
<1>1. s \in Streams /\ d.written \in Nat /\ r.received \in Nat
  BY Zenon, HalfType DEF FrameOK, Packets, SendFacts, ReceiveFacts, Got
<1>2. q.received <= d.written /\ (end => d.finQueued /\ q.received = d.written)
  BY Zenon, TookPair
<1>3. /\ r.received <= q.received /\ q.received \in Nat /\ q.finished = (r.finished \/ end)
      /\ receive' = [receive EXCEPT ![s] = q] /\ consumed' = consumed /\ closed' = closed
  BY Zenon DEF Took
<1>4. q.received \in r.received..d.written
  BY <1>1, <1>2, <1>3
<1>5. \A t \in Streams : t # s => receive'[t] = receive[t]
  BY Zenon, <1>3 DEF ReceiveFacts
<1>6. /\ g[s] = r.received /\ h[s] = q.received /\ a[s] = r.finished /\ b[s] = q.finished
      /\ w[s] = d.written /\ e[s] = d.finQueued
  BY Zenon, <1>1
<1>7. \A t \in Streams : t # s => h[t] = g[t] /\ b[t] = a[t]
  BY Zenon, <1>5
<1>8. g = [t \in Streams |-> g[t]] /\ h = [t \in Streams |-> h[t]]
  BY Zenon
<1>9. a = [t \in Streams |-> a[t]] /\ b = [t \in Streams |-> b[t]]
  BY Zenon
<1>10. end \in BOOLEAN
  BY Zenon
<1>11. UNCHANGED <<[t \in Streams |-> send[t].written], [t \in Streams |-> send[t].finQueued], consumed, closed>>
  BY Zenon, <1>3
<1> HIDE DEF s, d, r, q, g, h, a, b, w, e, end
<1>12. h = [g EXCEPT ![s] = q.received]
  BY ZenonT(60), <1>1, <1>6, <1>7, <1>8, ColumnChange
<1>13. b = [a EXCEPT ![s] = a[s] \/ end]
  BY ZenonT(60), <1>1, <1>3, <1>6, <1>7, <1>9, ColumnChange
<1>14. \E n \in g[s]..w[s], x \in BOOLEAN :
          /\ x => e[s] /\ n = w[s]
          /\ h = [g EXCEPT ![s] = n]
          /\ b = [a EXCEPT ![s] = a[s] \/ x]
  <2>1. q.received \in g[s]..w[s] /\ (end => e[s] /\ q.received = w[s])
    BY Zenon, <1>2, <1>4, <1>6
  <2> QED
    BY Zenon, <1>10, <1>12, <1>13, <2>1
<1>15. Stream!Give(s)
  BY Zenon, <1>11, <1>14 DEF Stream!Give, g, h, a, b, w, e
<1> QED
  BY Zenon, <1>1, <1>15 DEF s

(* A read of the receiver is one of the byte stream.                        *)
LEMMA ReadIs ==
    ASSUME ReceiveFacts, NEW s \in Streams, NEW n, Reads(s, n), UNCHANGED sendVars
    PROVE  Stream!Read(s)
<1> DEFINE c == consumed[s]
           g == [t \in Streams |-> receive[t].received]
<1>1. /\ consumed' = [consumed EXCEPT ![s] = c \o [k \in 1..n |-> Len(c) + k - 1]]
      /\ n \in 1..receive[s].received - Len(c) /\ closed' = closed
      /\ receive'[s].received = receive[s].received /\ receive'[s].finished = receive[s].finished
  BY Zenon DEF Reads
<1>2. \A t \in Streams : receive'[t].received = receive[t].received /\ receive'[t].finished = receive[t].finished
  <2>1. \A t \in Streams : t # s => receive'[t] = receive[t]
    BY Zenon DEF Reads, ReceiveFacts
  <2> QED
    BY Zenon, <1>1, <2>1
<1>3. /\ [t \in Streams |-> receive'[t].received] = [t \in Streams |-> receive[t].received]
      /\ [t \in Streams |-> receive'[t].finished] = [t \in Streams |-> receive[t].finished]
  BY Zenon, <1>2
<1>4. send' = send
  BY Zenon DEF sendVars
<1>5. UNCHANGED <<[t \in Streams |-> send[t].written], [t \in Streams |-> send[t].finQueued],
                  [t \in Streams |-> receive[t].received], [t \in Streams |-> receive[t].finished], closed>>
  BY Zenon, <1>1, <1>3, <1>4
<1>6. g[s] = receive[s].received
  BY Zenon
<1>7. \E m \in 1..g[s] - Len(c) : consumed' = [consumed EXCEPT ![s] = c \o [k \in 1..m |-> Len(c) + k - 1]]
  BY Zenon, <1>1, <1>6
<1> QED
  BY Zenon, <1>5, <1>7 DEF Stream!Read

(* The other steps change nothing of the byte stream.                       *)
LEMMA QuietIs ==
    ASSUME \A s \in Streams : send'[s].written = send[s].written /\ send'[s].finQueued = send[s].finQueued,
           UNCHANGED receiveVars
    PROVE  UNCHANGED Stream!vars
<1>1. receive' = receive /\ consumed' = consumed /\ closed' = closed
  BY Zenon DEF receiveVars
<1>2. /\ [t \in Streams |-> send'[t].written] = [t \in Streams |-> send[t].written]
      /\ [t \in Streams |-> send'[t].finQueued] = [t \in Streams |-> send[t].finQueued]
  BY Zenon
<1>3. /\ [t \in Streams |-> receive'[t].received] = [t \in Streams |-> receive[t].received]
      /\ [t \in Streams |-> receive'[t].finished] = [t \in Streams |-> receive[t].finished]
  BY Zenon, <1>1
<1> QED
  BY Zenon, <1>1, <1>2, <1>3 DEF Stream!vars

(* A step of the sender at a stream is among them.                          *)
LEMMA MovedQuiet ==
    ASSUME NEW L, SendFacts(L), NEW s \in Streams, Moved(s), UNCHANGED receiveVars
    PROVE  UNCHANGED Stream!vars
<1>1. send \in [Streams -> Half(L)] /\ send' = [send EXCEPT ![s] = send'[s]] /\ Kept(send[s], send'[s])
  BY Zenon DEF Moved, SendFacts
<1>2. \A t \in Streams : t # s => send'[t] = send[t]
  BY Zenon, <1>1
<1>3. \A t \in Streams : send'[t].written = send[t].written /\ send'[t].finQueued = send[t].finQueued
  BY Zenon, <1>1, <1>2 DEF Kept
<1> QED
  BY Zenon, <1>3, QuietIs

(* The steps that leave both halves alone.                                  *)
LEMMA StillQuiet ==
    ASSUME UNCHANGED <<send, receiveVars>>
    PROVE  UNCHANGED Stream!vars
<1>1. send' = send /\ UNCHANGED receiveVars
  BY Zenon
<1>2. \A t \in Streams : send'[t].written = send[t].written /\ send'[t].finQueued = send[t].finQueued
  BY Zenon, <1>1
<1> QED
  BY Zenon, <1>1, <1>2, QuietIs

-----------------------------------------------------------------------------
(* A new announcement is of the receiver's limits.                          *)
LEMMA AnnounceOK ==
    ASSUME Linked, NEW kind, NEW s, NEW limit, Announce(kind, s, limit), limit \in Nat, limit <= limit,
           \/ kind = "stream" /\ s \in Streams /\ limit = receive[s].limit
           \/ kind = "data" /\ s = "all" /\ limit = receiveLimit
    PROVE  \A g \in grants' : GrantOK(receive, receiveLimit, g)
<1> DEFINE n == [kind |-> kind, stream |-> s, limit |-> limit, arrived |-> FALSE]
<1>1. grants' = grants \cup {n}
  BY Zenon DEF Announce
<1>2. n.kind = kind /\ n.stream = s /\ n.limit = limit
  BY Zenon
<1>3. n \in Grants
  BY Zenon DEF Grants
<1> HIDE DEF n
<1>4. GrantOK(receive, receiveLimit, n)
  BY Zenon, <1>2, <1>3 DEF GrantOK
<1> QED
  BY Zenon, <1>1, <1>4 DEF Linked

(* A grant that has arrived is the same grant.                              *)
LEMMA ArrivedOK ==
    ASSUME Linked, NEW g \in grants, grants' = (grants \ {g}) \cup {[g EXCEPT !.arrived = TRUE]}
    PROVE  \A h \in grants' : GrantOK(receive, receiveLimit, h)
<1> DEFINE n == [g EXCEPT !.arrived = TRUE]
<1>1. GrantOK(receive, receiveLimit, g) /\ g \in Grants
  BY Zenon DEF Linked, GrantOK
<1>2. n \in Grants /\ n.kind = g.kind /\ n.stream = g.stream /\ n.limit = g.limit
  BY Zenon, <1>1 DEF Grants
<1> HIDE DEF n
<1>3. GrantOK(receive, receiveLimit, n)
  BY Zenon, <1>1, <1>2 DEF GrantOK
<1> QED
  BY Zenon, <1>3 DEF Linked, n

-----------------------------------------------------------------------------
(* What each step starts from, and what it must keep.                       *)
Facts(L) == TransferConstants /\ Laws /\ SendFacts(L) /\ ReceiveFacts /\ Linked
Keeps == Linked' /\ [Stream!Next]_(Stream!vars)

(* The writing application.                                                 *)
LEMMA WriteKeeps ==
    ASSUME NEW L, Facts(L), NEW s \in Streams, Write(s)
    PROVE  Keeps
<1>1. /\ Sender!write(s) /\ UNCHANGED receiveVars /\ late' = late /\ grants' = grants
      /\ TransferConstants /\ Laws /\ SendFacts(L) /\ ReceiveFacts /\ Linked
  BY Zenon DEF Write, Facts, grantVars
<1>2. /\ Stepped(s) /\ send'[s].limit = send[s].limit /\ sendLimit' = sendLimit /\ flight' = flight
  BY Zenon, <1>1, WriteSteps
<1>3. send'[s].limit <= receive[s].limit /\ sendLimit' <= receiveLimit
  BY Zenon, <1>1, <1>2 DEF Linked, Pair
<1>4. UNCHANGED <<receive, receiveLimit, closed>>
  BY Zenon, <1>1 DEF receiveVars
<1>5. \A g \in grants' : GrantOK(receive, receiveLimit, g)
  BY Zenon, <1>1 DEF Linked
<1>6. (\A f \in flight' : f \in flight \/ f.kind = "stream") /\ (\A f \in late' : f \in late \/ f \in flight)
  BY Zenon, <1>1, <1>2
<1>7. Linked'
  BY Zenon, <1>1, <1>2, <1>3, <1>4, <1>5, <1>6, SenderLinks
<1>8. Stream!Write(s)
  BY Zenon, <1>1, WriteIs
<1> QED
  BY Zenon, <1>7, <1>8 DEF Keeps, Stream!Next

(* The sender's turn, and what an acknowledgement and a loss do.            *)
LEMMA MoveKeeps ==
    ASSUME NEW L, Facts(L), NEW s \in Streams, Moved(s), UNCHANGED <<receiveVars, grantVars>>,
           \A f \in flight' : f \in flight \/ f.kind = "stream", \A f \in late' : f \in late \/ f \in flight
    PROVE  Keeps
<1>1. /\ UNCHANGED receiveVars /\ UNCHANGED <<receive, receiveLimit, closed, grants>>
      /\ Laws /\ SendFacts(L) /\ ReceiveFacts /\ Linked
  BY Zenon DEF Facts, receiveVars, grantVars
<1>2. Linked'
  BY Zenon, <1>1, MovedLinks
<1>3. UNCHANGED Stream!vars
  BY Zenon, <1>1, MovedQuiet
<1> QED
  BY Zenon, <1>2, <1>3 DEF Keeps

(* The sender's turn.                                                       *)
LEMMA SendKeeps ==
    ASSUME NEW L, Facts(L), NEW s \in Streams, Send(s)
    PROVE  Keeps
<1>1. Sender!writeStream(s) /\ UNCHANGED <<receiveVars, grantVars>> /\ late' = late /\ TransferConstants /\ SendFacts(L)
  BY Zenon DEF Send, Facts
<1>2. Moved(s) /\ \A f \in flight' : f \in flight \/ f.kind = "stream"
  BY Zenon, <1>1, SendMoves
<1> QED
  BY Zenon, <1>1, <1>2, MoveKeeps

(* An acknowledgement.                                                      *)
LEMMA AckKeeps ==
    ASSUME NEW L, Facts(L), NEW f \in flight, Acknowledged(f)
    PROVE  Keeps
<1>1. /\ Sender!onPacketAcked(f) /\ UNCHANGED <<receiveVars, grantVars>> /\ late' = late /\ SendFacts(L)
      /\ f.kind = "stream"
  BY Zenon DEF Acknowledged, Facts, Linked
<1>2. f.stream \in Streams /\ Moved(f.stream) /\ flight' \subseteq flight
  BY Zenon, <1>1, AckedMoves
<1> QED
  BY Zenon, <1>1, <1>2, MoveKeeps

(* A loss; the packet may still arrive.                                     *)
LEMMA LostKeeps ==
    ASSUME NEW L, Facts(L), NEW f \in flight, Lost(f)
    PROVE  Keeps
<1>1. /\ Sender!onPacketLost(f) /\ UNCHANGED <<receiveVars, grantVars>> /\ SendFacts(L) /\ f.kind = "stream"
      /\ late' = late \/ late' = late \cup {f}
  BY Zenon DEF Lost, Facts, Linked
<1>2. f.stream \in Streams /\ Moved(f.stream) /\ flight' \subseteq flight
  BY Zenon, <1>1, LostMoves
<1>3. \A g \in late' : g \in late \/ g \in flight
  BY Zenon, <1>1
<1> QED
  BY Zenon, <1>1, <1>2, <1>3, MoveKeeps

(* A frame reaches the receiver, in time or late.                           *)
LEMMA TookKeeps ==
    ASSUME NEW L, Facts(L), NEW f, FrameOK(send, f), Took(f.stream, f.high, f.fin),
           UNCHANGED <<send, sentBytes, sendLimit, grants>>,
           \A g \in flight' : g.kind = "stream", \A g \in late' : g \in late
    PROVE  Keeps
<1>1. /\ TransferConstants /\ SendFacts(L) /\ ReceiveFacts /\ Linked /\ sendLimit \in Nat /\ send' = send
  BY Zenon DEF Facts, SendFacts
<1>2. f.stream \in Streams /\ Stream!Give(f.stream)
  BY Zenon, <1>1, TookIs
<1>3. Pair(send[f.stream], receive'[f.stream])
  BY Zenon, <1>1, TookPair
<1> DEFINE s == f.stream
<1>4. /\ receive' = [receive EXCEPT ![s] = receive'[s]] /\ receive'[s].limit = receive[s].limit
      /\ receiveLimit' = receiveLimit /\ closed' = closed
  BY Zenon DEF Took
<1>5. receive[s].limit \in Nat /\ receiveLimit \in Nat
  BY Zenon, <1>1, <1>2 DEF ReceiveFacts, Got
<1>6. /\ receive[s].limit <= receive'[s].limit /\ receive'[s].limit \in Nat
      /\ receiveLimit <= receiveLimit' /\ receiveLimit' \in Nat
  BY <1>4, <1>5
<1> HIDE DEF s
<1>7. s \in Streams /\ Pair(send[s], receive'[s])
  BY Zenon, <1>2, <1>3 DEF s
<1>8. Linked'
  BY Zenon, <1>1, <1>4, <1>6, <1>7, ReceiverLinks
<1> QED
  BY Zenon, <1>2, <1>8 DEF Keeps, Stream!Next

(* A packet arrives.                                                        *)
LEMMA ArriveKeeps ==
    ASSUME NEW L, Facts(L), NEW f \in flight, Arrive(f), Took(f.stream, f.high, f.fin)
    PROVE  Keeps
<1>1. /\ FrameOK(send, f) /\ UNCHANGED <<send, sentBytes, sendLimit, grants>> /\ late' = late
      /\ flight' = (flight \ {f}) \cup {[f EXCEPT !.arrived = TRUE]} /\ f \in Packets
      /\ \A g \in flight : g.kind = "stream"
  BY Zenon DEF Facts, Arrive, Sender!arrive, SendFacts, Linked, grantVars
<1>2. [f EXCEPT !.arrived = TRUE].kind = f.kind
  BY Zenon, <1>1 DEF Packets
<1>3. \A g \in flight' : g.kind = "stream"
  BY Zenon, <1>1, <1>2
<1> QED
  BY Zenon, <1>1, <1>3, TookKeeps

(* A packet arrives after it was called lost.                               *)
LEMMA LateKeeps ==
    ASSUME NEW L, Facts(L), NEW f \in late, ArriveLate(f), Took(f.stream, f.high, f.fin)
    PROVE  Keeps
<1>1. /\ FrameOK(send, f) /\ UNCHANGED <<send, sentBytes, sendLimit, grants>> /\ late' = late \ {f}
      /\ flight' = flight /\ \A g \in flight : g.kind = "stream"
  BY Zenon DEF Facts, ArriveLate, Linked, grantVars
<1>2. (\A g \in flight' : g.kind = "stream") /\ (\A g \in late' : g \in late)
  BY Zenon, <1>1
<1> QED
  BY Zenon, <1>1, <1>2, TookKeeps

(* The application reads.                                                   *)
LEMMA ReadKeeps ==
    ASSUME NEW L, Facts(L), NEW s \in Streams, NEW n, Read(s, n), Reads(s, n)
    PROVE  Keeps
<1>1. /\ ReceiveFacts /\ Linked /\ sendLimit \in Nat /\ UNCHANGED sendVars /\ late' = late /\ grants' = grants
  BY Zenon DEF Facts, SendFacts, Read
<1>2. UNCHANGED <<send, sentBytes, sendLimit, grants>> /\ flight' = flight
  BY Zenon, <1>1 DEF sendVars
<1>3. /\ receive' = [receive EXCEPT ![s] = receive'[s]] /\ closed' = closed
      /\ receive[s].limit <= receive'[s].limit /\ receive'[s].limit \in Nat
      /\ receiveLimit <= receiveLimit' /\ receiveLimit' \in Nat
      /\ receive'[s].highWater = receive[s].highWater /\ receive'[s].finalSize = receive[s].finalSize
      /\ receive'[s].reset = receive[s].reset
  BY Zenon DEF Reads
<1>4. Pair(send[s], receive'[s])
  <2>1. Pair(send[s], receive[s]) /\ send[s].limit \in Nat /\ receive[s].limit \in Nat
    BY Zenon, HalfType DEF Facts, SendFacts, ReceiveFacts, Got, Linked
  <2>2. send[s].limit <= receive'[s].limit
    <3>1. send[s].limit <= receive[s].limit
      BY Zenon, <2>1 DEF Pair
    <3> QED
      BY <1>3, <2>1, <3>1
  <2> QED
    BY Zenon, <1>3, <2>1, <2>2 DEF Pair
<1>5. (\A f \in flight' : f.kind = "stream") /\ (\A f \in late' : f \in late)
  BY Zenon, <1>1, <1>2 DEF Linked
<1>6. Linked'
  BY Zenon, <1>1, <1>2, <1>3, <1>4, <1>5, ReceiverLinks
<1>7. Stream!Read(s)
  BY Zenon, <1>1, ReadIs
<1> QED
  BY Zenon, <1>6, <1>7 DEF Keeps, Stream!Next

(* The steps of the way back that leave the two halves alone.               *)
LEMMA GrantKeeps ==
    ASSUME NEW L, Facts(L), UNCHANGED <<sendVars, receiveVars, late>>,
           \A g \in grants' : GrantOK(receive, receiveLimit, g)
    PROVE  Keeps
<1>1. /\ UNCHANGED <<send, sentBytes, receive, receiveLimit, closed>> /\ sendLimit' = sendLimit /\ flight' = flight
      /\ late' = late /\ UNCHANGED <<send, receiveVars>> /\ Linked
  BY Zenon DEF Facts, sendVars, receiveVars
<1>2. /\ sendLimit' <= receiveLimit /\ (\A f \in flight' : f.kind = "stream") /\ (\A f \in late' : f \in late)
  BY Zenon, <1>1 DEF Linked
<1>3. Linked'
  BY Zenon, <1>1, <1>2, IdleLinks
<1>4. UNCHANGED Stream!vars
  BY Zenon, <1>1, StillQuiet
<1> QED
  BY Zenon, <1>3, <1>4 DEF Keeps

(* The receiver's turn at a stream with a raised limit.                     *)
LEMMA StreamLimitKeeps ==
    ASSUME NEW L, Facts(L), NEW s \in Streams, WriteStreamLimit(s)
    PROVE  Keeps
<1>1. UNCHANGED <<sendVars, receiveVars, late>> /\ Linked /\ receive[s].limit \in Nat
  BY Zenon DEF WriteStreamLimit, Facts, ReceiveFacts, Got
<1>2. receive[s].limit <= receive[s].limit
  BY <1>1
<1>3. grants' = grants \/ Announce("stream", s, receive[s].limit)
  BY Zenon DEF WriteStreamLimit
<1>4. \A g \in grants' : GrantOK(receive, receiveLimit, g)
  <2>1. CASE grants' = grants
    BY Zenon, <1>1, <2>1 DEF Linked
  <2>2. CASE Announce("stream", s, receive[s].limit)
    BY Zenon, <1>1, <1>2, <2>2, AnnounceOK
  <2> QED
    BY Zenon, <1>3, <2>1, <2>2
<1> QED
  BY Zenon, <1>1, <1>4, GrantKeeps

(* And at the connection's.                                                 *)
LEMMA DataLimitKeeps ==
    ASSUME NEW L, Facts(L), WriteDataLimit
    PROVE  Keeps
<1>1. UNCHANGED <<sendVars, receiveVars, late>> /\ Linked /\ receiveLimit \in Nat /\ Announce("data", "all", receiveLimit)
  BY Zenon DEF WriteDataLimit, Facts, ReceiveFacts
<1>2. receiveLimit <= receiveLimit
  BY <1>1
<1>3. \A g \in grants' : GrantOK(receive, receiveLimit, g)
  BY Zenon, <1>1, <1>2, AnnounceOK
<1> QED
  BY Zenon, <1>1, <1>3, GrantKeeps

(* A limit is acknowledged, or lost.                                        *)
LEMMA SettledKeeps ==
    ASSUME NEW L, Facts(L), NEW g \in grants, NEW byTimer, GrantAcknowledged(g) \/ GrantLost(g, byTimer)
    PROVE  Keeps
<1>1. UNCHANGED <<sendVars, receiveVars, late>> /\ grants' = grants \ {g}
  BY Zenon DEF GrantAcknowledged, GrantLost
<1>2. \A h \in grants' : GrantOK(receive, receiveLimit, h)
  BY Zenon, <1>1 DEF Facts, Linked
<1> QED
  BY Zenon, <1>1, <1>2, GrantKeeps

(* A limit arrives.                                                         *)
LEMMA ArriveGrantKeeps ==
    ASSUME NEW L, Facts(L), NEW g \in grants, ArriveGrant(g)
    PROVE  Keeps
<1>1. /\ grants' = (grants \ {g}) \cup {[g EXCEPT !.arrived = TRUE]} /\ UNCHANGED receiveVars /\ late' = late
      /\ Laws /\ SendFacts(L) /\ ReceiveFacts /\ Linked
  BY Zenon DEF ArriveGrant, Facts
<1>2. \A h \in grants' : GrantOK(receive, receiveLimit, h)
  BY Zenon, <1>1, ArrivedOK
<1>3. GrantOK(receive, receiveLimit, g) /\ g.limit \in Nat
  BY Zenon, <1>1 DEF Linked, GrantOK, Grants
<1>4. UNCHANGED <<receive, receiveLimit, closed>>
  BY Zenon, <1>1 DEF receiveVars
<1>5. \A f \in late' : f \in late
  BY Zenon, <1>1
<1>6. CASE g.kind = "stream" /\ Sender!maxStreamData(g.stream, g.limit)
  <2> DEFINE s == g.stream
  <2>1. s \in Streams /\ g.limit <= receive[s].limit
    BY Zenon, <1>3, <1>6 DEF GrantOK
  <2>2. /\ Stepped(s) /\ send'[s].limit = g.limit /\ sendLimit' = sendLimit /\ flight' = flight
        /\ send'[s].written = send[s].written /\ send'[s].finQueued = send[s].finQueued
    BY Zenon, <1>1, <1>3, <1>6, <2>1, LimitSteps
  <2> HIDE DEF s
  <2>3. send'[s].limit <= receive[s].limit /\ sendLimit' <= receiveLimit
    BY Zenon, <1>1, <2>1, <2>2 DEF Linked
  <2>4. (\A f \in flight' : f \in flight \/ f.kind = "stream") /\ (\A f \in late' : f \in late \/ f \in flight)
    BY Zenon, <1>5, <2>2
  <2>5. Linked'
    BY Zenon, <1>1, <1>2, <1>4, <2>1, <2>2, <2>3, <2>4, SenderLinks
  <2>6. \A t \in Streams : send'[t].written = send[t].written /\ send'[t].finQueued = send[t].finQueued
    <3>1. \A t \in Streams : t # s => send'[t] = send[t]
      BY Zenon, <1>1, <2>2 DEF Stepped, SendFacts
    <3> QED
      BY Zenon, <2>2, <3>1
  <2>7. UNCHANGED Stream!vars
    BY Zenon, <1>1, <2>6, QuietIs
  <2> QED
    BY Zenon, <2>5, <2>7 DEF Keeps
<1>7. CASE g.kind = "data" /\ Sender!maxData(g.limit)
  <2>1. sendLimit' = g.limit /\ UNCHANGED <<send, sentBytes, flight>>
    BY Zenon, <1>7 DEF Sender!maxData
  <2>2. sendLimit' <= receiveLimit
    BY Zenon, <1>3, <1>7, <2>1 DEF GrantOK
  <2>3. UNCHANGED <<send, sentBytes, receive, receiveLimit, closed>> /\ \A f \in flight' : f.kind = "stream"
    BY Zenon, <1>1, <1>4, <2>1 DEF Linked
  <2>4. Linked'
    BY Zenon, <1>1, <1>2, <1>5, <2>2, <2>3, IdleLinks
  <2>5. UNCHANGED Stream!vars
    BY Zenon, <1>1, <2>1, StillQuiet
  <2> QED
    BY Zenon, <2>4, <2>5 DEF Keeps
<1>8. CASE UNCHANGED sendVars
  BY Zenon, <1>1, <1>2, <1>8, GrantKeeps
<1> QED
  BY Zenon, <1>6, <1>7, <1>8 DEF ArriveGrant

-----------------------------------------------------------------------------
(* Every step keeps the link, and is a step of the byte stream or none.     *)
LEMMA LinkStep ==
    ASSUME NEW L, Facts(L), [Next]_vars,
           \A f : FrameOK(send, f) /\ Handle(f) => Took(f.stream, f.high, f.fin),
           \A s \in Streams : \A n \in 1..MaxWritten : Read(s, n) => Reads(s, n)
    PROVE  Keeps
<1>1. ASSUME NEW s \in Streams, Write(s) \/ Send(s) \/ WriteStreamLimit(s) \/ \E n \in 1..MaxWritten : Read(s, n)
      PROVE  Keeps
  BY Zenon, <1>1, WriteKeeps, SendKeeps, StreamLimitKeeps, ReadKeeps
<1>2. ASSUME NEW f \in flight, Arrive(f) \/ Acknowledged(f) \/ Lost(f)
      PROVE  Keeps
  <2>1. CASE Arrive(f)
    <3>1. FrameOK(send, f) /\ Handle(f)
      BY Zenon, <2>1 DEF Facts, Linked, SendFacts, Arrive
    <3>2. Took(f.stream, f.high, f.fin)
      BY Zenon, <3>1
    <3> QED
      BY Zenon, <2>1, <3>2, ArriveKeeps
  <2>2. CASE Acknowledged(f)
    BY Zenon, <2>2, AckKeeps
  <2>3. CASE Lost(f)
    BY Zenon, <2>3, LostKeeps
  <2> QED
    BY Zenon, <1>2, <2>1, <2>2, <2>3
<1>3. ASSUME NEW f \in late, ArriveLate(f)
      PROVE  Keeps
  <2>1. FrameOK(send, f) /\ Handle(f)
    BY Zenon, <1>3 DEF Facts, Linked, ArriveLate
  <2>2. Took(f.stream, f.high, f.fin)
    BY Zenon, <2>1
  <2> QED
    BY Zenon, <1>3, <2>2, LateKeeps
<1>4. CASE WriteDataLimit
  BY Zenon, <1>4, DataLimitKeeps
<1>5. ASSUME NEW g \in grants,
             ArriveGrant(g) \/ GrantAcknowledged(g) \/ \E byTimer \in BOOLEAN : GrantLost(g, byTimer)
      PROVE  Keeps
  BY Zenon, <1>5, ArriveGrantKeeps, SettledKeeps
<1>6. CASE UNCHANGED vars
  <2>1. UNCHANGED <<sendVars, receiveVars, late>> /\ grants' = grants
    BY Zenon, <1>6 DEF vars, grantVars
  <2>2. \A g \in grants' : GrantOK(receive, receiveLimit, g)
    BY Zenon, <2>1 DEF Facts, Linked
  <2> QED
    BY Zenon, <2>1, <2>2, GrantKeeps
<1> QED
  BY Zenon, <1>1, <1>2, <1>3, <1>4, <1>5, <1>6 DEF Next

(* At first nothing is written, sent or given.                              *)
LEMMA InitLinks ==
    ASSUME TransferConstants, Laws, Init
    PROVE  Linked /\ Stream!Init
<1>1. /\ \A s \in Streams : send[s] = Sender!NewStream /\ receive[s] = Receiver!NewStream
      /\ sentBytes = 0 /\ sendLimit = DataWindow /\ flight = {} /\ receiveLimit = DataWindow
      /\ closed = FALSE /\ consumed = [s \in Streams |-> <<>>] /\ late = {} /\ grants = {}
  BY Zenon DEF Init, Sender!Init, Receiver!Init
<1>2. ASSUME NEW s \in Streams
      PROVE  /\ send[s].written = 0 /\ send[s].sent = 0 /\ send[s].finQueued = FALSE /\ send[s].reset = FALSE
             /\ send[s].limit = StreamWindow
             /\ receive[s].received = 0 /\ receive[s].highWater = 0 /\ receive[s].limit = StreamWindow
             /\ receive[s].finalSize = Unknown /\ receive[s].finished = FALSE /\ receive[s].reset = FALSE
  <2> DEFINE d == Sender!NewStream
             r == Receiver!NewStream
  <2>1. d.written = 0 /\ d.sent = 0 /\ d.finQueued = FALSE /\ d.reset = FALSE /\ d.limit = StreamWindow
    BY Zenon DEF Sender!NewStream
  <2>2. /\ r.received = 0 /\ r.highWater = 0 /\ r.limit = StreamWindow
        /\ r.finalSize = Unknown /\ r.finished = FALSE /\ r.reset = FALSE
    BY Zenon DEF Receiver!NewStream
  <2> HIDE DEF d, r
  <2>3. send[s] = d /\ receive[s] = r
    BY Zenon, <1>1 DEF d, r
  <2> QED
    BY Zenon, <2>1, <2>2, <2>3
<1>3. 0 <= 0 /\ StreamWindow <= StreamWindow /\ DataWindow <= DataWindow
  BY DEF TransferConstants
<1>4. \A s \in Streams : Pair(send[s], receive[s])
  BY Zenon, <1>2, <1>3 DEF Pair
<1>5. Counts(send, sentBytes)
  <2>1. \A s \in Streams : Sents(send)[s] = 0
    BY Zenon, <1>2 DEF Sents
  <2> QED
    BY Zenon, <1>1, <2>1 DEF Laws, Counts
<1>6. Linked
  BY Zenon, <1>1, <1>3, <1>4, <1>5 DEF Linked
<1>7. /\ [s \in Streams |-> send[s].written] = [s \in Streams |-> 0]
      /\ [s \in Streams |-> send[s].finQueued] = [s \in Streams |-> FALSE]
      /\ [s \in Streams |-> receive[s].received] = [s \in Streams |-> 0]
      /\ [s \in Streams |-> receive[s].finished] = [s \in Streams |-> FALSE]
  BY Zenon, <1>2
<1> QED
  BY Zenon, <1>1, <1>6, <1>7 DEF Stream!Init

-----------------------------------------------------------------------------
(* What a step of the whole is to the sender, and to the receiver.          *)
SenderActs ==
    \/ UNCHANGED sendVars
    \/ \E s \in Streams :
        \/ Sender!write(s) \/ Sender!writeStream(s)
        \/ \E limit \in Nat : Sender!maxStreamData(s, limit)
    \/ \E limit \in Nat : Sender!maxData(limit)
    \/ \E f \in flight : Sender!arrive(f) \/ Sender!onPacketAcked(f) \/ Sender!onPacketLost(f)
    \/ \E f \in Packets : Sender!Reach(f) /\ UNCHANGED <<send, sentBytes, sendLimit, flight, ends>>
ReceiverActs ==
    \/ UNCHANGED receiveVars
    \/ \E s \in Streams :
        \/ \E low, high \in Nat, fin \in BOOLEAN : Receiver!handleStream(s, low, high, fin)
        \/ \E n \in Nat : Receiver!extendStreamWindow(s, n)

(* Every step of the whole is such a step of the sender.                    *)
LEMMA SenderDoes ==
    ASSUME Linked, [Next]_vars
    PROVE  SenderActs
<1>1. ASSUME UNCHANGED vars PROVE UNCHANGED sendVars
  BY Zenon, <1>1 DEF vars
<1>2. ASSUME NEW s \in Streams, Write(s) \/ Send(s) \/ WriteStreamLimit(s) \/ \E n \in 1..MaxWritten : Read(s, n)
      PROVE  SenderActs
  BY Zenon, <1>2 DEF Write, Send, WriteStreamLimit, Read, SenderActs
<1>3. ASSUME NEW f \in flight, Arrive(f) \/ Acknowledged(f) \/ Lost(f)
      PROVE  SenderActs
  BY Zenon, <1>3 DEF Arrive, Acknowledged, Lost, SenderActs
<1>4. ASSUME NEW f \in late, ArriveLate(f)
      PROVE  SenderActs
  <2>1. f \in Packets
    BY Zenon DEF Linked, FrameOK
  <2> QED
    BY Zenon, <1>4, <2>1 DEF ArriveLate, SenderActs
<1>5. ASSUME WriteDataLimit PROVE SenderActs
  BY Zenon, <1>5 DEF WriteDataLimit, SenderActs
<1>6. ASSUME NEW g \in grants, ArriveGrant(g) PROVE SenderActs
  <2>1. g.limit \in Nat /\ (g.kind = "stream" => g.stream \in Streams)
    <3>1. GrantOK(receive, receiveLimit, g)
      BY Zenon DEF Linked
    <3>2. "stream" # "data"
      OBVIOUS
    <3> QED
      BY Zenon, <3>1, <3>2 DEF GrantOK, Grants
  <2> QED
    BY Zenon, <1>6, <2>1 DEF ArriveGrant, SenderActs
<1>7. ASSUME NEW g \in grants, GrantAcknowledged(g) \/ \E byTimer \in BOOLEAN : GrantLost(g, byTimer)
      PROVE  SenderActs
  BY Zenon, <1>7 DEF GrantAcknowledged, GrantLost, SenderActs
<1> QED
  BY Zenon, <1>1, <1>2, <1>3, <1>4, <1>5, <1>6, <1>7 DEF Next, SenderActs

(* And of the receiver.                                                     *)
LEMMA ReceiverDoes ==
    ASSUME NEW L, SendFacts(L), Linked, [Next]_vars
    PROVE  ReceiverActs
<1>1. ASSUME UNCHANGED vars PROVE UNCHANGED receiveVars
  BY Zenon, <1>1 DEF vars
<1>2. ASSUME NEW s \in Streams, NEW n \in 1..MaxWritten, Read(s, n) PROVE ReceiverActs
  <2>1. n \in Nat
    OBVIOUS
  <2> QED
    BY Zenon, <1>2, <2>1 DEF Read, ReceiverActs
<1>3. ASSUME NEW f, FrameOK(send, f), Handle(f) PROVE ReceiverActs
  <2>1. f.stream \in Streams /\ f.low \in Nat /\ f.high \in Nat /\ f.fin \in BOOLEAN
    BY Zenon, <1>3 DEF FrameOK, Packets
  <2> QED
    BY Zenon, <1>3, <2>1 DEF Handle, ReceiverActs
<1>4. (\A f \in flight : FrameOK(send, f)) /\ \A f \in late : FrameOK(send, f)
  BY Zenon DEF SendFacts, Linked
<1>5. ASSUME NEW s \in Streams, Write(s) \/ Send(s) \/ WriteStreamLimit(s)
      PROVE  ReceiverActs
  BY Zenon, <1>5 DEF Write, Send, WriteStreamLimit, ReceiverActs
<1>6. ASSUME NEW f \in flight, Acknowledged(f) \/ Lost(f) PROVE ReceiverActs
  BY Zenon, <1>6 DEF Acknowledged, Lost, ReceiverActs
<1>7. ASSUME NEW f, (f \in flight /\ Arrive(f)) \/ (f \in late /\ ArriveLate(f)) PROVE ReceiverActs
  BY Zenon, <1>3, <1>4, <1>7 DEF Arrive, ArriveLate
<1>8. ASSUME WriteDataLimit PROVE ReceiverActs
  BY Zenon, <1>8 DEF WriteDataLimit, ReceiverActs
<1>9. ASSUME NEW g \in grants,
             ArriveGrant(g) \/ GrantAcknowledged(g) \/ \E byTimer \in BOOLEAN : GrantLost(g, byTimer)
      PROVE  ReceiverActs
  BY Zenon, <1>9 DEF ArriveGrant, GrantAcknowledged, GrantLost, ReceiverActs
<1> QED
  BY Zenon, <1>1, <1>2, <1>5, <1>6, <1>7, <1>8, <1>9 DEF Next, ReceiverActs

(* The first range that is owed.                                            *)
LEMMA FirstLost ==
    ASSUME NEW d, d.lost \in Seq([low : Nat, high : Nat]), d.sent \in Nat, Sender!Apart(d.lost),
           Sender!Offsets(d.lost) \subseteq 0..d.sent - 1
    PROVE  LostOK(d)
<1> DEFINE rs == d.lost
           r == rs[1]
           N == Len(rs)
<1> SUFFICES ASSUME rs # <<>>
             PROVE  r.low \in Nat /\ r.high \in Nat /\ r.low <= r.high /\ r.high <= d.sent
  BY Zenon DEF LostOK
<1>1. 1 \in 1..N /\ r \in [low : Nat, high : Nat]
  <2> DEFINE R == [low : Nat, high : Nat]
  <2>1. rs \in Seq(R) /\ rs # <<>>
    OBVIOUS
  <2> HIDE DEF rs, R
  <2>2. 1 \in 1..N /\ r \in R
    BY <2>1
  <2> QED
    BY Zenon, <2>2 DEF R
<1>2. r.low < r.high
  BY Zenon, <1>1 DEF Sender!Apart
<1>3. r.low \in Nat /\ r.high \in Nat
  BY Zenon, <1>1
<1>4. r.low..r.high - 1 \subseteq Sender!Offsets(rs)
  BY Zenon, <1>1 DEF Sender!Offsets
<1> HIDE DEF r
<1>5. r.low..r.high - 1 \subseteq 0..d.sent - 1
  BY Zenon, <1>4
<1>6. r.high - 1 \in r.low..r.high - 1 /\ r.low <= r.high
  BY SMTT(60), <1>2, <1>3
<1>7. r.high - 1 \in 0..d.sent - 1
  BY Zenon, <1>5, <1>6
<1> QED
  BY <1>3, <1>6, <1>7

-----------------------------------------------------------------------------
(* The receiver by itself, with what is proved of it.  Its steps here are   *)
(* the same operators, so the two are equal one by one.                     *)
RP == INSTANCE QUICReceiveStreamProofs WITH
    InitialMaxStreamData <- StreamWindow, InitialMaxData <- DataWindow, MaxOffset <- MaxWritten

(* A frame taken in, and whether it is refused.                             *)
LEMMA SameAccept ==
    ASSUME NEW r, NEW low, NEW high, NEW fin
    PROVE  /\ Receiver!accept(r, low, high, fin) = RP!accept(r, low, high, fin)
           /\ Receiver!Refused(r, low, high, fin) = RP!Refused(r, low, high, fin)
           /\ Receiver!Higher(r.highWater, high) = RP!Higher(r.highWater, high)
  BY ZenonT(60) DEF Receiver!Lower, RP!Lower, Receiver!Higher, RP!Higher, Receiver!Bytes, RP!Bytes,
     Receiver!End, RP!End, Receiver!Piece, RP!Piece, Receiver!Walk, RP!Walk, Receiver!Drain, RP!Drain,
     Receiver!insertEarly, RP!insertEarly, Receiver!drainEarly, RP!drainEarly, Receiver!Placed, RP!Placed,
     Receiver!checkFinished, RP!checkFinished, Receiver!accept, RP!accept, Receiver!Refused, RP!Refused

(* A STREAM frame.                                                          *)
LEMMA SameHandle ==
    ASSUME NEW s, NEW low, NEW high, NEW fin, Receiver!handleStream(s, low, high, fin)
    PROVE  RP!handleStream(s, low, high, fin)
  BY ZenonT(60) DEF Receiver!Lower, RP!Lower, Receiver!Higher, RP!Higher, Receiver!Bytes, RP!Bytes,
     Receiver!End, RP!End, Receiver!Piece, RP!Piece, Receiver!Walk, RP!Walk, Receiver!Drain, RP!Drain,
     Receiver!insertEarly, RP!insertEarly, Receiver!drainEarly, RP!drainEarly, Receiver!Placed, RP!Placed,
     Receiver!checkFinished, RP!checkFinished, Receiver!accept, RP!accept, Receiver!Refused, RP!Refused,
     Receiver!Growth, RP!Growth, Receiver!Close, RP!Close, Receiver!handleStream, RP!handleStream

(* A read, and the start.                                                   *)
LEMMA SameRead ==
    /\ Receiver!Init => RP!Init
    /\ \A s, n : Receiver!extendStreamWindow(s, n) => RP!extendStreamWindow(s, n)
<1>1. Receiver!Init => RP!Init
  BY ZenonT(60) DEF Receiver!Init, RP!Init, Receiver!NewStream, RP!NewStream
<1>2. \A s, n : Receiver!extendStreamWindow(s, n) => RP!extendStreamWindow(s, n)
  BY ZenonT(60) DEF Receiver!extendStreamWindow, RP!extendStreamWindow, Receiver!Granted, RP!Granted
<1> QED
  BY ZenonT(60), <1>1, <1>2

(* How finite sets are counted.                                             *)
LEMMA SameCount ==
    /\ \A S : RP!IsFiniteSet(S) = IsFiniteSet(S) /\ RP!Cardinality(S) = Cardinality(S)
    /\ \A f : RP!Under(f) = Below(f)
<1>1. \A S : RP!IsFiniteSet(S) = IsFiniteSet(S)
  BY ZenonT(60) DEF RP!IsFiniteSet, IsFiniteSet
<1>2. \A S : RP!Cardinality(S) = Cardinality(S)
  BY ZenonT(60) DEF RP!Cardinality, Cardinality
<1>3. \A f : RP!Under(f) = Below(f)
  BY ZenonT(60) DEF RP!Under, Below
<1> QED
  BY ZenonT(60), <1>1, <1>2, <1>3

(* The laws of counting, from the receiver's lemmas.                        *)
LEMMA LawsHold == Laws
<1>1. ASSUME NEW f \in [Streams -> Nat], NEW s \in Streams, NEW w \in Nat, f[s] <= w, IsFiniteSet(Below(f))
      PROVE  /\ IsFiniteSet(Below([f EXCEPT ![s] = w]))
             /\ Cardinality(Below([f EXCEPT ![s] = w])) = Cardinality(Below(f)) + (w - f[s])
  <2> DEFINE g == [f EXCEPT ![s] = w]
  <2>1. RP!IsFiniteSet(RP!Under(f))
    BY ZenonT(60), <1>1, SameCount
  <2>2. RP!IsFiniteSet(RP!Under(g)) /\ RP!Cardinality(RP!Under(g)) = RP!Cardinality(RP!Under(f)) + (w - f[s])
    BY ZenonT(60), <1>1, <2>1, RP!UnderGrows
  <2>3. IsFiniteSet(Below(g)) /\ Cardinality(Below(g)) = Cardinality(Below(f)) + (w - f[s])
    <3> HIDE DEF g
    <3> QED
      BY ZenonT(60), <2>2, SameCount
  <2> QED
    BY ZenonT(60), <2>3
<1>2. ASSUME NEW f \in [Streams -> Nat], NEW g \in [Streams -> Nat], \A s \in Streams : f[s] <= g[s],
             IsFiniteSet(Below(g))
      PROVE  Cardinality(Below(f)) <= Cardinality(Below(g))
  <2>1. RP!IsFiniteSet(RP!Under(g))
    BY ZenonT(60), <1>2, SameCount
  <2>2. RP!Cardinality(RP!Under(f)) <= RP!Cardinality(RP!Under(g))
    BY ZenonT(60), <1>2, <2>1, RP!UnderLess
  <2> QED
    BY ZenonT(60), <2>2, SameCount
<1>3. ASSUME NEW f, \A s \in Streams : f[s] = 0
      PROVE  IsFiniteSet(Below(f)) /\ Cardinality(Below(f)) = 0
  <2>1. RP!IsFiniteSet(RP!Under(f)) /\ RP!Cardinality(RP!Under(f)) = 0
    BY ZenonT(60), <1>3, RP!UnderNone
  <2> QED
    BY ZenonT(60), <2>1, SameCount
<1> QED
  BY ZenonT(60), <1>1, <1>2, <1>3 DEF Laws

(* The receiver's invariant gives what the link needs of it.                *)
LEMMA ReceiveGives ==
    ASSUME RP!ReceiveInv
    PROVE  ReceiveFacts
<1>1. /\ receive \in [Streams -> RP!Receives] /\ receivedBytes \in Nat /\ receiveLimit \in Nat
  BY ZenonT(60) DEF RP!ReceiveInv, RP!Types
<1>2. receive = [s \in Streams |-> receive[s]]
  BY ZenonT(60), <1>1
<1>3. ASSUME NEW s \in Streams PROVE Got(receive[s])
  <2>1. receive[s] \in RP!Receives
    BY ZenonT(60), <1>1
  <2>2. receive[s].received <= receive[s].highWater
    BY ZenonT(60) DEF RP!ReceiveInv, RP!HalfOK, RP!Ready
  <2> QED
    BY ZenonT(60), <2>1, <2>2 DEF Got, RP!Receives
<1>4. RP!Counted = Below(Highs(receive))
  BY ZenonT(60), RP!CountedIs, SameCount DEF RP!Waters, Highs
<1>5. RP!IsFiniteSet(RP!Counted) /\ (~closed => receivedBytes = RP!Cardinality(RP!Counted))
  BY ZenonT(60) DEF RP!ReceiveInv, RP!CountedOnce
<1>6. IsFiniteSet(Below(Highs(receive))) /\ (~closed => receivedBytes = Cardinality(Below(Highs(receive))))
  BY ZenonT(60), <1>4, <1>5, SameCount
<1> QED
  BY ZenonT(60), <1>1, <1>2, <1>3, <1>6 DEF ReceiveFacts

(* A step of the whole is a step of the receiver, or leaves it alone.       *)
LEMMA ReceiveStep ==
    ASSUME NEW L, SendFacts(L), Linked, [Next]_vars
    PROVE  [RP!Steps]_(RP!vars)
<1>1. ReceiverActs
  BY ZenonT(60), ReceiverDoes
<1> QED
  BY ZenonT(60), <1>1, SameHandle, SameRead DEF ReceiverActs, receiveVars, RP!vars, RP!Steps

(* A frame of the sender's is taken in: it is within every limit.           *)
LEMMA Handles ==
    ASSUME TransferConstants, Laws, NEW L, SendFacts(L), RP!ReceiveInv, Linked,
           NEW f, FrameOK(send, f), Handle(f)
    PROVE  Took(f.stream, f.high, f.fin)
<1> DEFINE s == f.stream
           r == receive[s]
           c == consumed[s]
           a == arrived[s]
           q == RP!accept(r, f.low, f.high, f.fin)
<1>1. ReceiveFacts
  BY ZenonT(60), ReceiveGives
<1>2. /\ ~(receivedBytes + Receiver!Growth(s, f.high) > receiveLimit)
      /\ ~Receiver!Refused(r, f.low, f.high, f.fin)
  BY ZenonT(60), <1>1, FrameCounts, FrameFits
<1>3. /\ receive' = [receive EXCEPT ![s] = Receiver!accept(r, f.low, f.high, f.fin)]
      /\ UNCHANGED <<receiveLimit, closed, consumed>>
  BY ZenonT(60), <1>2 DEF Handle, Receiver!handleStream
<1>4. /\ Receiver!accept(r, f.low, f.high, f.fin) = q
      /\ ~RP!Refused(r, f.low, f.high, f.fin)
  BY ZenonT(60), <1>2, SameAccept
<1>5. s \in Streams /\ f.low \in Nat /\ f.high \in Nat
  BY ZenonT(60) DEF FrameOK, Packets
<1>6. RP!HalfOK(r, c, a) /\ receive \in [Streams -> RP!Receives]
  BY ZenonT(60), <1>5 DEF RP!ReceiveInv, RP!Types
<1>7. RP!ReceiveConstants
  BY ZenonT(60) DEF RP!ReceiveConstants, TransferConstants
<1> HIDE DEF r, c, a
<1>8. RP!Accepted(q, r, c, a \cup (f.low..f.high - 1), f.high, f.fin)
  BY ZenonT(60), <1>4, <1>5, <1>6, <1>7, RP!AcceptKeeps
<1> HIDE DEF q, s
<1>9. receive' = [receive EXCEPT ![s] = q] /\ receive'[s] = q
  <2>1. receive' = [receive EXCEPT ![s] = q]
    BY ZenonT(60), <1>3, <1>4
  <2> QED
    BY ZenonT(60), <2>1, <1>5, <1>6
<1>10. /\ q.highWater = Receiver!Higher(r.highWater, f.high) /\ q.limit = r.limit /\ q.reset = r.reset
       /\ q.finalSize = IF f.fin /\ r.finalSize = Unknown THEN f.high ELSE r.finalSize
       /\ r.received <= q.received
       /\ q.finished = (r.finished \/ (q.finalSize # Unknown /\ q.received >= q.finalSize))
  BY ZenonT(60), <1>8, SameAccept DEF RP!Accepted, RP!FinalAfter
<1>11. q \in RP!Receives /\ q.received <= q.highWater
  BY ZenonT(60), <1>8 DEF RP!Accepted, RP!HalfOK, RP!Ready
<1>12. q.received \in Nat
  BY ZenonT(60), <1>11 DEF RP!Receives
<1>13. Took(s, f.high, f.fin)
  BY ZenonT(60), <1>3, <1>9, <1>10, <1>11, <1>12 DEF Took, r
<1> QED
  BY ZenonT(60), <1>13 DEF s

(* What a read gives.                                                       *)
LEMMA ReadsAll ==
    ASSUME TransferConstants, RP!ReceiveInv, NEW s \in Streams, NEW n \in 1..MaxWritten, Read(s, n)
    PROVE  Reads(s, n)
<1> DEFINE m == Len(consumed[s])
<1>1. n \in Nat /\ n >= 1
  BY SMTT(30) DEF TransferConstants
<1>2. RP!extendStreamWindow(s, n)
  BY ZenonT(60), SameRead DEF Read
<1>3. RP!ReceiveConstants
  BY ZenonT(60) DEF RP!ReceiveConstants, TransferConstants
<1>4. /\ RP!ReceiveInv'
      /\ consumed' = [consumed EXCEPT ![s] = consumed[s] \o RP!Bytes(m, m + n)]
      /\ m \in Nat /\ m + n <= receive[s].received
      /\ receive[s].limit <= receive'[s].limit /\ receiveLimit <= receiveLimit'
      /\ receive' = [receive EXCEPT ![s] = receive'[s]] /\ closed' = closed
      /\ receive'[s].highWater = receive[s].highWater /\ receive'[s].finalSize = receive[s].finalSize
      /\ receive'[s].reset = receive[s].reset /\ receive'[s].received = receive[s].received
      /\ receive'[s].finished = receive[s].finished
  BY ZenonT(60), <1>1, <1>2, <1>3, RP!ReadKeeps
<1>5. receive[s] \in RP!Receives /\ receive'[s] \in RP!Receives /\ receiveLimit' \in Nat
  BY ZenonT(60), <1>4 DEF RP!ReceiveInv, RP!Types
<1>6. receive[s].received \in Nat /\ receive'[s].limit \in Nat
  BY ZenonT(60), <1>5 DEF RP!Receives
<1> HIDE DEF m
<1>7. n \in 1..receive[s].received - m /\ (m + n) - m = n
  BY SMTT(30), <1>1, <1>4, <1>6
<1>8. RP!Bytes(m, m + n) = [k \in 1..n |-> m + k - 1]
  BY ZenonT(60), <1>7 DEF RP!Bytes
<1>9. consumed' = [consumed EXCEPT ![s] = consumed[s] \o [k \in 1..n |-> m + k - 1]]
  BY ZenonT(60), <1>4, <1>8
<1> QED
  BY ZenonT(60), <1>4, <1>5, <1>6, <1>7, <1>9 DEF Reads, m

(* The start.                                                               *)
LEMMA ReceiverStart ==
    ASSUME TransferConstants, Init
    PROVE  RP!ReceiveInv /\ Linked /\ Stream!Init
<1>1. RP!ReceiveConstants
  BY ZenonT(60) DEF RP!ReceiveConstants, TransferConstants
<1>2. RP!ReceiveInv
  BY ZenonT(60), <1>1, SameRead, RP!InitKeeps DEF Init
<1> QED
  BY ZenonT(60), <1>2, LawsHold, InitLinks

(* With what the sender's invariant gives, a step keeps the receiver's, and *)
(* the link, and is a step of a byte stream or leaves it alone.             *)
LEMMA ReceiverKeeps ==
    ASSUME TransferConstants, NEW L, SendFacts(L), RP!ReceiveInv, Linked, [Next]_vars
    PROVE  RP!ReceiveInv' /\ Keeps
<1>1. RP!ReceiveConstants
  BY ZenonT(60) DEF RP!ReceiveConstants, TransferConstants
<1>2. RP!ReceiveInv'
  BY ZenonT(60), <1>1, ReceiveStep, RP!StepKeeps
<1>3. Laws /\ Facts(L)
  BY ZenonT(60), LawsHold, ReceiveGives DEF Facts
<1> QED
  BY ZenonT(60), <1>2, <1>3, Handles, ReadsAll, LinkStep

-----------------------------------------------------------------------------
(* The sender by itself, with what is proved of it, in the same way.        *)
SP == INSTANCE QUICSendStreamProofs WITH
    Crypto <- FALSE, Tight <- FALSE, InitialLimit <- StreamWindow, InitialData <- DataWindow,
    MaxLimit <- MaxWritten

(* What an acknowledgement does.                                            *)
LEMMA SameAcked ==
    \A f : Sender!onPacketAcked(f) => SP!onPacketAcked(f)
<1>1. ASSUME NEW d, NEW low, NEW high
      PROVE  Sender!acknowledge(d, low, high) = SP!acknowledge(d, low, high)
  BY ZenonT(60) DEF Sender!Lesser, SP!Lesser, Sender!Greater, SP!Greater, Sender!Least, SP!Least,
     Sender!Largest, SP!Largest, Sender!Piece, SP!Piece, Sender!Before, SP!Before, Sender!Search, SP!Search,
     Sender!firstIndex, SP!firstIndex, Sender!Reached, SP!Reached, Sender!Widened, SP!Widened,
     Sender!add, SP!add, Sender!subtract, SP!subtract, Sender!contiguousEnd, SP!contiguousEnd,
     Sender!acknowledge, SP!acknowledge
<1> QED
  BY ZenonT(60), <1>1 DEF Sender!onPacketAcked, SP!onPacketAcked, Sender!Settle, SP!Settle

(* What a loss does.                                                        *)
LEMMA SameLost ==
    ASSUME NEW f, Sender!onPacketLost(f)
    PROVE  SP!onPacketLost(f)
  BY ZenonT(60) DEF Sender!Lesser, SP!Lesser, Sender!Greater, SP!Greater, Sender!Least, SP!Least,
     Sender!Largest, SP!Largest, Sender!Piece, SP!Piece, Sender!Before, SP!Before, Sender!Search, SP!Search,
     Sender!firstIndex, SP!firstIndex, Sender!Reached, SP!Reached, Sender!Widened, SP!Widened,
     Sender!add, SP!add, Sender!subtract, SP!subtract, Sender!LessAcked, SP!LessAcked,
     Sender!declareLost, SP!declareLost, Sender!Settle, SP!Settle, Sender!onPacketLost, SP!onPacketLost

(* The sender's turn.                                                       *)
LEMMA SameSend ==
    ASSUME NEW s, Sender!writeStream(s)
    PROVE  SP!writeStream(s)
  BY ZenonT(60) DEF Sender!Lesser, SP!Lesser, Sender!Greater, SP!Greater, Sender!Least, SP!Least,
     Sender!Piece, SP!Piece, Sender!Before, SP!Before, Sender!Search, SP!Search,
     Sender!firstIndex, SP!firstIndex, Sender!subtract, SP!subtract, Sender!pending, SP!pending,
     Sender!window, SP!window, Sender!owes, SP!owes, Sender!Retransmits, SP!Retransmits,
     Sender!Offset, SP!Offset, Sender!Available, SP!Available, Sender!FinPending, SP!FinPending,
     Sender!FinOn, SP!FinOn, Sender!Wrote, SP!Wrote, Sender!Frame, SP!Frame, Sender!Copies, SP!Copies,
     Sender!Cardinality, SP!Cardinality, Sender!Launch, SP!Launch, Sender!writeStream, SP!writeStream

(* The other steps, and the start.                                          *)
LEMMA SameRest ==
    /\ Sender!Init => SP!Init
    /\ \A s : Sender!write(s) => SP!write(s)
    /\ \A s, l : Sender!maxStreamData(s, l) => SP!maxStreamData(s, l)
    /\ \A l : Sender!maxData(l) => SP!maxData(l)
    /\ \A f : (Sender!arrive(f) => SP!arrive(f)) /\ (Sender!Reach(f) => SP!Reach(f))
<1>1. Sender!Init => SP!Init
  BY ZenonT(60) DEF Sender!Init, SP!Init, Sender!NewStream, SP!NewStream
<1>2. \A s : Sender!write(s) => SP!write(s)
  BY ZenonT(60) DEF Sender!write, SP!write
<1>3. \A s, l : Sender!maxStreamData(s, l) => SP!maxStreamData(s, l)
  BY ZenonT(60) DEF Sender!maxStreamData, SP!maxStreamData
<1>4. \A l : Sender!maxData(l) => SP!maxData(l)
  BY ZenonT(60) DEF Sender!maxData, SP!maxData
<1>5. \A f : (Sender!arrive(f) => SP!arrive(f)) /\ (Sender!Reach(f) => SP!Reach(f))
  BY ZenonT(60) DEF Sender!arrive, SP!arrive, Sender!Reach, SP!Reach
<1> QED
  BY ZenonT(60), <1>1, <1>2, <1>3, <1>4, <1>5

(* What the sender's invariant says of one half.                            *)
LEMMA HalfGives ==
    ASSUME SP!SendInv, NEW s \in Streams
    PROVE  /\ send[s].sent <= send[s].written /\ send[s].sent <= send[s].limit
           /\ LostOK(send[s])
           /\ \A f \in flight : f.stream = s /\ f.kind = "stream" =>
                 /\ f.low <= f.high /\ f.high <= send[s].sent
                 /\ f.fin => send[s].finQueued /\ f.high = send[s].written
<1> DEFINE d == send[s]
<1>1. /\ d.sent <= d.written /\ d.sent <= d.limit /\ SP!Offsets(d.lost) \subseteq 0..d.sent - 1
      /\ \A f \in flight : f.stream = s => SP!Framed(d, peer[s], f)
  BY ZenonT(60) DEF SP!SendInv, SP!StreamOK, SP!Ordered
<1>2. d \in SP!Halves
  BY ZenonT(60) DEF SP!SendInv, SP!Types
<1>3. d.sent \in Nat /\ d.lost \in Seq([low : Nat, high : Nat]) /\ SP!Apart(d.lost)
  BY ZenonT(60), <1>2 DEF SP!Halves, SP!Lists, SP!Ranges
<1> HIDE DEF d
<1>4. LostOK(d)
  BY ZenonT(60), <1>1, <1>3, FirstLost DEF Sender!Apart, SP!Apart, Sender!Offsets, SP!Offsets
<1> QED
  BY ZenonT(60), <1>1, <1>4 DEF SP!Framed, d

(* The sender's invariant gives what the link needs of it.                  *)
LEMMA SendGives ==
    ASSUME TransferConstants, SP!SendInv
    PROVE  SendFacts(SP!Lists)
<1>1. /\ send \in [Streams -> SP!Halves] /\ sentBytes \in Nat /\ sendLimit \in Nat
      /\ flight \subseteq SP!Frames /\ sentBytes <= sendLimit
  BY ZenonT(60) DEF SP!SendInv, SP!Types
<1>2. SP!Halves = Half(SP!Lists) /\ SP!Frames = Packets
  BY ZenonT(60) DEF SP!Halves, Half, SP!Frames, Packets, SP!Kinds
<1>3. \A s \in Streams : send[s].sent <= send[s].written /\ send[s].sent <= send[s].limit /\ LostOK(send[s])
  BY ZenonT(60), HalfGives
<1>4. ASSUME NEW f \in flight, f.kind = "stream" PROVE FrameOK(send, f)
  <2>1. f \in Packets
    BY ZenonT(60), <1>1, <1>2
  <2>2. f.stream \in Streams
    BY ZenonT(60), <2>1 DEF Packets
  <2>3. /\ f.low <= f.high /\ f.high <= send[f.stream].sent
        /\ f.fin => send[f.stream].finQueued /\ f.high = send[f.stream].written
    BY ZenonT(60), <2>2, <1>4, HalfGives
  <2> QED
    BY ZenonT(60), <2>1, <2>3, <1>4 DEF FrameOK
<1> QED
  BY ZenonT(60), <1>1, <1>2, <1>3, <1>4 DEF SendFacts

(* A step of the whole is a step of the sender, or leaves it alone.         *)
LEMMA SendStep ==
    ASSUME Linked, [Next]_vars
    PROVE  [SP!Steps]_(SP!vars)
<1>1. SenderActs
  BY ZenonT(60), SenderDoes
<1>2. Packets = SP!Frames
  BY ZenonT(60) DEF Packets, SP!Frames, SP!Kinds
<1> QED
  BY ZenonT(60), <1>1, <1>2, SameRest, SameSend, SameAcked, SameLost
     DEF SenderActs, sendVars, SP!vars, SP!Steps, SP!Late

(* So the sender's invariant is kept.                                       *)
LEMMA SendKept ==
    ASSUME TransferConstants
    PROVE  /\ Init => SP!SendInv
           /\ SP!SendInv /\ Linked /\ [Next]_vars => SP!SendInv'
<1>1. SP!SendConstants
  BY SMTT(30) DEF SP!SendConstants, TransferConstants
<1> QED
  BY ZenonT(60), <1>1, SameRest, SendStep, SP!InitKeeps, SP!StepKeeps DEF Init

-----------------------------------------------------------------------------
(* The inductive invariant of the whole.                                    *)
TransferInv == SP!SendInv /\ RP!ReceiveInv /\ Linked

(* It holds at the start, where the whole is a byte stream's start; every   *)
(* step keeps it, and is a step of a byte stream or leaves it alone.        *)
LEMMA TransferStep ==
    ASSUME TransferConstants
    PROVE  /\ Init => TransferInv /\ Stream!Init
           /\ TransferInv /\ [Next]_vars => TransferInv' /\ [Stream!Next]_(Stream!vars)
  BY ZenonT(60), ReceiverStart, ReceiverKeeps, SendKept, SendGives DEF TransferInv, Keeps

(* The two ends agree whatever the network does: no end receives what was   *)
(* not sent, or is told of a limit that was not granted, and the receiver   *)
(* never closes the connection over what writeOneStream sent.               *)
THEOREM EndsAgree ==
    ASSUME TransferConstants
    PROVE  Spec => []TransferInv
<1>1. (Init => TransferInv) /\ (TransferInv /\ [Next]_vars => TransferInv')
  BY ZenonT(60), TransferStep
<1> QED
  BY <1>1, PTL DEF Spec

(* The sending half, the receiving half and the network between them, with  *)
(* packets lost, late and out of order and limits lost and told again, are  *)
(* an ordered byte stream that does not fail: what the reader reads is what *)
(* was written, each byte once and in order, and it is told of the end when *)
(* it has been given all.                                                   *)
THEOREM TransferIsByteStream ==
    ASSUME TransferConstants
    PROVE  Spec => IsByteStream
<1>1. /\ Init => TransferInv /\ Stream!Init
      /\ TransferInv /\ [Next]_vars => TransferInv' /\ [Stream!Next]_(Stream!vars)
  BY ZenonT(60), TransferStep
<1> QED
  BY <1>1, PTL DEF Spec, IsByteStream, Stream!Spec

=============================================================================
