--------------------------- MODULE QUICSendStream ---------------------------
(***************************************************************************)
(* The sending side of a connection's streams: QUICSendStream              *)
(* (src/Sources/AvianQUIC/QUICStream.swift), what puts its bytes in        *)
(* packets (writeStreamFrames and writeOneStream, QUICSend.swift) and what *)
(* an acknowledgement or a loss does (onPacketAcked, onPacketLost,         *)
(* QUICConnection.swift).                                                  *)
(*                                                                         *)
(* Bytes are their offsets.  A packet holds one frame here: the code does  *)
(* the same for each of a packet's frames in turn, and settling them       *)
(* separately allows more, not less.  A packet in flight may be lost, may  *)
(* arrive and be acknowledged, or may arrive and be taken for lost.        *)
(***************************************************************************)
EXTENDS Naturals, Sequences, FiniteSets, ByteRanges

CONSTANTS
    Streams,
    Crypto,         \* TRUE: handshake bytes, which a probe timeout sends again
    Tight,          \* TRUE: a packet may have no room left for a RESET_STREAM
    InitialLimit,   \* the peer's first limit for a stream
    InitialData,    \* and for the connection
    MaxLimit,       \* bound: the limits the peer raises them to
    MaxWritten,     \* bound: bytes the application writes on a stream
    MaxFrame,       \* bound: bytes that fit in a packet
    MaxFlight       \* bound: packets in flight

VARIABLES
    send,           \* stream -> QUICSendStream, and whether it is in the writable list
    sentBytes, sendLimit,
    flight,         \* packets sent, neither acknowledged nor declared lost
    peer,           \* stream -> what has arrived: bytes, and whether the end has
    ends            \* history: stream -> the final sizes frames have claimed

vars == <<send, sentBytes, sendLimit, flight, peer, ends>>

NewStream ==
    [base |-> 0, written |-> 0, sent |-> 0, acked |-> <<>>, lost |-> <<>>, limit |-> InitialLimit,
     finQueued |-> FALSE, finSent |-> FALSE, finAcked |-> FALSE,
     reset |-> FALSE, resetSent |-> FALSE, resetAcked |-> FALSE, writable |-> FALSE]

(* A packet with one frame; copy is not 0 in flight, and tells apart those  *)
(* with the same frame.                                                     *)
Frame(s, kind, low, high, fin) ==
    [stream |-> s, kind |-> kind, low |-> low, high |-> high, fin |-> fin, arrived |-> FALSE, copy |-> 0]

Init ==
    /\ send = [s \in Streams |-> NewStream]
    /\ sentBytes = 0 /\ sendLimit = InitialData
    /\ flight = {}
    /\ peer = [s \in Streams |-> [bytes |-> {}, ended |-> FALSE]]
    /\ ends = [s \in Streams |-> {}]

-----------------------------------------------------------------------------
pending(d) == IF d.written > d.sent THEN d.written - d.sent ELSE 0
window(d) == IF d.limit > d.sent THEN d.limit - d.sent ELSE 0
isDrained(d) == d.written = d.base /\ d.lost = <<>> /\ (d.finQueued => d.finAcked)
owes(d) == pending(d) > 0 \/ d.lost # <<>> \/ (d.finQueued /\ ~d.finSent)

Copies(f) == {g.copy : g \in {h \in flight : [h EXCEPT !.arrived = FALSE, !.copy = 0] = f}}
Launch(f) ==
    /\ Cardinality(flight) < MaxFlight
    /\ \E n \in (1..MaxFlight) \ Copies(f) :
        /\ 1..n - 1 \subseteq Copies(f)
        /\ flight' = flight \cup {[f EXCEPT !.copy = n]}
Settle(f) == flight' = flight \ {f}

-----------------------------------------------------------------------------
(* The application: send, with an end that it does not write past, and      *)
(* resetStream, or the peer's STOP_SENDING, which does the same.            *)
write(s) ==
    LET d == send[s] IN
    /\ ~d.reset /\ ~d.finQueued
    /\ \E n \in 0..MaxWritten - d.written, fin \in BOOLEAN :
        /\ n > 0 \/ fin
        /\ Crypto => ~fin
        /\ send' = [send EXCEPT ![s] = [d EXCEPT !.written = @ + n, !.finQueued = fin, !.writable = TRUE]]
    /\ UNCHANGED <<sentBytes, sendLimit, flight, peer, ends>>

resetStream(s) ==
    /\ ~Crypto /\ ~send[s].reset
    /\ send' = [send EXCEPT ![s].reset = TRUE, ![s].writable = TRUE]
    /\ UNCHANGED <<sentBytes, sendLimit, flight, peer, ends>>

(* The peer raises a limit; a lower one, which came late, changes nothing.  *)
maxStreamData(s, limit) ==
    /\ ~Crypto /\ send[s].limit < limit
    /\ send' = [send EXCEPT ![s].limit = limit, ![s].writable = TRUE]
    /\ UNCHANGED <<sentBytes, sendLimit, flight, peer, ends>>

maxData(limit) ==
    /\ ~Crypto /\ sendLimit < limit
    /\ sendLimit' = limit
    /\ UNCHANGED <<send, sentBytes, flight, peer, ends>>

-----------------------------------------------------------------------------
(* A RESET_STREAM.  Without room for it the stream leaves the list all the  *)
(* same.                                                                    *)
writeReset(s) ==
    LET d == send[s]  f == Frame(s, "reset", d.written, d.written, TRUE) IN
    /\ d.writable /\ d.reset /\ ~d.resetSent
    /\ \/ /\ Launch(f)
          /\ send' = [send EXCEPT ![s] = [d EXCEPT !.resetSent = TRUE, !.writable = FALSE]]
          /\ ends' = [ends EXCEPT ![s] = @ \cup {d.written}]
       \/ /\ Tight
          /\ send' = [send EXCEPT ![s] = [d EXCEPT !.writable = FALSE]]
          /\ UNCHANGED <<flight, ends>>
    /\ UNCHANGED <<sentBytes, sendLimit, peer>>

(* The frame writeOneStream makes of a stream when n bytes fit, if any:     *)
(* lost bytes first, then new ones under both limits, then the end.         *)
Retransmits(d) == d.lost # <<>>
Offset(d) == IF Retransmits(d) THEN d.lost[1].low ELSE d.sent
Available(d) ==
    IF Retransmits(d) THEN d.lost[1].high - d.lost[1].low
    ELSE IF Crypto THEN pending(d)
    ELSE Lesser(pending(d), Lesser(window(d), IF sendLimit > sentBytes THEN sendLimit - sentBytes ELSE 0))
FinPending(d) == d.finQueued /\ ~d.finSent

FinOn(d, length) == ~Retransmits(d) /\ FinPending(d) /\ Offset(d) + length = d.written

(* Mutant of Wrote: the whole of the first lost range is taken for sent.    *)
WroteAll(d, length) ==
    [d EXCEPT !.lost = IF Retransmits(d) THEN Tail(d.lost) ELSE @,
              !.sent = Greater(@, Offset(d) + length),
              !.finSent = @ \/ FinOn(d, length)]

(* The stream after a frame of so many bytes.                               *)
Wrote(d, length) ==
    [d EXCEPT !.lost = IF Retransmits(d) THEN subtract(@, Offset(d), Offset(d) + length) ELSE @,
              !.sent = Greater(@, Offset(d) + length),
              !.finSent = @ \/ FinOn(d, length)]

writeStream(s) ==
    LET d == send[s] IN
    /\ d.writable /\ ~(d.reset /\ ~d.resetSent)
    /\ \/ \E n \in 1..MaxFrame :
            LET length == Lesser(Available(d), n)
                fin == FinOn(d, length)
                after == Wrote(d, length)
            IN  /\ length > 0 \/ (FinPending(d) /\ ~Retransmits(d) /\ Offset(d) = d.written)
                /\ Launch(Frame(s, "stream", Offset(d), Offset(d) + length, fin))
                /\ send' = [send EXCEPT ![s] = [after EXCEPT !.writable = owes(after)]]
                /\ sentBytes' = IF Retransmits(d) \/ Crypto THEN sentBytes ELSE sentBytes + length
                /\ ends' = [ends EXCEPT ![s] = IF fin THEN @ \cup {Offset(d) + length} ELSE @]
       \/ /\ Available(d) = 0 /\ ~(FinPending(d) /\ ~Retransmits(d) /\ Offset(d) = d.written)
          /\ d.writable # owes(d)
          /\ send' = [send EXCEPT ![s].writable = owes(d)]
          /\ UNCHANGED <<sentBytes, flight, ends>>
    /\ UNCHANGED <<sendLimit, peer>>

-----------------------------------------------------------------------------
Reach(f) ==
    peer' = [peer EXCEPT ![f.stream].bytes = @ \cup (f.low..f.high - 1),
                         ![f.stream].ended = @ \/ f.fin]

arrive(f) ==
    /\ f \in flight /\ ~f.arrived
    /\ flight' = (flight \ {f}) \cup {[f EXCEPT !.arrived = TRUE]}
    /\ Reach(f)
    /\ UNCHANGED <<send, sentBytes, sendLimit, ends>>

(* Mutant of acknowledge: whatever comes first is dropped.                  *)
AcknowledgeAll(d, low, high) ==
    [d EXCEPT !.acked = add(@, low, high), !.lost = subtract(@, low, high), !.base = Greater(@, high)]

acknowledge(d, low, high) ==
    LET acked == add(d.acked, low, high) IN
    [d EXCEPT !.acked = acked, !.lost = subtract(@, low, high),
              !.base = Greater(@, contiguousEnd(acked, @))]

onPacketAcked(f) ==
    LET d == send[f.stream] IN
    /\ f \in flight /\ f.arrived
    /\ Settle(f)
    /\ send' = [send EXCEPT ![f.stream] =
                    IF f.kind = "reset" THEN [d EXCEPT !.resetAcked = TRUE]
                    ELSE [acknowledge(d, f.low, f.high) EXCEPT !.finAcked = @ \/ f.fin]]
    /\ UNCHANGED <<sentBytes, sendLimit, peer, ends>>

(* The acknowledged bytes inside a range just added to lost, taken out of   *)
(* it again one acknowledged range at a time.                               *)
LessAcked(lost, acked, from, high) ==
    LET first == firstIndex(acked, from, FALSE)
        left[i \in first - 1..Len(acked)] ==
            IF i = first - 1 THEN lost
            ELSE IF acked[i].low >= high THEN left[i - 1]
            ELSE subtract(left[i - 1], Greater(acked[i].low, from), Lesser(acked[i].high, high))
    IN  left[Len(acked)]

declareLost(d, low, high) ==
    LET from == Greater(low, d.base) IN
    IF high <= from THEN d
    ELSE [d EXCEPT !.lost = LessAcked(add(@, from, high), d.acked, from, high)]

(* Mutant of onPacketLost: the end is not sent again.                       *)
LostWithoutFin(f) ==
    LET d == send[f.stream] IN
    /\ f \in flight
    /\ Settle(f)
    /\ send' = [send EXCEPT ![f.stream] =
                    IF f.kind = "reset" THEN [d EXCEPT !.resetSent = FALSE, !.writable = TRUE]
                    ELSE [declareLost(d, f.low, f.high) EXCEPT !.writable = TRUE]]
    /\ UNCHANGED <<sentBytes, sendLimit, peer, ends>>

onPacketLost(f) ==
    LET d == send[f.stream] IN
    /\ f \in flight
    /\ Settle(f)
    /\ send' = [send EXCEPT ![f.stream] =
                    IF f.kind = "reset" THEN [d EXCEPT !.resetSent = FALSE, !.writable = TRUE]
                    ELSE [declareLost(d, f.low, f.high)
                             EXCEPT !.finSent = @ /\ ~f.fin, !.writable = TRUE]]
    /\ UNCHANGED <<sentBytes, sendLimit, peer, ends>>

(* onTimeout: a probe timeout owes all unacknowledged handshake bytes again,*)
(* whatever is in flight.                                                   *)
onProbeTimeout(s) ==
    LET d == send[s] IN
    /\ Crypto /\ d.sent > d.base
    /\ send' = [send EXCEPT ![s] = [declareLost(d, d.base, d.sent) EXCEPT !.writable = TRUE]]
    /\ UNCHANGED <<sentBytes, sendLimit, flight, peer, ends>>

Next ==
    \/ \E s \in Streams :
        \/ write(s) \/ resetStream(s) \/ maxStreamData(s, MaxLimit)
        \/ writeReset(s) \/ writeStream(s) \/ onProbeTimeout(s)
    \/ maxData(MaxLimit)
    \/ \E f \in flight : arrive(f) \/ onPacketAcked(f) \/ onPacketLost(f)

Spec == Init /\ [][Next]_vars

-----------------------------------------------------------------------------
FlightOf(s) == {f \in flight : f.stream = s /\ f.kind = "stream"}
FlightBytes(s) == UNION {f.low..f.high - 1 : f \in FlightOf(s)}

(* The ranges are ranges, and the offsets in order.                         *)
TypeOK ==
    \A s \in Streams : LET d == send[s] IN
        /\ 0 <= d.base /\ d.base <= d.sent /\ d.sent <= d.written
        /\ Apart(d.acked) /\ Apart(d.lost)

(* No byte is forgotten: every byte that was put in a packet has been       *)
(* acknowledged, is in flight, or is owed again.                            *)
NothingForgotten ==
    \A s \in Streams : LET d == send[s] IN
        /\ 0..d.sent - 1 \subseteq Offsets(d.acked) \cup FlightBytes(s) \cup Offsets(d.lost)
        /\ d.finSent => d.finAcked \/ \E f \in FlightOf(s) : f.fin

(* What is owed is neither acknowledged nor (but for handshake bytes)       *)
(* still in flight, and no byte is in two packets.                          *)
NothingTwice ==
    \A s \in Streams : LET d == send[s] IN
        /\ Offsets(d.lost) \cap Offsets(d.acked) = {}
        /\ ~Crypto => /\ Offsets(d.lost) \cap FlightBytes(s) = {}
                      /\ \A f, g \in FlightOf(s) :
                            f # g => (f.low..f.high - 1) \cap (g.low..g.high - 1) = {}

(* The bytes a frame is made of are still in the buffer: `slice` never      *)
(* fails.                                                                   *)
SliceHeld == \A s \in Streams : Offset(send[s]) >= send[s].base /\ Offset(send[s]) + Available(send[s]) <= send[s].written

(* A stream that counts as drained, and may be forgotten, has arrived       *)
(* whole, its end included.                                                 *)
DrainedHasArrived ==
    \A s \in Streams : isDrained(send[s]) =>
        /\ 0..send[s].written - 1 \subseteq peer[s].bytes
        /\ send[s].finQueued => peer[s].ended

(* Both of the peer's limits are kept, whatever is sent again.              *)
WithinLimits ==
    ~Crypto =>
        /\ \A s \in Streams : send[s].sent <= send[s].limit
        /\ sentBytes <= sendLimit

(* The peer is never told two different ends of a stream, nor an end it has *)
(* data past.                                                               *)
OneEnd == \A s \in Streams : \A e \in ends[s] : ends[s] = {e} /\ send[s].sent <= e

(* A stream with something to send is in the list the sender walks.         *)
OwesIsListed ==
    \A s \in Streams : LET d == send[s] IN
        d.writable \/ IF d.reset THEN d.resetSent
                      ELSE d.sent = d.written /\ d.lost = <<>> /\ ~FinPending(d)

(* A reset stream sends no more new data.                                   *)
ResetIsLast == \A s \in Streams : send[s].resetSent => send'[s].sent = send[s].sent

(* A RESET_STREAM takes no more of the peer's window than it has granted.   *)
ResetWithinLimit ==
    \A f \in flight : f.kind = "reset" => f.high <= send[f.stream].limit

=============================================================================
