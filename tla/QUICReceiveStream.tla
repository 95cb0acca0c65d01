-------------------------- MODULE QUICReceiveStream --------------------------
(***************************************************************************)
(* The receiving side of a connection's streams: QUICReceiveStream         *)
(* (src/Sources/AvianQUIC/QUICStream.swift) and the handlers that feed it  *)
(* (handleStream, handleResetStream, extendStreamWindow,                   *)
(* QUICConnection.swift).  The frames are any a peer can send, in any      *)
(* order, overlapping and repeated.  The byte sent at an offset is the     *)
(* offset itself, so that a byte in the wrong place shows.                 *)
(***************************************************************************)
EXTENDS Naturals, Sequences, FiniteSets

CONSTANTS
    Streams,
    Unknown,                \* no final size yet
    InitialMaxStreamData,   \* config.initialMaxStreamData
    InitialMaxData,         \* config.initialMaxData
    MaxOffset               \* bound: the offsets the peer uses

VARIABLES
    receive,                \* stream -> QUICReceiveStream
    receivedBytes, receiveLimit,
    closed,                 \* the connection was closed for an error of the peer's
    consumed,               \* stream -> the bytes the application has read
    arrived                 \* history: stream -> the offsets of accepted frames

vars == <<receive, receivedBytes, receiveLimit, closed, consumed, arrived>>

NewStream ==
    [ready |-> <<>>, received |-> 0, early |-> <<>>, highWater |-> 0, limit |-> InitialMaxStreamData,
     finalSize |-> Unknown, finished |-> FALSE, reset |-> FALSE]

Init ==
    /\ receive = [s \in Streams |-> NewStream]
    /\ receivedBytes = 0 /\ receiveLimit = InitialMaxData
    /\ closed = FALSE
    /\ consumed = [s \in Streams |-> <<>>]
    /\ arrived = [s \in Streams |-> {}]

-----------------------------------------------------------------------------
Lower(a, b) == IF a < b THEN a ELSE b
Higher(a, b) == IF a > b THEN a ELSE b

(* The bytes of a frame, and a piece of early data.                         *)
Bytes(low, high) == [k \in 1..high - low |-> low + k - 1]
End(h) == h.offset + Len(h.bytes)
Piece(low, high) ==
    IF low < high THEN <<[offset |-> low, bytes |-> Bytes(low, high)]>> ELSE <<>>

(* Only what is not held already is kept: the walk over the held pieces,    *)
(* each put back after the gap before it.                                   *)
Walk(acc, h, high) ==
    IF End(h) <= acc.low THEN [acc EXCEPT !.kept = Append(@, h)]
    ELSE [low |-> Higher(acc.low, Lower(End(h), high)),
          kept |-> acc.kept \o Piece(acc.low, Lower(h.offset, high)) \o <<h>>]

insertEarly(early, low, high) ==
    LET walk[i \in 0..Len(early)] ==
            IF i = 0 THEN [low |-> low, kept |-> <<>>] ELSE Walk(walk[i - 1], early[i], high)
        end == walk[Len(early)]
    IN  end.kept \o Piece(end.low, high)

(* The early pieces that the bytes in order have reached.                   *)
Drain(acc, h) ==
    IF h.offset > acc.received THEN [acc EXCEPT !.early = Append(@, h)]
    ELSE IF End(h) <= acc.received THEN acc
    ELSE [acc EXCEPT !.ready = @ \o SubSeq(h.bytes, acc.received - h.offset + 1, Len(h.bytes)),
                     !.received = End(h)]

drainEarly(r) ==
    LET drain[i \in 0..Len(r.early)] ==
            IF i = 0 THEN [r EXCEPT !.early = <<>>] ELSE Drain(drain[i - 1], r.early[i])
    IN  drain[Len(r.early)]

checkFinished(r) ==
    [r EXCEPT !.finished = @ \/ (r.finalSize # Unknown /\ r.received >= r.finalSize)]

(* What accept refuses: past the limit, past the end, or another end.       *)
Refused(r, low, high, fin) ==
    \/ high > r.limit
    \/ IF r.finalSize # Unknown THEN high > r.finalSize \/ (fin /\ high # r.finalSize)
       ELSE fin /\ high < r.highWater

(* Mutant of Placed: bytes that are ready already are written again.        *)
PlacedAgain(r, low, high) ==
    IF high <= r.received THEN r
    ELSE IF low <= r.received
    THEN drainEarly([r EXCEPT !.ready = @ \o Bytes(low, high), !.received = high])
    ELSE [r EXCEPT !.early = insertEarly(@, low, high)]

(* The bytes of a frame that continue what is ready, or wait for it.        *)
Placed(r, low, high) ==
    IF high <= r.received THEN r
    ELSE IF low <= r.received
    THEN drainEarly([r EXCEPT !.ready = @ \o Bytes(r.received, high), !.received = high])
    ELSE [r EXCEPT !.early = insertEarly(@, low, high)]

accept(r, low, high, fin) ==
    checkFinished(Placed([r EXCEPT !.finalSize = IF fin /\ @ = Unknown THEN high ELSE @,
                                   !.highWater = Higher(@, high)], low, high))

-----------------------------------------------------------------------------
(* What a frame or a reset up to `high` adds to the connection's count.     *)
Growth(s, high) == IF high > receive[s].highWater THEN high - receive[s].highWater ELSE 0

Close == closed' = TRUE /\ UNCHANGED <<receive, consumed, arrived>>

(* A STREAM frame: the connection's limit, then the stream's own checks.    *)
handleStream(s, low, high, fin) ==
    /\ ~closed
    /\ IF receivedBytes + Growth(s, high) > receiveLimit
       THEN Close /\ UNCHANGED receivedBytes
       ELSE /\ receivedBytes' = receivedBytes + Growth(s, high)
            /\ IF Refused(receive[s], low, high, fin) THEN Close
               ELSE /\ receive' = [receive EXCEPT ![s] = accept(@, low, high, fin)]
                    /\ arrived' = [arrived EXCEPT ![s] = @ \cup (low..high - 1)]
                    /\ UNCHANGED <<closed, consumed>>
    /\ UNCHANGED receiveLimit

(* Mutant of handleResetStream: the end known before is not looked at.      *)
ResetAnySize(s, finalSize) ==
    LET r == receive[s] IN
    /\ ~closed
    /\ finalSize >= r.highWater /\ receivedBytes + Growth(s, finalSize) <= receiveLimit
    /\ receivedBytes' = receivedBytes + Growth(s, finalSize)
    /\ receive' = [receive EXCEPT ![s] =
           [r EXCEPT !.highWater = finalSize, !.finalSize = finalSize, !.finished = TRUE, !.reset = TRUE]]
    /\ UNCHANGED <<receiveLimit, closed, consumed, arrived>>

handleResetStream(s, finalSize) ==
    LET r == receive[s] IN
    /\ ~closed
    /\ IF \/ r.finalSize # Unknown /\ r.finalSize # finalSize
          \/ finalSize < r.highWater
          \/ receivedBytes + Growth(s, finalSize) > receiveLimit
       THEN Close /\ UNCHANGED receivedBytes
       ELSE /\ receivedBytes' = receivedBytes + Growth(s, finalSize)
            /\ receive' = [receive EXCEPT ![s] =
                   [r EXCEPT !.highWater = finalSize, !.finalSize = finalSize,
                             !.finished = TRUE, !.reset = TRUE]]
            /\ UNCHANGED <<closed, consumed, arrived>>
    /\ UNCHANGED receiveLimit

Granted(s) == Len(consumed'[s]) + InitialMaxStreamData

(* The application reads some of what is ready and calls                    *)
(* extendStreamWindow, which raises a limit that has fallen below half.     *)
extendStreamWindow(s, n) ==
    LET r == receive[s]
        data == receivedBytes + InitialMaxData
    IN  /\ ~closed
        /\ n <= Len(r.ready)
        /\ consumed' = [consumed EXCEPT ![s] = @ \o SubSeq(r.ready, 1, n)]
        /\ receive' = [receive EXCEPT ![s] =
                [r EXCEPT !.ready = SubSeq(@, n + 1, Len(@)),
                          !.limit = IF Granted(s) > @ + InitialMaxStreamData \div 2 THEN Granted(s) ELSE @]]
        /\ receiveLimit' = IF data > receiveLimit + InitialMaxData \div 2 THEN data ELSE receiveLimit
        /\ UNCHANGED <<receivedBytes, closed, arrived>>

Next ==
    \E s \in Streams :
        \/ \E low, high \in 0..MaxOffset, fin \in BOOLEAN : low <= high /\ handleStream(s, low, high, fin)
        \/ \E finalSize \in 0..MaxOffset : handleResetStream(s, finalSize)
        \/ \E n \in 1..MaxOffset : extendStreamWindow(s, n)

Spec == Init /\ [][Next]_vars

-----------------------------------------------------------------------------
(* The application reads the stream's bytes in order, each once, whatever   *)
(* order and overlap they arrive in.                                        *)
InOrder == \A s \in Streams : consumed[s] \o receive[s].ready = Bytes(0, receive[s].received)

(* Early data is held in disjoint pieces, lowest first, above what is       *)
(* ready, each with its own bytes; so it never holds more than the window.  *)
EarlyDisjoint ==
    \A s \in Streams : LET r == receive[s] IN
        /\ \A i \in 1..Len(r.early) :
            /\ r.early[i].bytes # <<>>
            /\ r.early[i].offset > r.received /\ End(r.early[i]) <= r.highWater
            /\ r.early[i].bytes = Bytes(r.early[i].offset, End(r.early[i]))
        /\ \A i, j \in 1..Len(r.early) : i < j => End(r.early[i]) <= r.early[j].offset

(* Nothing that was accepted is dropped.                                    *)
NothingDropped ==
    \A s \in Streams : LET r == receive[s] IN
        arrived[s] \subseteq (0..r.received - 1) \cup
            UNION {r.early[i].offset..End(r.early[i]) - 1 : i \in 1..Len(r.early)}

(* A stream that finished without a reset is whole, and ends where its FIN  *)
(* said.                                                                    *)
FinishedIsWhole ==
    \A s \in Streams : LET r == receive[s] IN
        r.finished /\ ~r.reset => r.received = r.finalSize /\ r.early = <<>>

(* A final size, once known, never changes, and nothing lies past it.       *)
FinalSizeFixed ==
    \A s \in Streams : receive[s].finalSize # Unknown =>
        /\ receive'[s].finalSize = receive[s].finalSize
        /\ receive'[s].highWater <= receive[s].finalSize

(* What the application has not read of a stream fits its window, and the   *)
(* connection counts the highest offset of every stream once.               *)
Bounded ==
    /\ \A s \in Streams : ~receive[s].reset =>
            receive[s].highWater <= Len(consumed[s]) + InitialMaxStreamData
    /\ ~closed => receivedBytes <= receiveLimit

(* The connection's count is the sum of its streams' highest offsets: the   *)
(* offsets below them, of all streams.                                      *)
Counted == UNION {{s} \X (0..receive[s].highWater - 1) : s \in Streams}
CountedOnce == ~closed => receivedBytes = Cardinality(Counted)

=============================================================================
