--------------------------- MODULE MCQUICStreams ----------------------------
(* The streams of a QUIC connection: the sending and the receiving half,    *)
(* the life of a stream, and the list of ranges they use, each on small     *)
(* instances of its own.  SendResetIsLast, SendResetWithinLimit,            *)
(* LifeEndTold and LifeAnswered are what comments say and the code does not *)
(* do; README.md has the instances that show it.                            *)
EXTENDS Naturals

CONSTANTS
    Instances,      \* the instances that are run
    Unknown         \* no final size yet

VARIABLES
    instance,       \* the one this behaviour is of
    send, sentBytes, sendLimit, flight, peer, ends,
    receive, receivedBytes, receiveLimit, receiveClosed, consumed, arrived,
    streams, highest, localMax, maxStreamsPending, writable, writableSet, lifeClosed,
    lifeFlight, lifePeer, asked, retired, unanswered, lost,
    ranges, offsets

Off == "off"        \* the variables of the modules it is not of

-----------------------------------------------------------------------------
(* One sending half under its limits; handshake bytes, which a probe        *)
(* timeout owes again; two halves that share the connection's limit, with   *)
(* more bytes or with more packets in flight.  The last two meet a reset.   *)
SendBounds == [
    send_one |-> [Streams |-> {"s1"}, Crypto |-> FALSE, Tight |-> FALSE,
        InitialLimit |-> 2, InitialData |-> 3, MaxLimit |-> 4, MaxWritten |-> 4,
        MaxFrame |-> 3, MaxFlight |-> 3],
    send_crypto |-> [Streams |-> {"s1"}, Crypto |-> TRUE, Tight |-> FALSE,
        InitialLimit |-> 3, InitialData |-> 3, MaxLimit |-> 4, MaxWritten |-> 4,
        MaxFrame |-> 3, MaxFlight |-> 3],
    send_two |-> [Streams |-> {"s1", "s2"}, Crypto |-> FALSE, Tight |-> FALSE,
        InitialLimit |-> 1, InitialData |-> 1, MaxLimit |-> 2, MaxWritten |-> 2,
        MaxFrame |-> 1, MaxFlight |-> 1],
    send_share |-> [Streams |-> {"s1", "s2"}, Crypto |-> FALSE, Tight |-> FALSE,
        InitialLimit |-> 1, InitialData |-> 1, MaxLimit |-> 2, MaxWritten |-> 1,
        MaxFrame |-> 1, MaxFlight |-> 2],
    send_reset |-> [Streams |-> {"s1"}, Crypto |-> FALSE, Tight |-> FALSE,
        InitialLimit |-> 1, InitialData |-> 2, MaxLimit |-> 4, MaxWritten |-> 3,
        MaxFrame |-> 2, MaxFlight |-> 2],
    send_room |-> [Streams |-> {"s1"}, Crypto |-> FALSE, Tight |-> TRUE,
        InitialLimit |-> 1, InitialData |-> 1, MaxLimit |-> 2, MaxWritten |-> 2,
        MaxFrame |-> 1, MaxFlight |-> 2]]

sendVars == <<send, sentBytes, sendLimit, flight, peer, ends>>
SendInstances == Instances \cap DOMAIN SendBounds
Send(k) == INSTANCE QUICSendStream WITH
    Streams <- SendBounds[k].Streams, Crypto <- SendBounds[k].Crypto,
    Tight <- SendBounds[k].Tight, InitialLimit <- SendBounds[k].InitialLimit,
    InitialData <- SendBounds[k].InitialData, MaxLimit <- SendBounds[k].MaxLimit,
    MaxWritten <- SendBounds[k].MaxWritten, MaxFrame <- SendBounds[k].MaxFrame,
    MaxFlight <- SendBounds[k].MaxFlight

SendOff ==
    /\ send = Off /\ sentBytes = Off /\ sendLimit = Off /\ flight = Off
    /\ peer = Off /\ ends = Off

-----------------------------------------------------------------------------
(* One receiving half with a window of six bytes, and two that share a      *)
(* limit of three.                                                          *)
ReceiveBounds == [
    receive_one |-> [Streams |-> {"s1"}, InitialMaxStreamData |-> 6,
        InitialMaxData |-> 7, MaxOffset |-> 9],
    receive_two |-> [Streams |-> {"s1", "s2"}, InitialMaxStreamData |-> 2,
        InitialMaxData |-> 3, MaxOffset |-> 4]]

receiveVars == <<receive, receivedBytes, receiveLimit, receiveClosed, consumed, arrived>>
ReceiveInstances == Instances \cap DOMAIN ReceiveBounds
Receive(k) == INSTANCE QUICReceiveStream WITH
    Streams <- ReceiveBounds[k].Streams,
    InitialMaxStreamData <- ReceiveBounds[k].InitialMaxStreamData,
    InitialMaxData <- ReceiveBounds[k].InitialMaxData,
    MaxOffset <- ReceiveBounds[k].MaxOffset, closed <- receiveClosed

ReceiveOff ==
    /\ receive = Off /\ receivedBytes = Off /\ receiveLimit = Off /\ receiveClosed = Off
    /\ consumed = Off /\ arrived = Off

-----------------------------------------------------------------------------
(* Two streams from opening to release; one whose window is raised and      *)
(* told.  The last four lose what the client has to be told, or speak of a  *)
(* stream that is gone.                                                     *)
LifeBounds == [
    life_two |-> [MaxIndex |-> 1, MaxLimit |-> 0, MaxFlight |-> 2, MaxLost |-> 1,
        CanReset |-> TRUE, LossByAck |-> TRUE, LossByTimer |-> TRUE],
    life_limit |-> [MaxIndex |-> 0, MaxLimit |-> 2, MaxFlight |-> 2, MaxLost |-> 2,
        CanReset |-> FALSE, LossByAck |-> FALSE, LossByTimer |-> TRUE],
    life_limit_ack |-> [MaxIndex |-> 0, MaxLimit |-> 1, MaxFlight |-> 1,
        MaxLost |-> 1, CanReset |-> FALSE, LossByAck |-> TRUE, LossByTimer |-> FALSE],
    life_limit_reset |-> [MaxIndex |-> 0, MaxLimit |-> 1, MaxFlight |-> 1,
        MaxLost |-> 0, CanReset |-> TRUE, LossByAck |-> FALSE, LossByTimer |-> FALSE],
    life_end |-> [MaxIndex |-> 0, MaxLimit |-> 0, MaxFlight |-> 1, MaxLost |-> 1,
        CanReset |-> TRUE, LossByAck |-> TRUE, LossByTimer |-> FALSE],
    life_gone |-> [MaxIndex |-> 0, MaxLimit |-> 0, MaxFlight |-> 1, MaxLost |-> 0,
        CanReset |-> FALSE, LossByAck |-> FALSE, LossByTimer |-> FALSE]]

lifeVars == <<streams, highest, localMax, maxStreamsPending, writable, writableSet,
              lifeClosed, lifeFlight, lifePeer, asked, retired, unanswered, lost>>
LifeInstances == Instances \cap DOMAIN LifeBounds
Life(k) == INSTANCE QUICStreams WITH
    InitialMax <- 1, MaxIndex <- LifeBounds[k].MaxIndex,
    MaxLimit <- LifeBounds[k].MaxLimit, MaxFlight <- LifeBounds[k].MaxFlight,
    MaxLost <- LifeBounds[k].MaxLost, CanReset <- LifeBounds[k].CanReset,
    LossByAck <- LifeBounds[k].LossByAck, LossByTimer <- LifeBounds[k].LossByTimer,
    closed <- lifeClosed, flight <- lifeFlight, peer <- lifePeer

LifeOff ==
    /\ streams = Off /\ highest = Off /\ localMax = Off /\ maxStreamsPending = Off
    /\ writable = Off /\ writableSet = Off /\ lifeClosed = Off /\ lifeFlight = Off
    /\ lifePeer = Off /\ asked = Off /\ retired = Off /\ unanswered = Off
    /\ lost = Off

-----------------------------------------------------------------------------
(* The list of ranges under any sequence of its methods.                    *)
RangeBounds == [
    ranges |-> [MaxOffset |-> 9]]

rangeVars == <<ranges, offsets>>
RangeInstances == Instances \cap DOMAIN RangeBounds
Range(k) == INSTANCE ByteRangesMethods WITH
    MaxOffset <- RangeBounds[k].MaxOffset

RangeOff ==
    /\ ranges = Off /\ offsets = Off

-----------------------------------------------------------------------------
Init ==
    \/ \E k \in SendInstances :
        instance = k /\ Send(k)!Init /\ ReceiveOff /\ LifeOff /\ RangeOff
    \/ \E k \in ReceiveInstances :
        instance = k /\ Receive(k)!Init /\ SendOff /\ LifeOff /\ RangeOff
    \/ \E k \in LifeInstances :
        instance = k /\ Life(k)!Init /\ SendOff /\ ReceiveOff /\ RangeOff
    \/ \E k \in RangeInstances :
        instance = k /\ Range(k)!Init /\ SendOff /\ ReceiveOff /\ LifeOff

vars == <<instance, sendVars, receiveVars, lifeVars, rangeVars>>

Next ==
    /\ UNCHANGED instance
    /\ \/ \E k \in SendInstances : instance = k /\ Send(k)!Next /\ UNCHANGED <<receiveVars, lifeVars, rangeVars>>
       \/ \E k \in ReceiveInstances : instance = k /\ Receive(k)!Next /\ UNCHANGED <<sendVars, lifeVars, rangeVars>>
       \/ \E k \in LifeInstances : instance = k /\ Life(k)!Next /\ UNCHANGED <<sendVars, receiveVars, rangeVars>>
       \/ \E k \in RangeInstances : instance = k /\ Range(k)!Next /\ UNCHANGED <<sendVars, receiveVars, lifeVars>>

Spec == Init /\ [][Next]_vars

-----------------------------------------------------------------------------
(* QUICByteRanges add, subtract, removeBelow, removeFirst, contiguousEnd:   *)
(* whatever was done before, the list stays ascending, non-empty and apart, *)
(* which the binary search of firstIndex relies on, and each method has     *)
(* exactly the effect on the set of offsets that its comment claims.        *)
RangesAreSets ==
    \A k \in RangeInstances : instance = k =>
        /\ Range(k)!Ascending
        /\ Range(k)!SameOffsets
        /\ Range(k)!RunFromBase

(* acknowledge, declareLost, writeOneStream, slice, writeStreamFrames:      *)
(* every byte that was put in a packet, and the end, is acknowledged, in    *)
(* flight, or owed again, and only one of these but for handshake bytes,    *)
(* which a probe repeats; what is owed is still in the buffer, and its      *)
(* stream in the list the sender walks.                                     *)
SendAccounted ==
    \A k \in SendInstances : instance = k =>
        /\ Send(k)!TypeOK
        /\ Send(k)!NothingForgotten
        /\ Send(k)!NothingTwice
        /\ Send(k)!SliceHeld
        /\ Send(k)!OwesIsListed

(* isDrained, writeOneStream, writeStreamFrames: a half that counts as      *)
(* drained, and may be forgotten, has arrived whole, its end included; both *)
(* of the peer's limits are kept, whatever is sent again and however        *)
(* streams share them; and the peer is never told two different ends of a   *)
(* stream, nor an end it has data past.                                     *)
SendKeepsPromises ==
    \A k \in SendInstances : instance = k =>
        /\ Send(k)!DrainedHasArrived
        /\ Send(k)!WithinLimits
        /\ Send(k)!OneEnd

(* writeStreamFrames: "A reset stream sends no more data."                  *)
SendResetIsLast ==
    [][\A k \in SendInstances : instance = k => Send(k)!ResetIsLast]_vars

(* RESET_STREAM takes no more of the peer's window than it has granted.     *)
SendResetWithinLimit == \A k \in SendInstances : instance = k => Send(k)!ResetWithinLimit

(* handleStream, handleResetStream, insertEarly, drainEarly,                *)
(* extendStreamWindow: the application reads a stream's bytes in order,     *)
(* each once, whatever order and overlap they arrive in; early data is kept *)
(* once, in disjoint pieces above what is ready; no byte of an accepted     *)
(* frame is dropped; a stream that finished without a reset is whole; what  *)
(* is not read yet fits the window, and the connection's count is the sum   *)
(* of the highest offsets of its streams, within its limit.                 *)
ReceiveInOrder ==
    \A k \in ReceiveInstances : instance = k =>
        /\ Receive(k)!InOrder
        /\ Receive(k)!EarlyDisjoint
        /\ Receive(k)!NothingDropped
        /\ Receive(k)!FinishedIsWhole
        /\ Receive(k)!Bounded
        /\ Receive(k)!CountedOnce

(* openOrFind, retireIfFinished, markWritable, writeStreamFrames: the       *)
(* client never has more streams open than it was allowed, a stream that    *)
(* was forgotten is never opened again, a raised limit on streams reaches   *)
(* the client or is owed whatever packets are lost, and a stream with       *)
(* something to send is in the list exactly once.                           *)
LifeStreamsKept ==
    \A k \in LifeInstances : instance = k =>
        /\ Life(k)!ConcurrencyKept
        /\ Life(k)!MaxStreamsTold
        /\ Life(k)!ListedOnce

(* onPacketLostPublic, writeStreamFrames: a stream's raised limit, and      *)
(* while it is kept its RESET_STREAM or STOP_SENDING, has reached the       *)
(* client, is on its way, or is owed.                                       *)
LifeTold ==
    \A k \in LifeInstances : instance = k =>
        /\ Life(k)!KeptEndTold
        /\ Life(k)!LimitTold

(* handleStream, handleResetStream, retireIfFinished: a final size, once    *)
(* known from a FIN or a RESET_STREAM, never changes, and nothing is taken  *)
(* past it; only a stream the application has released is forgotten, and    *)
(* only when its data is out or it was reset.                               *)
SettledStays ==
    [][/\ \A k \in ReceiveInstances : instance = k => Receive(k)!FinalSizeFixed
       /\ \A k \in LifeInstances : instance = k => Life(k)!KeptUntilReleased]_vars

(* An end the application asked for reaches the client, whether the stream  *)
(* is kept or not.                                                          *)
LifeEndTold == \A k \in LifeInstances : instance = k => Life(k)!EndTold

(* processFrames: a packet whose frames were processed is acknowledged      *)
(* unless the connection is closing.                                        *)
LifeAnswered == \A k \in LifeInstances : instance = k => Life(k)!Answered
=============================================================================
