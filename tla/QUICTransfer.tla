---------------------------- MODULE QUICTransfer ----------------------------
(* One direction of a connection's streams from end to end: the sending     *)
(* half (QUICSendStream), the receiving half (QUICReceiveStream), and       *)
(* between them a network that loses, delays and reorders packets both      *)
(* ways.  The way back carries what the two halves do not have: the limits  *)
(* that extendStreamWindow raises, put in packets by writeStreamFrames and  *)
(* buildPacket (QUICSend.swift) and told again by onPacketLost              *)
(* (QUICConnection.swift) or onPacketLostPublic (QUICSend.swift).           *)
(* The writer ends its streams and does not reset them.                     *)
EXTENDS Naturals, Sequences, FiniteSets

CONSTANTS
    Streams,
    Unknown,            \* no final size yet
    StreamWindow,       \* config.initialMaxStreamData of the receiver
    DataWindow,         \* config.initialMaxData of the receiver
    MaxWritten,         \* bound: bytes written on a stream
    MaxFrame,           \* bound: bytes that fit in a packet
    MaxFlight,          \* bound: packets of data in flight
    MaxLate,            \* bound: packets that arrive after they were called lost
    MaxGrants           \* bound: packets in flight with the same limit

VARIABLES
    send, sentBytes, sendLimit, flight, peer, ends,
    receive, receivedBytes, receiveLimit, closed, consumed, arrived,
    late,               \* frames called lost that the network still has
    announced,          \* stream -> receive.announced: the limit last put in a packet
    listed,             \* stream -> whether the receiver's list of writable streams has it
    maxDataPending,
    grants              \* packets with a limit, neither acknowledged nor declared lost

sendVars == <<send, sentBytes, sendLimit, flight, peer, ends>>
receiveVars == <<receive, receivedBytes, receiveLimit, closed, consumed, arrived>>
grantVars == <<announced, listed, maxDataPending, grants>>
vars == <<sendVars, receiveVars, late, grantVars>>

Sender == INSTANCE QUICSendStream WITH
    Crypto <- FALSE, Tight <- FALSE, InitialLimit <- StreamWindow, InitialData <- DataWindow,
    MaxLimit <- MaxWritten

Receiver == INSTANCE QUICReceiveStream WITH
    InitialMaxStreamData <- StreamWindow, InitialMaxData <- DataWindow, MaxOffset <- MaxWritten

Init ==
    /\ Sender!Init /\ Receiver!Init
    /\ late = {}
    /\ announced = [s \in Streams |-> StreamWindow]
    /\ listed = [s \in Streams |-> FALSE]
    /\ maxDataPending = FALSE
    /\ grants = {}

-----------------------------------------------------------------------------
(* The writing application, and the sender at its turns.                    *)
Write(s) == Sender!write(s) /\ UNCHANGED <<receiveVars, late, grantVars>>
Send(s) == Sender!writeStream(s) /\ UNCHANGED <<receiveVars, late, grantVars>>

Handle(f) == Receiver!handleStream(f.stream, f.low, f.high, f.fin)

Arrive(f) == Sender!arrive(f) /\ Handle(f) /\ UNCHANGED <<late, grantVars>>

Acknowledged(f) == Sender!onPacketAcked(f) /\ UNCHANGED <<receiveVars, late, grantVars>>

(* A packet called lost may be on its way all the same.                     *)
Lost(f) ==
    /\ Sender!onPacketLost(f)
    /\ \/ UNCHANGED late
       \/ ~f.arrived /\ Cardinality(late) < MaxLate /\ late' = late \cup {f}
    /\ UNCHANGED <<receiveVars, grantVars>>

ArriveLate(f) ==
    /\ f \in late /\ Handle(f) /\ Sender!Reach(f)
    /\ late' = late \ {f}
    /\ UNCHANGED <<send, sentBytes, sendLimit, flight, ends, grantVars>>

-----------------------------------------------------------------------------
(* The reading application reads and calls extendStreamWindow: a limit that *)
(* it raised waits to be told.                                              *)
Read(s, n) ==
    /\ n > 0 /\ Receiver!extendStreamWindow(s, n)
    /\ listed' = [listed EXCEPT ![s] = @ \/ receive'[s].limit # receive[s].limit]
    /\ maxDataPending' = (maxDataPending \/ receiveLimit' # receiveLimit)
    /\ UNCHANGED <<sendVars, late, announced, grants>>

GrantsOf(kind, s) == {g \in grants : g.kind = kind /\ g.stream = s}
Announce(kind, s, limit) ==
    /\ Cardinality(GrantsOf(kind, s)) < MaxGrants
    /\ grants' = grants \cup {[kind |-> kind, stream |-> s, limit |-> limit, arrived |-> FALSE]}

(* The receiver's turn at a listed stream in writeStreamFrames: a limit     *)
(* above the one announced is written, once per raise.  The stream has      *)
(* nothing else to send and leaves the list.  A packet has room for the     *)
(* frame.                                                                   *)
WriteStreamLimit(s) ==
    /\ listed[s]
    /\ IF receive[s].limit > announced[s]
       THEN /\ Announce("stream", s, receive[s].limit)
            /\ announced' = [announced EXCEPT ![s] = receive[s].limit]
       ELSE UNCHANGED <<grants, announced>>
    /\ listed' = [listed EXCEPT ![s] = FALSE]
    /\ UNCHANGED <<sendVars, receiveVars, late, maxDataPending>>

WriteDataLimit ==
    /\ maxDataPending /\ Announce("data", "all", receiveLimit)
    /\ maxDataPending' = FALSE
    /\ UNCHANGED <<sendVars, receiveVars, late, announced, listed>>

-----------------------------------------------------------------------------
Raises(g) == g.limit > IF g.kind = "data" THEN sendLimit ELSE send[g.stream].limit

ArriveGrant(g) ==
    /\ g \in grants /\ ~g.arrived
    /\ grants' = (grants \ {g}) \cup {[g EXCEPT !.arrived = TRUE]}
    /\ \/ g.kind = "stream" /\ Sender!maxStreamData(g.stream, g.limit)
       \/ g.kind = "data" /\ Sender!maxData(g.limit)
       \/ ~Raises(g) /\ UNCHANGED sendVars
    /\ UNCHANGED <<receiveVars, late, announced, listed, maxDataPending>>

GrantAcknowledged(g) ==
    /\ g \in grants /\ g.arrived
    /\ grants' = grants \ {g}
    /\ UNCHANGED <<sendVars, receiveVars, late, announced, listed, maxDataPending>>

(* The packet is called lost.  The loss timer's path (onPacketLostPublic)   *)
(* takes the announcement back; that of an acknowledgement (onPacketLost)   *)
(* lists the stream and leaves `announced' where it is.                     *)
GrantLost(g, byTimer) ==
    /\ g \in grants
    /\ grants' = grants \ {g}
    /\ \/ /\ g.kind = "data"
          /\ maxDataPending' = TRUE
          /\ UNCHANGED <<announced, listed>>
       \/ /\ g.kind = "stream"
          /\ announced' = [announced EXCEPT ![g.stream] = IF byTimer THEN 0 ELSE @]
          /\ listed' = [listed EXCEPT ![g.stream] = TRUE]
          /\ UNCHANGED maxDataPending
    /\ UNCHANGED <<sendVars, receiveVars, late>>

Next ==
    \/ \E s \in Streams :
        \/ Write(s) \/ Send(s) \/ WriteStreamLimit(s)
        \/ \E n \in 1..MaxWritten : Read(s, n)
    \/ \E f \in flight : Arrive(f) \/ Acknowledged(f) \/ Lost(f)
    \/ \E f \in late : ArriveLate(f)
    \/ WriteDataLimit
    \/ \E g \in grants :
        ArriveGrant(g) \/ GrantAcknowledged(g) \/ \E byTimer \in BOOLEAN : GrantLost(g, byTimer)

Spec == Init /\ [][Next]_vars

-----------------------------------------------------------------------------
ArriveSome == \E f \in flight : Arrive(f)
AcknowledgedSome == \E f \in flight : Acknowledged(f)
ArriveRaise == \E g \in grants : Raises(g) /\ ArriveGrant(g)
GrantSettled == \E g \in grants : g.arrived /\ (GrantAcknowledged(g) \/ GrantLost(g, TRUE))

(* Both ends are polled while they have something to send (hasOutput), and  *)
(* the reader reads.  The network does not lose for ever all that is sent   *)
(* again and again, nor all the acknowledgements.                           *)
Fairness ==
    /\ \A s \in Streams :
        /\ WF_vars(Send(s)) /\ WF_vars(WriteStreamLimit(s))
        /\ WF_vars(\E n \in 1..MaxWritten : Read(s, n))
    /\ WF_vars(WriteDataLimit) /\ WF_vars(GrantSettled)
    /\ SF_vars(ArriveSome) /\ SF_vars(AcknowledgedSome) /\ SF_vars(ArriveRaise)

FairSpec == Spec /\ Fairness

-----------------------------------------------------------------------------
(* The two halves and the network implement an ordered byte stream that     *)
(* does not fail: handleStream never finds a flow control or final size     *)
(* error in what writeOneStream sent, however late and in whatever order it *)
(* and the limits arrive.                                                   *)
Stream == INSTANCE ByteStream WITH
    written <- [s \in Streams |-> send[s].written],
    ended <- [s \in Streams |-> send[s].finQueued],
    given <- [s \in Streams |-> receive[s].received],
    read <- consumed,
    told <- [s \in Streams |-> receive[s].finished],
    failed <- closed
IsByteStream == Stream!Spec

ReadWhole(s) == receive[s].finished /\ Len(consumed[s]) = send[s].written

(* The peer has not heard of a raised limit, and nothing will tell it: the  *)
(* loss of its packet was found by an acknowledgement.                      *)
Unheard(s) ==
    /\ receive[s].limit > send[s].limit /\ announced[s] = receive[s].limit
    /\ \A g \in GrantsOf("stream", s) : g.limit # receive[s].limit

(* A stream that its writer has ended is read to its end, and its sender    *)
(* has nothing more to keep for it, unless onPacketLost has lost a limit.   *)
Transferred ==
    \A s \in Streams :
        send[s].finQueued ~> (ReadWhole(s) /\ Sender!isDrained(send[s])) \/ Unheard(s)

(* onPacketLost: "Control frames carry state, so what is re-sent is the     *)
(* current value rather than the one that was lost."  So a stream that its  *)
(* writer has ended is read to its end, whichever packets were lost.        *)
TransferredAlways ==
    \A s \in Streams : send[s].finQueued ~> ReadWhole(s)

=============================================================================
