----------------------------- MODULE QUICStreams -----------------------------
(***************************************************************************)
(* The life of the streams a client opens on a connection                  *)
(* (src/Sources/AvianQUIC/QUICConnection.swift and QUICSend.swift): opened *)
(* by a frame together with all lower ones, listed when they have          *)
(* something to send, released by the application, and forgotten by        *)
(* retireStream, which lets the client open another.  The frames that      *)
(* carry state (RESET_STREAM, STOP_SENDING, MAX_STREAM_DATA, MAX_STREAMS)  *)
(* are sent again when their packet is lost.                               *)
(*                                                                         *)
(* A stream's data is one unit (QUICSendStream models its bytes), and what *)
(* is served in a packet fits in it.  A loss is found by an acknowledgement*)
(* (onPacketLost) or by the timer (onPacketLostPublic).                    *)
(***************************************************************************)
EXTENDS Naturals, Sequences, FiniteSets, Bags

CONSTANTS
    MaxIndex,       \* bound: the highest stream the client opens
    InitialMax,     \* localParameters.initialMaxStreamsBidi
    MaxLimit,       \* bound: how often a stream's window is extended
    MaxFlight,      \* bound: packets in flight
    MaxLost,        \* bound: packets lost
    CanReset,               \* whether streams are reset and stopped
    LossByAck, LossByTimer  \* which of the two ways of finding a loss happen

Ids == 0..MaxIndex

VARIABLES
    streams,        \* index -> QUICStream, or Absent
    highest,        \* one more than highestIncomingBidi
    localMax, maxStreamsPending,
    writable, writableSet,
    closed,
    flight,         \* bag of packets sent and not settled
    peer,           \* what the client has heard
    asked,          \* history: the streams to be reset, and those to be stopped
    retired,        \* history: streams forgotten
    unanswered,     \* history: a packet was processed, the connection is open, and no ACK is owed
    lost            \* how many packets have been lost

conn == <<streams, highest, localMax, maxStreamsPending, writable, writableSet>>
vars == <<conn, closed, flight, peer, asked, retired, unanswered, lost>>

Absent == [open |-> FALSE]
NewStream ==
    [open |-> TRUE, data |-> "none", finished |-> FALSE, limit |-> 0, announced |-> 0,
     reset |-> FALSE, resetSent |-> FALSE, stop |-> FALSE, stopSent |-> FALSE, released |-> FALSE]

Init ==
    /\ streams = [i \in Ids |-> Absent]
    /\ highest = 0
    /\ localMax = InitialMax /\ maxStreamsPending = FALSE
    /\ writable = <<>> /\ writableSet = {}
    /\ closed = FALSE
    /\ flight = EmptyBag
    /\ peer = [max |-> InitialMax, limit |-> [i \in Ids |-> 0], resets |-> {}, stops |-> {}]
    /\ asked = [resets |-> {}, stops |-> {}]
    /\ retired = {} /\ unanswered = FALSE
    /\ lost = 0

-----------------------------------------------------------------------------
Open == {i \in Ids : streams[i].open}

isFinished(t) ==
    /\ t.released
    /\ t.finished \/ t.stopSent
    /\ IF t.reset THEN t.resetSent ELSE t.data \in {"none", "acked"}

(* The list after marking some streams; their order does not matter here.   *)
Marked(list, set, ids) ==
    LET new == ids \ set
        order == CHOOSE q \in [1..Cardinality(new) -> new] : \A a, b \in DOMAIN q : a < b => q[a] < q[b]
    IN  list \o order

markWritable(ids) ==
    /\ writable' = Marked(writable, writableSet, ids)
    /\ writableSet' = writableSet \cup ids

(* Of these streams the ones that retireStream is called for.               *)
Retires(ts, ids) == {i \in ids : ts[i].open /\ isFinished(ts[i])}

retireStream(ts, ids) ==
    /\ streams' = [i \in Ids |-> IF i \in ids THEN Absent ELSE ts[i]]
    /\ retired' = retired \cup ids
    /\ localMax' = localMax + Cardinality(ids)
    /\ maxStreamsPending' = (maxStreamsPending \/ ids # {})

-----------------------------------------------------------------------------
(* Mutant of openOrFind: a stream that is gone is made again.               *)
OpenAgain(i) ==
    [j \in Ids |-> IF ~streams[j].open /\ (j = i \/ (highest <= j /\ j <= i)) THEN NewStream ELSE streams[j]]

(* The streams after openOrFind: a new stream opens every lower one.        *)
openOrFind(i) == [j \in Ids |-> IF highest <= j /\ j <= i THEN NewStream ELSE streams[j]]

(* checkStreamID fails: the client has gone past its limit.                 *)
beyondLimit(i) ==
    /\ ~closed /\ i >= localMax
    /\ closed' = TRUE
    /\ UNCHANGED <<conn, flight, peer, asked, retired, unanswered, lost>>

(* A frame about a stream that is gone ends the packet, which is then not   *)
(* acknowledged.                                                            *)
goneStream(i) ==
    /\ ~closed /\ i < localMax /\ ~openOrFind(i)[i].open
    /\ unanswered' = TRUE
    /\ UNCHANGED <<conn, closed, flight, peer, asked, retired, lost>>

(* A frame about a stream that is there, or is opened by it.                *)
StreamFrame(i) ==
    /\ ~closed /\ i < localMax /\ openOrFind(i)[i].open
    /\ highest' = IF i < highest THEN highest ELSE i + 1
    /\ UNCHANGED <<localMax, maxStreamsPending, closed, flight, peer, retired, unanswered, lost>>

(* A STREAM frame, or a RESET_STREAM; `end`: with it the stream is whole.    *)
handleStream(i, end) ==
    /\ StreamFrame(i)
    /\ streams' = [openOrFind(i) EXCEPT ![i].finished = @ \/ end]
    /\ UNCHANGED <<writable, writableSet, asked>>

handleStopSending(i) ==
    /\ CanReset
    /\ StreamFrame(i)
    /\ streams' = [openOrFind(i) EXCEPT ![i].reset = TRUE]
    /\ asked' = [asked EXCEPT !.resets = @ \cup {i}]
    /\ IF openOrFind(i)[i].reset THEN UNCHANGED <<writable, writableSet>> ELSE markWritable({i})

-----------------------------------------------------------------------------
(* The application.                                                         *)
Change(i, t) ==
    /\ ~closed
    /\ streams' = [streams EXCEPT ![i] = t]
    /\ markWritable({i})
    /\ UNCHANGED <<highest, localMax, maxStreamsPending, closed, flight, peer, retired, unanswered, lost>>

send(i) ==
    /\ streams[i].open /\ ~streams[i].reset /\ streams[i].data = "none"
    /\ Change(i, [streams[i] EXCEPT !.data = "owed"])
    /\ UNCHANGED asked

resetStream(i) ==
    /\ CanReset /\ streams[i].open /\ ~streams[i].reset
    /\ Change(i, [streams[i] EXCEPT !.reset = TRUE])
    /\ asked' = [asked EXCEPT !.resets = @ \cup {i}]

stopSending(i) ==
    /\ CanReset /\ streams[i].open /\ ~streams[i].stop
    /\ Change(i, [streams[i] EXCEPT !.stop = TRUE])
    /\ asked' = [asked EXCEPT !.stops = @ \cup {i}]

extendStreamWindow(i) ==
    /\ streams[i].open /\ streams[i].limit < MaxLimit
    /\ Change(i, [streams[i] EXCEPT !.limit = @ + 1])
    /\ UNCHANGED asked

releaseStream(i) ==
    LET ts == [streams EXCEPT ![i].released = TRUE] IN
    /\ ~closed
    /\ streams[i].open /\ ~streams[i].released
    /\ retireStream(ts, Retires(ts, {i}))
    /\ writableSet' = writableSet \ Retires(ts, {i})
    /\ UNCHANGED <<highest, writable, closed, flight, peer, asked, unanswered, lost>>

-----------------------------------------------------------------------------
(* A packet: the limit on streams, then the streams at the front of the     *)
(* list, as many as there is room for.                                      *)
ResetsNow(i) == streams[i].reset /\ ~streams[i].resetSent
StopsNow(i) == streams[i].stop /\ ~streams[i].stopSent
LimitNow(i) == ~ResetsNow(i) /\ streams[i].limit > streams[i].announced
DataNow(i) == ~ResetsNow(i) /\ streams[i].data = "owed"

Served(i) ==
    [streams[i] EXCEPT !.stopSent = @ \/ StopsNow(i),
                       !.resetSent = @ \/ ResetsNow(i),
                       !.announced = IF LimitNow(i) THEN streams[i].limit ELSE @,
                       !.data = IF DataNow(i) THEN "sent" ELSE @]

(* What was not reached keeps its place.                                    *)
Rest(k) == SelectSeq(SubSeq(writable, k + 1, Len(writable)), LAMBDA i : i \in writableSet)

nextDatagram ==
    \E k \in 0..Len(writable) :
        LET front == {writable[n] : n \in 1..k}
            now == front \cap Open
            packet == [max |-> IF maxStreamsPending THEN localMax ELSE 0,
                       stop |-> {i \in now : StopsNow(i)},
                       reset |-> {i \in now : ResetsNow(i)},
                       limit |-> {<<i, streams[i].limit>> : i \in {j \in now : LimitNow(j)}},
                       data |-> {i \in now : DataNow(i)},
                       arrived |-> FALSE]
            nothing == ~maxStreamsPending /\ \A i \in now : ~StopsNow(i) /\ ~ResetsNow(i) /\ ~LimitNow(i) /\ ~DataNow(i)
        IN  /\ ~closed
            /\ k > 0 \/ maxStreamsPending
            /\ BagCardinality(flight) < MaxFlight
            /\ flight' = IF nothing THEN flight ELSE flight (+) SetToBag({packet})
            /\ streams' = [i \in Ids |-> IF i \in now THEN Served(i) ELSE streams[i]]
            /\ maxStreamsPending' = FALSE
            /\ writable' = Rest(k)
            /\ writableSet' = writableSet \ front
            /\ UNCHANGED <<highest, localMax, closed, peer, asked, retired, unanswered, lost>>

arrive(p) ==
    /\ BagIn(p, flight) /\ ~p.arrived
    /\ flight' = (flight (-) SetToBag({p})) (+) SetToBag({[p EXCEPT !.arrived = TRUE]})
    /\ peer' = [max |-> IF p.max > peer.max THEN p.max ELSE peer.max,
                limit |-> [i \in Ids |-> IF \E l \in p.limit : l[1] = i /\ l[2] > peer.limit[i]
                                         THEN (CHOOSE l \in p.limit : l[1] = i)[2] ELSE peer.limit[i]],
                resets |-> peer.resets \cup p.reset,
                stops |-> peer.stops \cup p.stop]
    /\ UNCHANGED <<conn, closed, asked, retired, unanswered, lost>>

onPacketAcked(p) ==
    LET ts == [i \in Ids |-> IF i \in p.data /\ streams[i].open
                             THEN [streams[i] EXCEPT !.data = "acked"] ELSE streams[i]]
        done == Retires(ts, p.data \cup p.reset \cup p.stop)
    IN  /\ ~closed /\ BagIn(p, flight) /\ p.arrived
        /\ flight' = flight (-) SetToBag({p})
        /\ retireStream(ts, done)
        /\ writableSet' = writableSet \ done
        /\ UNCHANGED <<highest, writable, closed, peer, asked, unanswered, lost>>

(* The streams after the loss of a packet; `again` says whether a lost      *)
(* MAX_STREAM_DATA makes its limit unannounced.                             *)
AfterLoss(p, again) ==
    [i \in Ids |-> IF ~streams[i].open THEN streams[i]
                   ELSE [streams[i] EXCEPT !.data = IF i \in p.data THEN "owed" ELSE @,
                                           !.resetSent = @ /\ i \notin p.reset,
                                           !.stopSent = @ /\ i \notin p.stop,
                                           !.announced = IF again /\ \E l \in p.limit : l[1] = i THEN 0 ELSE @]]

Lose(p, again) ==
    /\ ~closed /\ BagIn(p, flight) /\ lost < MaxLost
    /\ lost' = lost + 1
    /\ flight' = flight (-) SetToBag({p})
    /\ streams' = AfterLoss(p, again)
    /\ maxStreamsPending' = (maxStreamsPending \/ p.max # 0)
    /\ markWritable((p.data \cap Open) \cup {l[1] : l \in p.limit} \cup p.reset \cup p.stop)
    /\ UNCHANGED <<highest, localMax, closed, peer, asked, retired, unanswered>>

onPacketLost(p) == LossByAck /\ Lose(p, FALSE)

(* Mutant of onPacketLostPublic: the limit counts as announced.             *)
LostAnnounced(p) == LossByTimer /\ Lose(p, FALSE)

onPacketLostPublic(p) == LossByTimer /\ Lose(p, TRUE)

Next ==
    \/ \E i \in Ids :
        \/ beyondLimit(i) \/ goneStream(i) \/ (\E end \in BOOLEAN : handleStream(i, end)) \/ handleStopSending(i)
        \/ send(i) \/ resetStream(i) \/ stopSending(i) \/ extendStreamWindow(i) \/ releaseStream(i)
    \/ nextDatagram
    \/ \E p \in DOMAIN flight : arrive(p) \/ onPacketAcked(p) \/ onPacketLost(p) \/ onPacketLostPublic(p)

Spec == Init /\ [][Next]_vars

-----------------------------------------------------------------------------
(* The client never has more streams open than it was first allowed, and    *)
(* a stream that was forgotten is never opened again.                       *)
ConcurrencyKept ==
    /\ Cardinality(Open) <= InitialMax /\ highest <= localMax
    /\ Open \cap retired = {}

(* Every new limit on the number of streams reaches the client, or is on    *)
(* its way, or is owed.                                                     *)
MaxStreamsTold ==
    peer.max = localMax \/ maxStreamsPending \/ \E p \in DOMAIN flight : p.max = localMax

(* Only a stream the application has released is forgotten, and only when   *)
(* its data is out or it was reset.                                         *)
KeptUntilReleased ==
    \A i \in Ids : streams[i].open /\ ~streams'[i].open =>
        /\ streams[i].released \/ releaseStream(i)
        /\ streams[i].data = "owed" => streams[i].reset

(* A stream with something to send is in the list, once.                    *)
ListedOnce ==
    \A i \in Open :
        LET places == {n \in 1..Len(writable) : writable[n] = i} IN
        /\ i \in writableSet => Cardinality(places) = 1
        /\ (streams[i].reset /\ ~streams[i].resetSent) => i \in writableSet
        /\ (streams[i].stop /\ ~streams[i].stopSent) => i \in writableSet
        /\ (streams[i].data = "owed" /\ ~streams[i].reset) => i \in writableSet

(* A stream's new limit reaches the client, or is on its way, or is owed.   *)
LimitTold ==
    \A i \in Open :
        \/ peer.limit[i] = streams[i].limit
        \/ \E p \in DOMAIN flight : <<i, streams[i].limit>> \in p.limit
        \/ streams[i].limit > streams[i].announced /\ i \in writableSet

(* A stream's end is not given up: while the stream is kept, a RESET_STREAM *)
(* or STOP_SENDING has arrived, is on its way, or is owed.                  *)
KeptEndTold ==
    /\ \A i \in asked.resets \cap Open :
        i \in peer.resets \/ ~streams[i].resetSent \/ \E p \in DOMAIN flight : i \in p.reset
    /\ \A i \in asked.stops \cap Open :
        i \in peer.stops \/ ~streams[i].stopSent \/ \E p \in DOMAIN flight : i \in p.stop

(* The same, whether the stream is kept or not.                             *)
EndTold ==
    /\ \A i \in asked.resets :
        \/ i \in peer.resets \/ \E p \in DOMAIN flight : i \in p.reset
        \/ streams[i].open /\ ~streams[i].resetSent
    /\ \A i \in asked.stops :
        \/ i \in peer.stops \/ \E p \in DOMAIN flight : i \in p.stop
        \/ streams[i].open /\ ~streams[i].stopSent

(* A packet whose frames were processed is acknowledged, unless the         *)
(* connection is closing.                                                   *)
Answered == ~unanswered

=============================================================================
