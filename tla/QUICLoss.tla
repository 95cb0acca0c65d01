------------------------------ MODULE QUICLoss ------------------------------
(* One packet number space and the congestion controller of a QUIC          *)
(* connection (QUICLoss.swift, and onLossTimer of QUICSend.swift).  Packets *)
(* waiting for an outcome are sent[sentHead + 1 ..]; those below are stale. *)
(* The loss delay, which follows the round-trip estimate, is any of Delays. *)
EXTENDS Integers, Sequences, FiniteSets
LOCAL INSTANCE SequencesExt
LOCAL INSTANCE FiniteSetsExt

CONSTANTS
    MaxPackets,         \* bound: packet numbers used
    MaxTime,            \* bound: the clock
    Delays,             \* the loss delays an estimate may give
    CompactAt,          \* the dead front worth moving over (1024)
    PacketSize,         \* maxDatagramSize, the size of every packet in flight
    InitialWindow,      \* in the same units
    PacketThreshold

VARIABLES
    now,
    sent, sentHead, nextPacketNumber,
    largestAckedPacket,             \* -1 when none
    lossTimeMs, ackElicitingInFlight,
    bytesInFlight, congestionWindow, slowStartThreshold, recoveryStartMs, probeAllowance,
    discarded,                      \* the space's keys are gone
    acked, lost                     \* history: the packets settled so far

space == <<sent, sentHead, nextPacketNumber, largestAckedPacket, lossTimeMs, ackElicitingInFlight>>
recovery == <<bytesInFlight, congestionWindow, slowStartThreshold, recoveryStartMs, probeAllowance>>
vars == <<now, space, recovery, discarded, acked, lost>>

NoThreshold == 1000                 \* Int.max

Init ==
    /\ now = 1
    /\ sent = <<>> /\ sentHead = 0 /\ nextPacketNumber = 0
    /\ largestAckedPacket = -1 /\ lossTimeMs = 0 /\ ackElicitingInFlight = 0
    /\ bytesInFlight = 0 /\ congestionWindow = InitialWindow /\ slowStartThreshold = NoThreshold
    /\ recoveryStartMs = 0 /\ probeAllowance = 0
    /\ discarded = FALSE /\ acked = {} /\ lost = {}

Greater(a, b) == IF a > b THEN a ELSE b
Outstanding == SubSeq(sent, sentHead + 1, Len(sent))
Numbers(packets) == {p.number : p \in ToSet(packets)}
Eliciting(packets) == Len(SelectSeq(packets, LAMBDA p : p.ackEliciting))

tick ==
    /\ now < MaxTime
    /\ now' = now + 1
    /\ UNCHANGED <<space, recovery, discarded, acked, lost>>

-----------------------------------------------------------------------------
(* nextDatagram, record, onPacketSent: a packet of one of three kinds.      *)
canSend == bytesInFlight < congestionWindow
Packet(kind) == [number |-> nextPacketNumber, at |-> now, ackEliciting |-> kind = "data", inFlight |-> kind # "ack"]

send(kind) ==
    LET ackOnly == ~canSend /\ probeAllowance = 0 IN
    /\ nextPacketNumber < MaxPackets /\ ~discarded
    /\ kind = "data" => ~ackOnly
    /\ sent' = Append(sent, Packet(kind))
    /\ nextPacketNumber' = nextPacketNumber + 1
    /\ ackElicitingInFlight' = ackElicitingInFlight + IF kind = "data" THEN 1 ELSE 0
    /\ bytesInFlight' = bytesInFlight + IF kind # "ack" THEN PacketSize ELSE 0
    /\ probeAllowance' = IF kind = "data" /\ ~canSend THEN probeAllowance - 1 ELSE probeAllowance
    /\ UNCHANGED <<now, sentHead, largestAckedPacket, lossTimeMs, congestionWindow, slowStartThreshold,
                   recoveryStartMs, discarded, acked, lost>>

-----------------------------------------------------------------------------
(* The binary search: one past the last waiting packet numbered `number` or *)
(* lower.                                                                   *)
endOfPackets(number) ==
    LET search[low \in 0..Len(sent), high \in 0..Len(sent)] ==
            LET mid == (low + high) \div 2 IN
            IF low >= high THEN low
            ELSE IF sent[mid + 1].number <= number THEN search[mid + 1, high] ELSE search[low, mid]
    IN  search[sentHead, Len(sent)]

(* The walk down from `end` to `from`: the packets that go, given by their   *)
(* numbers, are collected, those that stay are packed against `end`.         *)
Packed(slots, from, end, goes) ==
    LET walk[i \in from..end] ==
            IF i = end THEN [slots |-> slots, keep |-> end, gone |-> <<>>]
            ELSE LET w == walk[i + 1]
                     p == w.slots[i + 1]
                 IN  IF p.number \in goes THEN [w EXCEPT !.gone = <<p>> \o @]
                     ELSE [w EXCEPT !.slots[w.keep] = p, !.keep = @ - 1]
    IN  walk[from]

(* advanceHead(to: index) on the slots given.                               *)
advanceHead(slots, index) ==
    /\ sentHead' = IF index = Len(slots) \/ (index >= CompactAt /\ index * 2 >= Len(slots)) THEN 0 ELSE index
    /\ sent' = IF sentHead' = 0 THEN SubSeq(slots, index + 1, Len(slots)) ELSE slots

(* onPacketsAcked: the window grows for packets sent after the last loss.   *)
GrownWindow(packets) ==
    LET Grow(w, p) ==
            IF ~p.inFlight \/ p.at <= recoveryStartMs THEN w
            ELSE w + IF w < slowStartThreshold THEN PacketSize ELSE (PacketSize * PacketSize) \div Greater(w, 1)
    IN  FoldLeft(Grow, congestionWindow, packets)

(* onPacketsLost: one halving for each time round.                          *)
Halved(packets, window) ==
    LET hit == {p \in ToSet(packets) : p.inFlight /\ p.at > recoveryStartMs} IN
    IF hit = {} THEN UNCHANGED <<slowStartThreshold, recoveryStartMs>> /\ congestionWindow' = window
    ELSE /\ recoveryStartMs' = now
         /\ congestionWindow' = Greater(window \div 2, 2 * PacketSize)
         /\ slowStartThreshold' = congestionWindow'

(* Mutant: only packets that ask for an acknowledgement are counted out.    *)
InFlightEliciting(packets) == PacketSize * Eliciting(packets)

InFlight(packets) == PacketSize * Len(SelectSeq(packets, LAMBDA p : p.inFlight))

(* Mutant of IsLost: one packet nearer.                                     *)
IsLostSoon(p, threshold, delay) ==
    p.number < threshold /\ (threshold - p.number >= PacketThreshold - 1 \/ now - p.at >= delay)

IsLost(p, threshold, delay) ==
    p.number < threshold /\ (threshold - p.number >= PacketThreshold \/ now - p.at >= delay)

(* An ACK whose ranges cover `ns` of the packets waiting, and others settled *)
(* before; `largest` is the highest number in it.                            *)
onAck(ns, largest, delay) ==
    LET threshold == Greater(largestAckedPacket, largest)
        end == endOfPackets(threshold)
        first == Packed(sent, sentHead, end, ns)
        late == {p \in ToSet(SubSeq(first.slots, first.keep + 1, end)) : IsLost(p, threshold, delay)}
        second == Packed(first.slots, first.keep, end, {p.number : p \in late})
        waiting == {p.at + delay : p \in {q \in ToSet(SubSeq(second.slots, second.keep + 1, end)) : q.number < threshold}}
    IN
    /\ Len(sent) > sentHead /\ end # sentHead /\ first.gone # <<>>
    /\ largestAckedPacket' = threshold
    /\ advanceHead(second.slots, second.keep)
    /\ lossTimeMs' = IF waiting = {} THEN 0 ELSE Min(waiting)
    /\ ackElicitingInFlight' = ackElicitingInFlight - Eliciting(first.gone) - Eliciting(second.gone)
    /\ bytesInFlight' = bytesInFlight - InFlight(first.gone) - InFlight(second.gone)
    /\ Halved(second.gone, GrownWindow(first.gone))
    /\ acked' = acked \cup Numbers(first.gone)
    /\ lost' = lost \cup Numbers(second.gone)
    /\ UNCHANGED <<now, nextPacketNumber, probeAllowance, discarded>>

NextLossTime(index, delay) == IF index < Len(sent) THEN sent[index + 1].at + delay ELSE 0

(* The loss timer: the oldest packets, up to the first that is neither old  *)
(* enough nor far enough behind.                                            *)
onLossTimer(delay) ==
    LET Stays(i) == LET p == sent[i] IN
                    ~(now - p.at >= delay \/ (largestAckedPacket >= 0 /\ largestAckedPacket - p.number >= PacketThreshold))
        index == Min({i - 1 : i \in {j \in sentHead + 1..Len(sent) : Stays(j)}} \cup {Len(sent)})
        gone == SubSeq(sent, sentHead + 1, index)
    IN
    /\ lossTimeMs # 0 /\ now >= lossTimeMs
    /\ advanceHead(sent, index)
    /\ lossTimeMs' = NextLossTime(index, delay)
    /\ ackElicitingInFlight' = ackElicitingInFlight - Eliciting(gone)
    /\ bytesInFlight' = bytesInFlight - InFlight(gone)
    /\ Halved(gone, congestionWindow)
    /\ lost' = lost \cup Numbers(gone)
    /\ UNCHANGED <<now, nextPacketNumber, largestAckedPacket, probeAllowance, discarded, acked>>

(* onTimeout when no loss timer is due.                                     *)
onProbeTimeout ==
    /\ lossTimeMs = 0 \/ now < lossTimeMs
    /\ ackElicitingInFlight > 0
    /\ probeAllowance' = 2
    /\ UNCHANGED <<now, space, bytesInFlight, congestionWindow, slowStartThreshold, recoveryStartMs, discarded, acked, lost>>

(* discardSpace: everything waiting is given up.                            *)
abandon ==
    /\ ~discarded /\ discarded' = TRUE
    /\ sent' = <<>> /\ sentHead' = 0 /\ ackElicitingInFlight' = 0
    /\ bytesInFlight' = bytesInFlight - InFlight(Outstanding)
    /\ lost' = lost \cup Numbers(Outstanding)
    /\ UNCHANGED <<now, nextPacketNumber, largestAckedPacket, lossTimeMs, congestionWindow, slowStartThreshold,
                   recoveryStartMs, probeAllowance, acked>>

Next ==
    \/ tick \/ onProbeTimeout \/ abandon
    \/ \E kind \in {"data", "padded", "ack"} : send(kind)
    \/ \E ns \in SUBSET Numbers(Outstanding), delay \in Delays :
          \E largest \in ns \cup acked \cup lost : (\A n \in ns : n <= largest) /\ onAck(ns, largest, delay)
    \/ \E delay \in Delays : onLossTimer(delay)

Spec == Init /\ [][Next]_vars

-----------------------------------------------------------------------------
(* record, onAck, onLossTimer, abandon: the bytes and the packets counted as *)
(* in flight are those of the packets still waiting.                         *)
Accounted ==
    /\ bytesInFlight = PacketSize * Cardinality({i \in 1..Len(Outstanding) : Outstanding[i].inFlight})
    /\ ackElicitingInFlight = Cardinality({i \in 1..Len(Outstanding) : Outstanding[i].ackEliciting})

(* onAck's two walks, advanceHead: every packet sent is waiting, was         *)
(* acknowledged or was lost, and only one of the three; none is waiting      *)
(* twice.                                                                    *)
SettledOnce ==
    /\ acked \cup lost \cup Numbers(Outstanding) = 0..nextPacketNumber - 1
    /\ acked \cap lost = {} /\ Numbers(Outstanding) \cap (acked \cup lost) = {}
    /\ Cardinality(Numbers(Outstanding)) = Len(Outstanding)

(* QUICPacketSpace.sent: waiting packets are "in the order they were sent -- *)
(* which is packet number order and time order both".                        *)
InOrder ==
    \A i, j \in 1..Len(Outstanding) :
        i < j => Outstanding[i].number < Outstanding[j].number /\ Outstanding[i].at <= Outstanding[j].at

(* onAck: no packet goes on waiting once one PacketThreshold later has been  *)
(* acknowledged.                                                             *)
NoneFarBehind == \A p \in ToSet(Outstanding) : largestAckedPacket - p.number < PacketThreshold

(* onAck, onLossTimer: while a packet waits that one after it has overtaken, *)
(* a loss timer is set, and not later than its own time.                     *)
OvertakenIsTimed ==
    \A p \in ToSet(Outstanding) :
        p.number < largestAckedPacket => lossTimeMs # 0 /\ lossTimeMs <= p.at + Max(Delays)

(* onPacketsLost: "One congestion event per round trip": the window shrinks  *)
(* only for a packet sent after it last shrank.                              *)
HalvedOnce ==
    congestionWindow' < congestionWindow =>
        \E p \in ToSet(Outstanding) : p.number \in lost' \ lost /\ p.inFlight /\ p.at > recoveryStartMs

(* onAck, onLossTimer: a packet is called lost only if it is far enough      *)
(* behind one acknowledged or has waited at least the loss delay.            *)
LostForReason ==
    \A p \in ToSet(Outstanding) :
        p.number \in lost' \ lost /\ ~discarded' =>
            largestAckedPacket' - p.number >= PacketThreshold \/ now - p.at >= Min(Delays)
=============================================================================
