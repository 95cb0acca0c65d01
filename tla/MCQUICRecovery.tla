--------------------------- MODULE MCQUICRecovery ---------------------------
(* The packets of a QUIC connection: loss recovery, acknowledgements, and   *)
(* the server's side of the handshake.  The last two properties of          *)
(* acknowledgements and the last four of the handshake are what comments    *)
(* say and the code does not do; README.md has the instances that show it.  *)
EXTENDS Naturals

CONSTANTS
    Instances       \* the instances that are run

VARIABLES
    instance,       \* the one this behaviour is of
    now, inTransit, sentHead, nextPacketNumber, largestAckedPacket, lossTimeMs,
    ackElicitingInFlight, bytesInFlight, congestionWindow, slowStartThreshold,
    recoveryStartMs, probeAllowance, discarded, acked, lost,
    acks, ackDue, acksInFlight, acksSent, processed, told, forgotten,
    keys, addressValidated, handshakeComplete, status, allowance, cryptoSend, ackPending,
    ackElicitingPending, ackTimer, pingPending, handshakeDonePending, probeDue, sent,
    closeFramePending, closeSendCount, closeWasReceived, client, vanished

Off == "off"        \* the variables of the modules it is not of

-----------------------------------------------------------------------------
(* Five packets, acknowledged in any order, with the threshold of the code; *)
(* four with an earlier threshold and a clock, so that the timer declares   *)
(* losses as well; three with two delays.                                   *)
LossBounds == [
    loss_order |-> [MaxPackets |-> 5, MaxTime |-> 1, Delays |-> {1},
        PacketThreshold |-> 3],
    loss_time |-> [MaxPackets |-> 4, MaxTime |-> 2, Delays |-> {1},
        PacketThreshold |-> 2],
    loss_delays |-> [MaxPackets |-> 3, MaxTime |-> 3, Delays |-> {1, 2},
        PacketThreshold |-> 2]]

lossVars == <<now, inTransit, sentHead, nextPacketNumber, largestAckedPacket, lossTimeMs,
              ackElicitingInFlight, bytesInFlight, congestionWindow, slowStartThreshold,
              recoveryStartMs, probeAllowance, discarded, acked, lost>>
LossInstances == Instances \cap DOMAIN LossBounds
Loss(k) == INSTANCE QUICLoss WITH
    CompactAt <- 2, PacketSize <- 4, InitialWindow <- 12,
    MaxPackets <- LossBounds[k].MaxPackets, MaxTime <- LossBounds[k].MaxTime,
    Delays <- LossBounds[k].Delays, PacketThreshold <- LossBounds[k].PacketThreshold,
    sent <- inTransit

LossOff ==
    /\ now = Off /\ inTransit = Off /\ sentHead = Off /\ nextPacketNumber = Off
    /\ largestAckedPacket = Off /\ lossTimeMs = Off /\ ackElicitingInFlight = Off /\ bytesInFlight = Off
    /\ congestionWindow = Off /\ slowStartThreshold = Off /\ recoveryStartMs = Off /\ probeAllowance = Off
    /\ discarded = Off /\ acked = Off /\ lost = Off

-----------------------------------------------------------------------------
(* Every order of five packet numbers and of two acknowledgements; a limit  *)
(* of two ranges.  In the last a number is forgotten that the peer was not  *)
(* told of.                                                                 *)
AckBounds == [
    acks_ranges |-> [Top |-> 4, MaximumRanges |-> 9, MaxAcks |-> 2],
    acks_limit |-> [Top |-> 5, MaximumRanges |-> 2, MaxAcks |-> 1],
    acks_told |-> [Top |-> 3, MaximumRanges |-> 9, MaxAcks |-> 2]]

ackVars == <<acks, ackDue, acksInFlight, acksSent, processed, told, forgotten>>
AckInstances == Instances \cap DOMAIN AckBounds
Ack(k) == INSTANCE QUICAcks WITH
    Top <- AckBounds[k].Top, MaximumRanges <- AckBounds[k].MaximumRanges,
    MaxAcks <- AckBounds[k].MaxAcks, ackPending <- ackDue, inFlight <- acksInFlight

AckOff ==
    /\ acks = Off /\ ackDue = Off /\ acksInFlight = Off /\ acksSent = Off
    /\ processed = Off /\ told = Off /\ forgotten = Off

-----------------------------------------------------------------------------
(* A handshake in which a packet vanishes, packets are settled in any order *)
(* and either side may close.  The last two have two packets of a level in  *)
(* flight.                                                                  *)
HandshakeBounds == [
    handshake_close |-> [MaxFlight |-> 1, MaxVanished |-> 0, Patient |-> FALSE,
        ClosesWhen |-> {"handshaking", "connected"}],
    handshake_open |-> [MaxFlight |-> 2, MaxVanished |-> 1, Patient |-> FALSE,
        ClosesWhen |-> {}],
    handshake_reopen |-> [MaxFlight |-> 2, MaxVanished |-> 1, Patient |-> FALSE,
        ClosesWhen |-> {"handshaking", "connected"}]]

handshakeVars == <<keys, addressValidated, handshakeComplete, status, allowance,
                   cryptoSend, ackPending, ackElicitingPending, ackTimer, pingPending,
                   handshakeDonePending, probeDue, sent, closeFramePending,
                   closeSendCount, closeWasReceived, client, vanished>>
HandshakeInstances == Instances \cap DOMAIN HandshakeBounds
Handshake(k) == INSTANCE QUICHandshake WITH
    HandshakePieces <- 1, MaxAllowance <- 3, MaxFlight <- HandshakeBounds[k].MaxFlight,
    MaxVanished <- HandshakeBounds[k].MaxVanished, Patient <- HandshakeBounds[k].Patient,
    ClosesWhen <- HandshakeBounds[k].ClosesWhen

HandshakeOff ==
    /\ keys = Off /\ addressValidated = Off /\ handshakeComplete = Off /\ status = Off
    /\ allowance = Off /\ cryptoSend = Off /\ ackPending = Off /\ ackElicitingPending = Off
    /\ ackTimer = Off /\ pingPending = Off /\ handshakeDonePending = Off /\ probeDue = Off
    /\ sent = Off /\ closeFramePending = Off /\ closeSendCount = Off /\ closeWasReceived = Off
    /\ client = Off /\ vanished = Off

-----------------------------------------------------------------------------
Init ==
    \/ \E k \in LossInstances :
        instance = k /\ Loss(k)!Init /\ AckOff /\ HandshakeOff
    \/ \E k \in AckInstances :
        instance = k /\ Ack(k)!Init /\ LossOff /\ HandshakeOff
    \/ \E k \in HandshakeInstances :
        instance = k /\ Handshake(k)!Init /\ LossOff /\ AckOff

vars == <<instance, lossVars, ackVars, handshakeVars>>

Next ==
    /\ UNCHANGED instance
    /\ \/ \E k \in LossInstances : instance = k /\ Loss(k)!Next /\ UNCHANGED <<ackVars, handshakeVars>>
       \/ \E k \in AckInstances : instance = k /\ Ack(k)!Next /\ UNCHANGED <<lossVars, handshakeVars>>
       \/ \E k \in HandshakeInstances : instance = k /\ Handshake(k)!Next /\ UNCHANGED <<lossVars, ackVars>>

Spec == Init /\ [][Next]_vars

-----------------------------------------------------------------------------
(* record, onAck's two walks, advanceHead, onLossTimer, abandon: every      *)
(* packet sent is waiting, was acknowledged or was lost, and only one of    *)
(* the three; those waiting are in the order they were sent, each once, and *)
(* are what the counts of bytes and packets in flight count; none goes on   *)
(* waiting once one PacketThreshold later was acknowledged, and while one   *)
(* waits that a later one has overtaken a loss timer is set, not later than *)
(* its own time.                                                            *)
LossSettledOnce ==
    \A k \in LossInstances : instance = k =>
        /\ Loss(k)!Accounted
        /\ Loss(k)!SettledOnce
        /\ Loss(k)!InOrder
        /\ Loss(k)!NoneFarBehind
        /\ Loss(k)!OvertakenIsTimed

(* QUICAckRanges add, removeUpTo, writeAckFrame, quicReadAckFrame: ranges   *)
(* stay highest first with a gap between them, so that the distance         *)
(* written, less 2 in unsigned arithmetic, does not trap; the peer reads    *)
(* the ranges that were written; and these hold nothing that was not        *)
(* received, and everything received above what was forgotten while they    *)
(* are below their limit.                                                   *)
AckTellsReceived ==
    \A k \in AckInstances : instance = k =>
        /\ Ack(k)!RangesApart
        /\ Ack(k)!FrameReads
        /\ Ack(k)!HoldsReceived

(* onAck, onLossTimer, onPacketsLost, removeUpTo: a packet is called lost   *)
(* only if it is far enough behind one acknowledged or has waited at least  *)
(* the loss delay; the window shrinks only for a packet sent after it last  *)
(* shrank ("One congestion event per round trip"); and numbers leave the    *)
(* ranges to acknowledge only from the bottom.                              *)
DropsForReason ==
    [][/\ \A k \in LossInstances : instance = k =>
             /\ Loss(k)!LostForReason
             /\ Loss(k)!HalvedOnce
       /\ \A k \in AckInstances : instance = k => Ack(k)!DropsLowest]_vars

(* removeUpTo: "Forgets everything at or below `packetNumber`, once the     *)
(* peer has acknowledged our acknowledgement of it."                        *)
AckForgetsTold == \A k \in AckInstances : instance = k => Ack(k)!ForgetsTold

(* receivePacket: "a duplicate; already accounted for".  A packet is        *)
(* processed once.                                                          *)
AckProcessedOnce == \A k \in AckInstances : instance = k => Ack(k)!ProcessedOnce

(* nextDatagram, buildClose, discardSpace: an address that has not been     *)
(* validated is sent at most three times what came from it, closes          *)
(* included, and handshake bytes wait only where there are keys to send     *)
(* them with.                                                               *)
HandshakeAmplification ==
    \A k \in HandshakeInstances : instance = k =>
        /\ Handshake(k)!Amplification
        /\ Handshake(k)!OwedHasKeys

(* hasOutput: "Used to decide whether the connection needs a turn at the    *)
(* socket."  With the handshake over, something that waits can go.          *)
HandshakeOutputCanGo == \A k \in HandshakeInstances : instance = k => Handshake(k)!OutputCanGo

(* ptoMs: no probe is made before the probe timeout has passed.             *)
HandshakeProbesInTime ==
    [][\A k \in HandshakeInstances : instance = k => Handshake(k)!ProbesInTime]_vars

(* isAckEliciting: an acknowledgement waits only if something worth one     *)
(* arrived.                                                                 *)
HandshakeAckWorthwhile ==
    \A k \in HandshakeInstances : instance = k => Handshake(k)!AckWorthwhile

(* Status.closing: a closing connection does not open again.                *)
HandshakeClosingStays ==
    [][\A k \in HandshakeInstances : instance = k => Handshake(k)!ClosingStays]_vars
=============================================================================
