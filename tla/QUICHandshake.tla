---------------------------- MODULE QUICHandshake ----------------------------
(* A QUIC connection through its handshake and its close: the keys of the   *)
(* three levels, what each level owes (acknowledgements, handshake bytes),  *)
(* the limit on what may be sent to an address not yet validated, and the   *)
(* timers (QUICConnection.swift, QUICSend.swift).  The handshake's bytes    *)
(* are cut into pieces that fill a packet.  Times are not counted: a timer  *)
(* that is armed may become due.                                            *)
EXTENDS Integers, Sequences, FiniteSets

CONSTANTS
    HandshakePieces,    \* packets the server's certificate fills
    MaxAllowance,       \* bound: datagrams the client is ahead
    MaxFlight,          \* bound: packets of one level not yet settled
    MaxVanished,        \* bound: packets the network loses
    Patient,            \* whether the client waits for what is on its way
    ClosesWhen          \* bound: the statuses in which either side may close

Levels == {"initial", "handshake", "application"}
Below(l) == CASE l = "initial" -> {} [] l = "handshake" -> {"initial"} [] OTHER -> {"initial", "handshake"}
Pieces == [l \in Levels |-> CASE l = "initial" -> 1 [] l = "handshake" -> HandshakePieces [] OTHER -> 0]

VARIABLES
    keys,               \* per level: "none", "have" or "gone"
    addressValidated, handshakeComplete,
    status,             \* handshaking, connected, closing, drained
    allowance,          \* 3 * bytesReceived - bytesSent, in datagrams
    cryptoSend,         \* per level and piece: none, owed, sent, lost, acked
    ackPending, ackElicitingPending,
    ackTimer,           \* per level: off or armed
    pingPending, handshakeDonePending,
    probeDue,           \* the probe timeout has passed
    sent,               \* per level: packets not yet settled, in order
    closeFramePending, closeSendCount, closeWasReceived,
    client,             \* the pieces the client has, and whether it is done
    vanished

space == <<ackPending, ackElicitingPending, ackTimer>>
closing == <<closeFramePending, closeSendCount, closeWasReceived>>
vars == <<keys, addressValidated, handshakeComplete, status, allowance, cryptoSend, space,
          pingPending, handshakeDonePending, probeDue, sent, closing, client, vanished>>

Init ==
    /\ keys = [l \in Levels |-> IF l = "initial" THEN "have" ELSE "none"]
    /\ addressValidated = FALSE /\ handshakeComplete = FALSE
    /\ status = "handshaking"
    /\ allowance = 0
    /\ cryptoSend = [l \in Levels |-> [i \in 1..Pieces[l] |-> "none"]]
    /\ ackPending = [l \in Levels |-> FALSE] /\ ackElicitingPending = [l \in Levels |-> FALSE]
    /\ ackTimer = [l \in Levels |-> "off"]
    /\ pingPending = FALSE /\ handshakeDonePending = FALSE /\ probeDue = FALSE
    /\ sent = [l \in Levels |-> <<>>]
    /\ closeFramePending = FALSE /\ closeSendCount = 0 /\ closeWasReceived = FALSE
    /\ client = [initial |-> {}, handshake |-> {}, done |-> FALSE]
    /\ vanished = 0

Open == status \in {"handshaking", "connected"}
Allowed == addressValidated \/ allowance > 0
ElicitingInFlight == \E l \in Levels : \E i \in 1..Len(sent[l]) : sent[l][i].eliciting
ProbeArmed == ElicitingInFlight \/ ~handshakeComplete

-----------------------------------------------------------------------------
(* A packet from the client, as the server handles it: `kind` is what is in *)
(* it beside acknowledgements, `acked` whether it acknowledges what the     *)
(* client has of that level.                                                *)

(* discardSpace at the levels given.                                        *)
DiscardedKeys(ls) == [l \in Levels |-> IF l \in ls THEN "gone" ELSE keys[l]]

DiscardedCrypto(ls) == [l \in Levels |-> IF l \in ls THEN [i \in 1..Pieces[l] |-> "none"] ELSE cryptoSend[l]]

(* What onPacketAcked does: the pieces of packets that arrived.             *)
Arrived(l) == {i \in 1..Len(sent[l]) : sent[l][i].fate = "arrived"}
AckedPieces(l) == UNION {sent[l][i].crypto : i \in Arrived(l)}
LastArrived(l) == CHOOSE i \in Arrived(l) : \A j \in Arrived(l) : j <= i

(* The packets at the positions `keep', in their order.                     *)
Position(keep, i) == Cardinality({j \in keep : j <= i})
Only(packets, keep) ==
    [k \in 1..Cardinality(keep) |-> packets[CHOOSE i \in keep : Position(keep, i) = k]]

(* Mutant: packets overtaken are settled by the acknowledgement.            *)
StillSentLater(l) == Only(sent[l], LastArrived(l)..Len(sent[l]) \ Arrived(l))

(* The packets still waiting, those sent before an acknowledged one marked. *)
StillSent(l) ==
    LET marked == [i \in 1..Len(sent[l]) |-> [sent[l][i] EXCEPT !.overtaken = @ \/ i < LastArrived(l)]]
    IN  Only(marked, 1..Len(sent[l]) \ Arrived(l))

Closed == status \in {"closing", "drained"}

CanClose == status \in ClosesWhen \cup {"closing"}

(* A frame that ends the connection: the peer's close, or one that is an    *)
(* error, for which close() is called.  Nothing after it is looked at.      *)
closingFrame(kind, gone) ==
    /\ status' = IF kind = "close" \/ ~Closed THEN "closing" ELSE status
    /\ closeFramePending' = (closeFramePending \/ (kind = "bad" /\ ~Closed))
    /\ closeWasReceived' = (closeWasReceived \/ kind = "close")
    /\ ackPending' = [m \in Levels |-> ackPending[m] /\ m \notin gone]
    /\ ackElicitingPending' = [m \in Levels |-> ackElicitingPending[m] /\ m \notin gone]
    /\ UNCHANGED <<ackTimer, closeSendCount>>

(* The end of receivePacket: the packet is to be acknowledged.              *)
acknowledged(l, kind, gone) ==
    /\ ackPending' = [m \in Levels |-> m = l \/ (ackPending[m] /\ m \notin gone)]
    /\ ackElicitingPending' = [m \in Levels |-> (m = l /\ kind # "ack") \/ (ackElicitingPending[m] /\ m \notin gone)]
    /\ ackTimer' = IF kind # "ack" /\ ackTimer[l] = "off" THEN [ackTimer EXCEPT ![l] = "armed"] ELSE ackTimer

(* applyTLSProgress: the ClientHello gives the server its flight and the    *)
(* keys of the levels above, the Finished completes the handshake.          *)
HelloRead(l, kind) == kind = "crypto" /\ l = "initial" /\ keys["handshake"] = "none"
FinishedRead(l, kind) == kind = "crypto" /\ l = "handshake" /\ ~handshakeComplete

receivePacket(l, kind, acked) ==
    LET validates == l = "handshake" /\ ~addressValidated
        hello == HelloRead(l, kind)
        finished == FinishedRead(l, kind)
        gone == (IF validates THEN {"initial"} ELSE {}) \cup (IF finished THEN {"handshake"} ELSE {})
        news == acked /\ Arrived(l) # {}
        Settled(m, i) == IF news /\ m = l /\ m \notin gone /\ i \in AckedPieces(l) THEN "acked" ELSE DiscardedCrypto(gone)[m][i]
    IN
    /\ keys' = IF hello THEN [keys EXCEPT !["handshake"] = "have", !["application"] = "have"] ELSE DiscardedKeys(gone)
    /\ addressValidated' = (addressValidated \/ validates)
    /\ handshakeComplete' = (handshakeComplete \/ finished)
    /\ handshakeDonePending' = ((handshakeDonePending /\ ~(news /\ \E i \in Arrived(l) : sent[l][i].done)) \/ finished)
    /\ cryptoSend' = [m \in Levels |-> [i \in 1..Pieces[m] |->
           IF hello THEN "owed" ELSE Settled(m, i)]]
    /\ sent' = [m \in Levels |-> IF m \in gone THEN <<>> ELSE IF m = l /\ news THEN StillSent(l) ELSE sent[m]]
    /\ probeDue' = (probeDue /\ \E m \in Levels : \E i \in 1..Len(sent'[m]) : sent'[m][i].eliciting)
    /\ IF kind \in {"close", "bad"} THEN closingFrame(kind, gone)
       ELSE /\ status' = IF finished THEN "connected" ELSE status
            /\ acknowledged(l, kind, gone)
            /\ UNCHANGED closing
    /\ UNCHANGED <<pingPending, client, vanished>>

(* What the client can send.  It has the keys of a level once it has the    *)
(* server's bytes of the level below.                                       *)
OnItsWay == \E l \in Levels : \E i \in 1..Len(sent[l]) : sent[l][i].fate = "way"
ClientCan(l, kind) ==
    /\ CASE l = "initial" -> keys["handshake"] = "none" => kind = "crypto"
         [] l = "handshake" -> client.initial # {} /\ (kind = "crypto" => client.handshake = 1..HandshakePieces)
         [] OTHER -> client.handshake = 1..HandshakePieces /\ kind # "crypto"
    /\ kind \in {"close", "bad"} => CanClose
    /\ Patient => ~OnItsWay

receive(l, kind, acked) ==
    /\ status # "drained"
    /\ ClientCan(l, kind)
    /\ allowance' = IF addressValidated \/ allowance + 3 > MaxAllowance THEN allowance ELSE allowance + 3
    /\ IF keys[l] = "have" THEN receivePacket(l, kind, acked)
       ELSE UNCHANGED <<keys, addressValidated, handshakeComplete, status, cryptoSend, space, pingPending,
                        handshakeDonePending, probeDue, sent, closing, client, vanished>>

-----------------------------------------------------------------------------
(* Sending.                                                                 *)

(* Mutant: only the highest level sends.                                    *)
CanSendTop(l) == keys[l] = "have" /\ (l = "application" => handshakeComplete) /\ (l = "initial" => keys["handshake"] # "have")

CanSendAt(l) == keys[l] = "have" /\ (l = "application" => handshakeComplete)
OwedPieces(l) == {i \in 1..Pieces[l] : cryptoSend[l][i] \in {"owed", "lost"}}
HasFrames(l) == ackPending[l] \/ OwedPieces(l) # {} \/ pingPending \/ (l = "application" /\ handshakeDonePending)

(* What buildPacket puts in: the first piece lost, or owed, a PING if no    *)
(* level before took it, HANDSHAKE_DONE.                                    *)
Built(l, ping) ==
    LET lost == {i \in OwedPieces(l) : cryptoSend[l][i] = "lost"}
        from == IF lost # {} THEN lost ELSE OwedPieces(l)
        piece == {i \in from : \A j \in from : i <= j}
        done == l = "application" /\ handshakeDonePending
    IN  [crypto |-> piece, done |-> done, eliciting |-> piece # {} \/ done \/ ping, fate |-> "way", overtaken |-> FALSE]

(* The packets of a datagram: one for each of the levels with something to  *)
(* send, up to the last that has room.                                      *)
nextDatagram(last) ==
    LET into == {l \in Below(last) \cup {last} : CanSendAt(l) /\ HasFrames(l)}
        First(l) == Below(l) \cap into = {}
        packet == [l \in into |-> Built(l, pingPending /\ First(l))]
        real == {l \in into : packet[l].eliciting \/ ackPending[l]}
    IN
    /\ Open /\ Allowed
    /\ last \in real
    /\ \A l \in real : Len(sent[l]) < MaxFlight
    /\ allowance' = IF addressValidated THEN allowance ELSE allowance - 1
    /\ sent' = [l \in Levels |-> IF l \in real THEN Append(sent[l], packet[l]) ELSE sent[l]]
    /\ cryptoSend' = [l \in Levels |-> [i \in 1..Pieces[l] |->
           IF l \in real /\ i \in packet[l].crypto THEN "sent" ELSE cryptoSend[l][i]]]
    /\ ackPending' = [l \in Levels |-> ackPending[l] /\ l \notin real]
    /\ ackElicitingPending' = [l \in Levels |-> ackElicitingPending[l] /\ (l \notin real \/ ~ackPending[l])]
    /\ ackTimer' = [l \in Levels |-> IF l \in real /\ ackPending[l] THEN "off" ELSE ackTimer[l]]
    /\ pingPending' = FALSE
    /\ handshakeDonePending' = (handshakeDonePending /\ "application" \notin real)
    /\ probeDue' = (probeDue /\ \A l \in real : ~packet[l].eliciting)
    /\ UNCHANGED <<keys, addressValidated, handshakeComplete, status, closing, client, vanished>>

(* Mutant: a close goes out whatever may be sent.                           *)
CloseAnyway ==
    /\ status = "closing" /\ ~closeWasReceived
    /\ closeFramePending \/ closeSendCount < 3
    /\ closeFramePending' = FALSE /\ closeSendCount' = closeSendCount + 1
    /\ allowance' = IF addressValidated THEN allowance ELSE allowance - 1
    /\ UNCHANGED <<keys, addressValidated, handshakeComplete, status, cryptoSend, space, pingPending,
                   handshakeDonePending, probeDue, sent, closeWasReceived, client, vanished>>

(* buildClose.  After the first, a close is repeated once a probe timeout   *)
(* has passed.                                                              *)
buildClose ==
    /\ status = "closing" /\ Allowed /\ ~closeWasReceived
    /\ closeFramePending \/ closeSendCount < 3
    /\ closeFramePending' = FALSE /\ closeSendCount' = closeSendCount + 1
    /\ allowance' = IF addressValidated THEN allowance ELSE allowance - 1
    /\ UNCHANGED <<keys, addressValidated, handshakeComplete, status, cryptoSend, space, pingPending,
                   handshakeDonePending, probeDue, sent, closeWasReceived, client, vanished>>

close ==
    /\ CanClose /\ Open
    /\ status' = "closing" /\ closeFramePending' = TRUE
    /\ UNCHANGED <<keys, addressValidated, handshakeComplete, allowance, cryptoSend, space, pingPending,
                   handshakeDonePending, probeDue, sent, closeSendCount, closeWasReceived, client, vanished>>

hasOutput ==
    CASE status = "closing" -> closeFramePending /\ ~closeWasReceived
      [] status = "drained" -> FALSE
      [] OTHER -> \/ \E l \in Levels : ackPending[l] \/ OwedPieces(l) # {}
                  \/ handshakeDonePending \/ pingPending

-----------------------------------------------------------------------------
(* Timers.                                                                  *)

(* nextTimeout: the probe timeout passes.                                   *)
passProbe ==
    /\ Open /\ ProbeArmed /\ ~probeDue
    /\ Patient => ~OnItsWay
    /\ probeDue' = TRUE
    /\ UNCHANGED <<keys, addressValidated, handshakeComplete, status, allowance, cryptoSend, space,
                   pingPending, handshakeDonePending, sent, closing, client, vanished>>

(* The acknowledgements whose time has come.                                *)
AckDeadlines(due) ==
    /\ \A l \in due : ackTimer[l] = "armed"
    /\ ackTimer' = [l \in Levels |-> IF l \in due THEN "off" ELSE ackTimer[l]]
    /\ ackPending' = [l \in Levels |-> ackPending[l] \/ l \in due]
    /\ UNCHANGED ackElicitingPending

(* onTimeout with a loss timer: the packets overtaken are lost.             *)
LostAt(l) == {i \in 1..Len(sent[l]) : sent[l][i].overtaken}
DoneLost(l) == \E j \in LostAt(l) : sent[l][j].done

onTimeoutLoss(l, due) ==
    /\ Open /\ LostAt(l) # {}
    /\ AckDeadlines(due)
    /\ cryptoSend' = [cryptoSend EXCEPT ![l] = [i \in DOMAIN @ |->
           IF @[i] = "sent" /\ \E j \in LostAt(l) : i \in sent[l][j].crypto THEN "lost" ELSE @[i]]]
    /\ handshakeDonePending' = (handshakeDonePending \/ DoneLost(l))
    /\ sent' = [sent EXCEPT ![l] = Only(@, 1..Len(@) \ LostAt(l))]
    /\ UNCHANGED <<keys, addressValidated, handshakeComplete, status, allowance, pingPending, probeDue,
                   closing, client, vanished>>

(* onTimeout with none: the acknowledgements, then always a probe.          *)
Unacknowledged(l) == {i \in 1..Pieces[l] : keys[l] = "have" /\ cryptoSend[l][i] \in {"sent", "lost"}}
onTimeout(due) ==
    /\ Open
    /\ due = {} => probeDue /\ ProbeArmed
    /\ AckDeadlines(due)
    /\ cryptoSend' = [l \in Levels |-> [i \in 1..Pieces[l] |->
           IF i \in Unacknowledged(l) THEN "lost" ELSE cryptoSend[l][i]]]
    /\ pingPending' = (pingPending \/ \A l \in Levels : Unacknowledged(l) = {})
    /\ probeDue' = FALSE
    /\ UNCHANGED <<keys, addressValidated, handshakeComplete, status, allowance, handshakeDonePending,
                   sent, closing, client, vanished>>

(* The time of a closing connection, or of an idle one, is over.            *)
drained ==
    /\ CanClose /\ status # "drained"
    /\ status' = "drained"
    /\ UNCHANGED <<keys, addressValidated, handshakeComplete, allowance, cryptoSend, space, pingPending,
                   handshakeDonePending, probeDue, sent, closing, client, vanished>>

-----------------------------------------------------------------------------
(* The network: a packet reaches the client, or vanishes.                   *)

arrive(l, i) ==
    /\ sent[l][i].fate = "way"
    /\ sent' = [sent EXCEPT ![l][i].fate = "arrived"]
    /\ client' = [initial |-> client.initial \cup (IF l = "initial" THEN sent[l][i].crypto ELSE {}),
                  handshake |-> client.handshake \cup (IF l = "handshake" THEN sent[l][i].crypto ELSE {}),
                  done |-> client.done \/ sent[l][i].done]
    /\ UNCHANGED <<keys, addressValidated, handshakeComplete, status, allowance, cryptoSend, space,
                   pingPending, handshakeDonePending, probeDue, closing, vanished>>

vanish(l, i) ==
    /\ vanished < MaxVanished
    /\ sent[l][i].fate = "way"
    /\ sent' = [sent EXCEPT ![l][i].fate = "vanished"]
    /\ vanished' = vanished + 1
    /\ UNCHANGED <<keys, addressValidated, handshakeComplete, status, allowance, cryptoSend, space,
                   pingPending, handshakeDonePending, probeDue, closing, client>>

Kinds == {"crypto", "ping", "ack", "close", "bad"}
Next ==
    \/ \E l \in Levels, kind \in Kinds, acked \in BOOLEAN : receive(l, kind, acked)
    \/ \E l \in Levels : nextDatagram(l)
    \/ buildClose \/ close \/ drained
    \/ \E due \in SUBSET Levels : onTimeout(due) \/ \E l \in Levels : onTimeoutLoss(l, due)
    \/ passProbe
    \/ \E l \in Levels : \E i \in 1..Len(sent[l]) : arrive(l, i) \/ vanish(l, i)

Spec == Init /\ [][Next]_vars

(* The application's loop sends what there is and calls the timers, time    *)
(* passes, packets that do not vanish arrive, and a client repeats its      *)
(* handshake bytes and probes.                                              *)
Fairness ==
    /\ \A l \in Levels : WF_vars(nextDatagram(l))
    /\ WF_vars(passProbe) /\ WF_vars(\E l \in Levels : onTimeoutLoss(l, {}))
    /\ WF_vars(\E due \in {{}} \cup {{l} : l \in Levels} : onTimeout(due))
    /\ WF_vars(\E l \in Levels : \E i \in 1..Len(sent[l]) : arrive(l, i))
    /\ SF_vars(receive("initial", "crypto", TRUE)) /\ SF_vars(receive("handshake", "crypto", TRUE))
    /\ SF_vars(receive("handshake", "ping", TRUE)) /\ SF_vars(receive("application", "ping", TRUE))

FairSpec == Spec /\ Fairness

-----------------------------------------------------------------------------
(* nextDatagram, buildClose: an address that has not been validated is sent *)
(* at most three times what came from it, closes included.                  *)
Amplification == ~addressValidated => allowance >= 0

(* discardSpace: handshake bytes are waiting only where there are keys to   *)
(* send them with.                                                          *)
OwedHasKeys == \A l \in Levels : OwedPieces(l) # {} => keys[l] = "have"

(* onPacketLost, onTimeout: a piece sent and not acknowledged is in a packet *)
(* whose fate the server still waits to learn, so that it is sent again if   *)
(* the packet was lost.                                                      *)
SentIsWatched ==
    \A l \in Levels : \A i \in 1..Pieces[l] :
        cryptoSend[l][i] = "sent" => \E j \in 1..Len(sent[l]) : i \in sent[l][j].crypto

(* applyTLSProgress, onPacketLost: once the handshake is complete the client *)
(* has been told, is being told, or will be.                                 *)
DoneIsTold ==
    handshakeComplete =>
        \/ client.done \/ handshakeDonePending
        \/ \E j \in 1..Len(sent["application"]) : sent["application"][j].done

(* The three together: whatever is lost, nothing the client still needs is   *)
(* left where no timer and no list would send it again.                      *)
NothingStranded == OwedHasKeys /\ SentIsWatched /\ DoneIsTold

(* The probe timeout of nextTimeout, which "probes rather than stalls", and  *)
(* the three-times limit: however packets vanish, the handshake completes    *)
(* and the client hears of it, unless somebody closes the connection.        *)
HandshakeCompletes == <>((handshakeComplete /\ client.done) \/ Closed)

(* hasOutput: "Whether anything is waiting to go out.  Used to decide        *)
(* whether the connection needs a turn at the socket."  With the handshake   *)
(* over, something that waits can go.                                        *)
OutputCanGo ==
    Open /\ handshakeComplete /\ hasOutput => \E l \in Levels : CanSendAt(l) /\ HasFrames(l)

(* ptoMs: "how long to wait before assuming something was lost": no probe is *)
(* made before the probe timeout has passed.                                 *)
ProbesInTime == pingPending' /\ ~pingPending => probeDue /\ ProbeArmed

(* isAckEliciting: "Frames that do not by themselves make a packet worth     *)
(* acknowledging."  An acknowledgement waits only if something worth one     *)
(* arrived.                                                                  *)
AckWorthwhile == \A l \in Levels : ackPending[l] => ackElicitingPending[l]

(* Status.closing: "A close has been sent or received; the connection        *)
(* lingers only to repeat the close".  A closing connection does not open    *)
(* again.                                                                    *)
ClosingStays == status = "closing" => status' \in {"closing", "drained"}

-----------------------------------------------------------------------------
(* The types of the variables that the invariant speaks of.                  *)
Packet ==
    [crypto : SUBSET Nat, done : BOOLEAN, eliciting : BOOLEAN,
     fate : {"way", "arrived", "vanished"}, overtaken : BOOLEAN]
PieceStates == {"none", "owed", "sent", "lost", "acked"}

TypeOK ==
    /\ keys \in [Levels -> {"none", "have", "gone"}]
    /\ allowance \in Int
    /\ DOMAIN cryptoSend = Levels
    /\ \A l \in Levels : cryptoSend[l] \in [1..Pieces[l] -> PieceStates]
    /\ sent \in [Levels -> Seq(Packet)]

(* discardSpace: packets wait only where there are keys.                     *)
SentHasKeys == \A l \in Levels : sent[l] # <<>> => keys[l] = "have"

(* A packet with HANDSHAKE_DONE that has arrived told the client.            *)
ArrivedIsTold ==
    \A l \in Levels : \A i \in 1..Len(sent[l]) :
        sent[l][i].fate = "arrived" /\ sent[l][i].done => client.done

(* The inductive invariant of the handshake.                                 *)
HandshakeInv ==
    /\ TypeOK
    /\ SentHasKeys
    /\ ArrivedIsTold
    /\ OwedHasKeys
    /\ SentIsWatched
    /\ DoneIsTold
    /\ Amplification

=============================================================================
