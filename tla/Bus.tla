-------------------------------- MODULE Bus --------------------------------
(***************************************************************************)
(* The broadcast bus whole: the ring of module BusRing, the wake loop that *)
(* ends av_bus_publish, and av_bus_attach, av_bus_arm and av_bus_clear.    *)
(* The worker around them belongs to the servers built on this package; it *)
(* is modelled by what avian_bus.h asks of it: read from a cursor until    *)
(* there is nothing more, arm, and sleep on the descriptor unless av_bus_arm *)
(* says there is something to read.                                        *)
(***************************************************************************)
EXTENDS BusRing

CONSTANTS
    SlotCount,      \* ring->slot_count
    SlotOf          \* the wake slot each reader attaches to

Slots == 0..SlotCount-1

ASSUME SlotAssumption ==
    SlotCount \in Nat \ {0} /\ SlotOf \in [Readers -> Slots]

VARIABLES
    armed,          \* g_slots: whether each slot is armed
    fd,             \* whether each slot's descriptor is readable
    worker,         \* each process: "new", "awake", "arming" or "asleep"
    cursor,         \* the number each reader reads next
    wakeAt,         \* publish: the slot its wake loop is at
    wakeSelf,       \* publish: its wake_self argument
    writing         \* publish: armed was exchanged, the write is to come

wake == <<armed, fd, worker, cursor, wakeAt, wakeSelf, writing>>
busVars == <<vars, wake>>

BusInit ==
    /\ Init
    /\ armed = [i \in Slots |-> FALSE]
    /\ fd = [i \in Slots |-> FALSE]
    /\ worker = [p \in Procs |-> "new"]
    /\ cursor = [p \in Procs |-> First]
    /\ wakeAt = [p \in Procs |-> 0]
    /\ wakeSelf = [p \in Procs |-> FALSE]
    /\ writing = [p \in Procs |-> FALSE]

Attached(p) == worker[p] # "new"
Self(p, i) == p \in Readers /\ Attached(p) /\ SlotOf[p] = i

(* The process is on its own thread, in no call of the bus.                 *)
Running(p) == At(p, "idle") /\ worker[p] \in {"new", "awake"}

(* Mutant of attach: attaching empties the ring, as mapping it does.        *)
AttachEmpties(p) ==
    /\ p \in Readers /\ Running(p) /\ ~Attached(p)
    /\ oldest' = next
    /\ worker' = [worker EXCEPT ![p] = "awake"]
    /\ cursor' = [cursor EXCEPT ![p] = next]
    /\ armed' = [armed EXCEPT ![SlotOf[p]] = FALSE]
    /\ fd' = [fd EXCEPT ![SlotOf[p]] = FALSE]
    /\ UNCHANGED <<claim, next, high, tail, index, bytes, dead, pc, writer, reader, log>>
    /\ UNCHANGED <<wakeAt, wakeSelf, writing>>

(* av_bus_attach: the slot may hold what a worker that died left in it.     *)
attach(p) ==
    /\ p \in Readers /\ Running(p) /\ ~Attached(p)
    /\ \A q \in Readers \ {p} : Self(q, SlotOf[p]) => q \in dead
    /\ worker' = [worker EXCEPT ![p] = "awake"]
    /\ cursor' = [cursor EXCEPT ![p] = next]
    /\ armed' = [armed EXCEPT ![SlotOf[p]] = FALSE]
    /\ fd' = [fd EXCEPT ![SlotOf[p]] = FALSE]
    /\ UNCHANGED <<vars, wakeAt, wakeSelf, writing>>

bus_publish(p, len, self) ==
    /\ Running(p)
    /\ publish(p, len)
    /\ wakeSelf' = [wakeSelf EXCEPT ![p] = self]
    /\ wakeAt' = [wakeAt EXCEPT ![p] = 0]
    /\ UNCHANGED <<armed, fd, worker, cursor, writing>>

(* Mutant of wake_slot: the loop does not go on past a slot it skips.       *)
StayAtSkipped(p) ==
    LET i == wakeAt[p]
        skip == (Self(p, i) /\ ~wakeSelf[p]) \/ ~armed[i]
    IN  /\ At(p, "wake") /\ ~writing[p] /\ i < SlotCount
        /\ armed' = [armed EXCEPT ![i] = @ /\ skip]
        /\ writing' = [writing EXCEPT ![p] = ~skip]
        /\ UNCHANGED <<vars, fd, worker, cursor, wakeAt, wakeSelf>>

(* One turn of the wake loop, up to the exchange.  The relaxed load before  *)
(* it only saves an exchange that would have found 0.                       *)
wake_slot(p) ==
    LET i == wakeAt[p]
        skip == (Self(p, i) /\ ~wakeSelf[p]) \/ ~armed[i]
    IN  /\ At(p, "wake") /\ ~writing[p] /\ i < SlotCount
        /\ armed' = [armed EXCEPT ![i] = @ /\ skip]
        /\ writing' = [writing EXCEPT ![p] = ~skip]
        /\ wakeAt' = [wakeAt EXCEPT ![p] = IF skip THEN i + 1 ELSE i]
        /\ UNCHANGED <<vars, fd, worker, cursor, wakeSelf>>

write_fd(p) ==
    /\ At(p, "wake") /\ writing[p]
    /\ fd' = [fd EXCEPT ![wakeAt[p]] = TRUE]
    /\ writing' = [writing EXCEPT ![p] = FALSE]
    /\ wakeAt' = [wakeAt EXCEPT ![p] = @ + 1]
    /\ UNCHANGED <<vars, armed, worker, cursor, wakeSelf>>

bus_published(p) ==
    /\ ~writing[p] /\ wakeAt[p] = SlotCount
    /\ published(p)
    /\ wakeAt' = [wakeAt EXCEPT ![p] = 0]
    /\ UNCHANGED <<armed, fd, worker, cursor, wakeSelf, writing>>

(* The worker reads at its cursor; what it does with the result is          *)
(* bus_unit.c's loop: on to the next number, or past what is gone.          *)
bus_read(p, capacity) ==
    /\ Running(p) /\ Attached(p)
    /\ read(p, cursor[p], capacity)
    /\ UNCHANGED wake

bus_read_done(p) ==
    /\ read_done(p)
    /\ cursor' = [cursor EXCEPT ![p] =
          CASE ret[p] = 1 -> @ + 1
            [] ret[p] = -1 -> IF oldest > @ + 1 THEN oldest ELSE @ + 1
            [] OTHER -> @]
    /\ UNCHANGED <<armed, fd, worker, wakeAt, wakeSelf, writing>>

(* av_bus_arm: the store, then the load that says whether to sleep.         *)
arm(p) ==
    /\ p \in Readers /\ Running(p) /\ Attached(p)
    /\ armed' = [armed EXCEPT ![SlotOf[p]] = TRUE]
    /\ worker' = [worker EXCEPT ![p] = "arming"]
    /\ UNCHANGED <<vars, fd, cursor, wakeAt, wakeSelf, writing>>

(* Mutant of arm_check: the ring is not looked at once more after arming.   *)
ArmBlind(p) ==
    /\ At(p, "idle") /\ worker[p] = "arming"
    /\ worker' = [worker EXCEPT ![p] = "asleep"]
    /\ UNCHANGED <<vars, armed, fd, cursor, wakeAt, wakeSelf, writing>>

arm_check(p) ==
    /\ At(p, "idle") /\ worker[p] = "arming"
    /\ worker' = [worker EXCEPT ![p] = IF next > cursor[p] THEN "awake" ELSE "asleep"]
    /\ UNCHANGED <<vars, armed, fd, cursor, wakeAt, wakeSelf, writing>>

(* The poller returns because the descriptor is readable; the worker calls  *)
(* av_bus_clear and goes on.                                                *)
wake_up(p) ==
    /\ p \notin dead /\ worker[p] = "asleep"
    /\ fd[SlotOf[p]]
    /\ fd' = [fd EXCEPT ![SlotOf[p]] = FALSE]
    /\ worker' = [worker EXCEPT ![p] = "awake"]
    /\ UNCHANGED <<vars, armed, cursor, wakeAt, wakeSelf, writing>>

(* The poller returns for some other descriptor or timer; the slot stays    *)
(* armed.                                                                   *)
other_event(p) ==
    /\ p \notin dead /\ worker[p] = "asleep"
    /\ worker' = [worker EXCEPT ![p] = "awake"]
    /\ UNCHANGED <<vars, armed, fd, cursor, wakeAt, wakeSelf, writing>>

-----------------------------------------------------------------------------
(* The steps of a call that touch only the ring.                            *)
RingStep(p) ==
    /\ \/ take_claim(p) \/ raise_high(p) \/ evict(p) \/ copy_in(p)
       \/ index_position(p) \/ index_sequence(p) \/ advance_tail(p)
       \/ store_next(p) \/ give_claim(p)
       \/ load_next(p) \/ load_oldest(p) \/ load_before(p) \/ load_position(p)
       \/ load_after(p) \/ copy_out(p, "copy_record", "check_record")
       \/ check_record(p) \/ copy_out(p, "copy_body", "check_body")
       \/ check_body(p)
    /\ UNCHANGED wake

WakeStep(p) == wake_slot(p) \/ write_fd(p) \/ bus_published(p)

BusNext ==
    \E p \in Procs :
        \/ attach(p)
        \/ \E len \in Bodies, self \in BOOLEAN : bus_publish(p, len, self)
        \/ RingStep(p)
        \/ WakeStep(p)
        \/ \E capacity \in Buffers : bus_read(p, capacity)
        \/ bus_read_done(p)
        \/ arm(p) \/ arm_check(p)
        \/ wake_up(p) \/ other_event(p)
        \/ die(p) /\ UNCHANGED wake

BusSpec == BusInit /\ [][BusNext]_busVars

(* A call once begun goes on to its end, and the poller reports a readable  *)
(* descriptor; nothing makes a worker publish, read or arm.                 *)
BusFairness ==
    \A p \in Procs :
        WF_busVars(RingStep(p)) /\ WF_busVars(WakeStep(p)) /\ WF_busVars(wake_up(p))

BusFairSpec == BusSpec /\ BusFairness

-----------------------------------------------------------------------------
(* Properties *)

(* The variables of the wake protocol have their types.                     *)
WakeTypeOK ==
    /\ armed \in [Slots -> BOOLEAN] /\ fd \in [Slots -> BOOLEAN]
    /\ worker \in [Procs -> {"new", "awake", "arming", "asleep"}]
    /\ cursor \in [Procs -> Nat]
    /\ wakeAt \in [Procs -> 0..SlotCount]
    /\ wakeSelf \in [Procs -> BOOLEAN] /\ writing \in [Procs -> BOOLEAN]

(* Process p is in a publish that is still to write to slot i.              *)
WillWake(p, i) ==
    \/ At(p, "give_claim") /\ armed[i]
    \/ At(p, "wake") /\ wakeAt[p] <= i /\ armed[i]
    \/ At(p, "wake") /\ wakeAt[p] = i /\ writing[p]

(* Its publisher died after counting message s and before its wake loop     *)
(* was through.                                                             *)
DiedWaking(s) ==
    log[s].by \in dead /\ wseq[log[s].by] = s /\ pc[log[s].by] \in {"give_claim", "wake"}

(* A publisher died between its exchange on slot i and its write, and the   *)
(* slot has not been armed since.                                           *)
DiedWriting(i) ==
    ~armed[i] /\ \E q \in Publishers \cap dead : writing[q] /\ wakeAt[q] = i

(* av_bus_arm, the wake loop of av_bus_publish: no message is slept         *)
(* through.  For every message a sleeping worker has not read, its          *)
(* descriptor is readable or some publisher is about to write to it --      *)
(* unless the message's own publisher died before it could, or one did that *)
(* had disarmed the worker's slot.                                          *)
NotSleptThrough ==
    /\ WakeTypeOK
    /\ \A p \in Readers : p \notin dead /\ worker[p] = "asleep" =>
          \A s \in cursor[p]..next-1 :
              \/ fd[SlotOf[p]]
              \/ \E q \in Publishers : WillWake(q, SlotOf[p])
              \/ DiedWaking(s) \/ DiedWriting(SlotOf[p])

(* A sleeping worker with a message to read is woken, unless the publisher  *)
(* of one of them died before it could, or one that had disarmed its slot.  *)
SleeperWakes ==
    \A p \in Readers :
        (worker[p] = "asleep" /\ next > cursor[p])
            ~> \/ worker[p] # "asleep" \/ p \in dead \/ DiedWriting(SlotOf[p])
               \/ \E s \in cursor[p]..next-1 : DiedWaking(s)

(* What the bus promises a living worker: a claim left by the dead is taken *)
(* over, so that messages go on being published, and it is woken for them.  *)
KeepsUp == TakenOver /\ SleeperWakes

(* A worker reads the messages in order and misses none the ring holds: its *)
(* cursor never passes a message it was not given, save one that is gone.   *)
CursorSkipsOnlyGone ==
    [][ \A p \in Readers : Attached(p) =>
          \A s \in cursor[p]..cursor'[p]-1 :
              \/ rseq[p] = s /\ ret[p] = 1
              \/ s < oldest \/ high > log[s].position + Capacity ]_busVars

(* The bus implements the ring: with the wake slots and the workers' cursors *)
(* hidden, every behaviour of it is one of module BusRing, so all that holds *)
(* of the ring holds of the bus.                                            *)
RingSpec == Spec

-----------------------------------------------------------------------------
(* The inductive invariant behind these, beside the ring's IInv.            *)

ReadLabels == Reading \cup {"load_next", "load_oldest", "returned"}

(* A worker's cursor is a number given or the next one, and is what a read  *)
(* that has begun asks for.                                                 *)
CursorInv ==
    \A p \in Readers :
        cursor[p] \in First..next /\ (pc[p] \in ReadLabels => rseq[p] = cursor[p])

(* Where a process is in its calls says what it may be doing to the slots.  *)
CallInv ==
    \A p \in Procs :
        /\ worker[p] \in {"arming", "asleep"} => p \in Readers /\ pc[p] = "idle"
        /\ pc[p] \in Holding \cup {"take_claim", "wake"} => p \in Publishers
        /\ pc[p] \in ReadLabels => p \in Readers
        /\ pc[p] # "wake" => wakeAt[p] = 0 /\ ~writing[p]
        /\ writing[p] => wakeAt[p] < SlotCount

(* Two workers that live never have the same slot.                          *)
OneWorker ==
    \A p, q \in Readers \ dead :
        Attached(p) /\ Attached(q) /\ SlotOf[p] = SlotOf[q] => p = q

(* The publisher of message s has slot i still before it, or died so.       *)
Visits(s, i) ==
    LET q == log[s].by
    IN  wseq[q] = s /\ (pc[q] = "give_claim" \/ (pc[q] = "wake" /\ wakeAt[q] <= i))

(* From the time it arms, a worker's slot stays armed until somebody takes  *)
(* it upon itself to write; and while it is armed, whoever publishes will   *)
(* come to it.                                                              *)
SleepInv ==
    \A p \in Readers \ dead :
        LET i == SlotOf[p]
        IN  /\ worker[p] \in {"arming", "asleep"} =>
                  armed[i] \/ fd[i] \/ \E q \in Publishers : writing[q] /\ wakeAt[q] = i
            /\ worker[p] = "asleep" /\ armed[i] /\ ~fd[i] =>
                  \A s \in cursor[p]..next-1 : Visits(s, i)

BusInv == WakeTypeOK /\ CursorInv /\ CallInv /\ OneWorker /\ SleepInv
=============================================================================
