------------------------- MODULE LoopExecutorProofs -------------------------
(* What holds of the executor for any number of threads and jobs, any ring  *)
(* and any budget: the types, that the ring is a queue, that the loop never *)
(* sleeps on work, and that it all implements JobQueue.                     *)
EXTENDS LoopExecutor, TLAPS

(* A slot number is a number of a slot.                                     *)
LEMMA SlotRange == \A n \in Nat, c \in Nat \ {0} : n % c \in 0..c - 1
  BY SMT

(* Growing keeps the ring a ring, with room for one more job.               *)
LEMMA GrowOK ==
    ASSUME NEW r, RingOK(r)
    PROVE  RingOK(grow(r)) /\ grow(r).count < grow(r).capacity /\ grow(r).count = r.count
  <1>1. \A i \in 0..2 * r.capacity - 1 : i < r.count => (r.head + i) % r.capacity \in 0..r.capacity - 1
    <2> SUFFICES ASSUME NEW i \in Nat PROVE (r.head + i) % r.capacity \in 0..r.capacity - 1
      BY DEF RingOK
    <2>1. r.head + i \in Nat /\ r.capacity \in Nat \ {0}
      BY DEF RingOK
    <2> QED
      BY Zenon, <2>1, SlotRange
  <1>2. grow(r).jobs \in [0..2 * r.capacity - 1 -> Nat]
    BY Zenon, <1>1 DEF grow, NoJob, RingOK
  <1>3. grow(r).capacity = 2 * r.capacity /\ grow(r).head = 0 /\ grow(r).count = r.count
    BY Zenon DEF grow
  <1> QED
    BY <1>2, <1>3 DEF RingOK

(* So does a push, which grows a full ring; it adds one.                    *)
LEMMA PushOK ==
    ASSUME NEW r, RingOK(r), NEW job \in Nat
    PROVE  RingOK(push(r, job)) /\ push(r, job).count = r.count + 1
  <1> DEFINE roomy == IF r.count = r.capacity THEN grow(r) ELSE r
             slot == (roomy.head + roomy.count) % roomy.capacity
  <1>1. RingOK(roomy) /\ roomy.count < roomy.capacity /\ roomy.count = r.count
    BY GrowOK DEF RingOK
  <1>2. push(r, job) = [jobs |-> [roomy.jobs EXCEPT ![slot] = job],
                        capacity |-> roomy.capacity, head |-> roomy.head, count |-> roomy.count + 1]
    BY Zenon DEF push
  <1> HIDE DEF roomy
  <1>3. slot \in 0..roomy.capacity - 1
    <2>1. roomy.head + roomy.count \in Nat /\ roomy.capacity \in Nat \ {0}
      BY <1>1 DEF RingOK
    <2> QED
      BY Zenon, <2>1, SlotRange
  <1> HIDE DEF slot
  <1>4. [roomy.jobs EXCEPT ![slot] = job] \in [0..roomy.capacity - 1 -> Nat]
    BY Zenon, <1>1, <1>3 DEF RingOK
  <1> QED
    BY SMTT(30), <1>1, <1>2, <1>4 DEF RingOK

(* And taking a job from a ring that is not empty, which leaves one fewer.  *)
LEMMA PoppedOK ==
    ASSUME NEW r, RingOK(r), r.count # 0
    PROVE  RingOK(popped(r)) /\ popped(r).count = r.count - 1
  <1>1. (r.head + 1) % r.capacity \in 0..r.capacity - 1
    <2>1. r.head + 1 \in Nat /\ r.capacity \in Nat \ {0}
      BY DEF RingOK
    <2> QED
      BY Zenon, <2>1, SlotRange
  <1>2. [r.jobs EXCEPT ![r.head] = NoJob] \in [0..r.capacity - 1 -> Nat]
    BY Zenon DEF RingOK, NoJob
  <1> QED
    BY SMTT(30), <1>1, <1>2 DEF RingOK, popped

-----------------------------------------------------------------------------
(* The slot i places after the head, where the ring wraps at most once.     *)
LEMMA Wrapped ==
    \A h, i, c \in Nat : c > 0 /\ h < c /\ i < c =>
        (h + i) % c = IF h + i < c THEN h + i ELSE h + i - c
  BY SMT

(* The head is the slot no places after it.                                 *)
LEMMA FirstSlot ==
    ASSUME NEW h \in Nat, NEW c \in Nat, h < c
    PROVE  (h + 0) % c = h
  BY Wrapped

(* The tail of a sequence, place by place.                                  *)
LEMMA TailAt ==
    ASSUME NEW q \in Seq(Nat), NEW i \in Nat, i + 2 <= Len(q)
    PROVE  Tail(q)[i + 1] = q[i + 2]
  <1>1. q # <<>> /\ i + 1 \in 1..Len(q) - 1
    OBVIOUS
  <1> QED
    BY <1>1

(* Fewer than c places apart, two slots differ.                             *)
LEMMA SlotsApart ==
    ASSUME NEW h \in Nat, NEW i \in Nat, NEW n \in Nat, NEW c \in Nat, h < c, i < n, n < c
    PROVE  /\ (h + i) % c # (h + n) % c
           /\ (h + i) % c \in 0..c - 1 /\ (h + n) % c \in 0..c - 1
  <1>1. (h + i) % c = IF h + i < c THEN h + i ELSE h + i - c
    BY Wrapped
  <1>2. (h + n) % c = IF h + n < c THEN h + n ELSE h + n - c
    BY Wrapped
  <1> QED
    BY <1>1, <1>2

(* A place further from the head is a place from the next head.             *)
LEMMA SlotsNext ==
    ASSUME NEW h \in Nat, NEW i \in Nat, NEW c \in Nat, h < c, i + 1 < c
    PROVE  /\ (((h + 1) % c) + i) % c = (h + (i + 1)) % c
           /\ (h + (i + 1)) % c # h /\ (h + (i + 1)) % c \in 0..c - 1
  <1> DEFINE g == (h + 1) % c
  <1>1. g = IF h + 1 < c THEN h + 1 ELSE h + 1 - c
    BY Wrapped
  <1>2. g \in Nat /\ g < c
    BY <1>1
  <1>3. (h + (i + 1)) % c = IF h + (i + 1) < c THEN h + (i + 1) ELSE h + (i + 1) - c
    BY Wrapped
  <1> HIDE DEF g
  <1>4. (g + i) % c = IF g + i < c THEN g + i ELSE g + i - c
    BY <1>2, Wrapped
  <1>5. (g + i) % c = (h + (i + 1)) % c
    BY <1>1, <1>2, <1>3, <1>4
  <1>6. (h + (i + 1)) % c # h /\ (h + (i + 1)) % c \in 0..c - 1
    BY <1>3
  <1> QED
    BY Zenon, <1>5, <1>6 DEF g

(* The ring holds the sequence q: RingIsQueue, slot by slot.                *)
Holds(r, q) == Len(q) = r.count /\ \A i \in 0..r.count - 1 : r.jobs[(r.head + i) % r.capacity] = q[i + 1]

(* The two ways to say what a ring holds agree.                             *)
LEMMA HoldsSlots ==
    ASSUME NEW r, RingOK(r), NEW q \in Seq(Nat)
    PROVE  Holds(r, q) <=> Slots(r) = q
  <1>0. r.count \in Nat /\ r.head \in Nat
    BY DEF RingOK
  <1>1. ASSUME Holds(r, q) PROVE Slots(r) = q
    <2>1. \A i \in 1..r.count : r.jobs[(r.head + i - 1) % r.capacity] = q[i]
      <3> SUFFICES ASSUME NEW i \in 1..r.count PROVE r.jobs[(r.head + i - 1) % r.capacity] = q[i]
        BY Zenon
      <3>1. i - 1 \in 0..r.count - 1 /\ r.head + i - 1 = r.head + (i - 1) /\ (i - 1) + 1 = i
        BY <1>0
      <3> QED
        BY Zenon, <1>1, <3>1 DEF Holds
    <2>2. DOMAIN q = 1..r.count /\ q = [i \in DOMAIN q |-> q[i]]
      BY <1>1 DEF Holds
    <2> QED
      BY Zenon, <2>1, <2>2 DEF Slots
  <1>2. ASSUME Slots(r) = q PROVE Holds(r, q)
    <2>1. DOMAIN q = 1..r.count /\ Len(q) = r.count
      BY <1>0, <1>2 DEF Slots
    <2>2. ASSUME NEW i \in 0..r.count - 1 PROVE r.jobs[(r.head + i) % r.capacity] = q[i + 1]
      <3>1. i + 1 \in 1..r.count /\ r.head + (i + 1) - 1 = r.head + i
        BY <1>0
      <3> QED
        BY Zenon, <1>2, <3>1 DEF Slots
    <2> QED
      BY Zenon, <2>1, <2>2 DEF Holds
  <1> QED
    BY Zenon, <1>1, <1>2

(* Growing moves the jobs and keeps their order.                            *)
LEMMA GrowHolds ==
    ASSUME NEW r, RingOK(r), NEW q \in Seq(Nat), Holds(r, q)
    PROVE  Holds(grow(r), q)
  <1>1. grow(r).capacity = 2 * r.capacity /\ grow(r).head = 0 /\ grow(r).count = r.count
    BY Zenon DEF grow
  <1>2. ASSUME NEW i \in 0..r.count - 1 PROVE grow(r).jobs[(0 + i) % (2 * r.capacity)] = q[i + 1]
    <2>1. i \in Nat /\ i < r.count /\ i < 2 * r.capacity /\ 2 * r.capacity \in Nat /\ 2 * r.capacity > 0 /\ i \in 0..2 * r.capacity - 1
      BY DEF RingOK
    <2>2. (0 + i) % (2 * r.capacity) = i
      BY <2>1, Wrapped
    <2>3. grow(r).jobs[i] = r.jobs[(r.head + i) % r.capacity]
      BY Zenon, <2>1 DEF grow
    <2> QED
      BY Zenon, <2>2, <2>3 DEF Holds
  <1> QED
    BY Zenon, <1>1, <1>2 DEF Holds

(* A push adds its job at the end.                                          *)
LEMMA PushHolds ==
    ASSUME NEW r, RingOK(r), NEW job \in Nat, NEW q \in Seq(Nat), Holds(r, q)
    PROVE  Holds(push(r, job), Append(q, job))
  <1> DEFINE roomy == IF r.count = r.capacity THEN grow(r) ELSE r
             slot == (roomy.head + roomy.count) % roomy.capacity
             s == [jobs |-> [roomy.jobs EXCEPT ![slot] = job],
                   capacity |-> roomy.capacity, head |-> roomy.head, count |-> roomy.count + 1]
  <1>1. RingOK(roomy) /\ roomy.count < roomy.capacity /\ Holds(roomy, q)
    BY GrowOK, GrowHolds DEF RingOK
  <1>2. push(r, job) = s
    BY Zenon DEF push
  <1> HIDE DEF roomy
  <1>3. /\ roomy.head \in Nat /\ roomy.count \in Nat /\ roomy.capacity \in Nat /\ roomy.head < roomy.capacity
        /\ DOMAIN roomy.jobs = 0..roomy.capacity - 1
    BY <1>1 DEF RingOK
  <1>5. slot \in 0..roomy.capacity - 1
    <2>1. roomy.head + roomy.count \in Nat /\ roomy.capacity \in Nat \ {0}
      BY <1>3
    <2> QED
      BY Zenon, <2>1, SlotRange
  <1>6. ASSUME NEW i \in 0..roomy.count
        PROVE  s.jobs[(roomy.head + i) % roomy.capacity] = Append(q, job)[i + 1]
    <2>1. CASE i = roomy.count
      <3>1. Append(q, job)[i + 1] = job
        BY <1>1, <2>1 DEF Holds
      <3> QED
        BY Zenon, <1>3, <1>5, <2>1, <3>1
    <2>2. CASE i # roomy.count
      <3>0. i \in 0..roomy.count - 1 /\ i \in Nat /\ i < roomy.count
        BY <1>1, <1>3, <2>2
      <3>2. (roomy.head + i) % roomy.capacity # slot /\ (roomy.head + i) % roomy.capacity \in 0..roomy.capacity - 1
        BY Zenon, <1>1, <1>3, <3>0, SlotsApart
      <3> HIDE DEF slot
      <3>3. s.jobs[(roomy.head + i) % roomy.capacity] = roomy.jobs[(roomy.head + i) % roomy.capacity]
        BY Zenon, <1>3, <3>2
      <3>4. roomy.jobs[(roomy.head + i) % roomy.capacity] = q[i + 1] /\ Len(q) = roomy.count
        BY Zenon, <1>1, <3>0 DEF Holds
      <3>5. Append(q, job)[i + 1] = q[i + 1]
        <4>1. i + 1 \in 1..Len(q)
          BY <1>3, <3>0, <3>4
        <4> QED
          BY <4>1
      <3> QED
        BY Zenon, <3>3, <3>4, <3>5
    <2> QED
      BY Zenon, <2>1, <2>2
  <1>7. Len(Append(q, job)) = s.count /\ s.head = roomy.head /\ s.capacity = roomy.capacity
    BY <1>1 DEF Holds
  <1> HIDE DEF slot
  <1>8. 0..s.count - 1 = 0..roomy.count
    BY <1>3
  <1> HIDE DEF s
  <1> QED
    BY Zenon, <1>2, <1>6, <1>7, <1>8 DEF Holds

(* Taking a job takes the first.                                            *)
LEMMA PoppedHolds ==
    ASSUME NEW r, RingOK(r), NEW q \in Seq(Nat), Holds(r, q), r.count # 0
    PROVE  Holds(popped(r), Tail(q)) /\ r.jobs[r.head] = Head(q) /\ q # <<>>
  <1>1. /\ r.head \in Nat /\ r.count \in Nat /\ r.capacity \in Nat /\ r.head < r.capacity
        /\ r.count <= r.capacity /\ r.count > 0 /\ DOMAIN r.jobs = 0..r.capacity - 1
    BY DEF RingOK
  <1>2. Len(q) = r.count /\ q # <<>>
    BY Zenon, <1>1 DEF Holds
  <1>3. r.jobs[r.head] = Head(q)
    <2>1. (r.head + 0) % r.capacity = r.head
      BY Zenon, <1>1, FirstSlot
    <2>2. 0 \in 0..r.count - 1 /\ 0 + 1 = 1
      BY <1>1
    <2>3. r.jobs[(r.head + 0) % r.capacity] = q[1]
      BY Zenon, <2>2 DEF Holds
    <2> QED
      BY <1>2, <2>1, <2>3
  <1>4. ASSUME NEW i \in 0..r.count - 2
        PROVE  popped(r).jobs[(((r.head + 1) % r.capacity) + i) % r.capacity] = Tail(q)[i + 1]
    <2>0. i \in Nat /\ i + 1 \in 0..r.count - 1 /\ i + 1 < r.capacity /\ r.capacity > 1
      BY <1>1
    <2>5. /\ (((r.head + 1) % r.capacity) + i) % r.capacity = (r.head + (i + 1)) % r.capacity
          /\ (r.head + (i + 1)) % r.capacity # r.head /\ (r.head + (i + 1)) % r.capacity \in 0..r.capacity - 1
      BY Zenon, <1>1, <2>0, SlotsNext
    <2>7. popped(r).jobs[(((r.head + 1) % r.capacity) + i) % r.capacity] = r.jobs[(r.head + (i + 1)) % r.capacity]
      BY Zenon, <1>1, <2>5 DEF popped
    <2>8. r.jobs[(r.head + (i + 1)) % r.capacity] = q[i + 2]
      <3>1. (i + 1) + 1 = i + 2
        BY <2>0
      <3> QED
        BY Zenon, <2>0, <3>1 DEF Holds
    <2>9. Tail(q)[i + 1] = q[i + 2]
      <3>1. i + 2 <= Len(q)
        BY <1>1, <1>2
      <3> QED
        BY Zenon, <2>0, <3>1, TailAt
    <2> QED
      BY Zenon, <2>7, <2>8, <2>9
  <1>5. Len(Tail(q)) = r.count - 1 /\ popped(r).count = r.count - 1
        /\ popped(r).head = (r.head + 1) % r.capacity /\ popped(r).capacity = r.capacity
    BY <1>1, <1>2 DEF popped
  <1>6. 0..popped(r).count - 1 = 0..r.count - 2
    BY <1>1, <1>5
  <1> QED
    BY Zenon, <1>2, <1>3, <1>4, <1>5, <1>6 DEF Holds

-----------------------------------------------------------------------------
(* A drain that collects has a job left to run.                             *)
LeftOver == pc \in {"collect", "taken"} => left # 0

RingInv == TypeOK /\ RingIsQueue /\ LeftOver

(* A push onto the ring and onto its history.                               *)
LEMMA PushKeeps ==
    ASSUME RingInv, NEW job \in Nat, ring' = push(ring, job), queue' = Append(queue, job)
    PROVE  RingOK(ring') /\ queue' \in Seq(Nat) /\ RingIsQueue'
  <1>1. RingOK(ring) /\ queue \in Seq(Nat) /\ Slots(ring) = queue
    BY Zenon DEF RingInv, TypeOK, RingIsQueue
  <1>2. RingOK(ring') /\ queue' \in Seq(Nat)
    BY <1>1, PushOK
  <1>3. Holds(ring', queue')
    BY Zenon, <1>1, HoldsSlots, PushHolds
  <1> QED
    BY Zenon, <1>2, <1>3, HoldsSlots DEF RingIsQueue

(* Taking a job from both.                                                  *)
LEMMA TakeKeeps ==
    ASSUME RingInv, take, ring.count # 0, left \in Nat \ {0}
    PROVE  RingInv'
  <1>1. RingOK(ring) /\ queue \in Seq(Nat) /\ Slots(ring) = queue
    BY Zenon DEF RingInv, TypeOK, RingIsQueue
  <1>2. RingOK(ring') /\ Holds(ring', queue') /\ queue # <<>>
    BY Zenon, <1>1, PoppedOK, HoldsSlots, PoppedHolds DEF take
  <1>3. queue' \in Seq(Nat)
    BY <1>1, <1>2 DEF take
  <1>4. running' \in Nat /\ left' \in Nat
    BY <1>1 DEF take, RingOK
  <1>5. RingIsQueue'
    BY Zenon, <1>2, <1>3, HoldsSlots DEF RingIsQueue
  <1>6. TypeOK'
    BY Zenon, <1>2, <1>3, <1>4 DEF take, RingInv, TypeOK, LoopAt, threadVars
  <1> QED
    BY Zenon, <1>5, <1>6 DEF RingInv, LeftOver, take

(* The end of a drain changes neither ring nor history.                     *)
LEMMA FinishKeeps == ASSUME RingInv, finish PROVE RingInv'
  BY Zenon DEF RingInv, TypeOK, RingIsQueue, LeftOver, finish, hasWork, LoopAt, threadVars, history

(* Every step keeps RingInv: one step per action.                           *)
LEMMA RingInductive ==
    ASSUME RingInv, [Next]_vars
    PROVE  RingInv'
  <1> USE ExecutorAssumption
  <1>1. ASSUME NEW t \in Threads, append_intake(t) PROVE RingInv'
    BY <1>1 DEF RingInv, TypeOK, RingIsQueue, LeftOver, append_intake, loopVars
  <1>2. ASSUME NEW t \in Threads, store_flag(t) PROVE RingInv'
    BY Zenon, <1>2 DEF RingInv, TypeOK, RingIsQueue, LeftOver, store_flag, loopVars, history
  <1>3. ASSUME NEW t \in Threads, unlock(t) PROVE RingInv'
    BY Zenon, <1>3 DEF RingInv, TypeOK, RingIsQueue, LeftOver, unlock, loopVars, history
  <1>4. ASSUME NEW t \in Threads, write_byte(t) PROVE RingInv'
    BY <1>4 DEF RingInv, TypeOK, RingIsQueue, LeftOver, write_byte, loopVars, history
  <1>5. CASE enqueue
    <2>1. made + 1 \in Nat
      BY DEF RingInv, TypeOK
    <2>2. RingOK(ring') /\ queue' \in Seq(Nat) /\ RingIsQueue'
      BY Zenon, <1>5, <2>1, PushKeeps DEF enqueue
    <2> QED
      BY Zenon, <1>5, <2>1, <2>2 DEF RingInv, TypeOK, LeftOver, enqueue, loopVars, threadVars
  <1>6. CASE drain
    BY Zenon, <1>6 DEF RingInv, TypeOK, RingIsQueue, LeftOver, drain, LoopAt, threadVars, history
  <1>7. CASE stop_drain
    BY Zenon, <1>7, FinishKeeps DEF stop_drain
  <1>8. CASE to_collect
    BY <1>8 DEF RingInv, TypeOK, RingIsQueue, LeftOver, to_collect, LoopAt, threadVars, history
  <1>9. CASE take_next
    <2>1. left \in Nat \ {0} /\ ring.count # 0 /\ take
      BY <1>9 DEF RingInv, TypeOK, take_next
    <2> QED
      BY Zenon, <2>1, TakeKeeps
  <1>10. CASE collect
    BY Zenon, <1>10 DEF RingInv, TypeOK, RingIsQueue, LeftOver, collect, LoopAt, threadVars, history
  <1>11. CASE push_taken
    <2>1. Head(taken) \in Nat /\ Tail(taken) \in Seq(Nat)
      BY <1>11 DEF RingInv, TypeOK, push_taken
    <2>2. RingOK(ring') /\ queue' \in Seq(Nat) /\ RingIsQueue'
      BY Zenon, <1>11, <2>1, PushKeeps DEF push_taken
    <2> QED
      BY Zenon, <1>11, <2>1, <2>2 DEF RingInv, TypeOK, LeftOver, push_taken, loopVars, threadVars
  <1>12. CASE after_collect
    <2>1. left \in Nat \ {0}
      BY Zenon, <1>12 DEF RingInv, TypeOK, LeftOver, after_collect
    <2>2. CASE ring.count = 0
      BY Zenon, <1>12, <2>2, FinishKeeps DEF after_collect
    <2>3. CASE ring.count # 0
      BY Zenon, <1>12, <2>1, <2>3, TakeKeeps DEF after_collect
    <2> QED
      BY Zenon, <2>2, <2>3
  <1>13. CASE run_job
    BY <1>13 DEF RingInv, TypeOK, RingIsQueue, LeftOver, run_job, LoopAt, NoJob, threadVars
  <1>14. CASE polled \/ other_event \/ to_drain
    BY Zenon, <1>14 DEF RingInv, TypeOK, RingIsQueue, LeftOver, polled, other_event, to_drain, LoopAt, threadVars, history
  <1>16. CASE clearWake
    BY Zenon, <1>16 DEF RingInv, TypeOK, RingIsQueue, LeftOver, clearWake, LoopAt, threadVars, history
  <1>15. CASE UNCHANGED vars
    BY Zenon, <1>15 DEF RingInv, TypeOK, RingIsQueue, LeftOver, vars, loopVars, threadVars, history
  <1> QED
    BY Zenon, <1>1, <1>2, <1>3, <1>4, <1>5, <1>6, <1>7, <1>8, <1>9, <1>10, <1>11, <1>12, <1>13, <1>14, <1>15, <1>16
    DEF Next, handOver, Loop

(* The executor starts with an empty ring and an empty history.             *)
LEMMA RingInitially == Init => RingInv
  <1> SUFFICES ASSUME Init PROVE RingInv
    BY Zenon
  <1> USE ExecutorAssumption
  <1>1. RingOK(ring)
    BY DEF Init, RingOK, NoJob
  <1>2. TypeOK
    <2>1. intake \in Seq(Nat) /\ taken \in Seq(Nat) /\ queue \in Seq(Nat) /\ ran \in Seq(Nat)
      BY DEF Init
    <2>2. /\ at \in [Threads -> {"idle", "store", "unlock", "write"}] /\ first \in [Threads -> BOOLEAN]
          /\ lock \in Threads \cup {"free"} /\ pc \in LoopAt /\ handedOver \in BOOLEAN /\ more \in BOOLEAN
      BY Zenon DEF Init, LoopAt
    <2>3. pipe \in Nat /\ left \in Nat /\ running \in Nat /\ made \in Nat
      BY Zenon DEF Init, NoJob
    <2> QED
      BY Zenon, <1>1, <2>1, <2>2, <2>3 DEF TypeOK
  <1>3. Slots(ring) = <<>>
    <2>1. ring.count = 0 /\ <<>> \in Seq(Nat) /\ Len(<<>>) = 0
      BY DEF Init
    <2>2. Holds(ring, <<>>)
      BY <2>1 DEF Holds
    <2> QED
      BY Zenon, <1>1, <2>1, <2>2, HoldsSlots
  <1> QED
    BY Zenon, <1>2, <1>3 DEF Init, RingInv, RingIsQueue, LeftOver

(* The types hold in every run.                                             *)
THEOREM ExecutorTypes == Spec => []TypeOK
  <1>1. RingInv => TypeOK
    BY Zenon DEF RingInv
  <1> QED
    BY <1>1, RingInitially, RingInductive, PTL DEF Spec

(* The ring is a first-in first-out queue in every run, whatever capacity   *)
(* it starts with and however often it wraps and grows.                     *)
THEOREM ExecutorQueue == Spec => []RingIsQueue
  <1>1. RingInv => RingIsQueue
    BY Zenon DEF RingInv
  <1> QED
    BY <1>1, RingInitially, RingInductive, PTL DEF Spec

-----------------------------------------------------------------------------
(* The list's lock, flag and wake-up byte: one step per action.             *)
LEMMA WakesInductive ==
    ASSUME TypeOK, Wakes, [Next]_vars
    PROVE  Wakes'
  <1> USE ExecutorAssumption DEF Wakes
  <1>0. /\ at \in [Threads -> {"idle", "store", "unlock", "write"}] /\ first \in [Threads -> BOOLEAN]
        /\ intake \in Seq(Nat) /\ pipe \in Nat /\ made \in Nat /\ handedOver \in BOOLEAN /\ more \in BOOLEAN
        /\ ring.count \in Nat
    BY DEF TypeOK, RingOK
  <1>1. ASSUME NEW t \in Threads, append_intake(t) PROVE Wakes'
    <2>1. LockHeld'
      BY Zenon, <1>0, <1>1 DEF append_intake, LockHeld
    <2>2. Append(intake, made + 1) # <<>>
      BY <1>0
    <2>3. handedOver \/ intake = <<>>
      BY Zenon, <1>0, <1>1 DEF append_intake, LockHeld, FlagRight
    <2>4. at'[t] = "store" /\ first'[t] = (intake = <<>>)
      BY Zenon, <1>0, <1>1 DEF append_intake
    <2>5. FlagRight'
      BY Zenon, <1>1, <2>2, <2>3, <2>4 DEF append_intake, FlagRight
    <2>6. \A u \in Threads : at[u] # "idle" /\ first[u] => at'[u] # "idle" /\ first'[u]
      BY Zenon, <1>0, <1>1 DEF append_intake
    <2>7. WakeOwed'
      BY Zenon, <1>1, <2>4, <2>6 DEF append_intake, WakeOwed, loopVars
    <2> QED
      BY Zenon, <1>1, <2>1, <2>5, <2>7 DEF append_intake, TakenEmpty, loopVars
  <1>2. ASSUME NEW t \in Threads, store_flag(t) PROVE Wakes'
    <2>1. LockHeld'
      BY Zenon, <1>0, <1>2 DEF store_flag, LockHeld
    <2>2. intake # <<>>
      BY Zenon, <1>0, <1>2 DEF store_flag, FlagRight
    <2>3. \A u \in Threads : at[u] # "idle" /\ first[u] => at'[u] # "idle" /\ first'[u]
      BY Zenon, <1>0, <1>2 DEF store_flag
    <2> QED
      BY Zenon, <1>2, <2>1, <2>2, <2>3 DEF store_flag, FlagRight, WakeOwed, TakenEmpty, loopVars
  <1>3. ASSUME NEW t \in Threads, unlock(t) PROVE Wakes'
    <2>1. LockHeld'
      BY Zenon, <1>0, <1>3 DEF unlock, LockHeld
    <2>2. \A u \in Threads : at[u] # "idle" /\ first[u] => at'[u] # "idle" /\ first'[u]
      BY Zenon, <1>0, <1>3 DEF unlock
    <2>3. \A u \in Threads : at[u] = "store" => at'[u] = "store"
      BY Zenon, <1>0, <1>3 DEF unlock
    <2> QED
      BY <1>3, <2>1, <2>2, <2>3 DEF unlock, FlagRight, WakeOwed, TakenEmpty, loopVars, history
  <1>4. ASSUME NEW t \in Threads, write_byte(t) PROVE Wakes'
    <2>1. LockHeld'
      BY Zenon, <1>0, <1>4 DEF write_byte, LockHeld
    <2>2. \A u \in Threads : at[u] = "store" <=> at'[u] = "store"
      BY Zenon, <1>0, <1>4 DEF write_byte
    <2>3. pipe' > 0
      BY <1>0, <1>4 DEF write_byte
    <2> QED
      BY Zenon, <1>4, <2>1, <2>2, <2>3 DEF write_byte, FlagRight, WakeOwed, TakenEmpty, loopVars, history
  <1>5. CASE enqueue
    BY Zenon, <1>5 DEF enqueue, LockHeld, FlagRight, WakeOwed, TakenEmpty, loopVars, threadVars
  <1>6. ASSUME finish, pc # "taken" \/ taken = <<>> PROVE Wakes'
    <2>1. ~more' => ring.count = 0 /\ ~handedOver
      <3>1. more' = (ring.count > 0 \/ handedOver)
        BY Zenon, <1>6 DEF finish, hasWork
      <3>2. ~more' => ~(ring.count > 0) /\ ~handedOver
        BY Zenon, <3>1, Zenon
      <3> QED
        BY <1>0, <3>2
    <2>2. \A u \in Threads : at[u] = "store" => at[u] # "idle"
      BY Zenon
    <2>3. WakeOwed'
      BY Zenon, <1>6, <2>1, <2>2 DEF finish, WakeOwed, FlagRight, threadVars
    <2> QED
      BY Zenon, <1>6, <2>3 DEF finish, LockHeld, FlagRight, TakenEmpty, threadVars
  <1>7. ASSUME take, pc # "taken" \/ taken = <<>> PROVE Wakes'
    BY Zenon, <1>7 DEF take, LockHeld, FlagRight, WakeOwed, TakenEmpty, threadVars
  <1>8. CASE drain \/ to_collect \/ run_job
    BY <1>8 DEF drain, to_collect, run_job, LockHeld, FlagRight, WakeOwed, TakenEmpty, threadVars, history
  <1>9. CASE stop_drain \/ take_next \/ after_collect
    BY Zenon, <1>6, <1>7, <1>9 DEF stop_drain, take_next, after_collect
  <1>10. CASE collect
    <2>1. \A t \in Threads : at[t] # "store"
      BY Zenon, <1>10 DEF collect, LockHeld
    <2>2. intake' = <<>> /\ ~handedOver'
      BY Zenon, <1>10 DEF collect, TakenEmpty
    <2> QED
      BY Zenon, <1>10, <2>1, <2>2 DEF collect, LockHeld, FlagRight, WakeOwed, TakenEmpty, threadVars
  <1>11. CASE push_taken
    BY Zenon, <1>11 DEF push_taken, LockHeld, FlagRight, WakeOwed, TakenEmpty, loopVars, threadVars
  <1>12. CASE polled \/ other_event \/ clearWake \/ to_drain
    BY <1>12 DEF polled, other_event, clearWake, to_drain, LockHeld, FlagRight, WakeOwed, TakenEmpty, threadVars, history
  <1>13. CASE UNCHANGED vars
    BY Zenon, <1>13 DEF vars, LockHeld, FlagRight, WakeOwed, TakenEmpty, loopVars, threadVars, history
  <1> QED
    BY Zenon, <1>1, <1>2, <1>3, <1>4, <1>5, <1>8, <1>9, <1>10, <1>11, <1>12, <1>13 DEF Next, handOver, Loop

(* No wake-up is lost: in every run a loop that sleeps with nothing in its  *)
(* pipe has no job to run, or a thread inside handOver will write a byte.   *)
THEOREM ExecutorWakes == Spec => []SleepsOnlyIdle
  <1>1. Init => Wakes
    BY ExecutorAssumption DEF Init, Wakes, LockHeld, FlagRight, WakeOwed, TakenEmpty
  <1>2. TypeOK /\ Wakes => SleepsOnlyIdle
    BY DEF TypeOK, Wakes, WakeOwed, TakenEmpty, SleepsOnlyIdle
  <1> QED
    BY <1>1, <1>2, ExecutorTypes, WakesInductive, PTL DEF Spec

-----------------------------------------------------------------------------
(* The lists of handed-over jobs as one sequence.                           *)
LEMMA Lists ==
    ASSUME NEW p \in Seq(Nat), NEW q \in Seq(Nat), NEW n \in Nat
    PROVE  /\ p \o Append(q, n) = Append(p \o q, n)
           /\ <<>> \o q = q /\ q \o <<>> = q
           /\ p # <<>> => p \o q # <<>> /\ Head(p \o q) = Head(p) /\ Tail(p) \o q = Tail(p \o q)
  <1>1. p \o Append(q, n) = Append(p \o q, n)
    <2>1. Len(p \o Append(q, n)) = Len(Append(p \o q, n))
      OBVIOUS
    <2>2. \A i \in 1..Len(Append(p \o q, n)) : (p \o Append(q, n))[i] = Append(p \o q, n)[i]
      OBVIOUS
    <2> QED
      BY <2>1, <2>2
  <1>2. <<>> \o q = q /\ q \o <<>> = q
    OBVIOUS
  <1>3. ASSUME p # <<>> PROVE p \o q # <<>> /\ Head(p \o q) = Head(p)
    BY <1>3
  <1>4. ASSUME p # <<>> PROVE Tail(p) \o q = Tail(p \o q)
    BY <1>4
  <1> QED
    BY Zenon, <1>1, <1>2, <1>3, <1>4

(* A step that moves no job is a stutter of the queue.                      *)
LEMMA Stutters ==
    ASSUME UNCHANGED <<made, taken, intake, ring, running, ran>>, pc # "run", pc' # "run"
    PROVE  UNCHANGED Queue!vars
  BY Zenon DEF Queue!vars, Slots

(* Taking the first job of the ring starts it.                              *)
LEMMA TakeStarts ==
    ASSUME RingInv, RingInv', take, ring.count # 0, pc # "run"
    PROVE  Queue!Start
  <1>1. RingOK(ring) /\ queue \in Seq(Nat) /\ Slots(ring) = queue /\ Slots(ring') = queue'
    BY Zenon DEF RingInv, TypeOK, RingIsQueue
  <1>2. queue # <<>> /\ ring.jobs[ring.head] = Head(queue)
    BY Zenon, <1>1, HoldsSlots, PoppedHolds
  <1> QED
    BY Zenon, <1>1, <1>2 DEF take, Queue!Start

(* Every step of the executor is a step of the queue, or none.              *)
LEMMA StepRefines ==
    ASSUME RingInv, RingInv', TakenEmpty, [Next]_vars
    PROVE  [Queue!Next]_Queue!vars
  <1> USE DEF Queue!Next
  <1>0. /\ intake \in Seq(Nat) /\ taken \in Seq(Nat) /\ made + 1 \in Nat
        /\ Slots(ring) = queue /\ Slots(ring') = queue'
    BY DEF RingInv, TypeOK, RingIsQueue
  <1>1. ASSUME NEW t \in Threads, append_intake(t) PROVE Queue!HandOver
    BY Zenon, <1>0, <1>1, Lists DEF append_intake, loopVars, Queue!HandOver
  <1>2. ASSUME NEW t \in Threads, store_flag(t) \/ unlock(t) \/ write_byte(t)
        PROVE  UNCHANGED Queue!vars
    BY Zenon, <1>2 DEF store_flag, unlock, write_byte, loopVars, history, Queue!vars, Slots
  <1>3. CASE enqueue
    BY Zenon, <1>0, <1>3 DEF enqueue, loopVars, Queue!Enqueue
  <1>4. CASE drain \/ to_collect \/ polled \/ other_event \/ clearWake \/ to_drain
    BY Zenon, <1>4, Stutters DEF drain, to_collect, polled, other_event, clearWake, to_drain, history
  <1>5. ASSUME finish, pc # "run" PROVE UNCHANGED Queue!vars
    BY Zenon, <1>5, Stutters DEF finish, history
  <1>6. CASE stop_drain
    BY Zenon, <1>5, <1>6 DEF stop_drain
  <1>7. CASE take_next
    <2>1. ring.count # 0 /\ take /\ pc # "run"
      BY <1>7 DEF take_next, RingInv, TypeOK, RingOK
    <2> QED
      BY Zenon, <2>1, TakeStarts
  <1>8. CASE after_collect
    <2>1. pc # "run"
      BY Zenon, <1>8 DEF after_collect
    <2> QED
      BY Zenon, <1>5, <1>8, <2>1, TakeStarts DEF after_collect
  <1>9. CASE collect
    <2>1. taken = <<>> /\ taken' = intake /\ intake' = <<>>
      BY Zenon, <1>9 DEF collect, TakenEmpty
    <2>2. taken' \o intake' = taken \o intake
      BY Zenon, <1>0, <2>1, Lists
    <2> QED
      BY Zenon, <1>9, <2>2 DEF collect, history, Queue!vars, Slots
  <1>10. CASE push_taken
    <2>1. taken # <<>> /\ taken' = Tail(taken) /\ intake' = intake /\ queue' = Append(queue, Head(taken))
      BY Zenon, <1>10 DEF push_taken
    <2>2. /\ taken \o intake # <<>> /\ Head(taken \o intake) = Head(taken)
          /\ taken' \o intake' = Tail(taken \o intake)
      BY Zenon, <1>0, <2>1, Lists
    <2> QED
      BY Zenon, <1>0, <1>10, <2>1, <2>2 DEF push_taken, loopVars, Queue!Move
  <1>11. CASE run_job
    <2>1. ran \in Seq(Nat) /\ running \in Nat
      BY Zenon DEF RingInv, TypeOK
    <2>2. ran \o <<running>> = Append(ran, running) /\ <<running>> # <<>>
      BY <2>1
    <2> QED
      BY Zenon, <1>11, <2>2 DEF run_job, Queue!Finish, Slots
  <1>12. CASE UNCHANGED vars
    BY Zenon, <1>12 DEF vars, loopVars, history, Queue!vars, Slots
  <1> QED
    BY Zenon, <1>1, <1>2, <1>3, <1>4, <1>6, <1>7, <1>8, <1>9, <1>10, <1>11, <1>12 DEF Next, handOver, Loop

(* The executor is the queue it promises to be, for any number of threads   *)
(* and jobs, any ring and any budget: no job is lost or runs twice, and     *)
(* each thread's jobs keep their order.                                     *)
THEOREM ExecutorRefines == Spec => IsJobQueue
  <1>1. Init => Queue!Init
    <2> SUFFICES ASSUME Init PROVE Queue!Init
      BY Zenon
    <2>1. Slots(ring) = <<>>
      BY Zenon, RingInitially DEF RingInv, RingIsQueue, Init
    <2> QED
      BY <2>1 DEF Init, Queue!Init
  <1>2. Init => Wakes
    BY ExecutorAssumption DEF Init, Wakes, LockHeld, FlagRight, WakeOwed, TakenEmpty
  <1>3. Wakes => TakenEmpty
    BY Zenon DEF Wakes
  <1> QED
    BY <1>1, <1>2, <1>3, ExecutorTypes, RingInitially, RingInductive, WakesInductive, StepRefines, PTL
    DEF Spec, IsJobQueue, Queue!Spec

=============================================================================
