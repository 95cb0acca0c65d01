---------------------------- MODULE LoopExecutor ----------------------------
(* The job executor of an event loop (LoopExecutor.swift): the ring of jobs *)
(* that only the loop's thread touches, the list other threads leave jobs   *)
(* on under a lock, the flag that says the list is not empty, and the pipe  *)
(* that wakes the loop.  A job is the number of its enqueue.                *)
EXTENDS Naturals, Sequences

CONSTANTS
    Threads,        \* the threads that are not the loop's
    MaxJobs,        \* bound: how many jobs are enqueued
    Capacity,       \* where the ring starts: the power of two init rounds up to
    Budget          \* of every drain

ASSUME ExecutorAssumption ==
    /\ "loop" \notin Threads /\ "free" \notin Threads
    /\ MaxJobs \in Nat /\ Capacity \in Nat \ {0} /\ Budget \in Nat \ {0}
    /\ \E k \in 0..62 : Capacity = 2 ^ k

Jobs == 1..MaxJobs

VARIABLES
    ring,           \* jobs, capacity, head, count
    intake, taken, handedOver,
    lock,           \* "free", or who holds it
    pipe,           \* bytes in the wake pipe
    pc, left, running, more,    \* the loop's thread
    at, first,      \* the other threads, inside handOver
    made,           \* history: jobs enqueued so far
    queue, ran      \* history: jobs pushed and not yet taken; jobs run, in order

loopVars == <<pc, left, running, more>>
threadVars == <<at, first>>
history == <<made, queue, ran>>
vars == <<ring, intake, taken, handedOver, lock, pipe, loopVars, threadVars, history>>

NoJob == 0

Init ==
    /\ ring = [jobs |-> [i \in 0..Capacity - 1 |-> NoJob], capacity |-> Capacity, head |-> 0, count |-> 0]
    /\ intake = <<>> /\ taken = <<>> /\ handedOver = FALSE
    /\ lock = "free" /\ pipe = 0
    /\ pc = "poll" /\ left = 0 /\ running = NoJob /\ more = FALSE
    /\ at = [t \in Threads |-> "idle"] /\ first = [t \in Threads |-> FALSE]
    /\ made = 0 /\ queue = <<>> /\ ran = <<>>

-----------------------------------------------------------------------------
(* The ring.                                                                *)

(* Mutant of grow: the slots are copied as they lie.                        *)
GrowAsItLies(r) ==
    [jobs |-> [i \in 0..2 * r.capacity - 1 |-> IF i < r.count THEN r.jobs[i] ELSE NoJob],
     capacity |-> 2 * r.capacity, head |-> 0, count |-> r.count]

grow(r) ==
    [jobs |-> [i \in 0..2 * r.capacity - 1 |->
                  IF i < r.count THEN r.jobs[(r.head + i) % r.capacity] ELSE NoJob],
     capacity |-> 2 * r.capacity, head |-> 0, count |-> r.count]

push(r, job) ==
    LET roomy == IF r.count = r.capacity THEN grow(r) ELSE r IN
    [jobs |-> [roomy.jobs EXCEPT ![(roomy.head + roomy.count) % roomy.capacity] = job],
     capacity |-> roomy.capacity, head |-> roomy.head, count |-> roomy.count + 1]

popped(r) ==
    [jobs |-> [r.jobs EXCEPT ![r.head] = NoJob],
     capacity |-> r.capacity, head |-> (r.head + 1) % r.capacity, count |-> r.count - 1]

-----------------------------------------------------------------------------
(* Another thread enqueues a job: handOver.                                 *)
append_intake(t) ==
    /\ at[t] = "idle" /\ lock = "free" /\ made < MaxJobs
    /\ lock' = t
    /\ intake' = Append(intake, made + 1)
    /\ first' = [first EXCEPT ![t] = (intake = <<>>)]
    /\ at' = [at EXCEPT ![t] = "store"]
    /\ made' = made + 1
    /\ UNCHANGED <<ring, taken, handedOver, pipe, loopVars, queue, ran>>

store_flag(t) ==
    /\ at[t] = "store"
    /\ handedOver' = TRUE
    /\ at' = [at EXCEPT ![t] = "unlock"]
    /\ UNCHANGED <<ring, intake, taken, lock, pipe, loopVars, first, history>>

unlock(t) ==
    /\ at[t] = "unlock"
    /\ lock' = "free"
    /\ at' = [at EXCEPT ![t] = IF first[t] THEN "write" ELSE "idle"]
    /\ UNCHANGED <<ring, intake, taken, handedOver, pipe, loopVars, first, history>>

write_byte(t) ==
    /\ at[t] = "write"
    /\ pipe' = pipe + 1
    /\ at' = [at EXCEPT ![t] = "idle"]
    /\ UNCHANGED <<ring, intake, taken, handedOver, lock, loopVars, first, history>>

handOver(t) == append_intake(t) \/ store_flag(t) \/ unlock(t) \/ write_byte(t)

-----------------------------------------------------------------------------
(* The loop's thread enqueues a job: a running job does, or code the loop   *)
(* calls for a socket or a timer.                                           *)
enqueue ==
    /\ pc \in {"run", "events"} /\ made < MaxJobs
    /\ ring' = push(ring, made + 1)
    /\ queue' = Append(queue, made + 1)
    /\ made' = made + 1
    /\ UNCHANGED <<intake, taken, handedOver, lock, pipe, loopVars, threadVars, ran>>

(* Mutant of drain: the budget of the last turn is not renewed.             *)
DrainOnWhatIsLeft ==
    /\ pc = "drain" /\ pc' = "check"
    /\ UNCHANGED <<ring, intake, taken, handedOver, lock, pipe, left, running, more, threadVars, history>>

drain ==
    /\ pc = "drain"
    /\ left' = Budget /\ pc' = "check"
    /\ UNCHANGED <<ring, intake, taken, handedOver, lock, pipe, running, more, threadVars, history>>

(* Mutant of hasWork: only the ring is asked.                               *)
RingHasWork == ring.count > 0

hasWork == ring.count > 0 \/ handedOver

finish ==
    /\ more' = hasWork /\ pc' = "poll"
    /\ UNCHANGED <<ring, intake, taken, handedOver, lock, pipe, left, running, threadVars, history>>

take ==
    /\ running' = ring.jobs[ring.head]
    /\ ring' = popped(ring)
    /\ left' = left - 1
    /\ pc' = "run"
    /\ queue' = Tail(queue)
    /\ UNCHANGED <<intake, taken, handedOver, lock, pipe, more, threadVars, made, ran>>

(* The head of the drain's loop.                                            *)
stop_drain == pc = "check" /\ (left > 0 => ring.count = 0 /\ ~handedOver) /\ finish

to_collect ==
    /\ pc = "check" /\ left > 0 /\ ring.count = 0 /\ handedOver
    /\ pc' = "collect"
    /\ UNCHANGED <<ring, intake, taken, handedOver, lock, pipe, left, running, more, threadVars, history>>

take_next == pc = "check" /\ left > 0 /\ ring.count > 0 /\ take

(* collect: the lists are swapped under the lock.                           *)
collect ==
    /\ pc = "collect" /\ lock = "free"
    /\ taken' = intake /\ intake' = taken
    /\ handedOver' = FALSE
    /\ pc' = "taken"
    /\ UNCHANGED <<ring, lock, pipe, left, running, more, threadVars, history>>

(* Mutant of push_taken: the last job left is the first pushed.             *)
PushLast ==
    /\ pc = "taken" /\ taken # <<>>
    /\ ring' = push(ring, taken[Len(taken)])
    /\ queue' = Append(queue, taken[Len(taken)])
    /\ taken' = SubSeq(taken, 1, Len(taken) - 1)
    /\ UNCHANGED <<intake, handedOver, lock, pipe, loopVars, threadVars, made, ran>>

push_taken ==
    /\ pc = "taken" /\ taken # <<>>
    /\ ring' = push(ring, Head(taken))
    /\ queue' = Append(queue, Head(taken))
    /\ taken' = Tail(taken)
    /\ UNCHANGED <<intake, handedOver, lock, pipe, loopVars, threadVars, made, ran>>

after_collect == pc = "taken" /\ taken = <<>> /\ IF ring.count = 0 THEN finish ELSE take

run_job ==
    /\ pc = "run"
    /\ ran' = Append(ran, running) /\ running' = NoJob
    /\ pc' = "check"
    /\ UNCHANGED <<ring, intake, taken, handedOver, lock, pipe, left, more, threadVars, made, queue>>

-----------------------------------------------------------------------------
(* The loop, as the executor asks it to be: it sleeps in its poller only    *)
(* when the last drain left nothing, empties the pipe when it fired, and    *)
(* drains on every turn.                                                    *)
polled ==
    /\ pc = "poll"
    /\ more \/ pipe > 0
    /\ pc' = IF pipe > 0 THEN "clear" ELSE "events"
    /\ UNCHANGED <<ring, intake, taken, handedOver, lock, pipe, left, running, more, threadVars, history>>

(* A socket or a timer ended the sleep.                                     *)
other_event ==
    /\ pc = "poll" /\ ~more /\ pipe = 0
    /\ pc' = "events"
    /\ UNCHANGED <<ring, intake, taken, handedOver, lock, pipe, left, running, more, threadVars, history>>

clearWake ==
    /\ pc = "clear"
    /\ pipe' = 0 /\ pc' = "events"
    /\ UNCHANGED <<ring, intake, taken, handedOver, lock, left, running, more, threadVars, history>>

to_drain ==
    /\ pc = "events" /\ pc' = "drain"
    /\ UNCHANGED <<ring, intake, taken, handedOver, lock, pipe, left, running, more, threadVars, history>>

Loop ==
    \/ drain \/ stop_drain \/ to_collect \/ take_next \/ collect \/ push_taken \/ after_collect \/ run_job
    \/ polled \/ clearWake \/ to_drain

Next == (\E t \in Threads : handOver(t)) \/ enqueue \/ Loop \/ other_event

Spec == Init /\ [][Next]_vars

(* Every thread that is inside handOver goes on, the lock included, and the *)
(* loop's thread goes on unless it sleeps; that a thread enqueues, or that  *)
(* a socket fires, is not promised.                                         *)
Fairness ==
    /\ WF_vars(Loop)
    /\ \A t \in Threads : WF_vars(store_flag(t) \/ unlock(t) \/ write_byte(t))

FairSpec == Spec /\ Fairness

-----------------------------------------------------------------------------
LoopAt == {"poll", "clear", "events", "drain", "check", "collect", "taken", "run"}

RingOK(r) ==
    /\ r.capacity \in Nat \ {0} /\ r.head \in 0..r.capacity - 1 /\ r.count \in 0..r.capacity
    /\ r.jobs \in [0..r.capacity - 1 -> Nat]

TypeOK ==
    /\ RingOK(ring)
    /\ intake \in Seq(Nat) /\ taken \in Seq(Nat) /\ handedOver \in BOOLEAN
    /\ lock \in Threads \cup {"free"} /\ pipe \in Nat
    /\ pc \in LoopAt /\ left \in Nat /\ running \in Nat /\ more \in BOOLEAN
    /\ at \in [Threads -> {"idle", "store", "unlock", "write"}] /\ first \in [Threads -> BOOLEAN]
    /\ made \in Nat /\ queue \in Seq(Nat) /\ ran \in Seq(Nat)

Slots(r) == [i \in 1..r.count |-> r.jobs[(r.head + i - 1) % r.capacity]]

(* Wrapping around and growing, the ring holds the jobs that were pushed    *)
(* and not yet taken, in the order they were pushed.                        *)
RingIsQueue == Slots(ring) = queue

(* A loop that sleeps with nothing in its pipe has no job to run, or a      *)
(* thread is on its way to wake it.                                         *)
SleepsOnlyIdle ==
    pc = "poll" /\ ~more /\ pipe = 0 =>
        /\ ring.count = 0 /\ taken = <<>>
        /\ intake = <<>> \/ \E t \in Threads : at[t] # "idle" /\ first[t]

(* Why: the lock has one holder; the flag is up when the list is not empty, *)
(* but for the thread that put the first job there and is about to raise    *)
(* it; and a sleeping loop is owed a byte by whoever left the first job.    *)
LockHeld == \A t \in Threads : at[t] \in {"store", "unlock"} <=> lock = t
FlagRight ==
    /\ handedOver => intake # <<>>
    /\ \A t \in Threads : at[t] = "store" => intake # <<>>
    /\ intake # <<>> /\ ~handedOver => \E t \in Threads : at[t] = "store" /\ first[t]
TakenEmpty == pc # "taken" => taken = <<>>
WakeOwed ==
    pc = "poll" /\ ~more =>
        /\ ring.count = 0
        /\ intake = <<>> \/ pipe > 0 \/ \E t \in Threads : at[t] # "idle" /\ first[t]

Wakes == LockHeld /\ FlagRight /\ TakenEmpty /\ WakeOwed

(* The ring, the two lists that are swapped and the flag implement the      *)
(* queue: no job is lost or runs twice between them, and each thread's jobs *)
(* keep their order.                                                        *)
Queue == INSTANCE JobQueue WITH
    waiting <- taken \o intake,
    ready <- Slots(ring),
    running <- IF pc = "run" THEN <<running>> ELSE <<>>
IsJobQueue == Queue!Spec

(* Jobs run in the order they were queued, whoever queued them.             *)
QueuedOrder == \A i, j \in 1..Len(ran) : i < j => ran[i] < ran[j]

(* Every job that is enqueued runs.                                         *)
EveryJobRuns == \A j \in Jobs : (made >= j) ~> (\E i \in 1..Len(ran) : ran[i] = j)

=============================================================================
