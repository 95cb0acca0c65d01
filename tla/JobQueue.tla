------------------------------ MODULE JobQueue ------------------------------
(* What an executor promises of the jobs it is given: each runs once, one   *)
(* at a time; the loop's own in the order it enqueued them, those of other  *)
(* threads in the order they handed them over.  A job is the number of its  *)
(* enqueue.                                                                 *)
EXTENDS Naturals, Sequences

VARIABLES
    made,       \* how many jobs there have been
    waiting,    \* those other threads have handed over
    ready,      \* those the loop's thread has in line
    running,    \* the one it runs, if any
    ran         \* those it has run

vars == <<made, waiting, ready, running, ran>>

Init == made = 0 /\ waiting = <<>> /\ ready = <<>> /\ running = <<>> /\ ran = <<>>

Enqueue ==
    /\ made' = made + 1 /\ ready' = Append(ready, made + 1)
    /\ UNCHANGED <<waiting, running, ran>>

HandOver ==
    /\ made' = made + 1 /\ waiting' = Append(waiting, made + 1)
    /\ UNCHANGED <<ready, running, ran>>

(* The first that waits gets in line behind the loop's own.                 *)
Move ==
    /\ waiting # <<>>
    /\ ready' = Append(ready, Head(waiting)) /\ waiting' = Tail(waiting)
    /\ UNCHANGED <<made, running, ran>>

Start ==
    /\ running = <<>> /\ ready # <<>>
    /\ running' = <<Head(ready)>> /\ ready' = Tail(ready)
    /\ UNCHANGED <<made, waiting, ran>>

Finish ==
    /\ running # <<>>
    /\ ran' = ran \o running /\ running' = <<>>
    /\ UNCHANGED <<made, waiting, ready>>

Next == Enqueue \/ HandOver \/ Move \/ Start \/ Finish

Spec == Init /\ [][Next]_vars

=============================================================================
