------------------------------- MODULE MCBus -------------------------------
(* Bus with two publishers and two workers, one process being both.  The    *)
(* workers follow each other on the second of two wake slots: the first is  *)
(* nobody's, and a worker attaches to the second once the other is dead.    *)
EXTENDS Bus, TLC

CONSTANTS a, b, r

SecondSlot == (b :> 1) @@ (r :> 1)
=============================================================================
