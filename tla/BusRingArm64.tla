---------------------------- MODULE BusRingArm64 ----------------------------
(***************************************************************************)
(* The ring of module BusRing in a build for arm64, which Linux and macOS  *)
(* builds are.  The copy of a message out of the ring is made of plain     *)
(* loads, and the check after it is one load-acquire of `high'.  arm64     *)
(* orders nothing between a plain load and a later load-acquire, so some   *)
(* of the copy may be satisfied after the check.  (On the writer's side    *)
(* the load-acquires between the store of `high' and the copy keep those   *)
(* in order, and on x86-64 all of this happens in program order.)          *)
(***************************************************************************)
EXTENDS BusRing

(* The last check is satisfied before the rest of the copy.                 *)
check_body_first(p) ==
    /\ At(p, "copy_body")
    /\ IF overwritten(rpos[p]) THEN Return(p, -1) ELSE Goto(p, "copy_late") /\ UNCHANGED ret
    /\ UNCHANGED <<ring, dead, writer, rseq, rbuf, rpos, rlen, rleft, got, log>>

accept(p) ==
    /\ At(p, "accept")
    /\ Return(p, 1)
    /\ UNCHANGED <<ring, dead, writer, rseq, rbuf, rpos, rlen, rleft, got, log>>

NextArm64 ==
    \/ Next
    \/ \E p \in Procs :
          check_body_first(p) \/ copy_out(p, "copy_late", "accept") \/ accept(p)

SpecArm64 == Init /\ [][NextArm64]_vars
=============================================================================
