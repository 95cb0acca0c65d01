----------------------------- MODULE MCBusRing -----------------------------
(* BusRing on a ring of 16 cells, with writers that are alike.              *)
EXTENDS BusRing, TLC

Symmetry == Permutations(Publishers)
=============================================================================
