----------------------------- MODULE MCDownlink -----------------------------
(* A small instance of Downlink for TLC.                                   *)
EXTENDS Downlink, TLC
Symmetry == Permutations(Conns)
=============================================================================
