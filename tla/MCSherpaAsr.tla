----------------------------- MODULE MCSherpaAsr -----------------------------
(* A small instance of SherpaAsr for TLC.                                  *)
EXTENDS SherpaAsr
SherpaFair == SherpaSpec /\ SherpaFairness
=============================================================================
