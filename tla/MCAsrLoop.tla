----------------------------- MODULE MCAsrLoop ------------------------------
(* Model checking of AsrLoop: see MCAsrLoop.cfg for the values of the constants. *)
EXTENDS AsrLoop
=============================================================================
