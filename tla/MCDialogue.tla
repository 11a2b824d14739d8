----------------------------- MODULE MCDialogue -----------------------------
(* Dialogue for TLC.                                                       *)
EXTENDS Dialogue
=============================================================================
