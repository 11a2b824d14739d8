---------------------------- MODULE MCReconnect -----------------------------
(* The page's connection alone, on a small instance for TLC.               *)
EXTENDS Reconnect
=============================================================================
