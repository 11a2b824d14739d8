------------------------------- MODULE MCRing -------------------------------
(* Small instances of Ring for TLC: capacity 2, a producer, the consumer   *)
(* and, in the larger run, the goroutine that drains beside it.            *)
EXTENDS Ring
=============================================================================
