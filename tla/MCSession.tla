----------------------------- MODULE MCSession -----------------------------
(* Session for TLC: connections and sessions are interchangeable.          *)
EXTENDS Session, TLC

Symmetry == Permutations(Conns) \cup Permutations(Sessions)
=============================================================================
