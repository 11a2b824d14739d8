---------------------------- MODULE ResponseChain ----------------------------
(***************************************************************************)
(* What the orchestrator is promised of a turn's sub-chain, and what       *)
(* Dialogue takes for granted of it: it pushes frames only while it runs,  *)
(* it exits once, and it does exit when its context is cancelled.          *)
(***************************************************************************)
EXTENDS Naturals

VARIABLES chain,     \* "running", or "exited": the done channel is closed
          cancelled, \* the turn context is cancelled
          pushed     \* frames pushed to the egress edge

chainVars == <<chain, cancelled, pushed>>

Init == chain = "running" /\ cancelled = FALSE /\ pushed = 0

Push == chain = "running" /\ pushed' = pushed + 1 /\ UNCHANGED <<chain, cancelled>>

Cancel == cancelled' = TRUE /\ UNCHANGED <<chain, pushed>>

Exit == chain = "running" /\ chain' = "exited" /\ UNCHANGED <<cancelled, pushed>>

Next == Push \/ Cancel \/ Exit

Spec == Init /\ [][Next]_chainVars /\ WF_chainVars(cancelled /\ Exit)
=============================================================================
