----------------------------- MODULE Recognizer -----------------------------
(***************************************************************************)
(* The ASR loop as Dialogue takes it: one final, perhaps empty, for every  *)
(* end of utterance it takes, handed over through the finals channel, and  *)
(* a return on failure or cancellation.  The actions are those of the same *)
(* names in Dialogue; Signal, TakeFinal and CancelSession stand for what   *)
(* the reader, the orchestrator and the session do to the loop.            *)
(***************************************************************************)
EXTENDS Naturals, Sequences

CONSTANT FinalsCap   \* pipeline.transcript_chan_cap

VARIABLES apc,     \* where the loop is
          heard,   \* whether the final it hands over has any text
          endUtt,  \* the endUtt channel holds its token
          finals,  \* the finals channel
          ctxDone  \* the session context is cancelled

vars == <<apc, heard, endUtt, finals, ctxDone>>

Init ==
  /\ apc = "pumping" /\ heard = FALSE /\ endUtt = FALSE /\ finals = << >>
  /\ ctxDone = FALSE

EndOfUtterance ==
  /\ apc = "pumping" /\ endUtt
  /\ endUtt' = FALSE /\ apc' = "closing" /\ UNCHANGED <<heard, finals, ctxDone>>

Transcribed(text) ==
  /\ apc = "closing" /\ ~ctxDone
  /\ heard' = text /\ apc' = "handing" /\ UNCHANGED <<endUtt, finals, ctxDone>>

AsrFails ==
  /\ apc = "closing" /\ ~ctxDone
  /\ apc' = "failed" /\ UNCHANGED <<heard, endUtt, finals, ctxDone>>

HandOver ==
  /\ apc = "handing" /\ Len(finals) < FinalsCap
  /\ finals' = Append(finals, heard) /\ apc' = "pumping"
  /\ UNCHANGED <<heard, endUtt, ctxDone>>

AsrStops ==
  /\ ctxDone /\ apc \in {"pumping", "closing", "handing"}
  /\ apc' = "stopped" /\ UNCHANGED <<heard, endUtt, finals, ctxDone>>

Signal == endUtt' = TRUE /\ UNCHANGED <<apc, heard, finals, ctxDone>>
TakeFinal ==
  /\ finals # << >>
  /\ finals' = Tail(finals) /\ UNCHANGED <<apc, heard, endUtt, ctxDone>>
CancelSession == ctxDone' = TRUE /\ UNCHANGED <<apc, heard, endUtt, finals>>

Asr == EndOfUtterance \/ HandOver \/ AsrStops \/ \E text \in BOOLEAN : Transcribed(text)

Next == Asr \/ AsrFails \/ Signal \/ TakeFinal \/ CancelSession

Safety == Init /\ [][Next]_vars

Spec == Safety /\ WF_vars(Asr)
=============================================================================
