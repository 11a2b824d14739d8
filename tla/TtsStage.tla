----------------------------- MODULE TtsStage ------------------------------
(***************************************************************************)
(* What a turn is promised of a TTS adapter (adapter.go 40-48), and what   *)
(* Turn takes for granted of its TTS stage: it takes words, speaks what it *)
(* has taken and no more, returns nil only when its input is over and all  *)
(* of it has been spoken, and does return when its context is cancelled.   *)
(***************************************************************************)
EXTENDS Naturals

VARIABLES heard,     \* words taken
          spoken,    \* words spoken to the end
          over,      \* the input is closed and empty
          cancelled, \* the context of the turn
          result     \* "none", or what Stream returned

stageVars == <<heard, spoken, over, cancelled, result>>

Init == heard = 0 /\ spoken = 0 /\ over = FALSE /\ cancelled = FALSE /\ result = "none"

Cancel == cancelled' = TRUE /\ UNCHANGED <<heard, spoken, over, result>>

Hear ==
  /\ result = "none" /\ ~over /\ heard' = heard + 1
  /\ UNCHANGED <<spoken, over, cancelled, result>>

End ==
  /\ result = "none" /\ over' = TRUE /\ UNCHANGED <<heard, spoken, cancelled, result>>

Speak ==
  /\ result = "none" /\ spoken' \in spoken + 1 .. heard
  /\ UNCHANGED <<heard, over, cancelled, result>>

Return(r) ==
  /\ result = "none" /\ result' = r
  /\ r = "nil" => over /\ spoken = heard
  /\ r = "canceled" => cancelled
  /\ UNCHANGED <<heard, spoken, over, cancelled>>

Returns == \E r \in {"nil", "error", "canceled"} : Return(r)

Next == Cancel \/ Hear \/ End \/ Speak \/ Returns

Spec == Init /\ [][Next]_stageVars /\ WF_stageVars(cancelled /\ Returns)
=============================================================================
