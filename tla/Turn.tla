-------------------------------- MODULE Turn --------------------------------
(***************************************************************************)
(* One response turn: the sub-chain startTurn launches.  Four goroutines   *)
(* under the turn context, joined by three bounded channels, and a fifth   *)
(* that closes done when the four have returned:                           *)
(*                                                                         *)
(*   LLM --tokens--> forwarder --ttsIn--> TTS --ttsOut--> pump --> egress  *)
(*                                                                         *)
(* The adapters are their contract (adapter.go): Stream may emit, end, or  *)
(* fail whenever it likes, never closes out, and a cancelled context       *)
(* aborts whatever it waits for.  A token is its place in the reply; a     *)
(* frame is the place up to which it speaks, for a TTS joins tokens.       *)
(***************************************************************************)
EXTENDS Naturals, Sequences

CONSTANTS TokenCap,   \* pipeline.token_chan_cap
          AudioCap,   \* pipeline.audio_chan_cap
          MaxTokens   \* bound: the longest reply

ASSUME TurnAssumption ==
  /\ TokenCap \in Nat \ {0} /\ AudioCap \in Nat \ {0}
  /\ MaxTokens \in Nat

VARIABLES ctxDone,  \* tctx is cancelled: by the orchestrator, or by a failure
          outer,    \* history: it was cancelled from outside
          err,      \* h.err, the stage whose failure was recorded
          llm,      \* LLM stage: "stream", then fail, close and return
          emitted,  \* LLM stage: tokens sent
          result,   \* LLM and TTS stage -> what Stream returned
          tokens,   \* channel LLM -> forwarder
          fwd,      \* forwarder: "recv", "send", "close", "done"
          tok,      \* forwarder: the token in hand
          reply,    \* forwarder: the tokens accumulated in the reply
          ttsIn,    \* channel forwarder -> TTS
          tts,      \* TTS stage: as llm
          heard,    \* TTS stage: the last token it received
          spoken,   \* TTS stage: the last token it has sent frames for
          ttsOut,   \* channel TTS -> pump
          pump,     \* pump: "recv", "done"
          egress,   \* history: the frames pushed to the egress edge
          closed,   \* the channels that are closed
          done      \* h.done is closed

llmVars == <<llm, emitted>>
fwdVars == <<fwd, tok, reply>>
ttsVars == <<tts, heard, spoken>>
vars == <<ctxDone, outer, err, llm, emitted, result, tokens, fwd, tok,
          reply, ttsIn, tts, heard, spoken, ttsOut, pump, egress, closed, done>>

Stages == {"llm", "tts"}

Init ==
  /\ ctxDone = FALSE /\ outer = FALSE /\ err = "none"
  /\ llm = "stream" /\ emitted = 0 /\ result = [s \in Stages |-> "none"]
  /\ tokens = << >> /\ fwd = "recv" /\ tok = 0 /\ reply = << >> /\ ttsIn = << >>
  /\ tts = "stream" /\ heard = 0 /\ spoken = 0 /\ ttsOut = << >>
  /\ pump = "recv" /\ egress = << >> /\ closed = {} /\ done = FALSE
-----------------------------------------------------------------------------
(* h.cancel, from cancelTurn, or the end of the session.                   *)
CancelOutside ==
  /\ ~outer
  /\ ctxDone' = TRUE /\ outer' = TRUE
  /\ UNCHANGED <<err, llmVars, result, tokens, fwdVars, ttsIn, ttsVars,
                 ttsOut, pump, egress, closed, done>>
-----------------------------------------------------------------------------
(* fail, called with what Stream of stage s returned: nil and Canceled are *)
(* no failures; of the others the first is kept; the context is cancelled  *)
(* after errMu is released.                                                *)
Fail(s) ==
  err' = IF result[s] = "error" /\ err = "none" THEN s ELSE err

(* A mutant: a failure does not cancel the turn.                           *)
AfterFailNoCancel(s) == "close"

AfterFail(s) == IF result[s] = "error" THEN "cancel" ELSE "close"

(* The LLM stage.                                                          *)
LLMEmit ==
  /\ llm = "stream" /\ emitted < MaxTokens /\ Len(tokens) < TokenCap
  /\ emitted' = emitted + 1 /\ tokens' = Append(tokens, emitted + 1)
  /\ UNCHANGED <<ctxDone, outer, err, llm, result, fwdVars, ttsIn,
                 ttsVars, ttsOut, pump, egress, closed, done>>

LLMReturns(r) ==
  /\ llm = "stream" /\ (r = "canceled" => ctxDone)
  /\ result' = [result EXCEPT !["llm"] = r] /\ llm' = "fail"
  /\ UNCHANGED <<ctxDone, outer, err, emitted, tokens, fwdVars, ttsIn,
                 ttsVars, ttsOut, pump, egress, closed, done>>

LLMFail ==
  /\ llm = "fail"
  /\ Fail("llm") /\ llm' = AfterFail("llm")
  /\ UNCHANGED <<ctxDone, outer, emitted, result, tokens, fwdVars, ttsIn, ttsVars,
                 ttsOut, pump, egress, closed, done>>

LLMCancel ==
  /\ llm = "cancel"
  /\ ctxDone' = TRUE /\ llm' = "close"
  /\ UNCHANGED <<outer, err, emitted, result, tokens, fwdVars, ttsIn,
                 ttsVars, ttsOut, pump, egress, closed, done>>

LLMClose ==
  /\ llm = "close"
  /\ closed' = closed \cup {"tokens"} /\ llm' = "done"
  /\ UNCHANGED <<ctxDone, outer, err, emitted, result, tokens, fwdVars,
                 ttsIn, ttsVars, ttsOut, pump, egress, done>>
-----------------------------------------------------------------------------
(* The forwarder: a token is in the reply before it is offered to the TTS. *)
TokensEnd ==
  tokens = << >> /\ "tokens" \in closed /\ fwd' = "close" /\ UNCHANGED <<tok, reply, tokens>>

(* A mutant: the reply is not accumulated.                                 *)
ReceiveUnrecorded ==
  /\ fwd = "recv"
  /\ \/ /\ tokens # << >> /\ tok' = Head(tokens) /\ tokens' = Tail(tokens)
        /\ reply' = reply /\ fwd' = "send"
     \/ TokensEnd
  /\ UNCHANGED <<ctxDone, outer, err, llmVars, result, ttsIn, ttsVars,
                 ttsOut, pump, egress, closed, done>>

Receive ==
  /\ fwd = "recv"
  /\ \/ /\ tokens # << >> /\ tok' = Head(tokens) /\ tokens' = Tail(tokens)
        /\ reply' = Append(reply, tok') /\ fwd' = "send"
     \/ TokensEnd
  /\ UNCHANGED <<ctxDone, outer, err, llmVars, result, ttsIn, ttsVars,
                 ttsOut, pump, egress, closed, done>>

Forward ==
  /\ fwd = "send"
  /\ \/ Len(ttsIn) < TokenCap /\ ttsIn' = Append(ttsIn, tok) /\ fwd' = "recv"
     \/ ctxDone /\ fwd' = "close" /\ ttsIn' = ttsIn
  /\ UNCHANGED <<ctxDone, outer, err, llmVars, result, tokens, tok, reply,
                 ttsVars, ttsOut, pump, egress, closed, done>>

CloseTtsIn ==
  /\ fwd = "close"
  /\ closed' = closed \cup {"ttsIn"} /\ fwd' = "done"
  /\ UNCHANGED <<ctxDone, outer, err, llmVars, result, tokens, tok, reply,
                 ttsIn, ttsVars, ttsOut, pump, egress, done>>
-----------------------------------------------------------------------------
(* The TTS stage: it takes tokens, speaks any part of what it has (blank   *)
(* text yields no frame), and returns nil when its input is closed.        *)
Hear ==
  /\ tts = "stream" /\ ttsIn # << >>
  /\ heard' = Head(ttsIn) /\ ttsIn' = Tail(ttsIn)
  /\ UNCHANGED <<ctxDone, outer, err, llmVars, result, tokens, fwdVars,
                 tts, spoken, ttsOut, pump, egress, closed, done>>

Speak(t) ==
  /\ tts = "stream" /\ t \in spoken + 1 .. heard /\ Len(ttsOut) < AudioCap
  /\ spoken' = t /\ ttsOut' = Append(ttsOut, t)
  /\ UNCHANGED <<ctxDone, outer, err, llmVars, result, tokens, fwdVars,
                 ttsIn, tts, heard, pump, egress, closed, done>>

TTSReturns(r) ==
  /\ tts = "stream"
  /\ r = "canceled" => ctxDone
  /\ r = "nil" => ttsIn = << >> /\ "ttsIn" \in closed
  /\ result' = [result EXCEPT !["tts"] = r] /\ tts' = "fail"
  /\ UNCHANGED <<ctxDone, outer, err, llmVars, tokens, fwdVars, ttsIn,
                 heard, spoken, ttsOut, pump, egress, closed, done>>

TTSFail ==
  /\ tts = "fail"
  /\ Fail("tts") /\ tts' = AfterFail("tts")
  /\ UNCHANGED <<ctxDone, outer, llmVars, result, tokens, fwdVars, ttsIn, heard,
                 spoken, ttsOut, pump, egress, closed, done>>

TTSCancel ==
  /\ tts = "cancel"
  /\ ctxDone' = TRUE /\ tts' = "close"
  /\ UNCHANGED <<outer, err, llmVars, result, tokens, fwdVars, ttsIn,
                 heard, spoken, ttsOut, pump, egress, closed, done>>

TTSClose ==
  /\ tts = "close"
  /\ closed' = closed \cup {"ttsOut"} /\ tts' = "done"
  /\ UNCHANGED <<ctxDone, outer, err, llmVars, result, tokens, fwdVars,
                 ttsIn, heard, spoken, ttsOut, pump, egress, done>>
-----------------------------------------------------------------------------
(* A mutant: the pump leaves as soon as ttsOut is closed.                  *)
PumpLeavesRest ==
  /\ pump = "recv"
  /\ \/ /\ ttsOut # << >>
        /\ egress' = Append(egress, Head(ttsOut)) /\ ttsOut' = Tail(ttsOut)
        /\ pump' = pump
     \/ "ttsOut" \in closed /\ pump' = "done" /\ UNCHANGED <<egress, ttsOut>>
  /\ UNCHANGED <<ctxDone, outer, err, llmVars, result, tokens, fwdVars,
                 ttsIn, ttsVars, closed, done>>

(* The egress pump: it does not watch the context, its push never blocks,  *)
(* and it ends when ttsOut is closed and empty.                            *)
Pump ==
  /\ pump = "recv"
  /\ \/ /\ ttsOut # << >>
        /\ egress' = Append(egress, Head(ttsOut)) /\ ttsOut' = Tail(ttsOut)
        /\ pump' = pump
     \/ ttsOut = << >> /\ "ttsOut" \in closed /\ pump' = "done" /\ UNCHANGED <<egress, ttsOut>>
  /\ UNCHANGED <<ctxDone, outer, err, llmVars, result, tokens, fwdVars,
                 ttsIn, ttsVars, closed, done>>

(* A mutant: the wait group does not count the pump.                       *)
CloseWithoutPump ==
  /\ ~done /\ llm = "done" /\ fwd = "done" /\ tts = "done"
  /\ done' = TRUE
  /\ UNCHANGED <<ctxDone, outer, err, llmVars, result, tokens, fwdVars,
                 ttsIn, ttsVars, ttsOut, pump, egress, closed>>

(* wg.Wait, then close(done).                                              *)
Close ==
  /\ ~done /\ llm = "done" /\ fwd = "done" /\ tts = "done" /\ pump = "done"
  /\ done' = TRUE
  /\ UNCHANGED <<ctxDone, outer, err, llmVars, result, tokens, fwdVars,
                 ttsIn, ttsVars, ttsOut, pump, egress, closed>>

(* The turn is over; only a late cancellation can still come.              *)
Over == done /\ outer /\ UNCHANGED vars
-----------------------------------------------------------------------------
Results == {"nil", "error", "canceled"}
LLM == LLMEmit \/ (\E r \in Results : LLMReturns(r)) \/ LLMFail \/ LLMCancel \/ LLMClose
Forwarder == Receive \/ Forward \/ CloseTtsIn
TTS ==
  \/ Hear \/ (\E t \in 1 .. MaxTokens : Speak(t)) \/ (\E r \in Results : TTSReturns(r))
  \/ TTSFail \/ TTSCancel \/ TTSClose

Next == CancelOutside \/ LLM \/ Forwarder \/ TTS \/ Pump \/ Close \/ Over

Spec == Init /\ [][Next]_vars

(* The goroutines of the kernel are scheduled.  Of the adapters only what  *)
(* their contract says: they return once the context is cancelled, and the *)
(* TTS goes on with what it was given.  Nothing makes the LLM end.         *)
Fairness ==
  /\ WF_vars(LLMReturns("canceled")) /\ WF_vars(LLMFail \/ LLMCancel \/ LLMClose)
  /\ WF_vars(Forwarder) /\ WF_vars(Pump) /\ WF_vars(Close)
  /\ WF_vars(TTSReturns("canceled")) /\ WF_vars(TTSFail \/ TTSCancel \/ TTSClose)
  /\ WF_vars(Hear \/ TTSReturns("nil")) /\ WF_vars(\E t \in 1 .. MaxTokens : Speak(t))

FairSpec == Spec /\ Fairness
-----------------------------------------------------------------------------
Upto(n) == [i \in 1 .. n |-> i]

TypeOK ==
  /\ ctxDone \in BOOLEAN /\ outer \in BOOLEAN /\ done \in BOOLEAN
  /\ err \in Stages \cup {"none"}
  /\ llm \in {"stream", "fail", "cancel", "close", "done"}
  /\ tts \in {"stream", "fail", "cancel", "close", "done"}
  /\ fwd \in {"recv", "send", "close", "done"} /\ pump \in {"recv", "done"}
  /\ result \in [Stages -> Results \cup {"none"}]
  /\ emitted \in Nat /\ tok \in Nat /\ heard \in Nat /\ spoken \in 0 .. heard
  /\ tokens \in Seq(Nat) /\ Len(tokens) <= TokenCap
  /\ ttsIn \in Seq(Nat) /\ Len(ttsIn) <= TokenCap
  /\ ttsOut \in Seq(Nat) /\ Len(ttsOut) <= AudioCap
  /\ reply \in Seq(Nat) /\ egress \in Seq(Nat)
  /\ closed \subseteq {"tokens", "ttsIn", "ttsOut"}

(* What reached the user is in the reply, and so in the history, also when *)
(* the turn is cut off at any point (turn.go: "the part the agent already  *)
(* said did happen; it stays in the history").                             *)
HeardIsReply ==
  /\ reply = Upto(Len(reply))
  /\ \A i \in DOMAIN egress : egress[i] <= Len(reply)

(* The inductive invariant behind it: tokens keep their order and their    *)
(* places through the forwarder, so that what the TTS has is a prefix of   *)
(* the reply, and what was spoken one of that.                             *)
InvForwarder ==
  /\ reply = Upto(Len(reply)) /\ emitted = Len(reply) + Len(tokens)
  /\ \A i \in DOMAIN tokens : tokens[i] = Len(reply) + i
  /\ fwd = "send" => tok = Len(reply)

InvTtsIn ==
  /\ \A i \in DOMAIN ttsIn : ttsIn[i] = heard + i
  /\ heard + Len(ttsIn) <= Len(reply)
  /\ fwd = "recv" => heard + Len(ttsIn) = Len(reply)
  /\ fwd = "send" => heard + Len(ttsIn) + 1 = Len(reply)

InvSpoken ==
  /\ \A i \in DOMAIN ttsOut : ttsOut[i] <= spoken
  /\ \A i \in DOMAIN egress : egress[i] <= spoken

TurnInv == TypeOK /\ InvForwarder /\ InvTtsIn /\ InvSpoken

(* A turn that nobody cancels and no stage fails loses nothing: the reply  *)
(* is all the LLM sent, the TTS got all of it, the ring got every frame.   *)
CompleteOnSuccess ==
  done /\ ~ctxDone =>
    /\ Len(reply) = emitted /\ heard = emitted
    /\ egress # << >> => egress[Len(egress)] = spoken
    /\ egress = << >> => spoken = 0

(* Once the LLM or the TTS has returned, well or not, the turn ends: no    *)
(* stage is left waiting on a channel whose other end is gone.             *)
TurnEnds == (\E s \in Stages : result[s] # "none") ~> done

(* The sub-chain is what the orchestrator takes it for.                    *)
Chain == INSTANCE ResponseChain WITH
  chain <- IF done THEN "exited" ELSE "running",
  cancelled <- ctxDone, pushed <- Len(egress)

ImplementsResponseChain == Chain!Spec
=============================================================================
