------------------------------ MODULE Dialogue ------------------------------
(***************************************************************************)
(* One session's conversation: the socket reader running the detector and  *)
(* the machine (vad.Controller), the ASR loop that turns utterances into   *)
(* finals, the orchestrator (Pipeline.Run) that turns finals into turns    *)
(* one at a time, and the response sub-chain of the current turn.  The two *)
(* latched signals EndUtterance and BargeIn, the finals channel, the done  *)
(* channel and the turn hooks are all that connects them.                  *)
(*                                                                         *)
(* Abstracted here and detailed elsewhere: the sub-chain is running or has *)
(* exited (Turn); the egress ring is the sequence of the turns its frames  *)
(* belong to (Ring).  The ASR loop is what it does at utterance            *)
(* boundaries: what the ingress ring holds does not matter to it.          *)
(***************************************************************************)
EXTENDS Vad, Sequences

CONSTANTS FinalsCap,   \* pipeline.transcript_chan_cap
          EgressCap,   \* ring_buffer.egress_capacity
          HistoryCap,  \* maxHistory, in turns (two messages each)
          MaxSpeech,   \* bound: how often the user starts to speak
          MaxFrames    \* bound: frames one turn pushes to egress

ASSUME DialogueAssumption ==
  /\ FinalsCap \in Nat \ {0} /\ EgressCap \in Nat \ {0}
  /\ HistoryCap \in Nat \ {0}
  /\ MaxSpeech \in Nat /\ MaxFrames \in Nat

VARIABLES rpc,       \* reader: "read" a frame, or carry out the "signal" below
          ract,      \* reader: the action Machine.Apply handed it
          speeches,  \* history: how often SpeechStart fired
          endUtt,    \* the endUtt channel holds its token
          bargeIn,   \* the bargeIn channel holds its token
          apc,       \* ASR loop: where it is
          heard,     \* ASR loop: whether the final it hands over has any text
          finals,    \* the finals channel: one BOOLEAN per final, as heard
          opc,       \* orchestrator: where it is
          after,     \* orchestrator: where cancelTurn returns to
          cur,       \* orchestrator: the current turn, 0 for nil
          turns,     \* history: turns started
          chain,     \* sub-chain of cur: "none", "running", "exited" (done closed)
          cancelled, \* the turn context of cur is cancelled by the orchestrator
          frames,    \* history: frames cur has pushed
          egress,    \* the egress ring: the turn each buffered frame belongs to
          flushed,   \* history: the turns cancelTurn has ended
          history,   \* Pipeline.history: the turns it holds
          called,    \* history: BargeIn was called while cur was current
          ctxDone    \* the session context is cancelled

readerVars == <<rpc, ract, speeches>>
asrVars == <<apc, heard>>
orchVars == <<opc, after, cur, turns, flushed, history>>
chainVars == <<chain, cancelled, frames, egress>>
signalVars == <<endUtt, bargeIn, called>>
vars == <<inSpeech, run, state, illegal, rpc, ract, speeches, endUtt, bargeIn,
          apc, heard, finals, opc, after, cur, turns, chain, cancelled, frames,
          egress, flushed, history, called, ctxDone>>

Init ==
  /\ VadInit
  /\ rpc = "read" /\ ract = "none" /\ speeches = 0
  /\ endUtt = FALSE /\ bargeIn = FALSE /\ called = FALSE
  /\ apc = "pumping" /\ heard = FALSE /\ finals = << >>
  /\ opc = "select" /\ after = "select" /\ cur = 0 /\ turns = 0
  /\ flushed = {} /\ history = << >>
  /\ chain = "none" /\ cancelled = FALSE /\ frames = 0 /\ egress = << >>
  /\ ctxDone = FALSE

TurnCtxDone == cancelled \/ ctxDone
-----------------------------------------------------------------------------
(* The reader: Controller.Ingest.                                          *)

(* Process, then Apply when there is an event.  The signal is sent, and    *)
(* the frame pushed to ingress, after the machine's mutex is released.     *)
Ingest(level) ==
  /\ rpc = "read"
  /\ \E ev \in {"none", "SpeechStart", "SpeechEnd"}, act \in Actions :
       /\ Process(level, ev)
       /\ ev = "SpeechStart" => speeches < MaxSpeech
       /\ IF ev = "none" THEN act = "none" /\ UNCHANGED <<state, illegal>>
                         ELSE Apply(ev, act)
       /\ speeches' = IF ev = "SpeechStart" THEN speeches + 1 ELSE speeches
       /\ ract' = act
       /\ rpc' = IF act = "none" THEN "read" ELSE "signal"
  /\ UNCHANGED <<asrVars, finals, orchVars, chainVars, signalVars, ctxDone>>

(* A mutant: a barge-in is sent only if the machine still stands where the *)
(* frame left it.                                                          *)
SignalIfStillSpeaking ==
  /\ rpc = "signal"
  /\ rpc' = "read" /\ ract' = "none"
  /\ endUtt' = (endUtt \/ ract = "EndUtterance")
  /\ bargeIn' = (bargeIn \/ (ract = "CancelTurn" /\ state = "RESPONDING"))
  /\ called' = (called \/ (ract = "CancelTurn" /\ cur # 0))
  /\ UNCHANGED <<vadVars, speeches, asrVars, finals, orchVars, chainVars, ctxDone>>

(* EndUtterance or BargeIn: a send to a channel of capacity 1 that is      *)
(* dropped when the token is already there.                                *)
Signal ==
  /\ rpc = "signal"
  /\ rpc' = "read" /\ ract' = "none"
  /\ endUtt' = (endUtt \/ ract = "EndUtterance")
  /\ bargeIn' = (bargeIn \/ ract = "CancelTurn")
  /\ called' = (called \/ (ract = "CancelTurn" /\ cur # 0))
  /\ UNCHANGED <<vadVars, speeches, asrVars, finals, orchVars, chainVars, ctxDone>>
-----------------------------------------------------------------------------
(* The ASR loop, at the boundaries of an utterance.                        *)

EndOfUtterance ==
  /\ apc = "pumping" /\ endUtt
  /\ endUtt' = FALSE /\ apc' = "closing"
  /\ UNCHANGED <<vadVars, readerVars, bargeIn, called, heard, finals, orchVars,
                 chainVars, ctxDone>>

(* The ASR stream returns: with a transcript, an empty one, or an error.   *)
Transcribed(text) ==
  /\ apc = "closing" /\ ~ctxDone
  /\ heard' = text /\ apc' = "handing"
  /\ UNCHANGED <<vadVars, readerVars, signalVars, finals, orchVars, chainVars, ctxDone>>

AsrFails ==
  /\ apc = "closing" /\ ~ctxDone
  /\ apc' = "failed"
  /\ UNCHANGED <<vadVars, readerVars, signalVars, heard, finals, orchVars,
                 chainVars, ctxDone>>

HandOver ==
  /\ apc = "handing" /\ Len(finals) < FinalsCap
  /\ finals' = Append(finals, heard) /\ apc' = "pumping"
  /\ UNCHANGED <<vadVars, readerVars, signalVars, heard, orchVars, chainVars, ctxDone>>

(* A mutant: the hand-over to a full channel does not watch the context.   *)
AsrStopsUnlessHanding ==
  /\ ctxDone /\ apc \in {"pumping", "closing"}
  /\ apc' = "stopped"
  /\ UNCHANGED <<vadVars, readerVars, signalVars, heard, finals, orchVars,
                 chainVars, ctxDone>>

AsrStops ==
  /\ ctxDone /\ apc \in {"pumping", "closing", "handing"}
  /\ apc' = "stopped"
  /\ UNCHANGED <<vadVars, readerVars, signalVars, heard, finals, orchVars,
                 chainVars, ctxDone>>

AsrReturned == apc \in {"failed", "stopped"}
-----------------------------------------------------------------------------
(* The response sub-chain of the current turn.                             *)

PushFrame ==
  /\ chain = "running" /\ frames < MaxFrames
  /\ frames' = frames + 1
  /\ egress' = Append(IF Len(egress) = EgressCap THEN Tail(egress) ELSE egress, cur)
  /\ UNCHANGED <<vadVars, readerVars, signalVars, asrVars, finals, orchVars,
                 chain, cancelled, ctxDone>>

(* Every stage has returned and done is closed: the reply is complete, a   *)
(* stage failed, or the turn context is cancelled.                         *)
ChainExits ==
  /\ chain = "running"
  /\ chain' = "exited"
  /\ UNCHANGED <<vadVars, readerVars, signalVars, asrVars, finals, orchVars,
                 cancelled, frames, egress, ctxDone>>

(* The transport pump takes a frame off the egress ring.                   *)
Downlink ==
  /\ egress # << >>
  /\ egress' = Tail(egress)
  /\ UNCHANGED <<vadVars, readerVars, signalVars, asrVars, finals, orchVars,
                 chain, cancelled, frames, ctxDone>>

CancelSession ==
  /\ ~ctxDone /\ ctxDone' = TRUE
  /\ UNCHANGED <<vadVars, readerVars, signalVars, asrVars, finals, orchVars, chainVars>>
-----------------------------------------------------------------------------
(* The orchestrator: Pipeline.Run.  Each branch of its select is an action *)
(* that may be taken whenever it is ready: Go picks one at random.         *)

Selecting == opc = "select"

CancelThen(next) == IF cur # 0 THEN opc' = "cancel" /\ after' = next
                               ELSE opc' = next /\ after' = after

SelectCtxDone ==
  /\ Selecting /\ ctxDone
  /\ CancelThen("waitAsr")
  /\ UNCHANGED <<vadVars, readerVars, signalVars, asrVars, finals, chainVars,
                 cur, turns, flushed, history, ctxDone>>

SelectAsrErr ==
  /\ Selecting /\ AsrReturned
  /\ CancelThen("returned")
  /\ UNCHANGED <<vadVars, readerVars, signalVars, asrVars, finals, chainVars,
                 cur, turns, flushed, history, ctxDone>>

SelectBargeIn ==
  /\ Selecting /\ bargeIn
  /\ bargeIn' = FALSE
  /\ CancelThen("select")
  /\ UNCHANGED <<vadVars, readerVars, endUtt, called, asrVars, finals, chainVars,
                 cur, turns, flushed, history, ctxDone>>

(* An empty final opens no turn.  startTurn launches the sub-chain before  *)
(* it calls OnTurnStart.                                                   *)
SelectFinal ==
  /\ Selecting /\ cur = 0 /\ finals # << >>
  /\ finals' = Tail(finals)
  /\ IF Head(finals)
       THEN /\ turns' = turns + 1 /\ cur' = turns + 1
            /\ chain' = "running" /\ cancelled' = FALSE /\ frames' = 0
            /\ called' = FALSE /\ opc' = "started"
       ELSE UNCHANGED <<turns, cur, chain, cancelled, frames, called, opc>>
  /\ UNCHANGED <<vadVars, readerVars, endUtt, bargeIn, asrVars, after, flushed,
                 history, egress, ctxDone>>

(* OnTurnStart: Controller.ResponseStarted.                                *)
ResponseStarted ==
  /\ opc = "started"
  /\ \E act \in Actions :
       /\ Apply("ResponseStarted", act)
       /\ opc' = IF act = "CancelTurn" THEN "bargeIn" ELSE "select"
  /\ UNCHANGED <<inSpeech, run, readerVars, signalVars, asrVars, finals, chainVars,
                 after, cur, turns, flushed, history, ctxDone>>

(* The BargeIn it calls when the user is already speaking.                 *)
StaleTurnBargeIn ==
  /\ opc = "bargeIn"
  /\ bargeIn' = TRUE /\ called' = TRUE /\ opc' = "select"
  /\ UNCHANGED <<vadVars, readerVars, endUtt, asrVars, finals, chainVars, after,
                 cur, turns, flushed, history, ctxDone>>

(* A mutant: a full history stays as it is.                                *)
RememberOldest(t) == IF Len(history) >= HistoryCap THEN history ELSE Append(history, t)

(* appendHistory keeps the newest HistoryCap turns.                        *)
Remember(t) ==
  LET h == Append(history, t)
  IN  IF Len(h) > HistoryCap THEN Tail(h) ELSE h

(* finishTurn, the done channel being closed: history, statistics, and the *)
(* OnTurnEnd hook, Controller.ResponseDone.                                *)
SelectDone ==
  /\ Selecting /\ cur # 0 /\ chain = "exited"
  /\ \E act \in Actions : Apply("ResponseDone", act)
  /\ history' = Remember(cur)
  /\ cur' = 0 /\ chain' = "none"
  /\ UNCHANGED <<inSpeech, run, readerVars, signalVars, asrVars, finals, opc, after,
                 turns, flushed, cancelled, frames, egress, ctxDone>>

(* A mutant: the turn context is not cancelled, only waited for.           *)
CancelTurnNoCancel ==
  /\ opc = "cancel"
  /\ opc' = "await"
  /\ UNCHANGED <<vadVars, readerVars, signalVars, asrVars, finals, after, cur, turns,
                 flushed, history, chainVars, ctxDone>>

CancelTurn ==
  /\ opc = "cancel"
  /\ cancelled' = TRUE /\ opc' = "await"
  /\ UNCHANGED <<vadVars, readerVars, signalVars, asrVars, finals, after, cur, turns,
                 flushed, history, chain, frames, egress, ctxDone>>

AwaitDone ==
  /\ opc = "await" /\ chain = "exited"
  /\ opc' = "drain"
  /\ UNCHANGED <<vadVars, readerVars, signalVars, asrVars, finals, after, cur, turns,
                 flushed, history, chainVars, ctxDone>>

(* A mutant: the egress ring is drained without waiting for done.          *)
DrainEarly ==
  /\ opc \in {"await", "drain"}
  /\ egress' = << >> /\ opc' = "end"
  /\ UNCHANGED <<vadVars, readerVars, signalVars, asrVars, finals, after, cur, turns,
                 flushed, history, chain, cancelled, frames, ctxDone>>

(* egress.drain: the pops of the transport beside it only take frames off  *)
(* the same ring, so the ring is empty when the drain is over.             *)
Drain ==
  /\ opc = "drain"
  /\ egress' = << >> /\ opc' = "end"
  /\ UNCHANGED <<vadVars, readerVars, signalVars, asrVars, finals, after, cur, turns,
                 flushed, history, chain, cancelled, frames, ctxDone>>

(* The rest of cancelTurn: history, statistics, OnTurnEnd.                 *)
EndCancelled ==
  /\ opc = "end"
  /\ \E act \in Actions : Apply("ResponseDone", act)
  /\ history' = Remember(cur) /\ flushed' = flushed \cup {cur}
  /\ cur' = 0 /\ chain' = "none" /\ opc' = after /\ after' = "select"
  /\ UNCHANGED <<inSpeech, run, readerVars, signalVars, asrVars, finals,
                 turns, cancelled, frames, egress, ctxDone>>

WaitAsr ==
  /\ opc = "waitAsr" /\ AsrReturned
  /\ opc' = "returned"
  /\ UNCHANGED <<vadVars, readerVars, signalVars, asrVars, finals, after, cur, turns,
                 flushed, history, chainVars, ctxDone>>
-----------------------------------------------------------------------------
Reader == Signal \/ \E level \in Levels : Ingest(level)
Asr == EndOfUtterance \/ HandOver \/ AsrStops \/ \E text \in BOOLEAN : Transcribed(text)
Turn == PushFrame \/ ChainExits
Orchestrator ==
  \/ SelectCtxDone \/ SelectAsrErr \/ SelectBargeIn \/ SelectFinal \/ SelectDone
  \/ ResponseStarted \/ StaleTurnBargeIn
  \/ CancelTurn \/ AwaitDone \/ Drain \/ EndCancelled \/ WaitAsr

Next == Reader \/ Asr \/ AsrFails \/ Turn \/ Downlink \/ Orchestrator \/ CancelSession

Spec == Init /\ [][Next]_vars

(* Goroutines that can run are scheduled.  The sub-chain is only sure to   *)
(* exit once its context is cancelled (the adapters' contract, adapter.go  *)
(* 44-46); the ASR stream returns once its input is closed.  Nothing makes *)
(* the user speak, a stage fail or the session end.                        *)
Fairness ==
  /\ WF_vars(Signal) /\ WF_vars(Asr) /\ WF_vars(Orchestrator)
  /\ WF_vars(TurnCtxDone /\ ChainExits)

FairSpec == Spec /\ Fairness
-----------------------------------------------------------------------------
TypeOK ==
  /\ VadTypeOK
  /\ rpc \in {"read", "signal"} /\ ract \in Actions /\ speeches \in Nat
  /\ endUtt \in BOOLEAN /\ bargeIn \in BOOLEAN /\ called \in BOOLEAN
  /\ apc \in {"pumping", "closing", "handing", "failed", "stopped"}
  /\ heard \in BOOLEAN
  /\ finals \in Seq(BOOLEAN)
  /\ opc \in {"select", "started", "bargeIn", "cancel", "await", "drain", "end",
              "waitAsr", "returned"}
  /\ after \in {"select", "waitAsr", "returned"}
  /\ cur \in Nat /\ turns \in Nat
  /\ chain \in {"none", "running", "exited"} /\ cancelled \in BOOLEAN
  /\ frames \in Nat
  /\ egress \in Seq(Nat) /\ flushed \subseteq Nat /\ history \in Seq(Nat)
  /\ ctxDone \in BOOLEAN

(* The machine never meets an event its table does not define: detector    *)
(* and orchestrator, on two goroutines, only produce legal orders.         *)
NoIllegalEvent == illegal = 0

(* The detector and the machine agree on whether the user is speaking, at  *)
(* every moment and in spite of the orchestrator's events in between.      *)
DetectorAgrees == inSpeech = (state = "SPEAKING_USER")

(* The orchestrator is ending cur, or will: its BargeIn is latched, or on  *)
(* its way to the latch.                                                   *)
Doomed ==
  \/ bargeIn \/ (rpc = "signal" /\ ract = "CancelTurn")
  \/ opc \in {"bargeIn", "cancel", "await", "drain", "end"}

(* The agent never goes on talking over the user: a turn that runs while   *)
(* the machine is anywhere but in RESPONDING is about to be cancelled, or  *)
(* its ResponseStarted has not been applied yet.                           *)
NoTalkOver ==
  cur # 0 /\ state # "RESPONDING" => Doomed \/ opc = "started"

(* RESPONDING never outlives its turn: while the machine is in RESPONDING  *)
(* there is a current turn, and a later ResponseDone brings it back.       *)
RespondingHasTurn ==
  state = "RESPONDING" => cur # 0 /\ opc # "started"

(* Machine and orchestrator, on two goroutines, agree about the turn both  *)
(* ways: there is no turn that talks over the user with nobody about to    *)
(* cancel it, and no RESPONDING without a turn whose end will leave it.    *)
MachineFollowsTurn == NoTalkOver /\ RespondingHasTurn

(* After a barge-in the agent is silent: once cancelTurn is over, nothing  *)
(* of the cancelled turn is in the egress ring (turn.go: "drain only after *)
(* done, otherwise the pump could repopulate the ring").                   *)
NothingStaleInEgress ==
  \A i \in DOMAIN egress : egress[i] \notin flushed

(* The history holds the turns that ended, each once, oldest first and     *)
(* newest last, whether they were cancelled or not.                        *)
HistoryInOrder ==
  LET n == Len(history)
  IN  \A i \in 1 .. n : history[i] = (IF cur = 0 THEN turns ELSE turns - 1) - n + i

(* A BargeIn latched while a turn runs ends that turn.                     *)
BargeInEndsTheTurn ==
  \A t \in 1 .. MaxSpeech : (bargeIn /\ cur = t) ~> (cur # t)

(* Run returns once the session context is cancelled, from wherever it is. *)
RunReturns == ctxDone ~> (opc = "returned")

(* What pipeline.go 126-127 says of BargeIn: it is a no-op when idle, so a *)
(* turn is only cancelled by a BargeIn called while it was current.        *)
IdleBargeInIsNoOp ==
  opc = "cancel" /\ after = "select" => called
-----------------------------------------------------------------------------
(* The inductive invariant.  The current turn is the latest, and not yet   *)
(* flushed; its sub-chain has exited before the ring is drained, so nobody *)
(* refills it until the turn is over.                                      *)

Ending == {"cancel", "await", "drain", "end"}

InvTurn ==
  /\ cur # 0 => cur = turns
  /\ chain = "none" <=> cur = 0
  /\ opc \in {"started", "bargeIn"} \cup Ending => cur # 0
  /\ opc \in {"drain", "end"} => chain = "exited"
  /\ opc = "end" => egress = << >>
  /\ flushed \subseteq 1 .. turns /\ cur \notin flushed

MachineInv ==
  /\ NoIllegalEvent /\ DetectorAgrees /\ RespondingHasTurn /\ NoTalkOver

DialogueInv ==
  /\ TypeOK /\ InvTurn /\ MachineInv /\ NothingStaleInEgress /\ HistoryInOrder
=============================================================================
