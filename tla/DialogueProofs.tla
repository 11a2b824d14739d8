--------------------------- MODULE DialogueProofs ---------------------------
(***************************************************************************)
(* Proofs about Dialogue, for every detector threshold, capacity and       *)
(* bound.  The inductive invariant is DialogueInv; its parts are shown to  *)
(* be preserved one group at a time, each from the groups it needs.        *)
(***************************************************************************)
EXTENDS Dialogue, TLAPS

(* Startup: no turn, no event, nothing buffered.                           *)
LEMMA InitInv == Init => DialogueInv
  <1> SUFFICES ASSUME Init PROVE DialogueInv
    OBVIOUS
  <1> USE VadAssumption DEF Init, VadInit
  <1>1. TypeOK
    <2>1. VadTypeOK
      <3>1. inSpeech = FALSE
        OBVIOUS
      <3>2. run \in Nat /\ run < MinSpeech /\ state \in States /\ illegal \in Nat
        BY DEF States
      <3>. QED BY <3>1, <3>2 DEF VadTypeOK
    <2>2. egress \in Seq(Nat) /\ history \in Seq(Nat) /\ finals \in Seq(BOOLEAN)
      OBVIOUS
    <2>3. endUtt \in BOOLEAN /\ bargeIn \in BOOLEAN /\ called \in BOOLEAN
          /\ heard \in BOOLEAN /\ cancelled \in BOOLEAN /\ ctxDone \in BOOLEAN
      OBVIOUS
    <2>. QED BY <2>1, <2>2, <2>3 DEF TypeOK, Actions
  <1>2. InvTurn /\ NothingStaleInEgress /\ HistoryInOrder
    BY DEF InvTurn, Ending, NothingStaleInEgress, HistoryInOrder
  <1>3. MachineInv
    BY DEF MachineInv, NoIllegalEvent, DetectorAgrees, RespondingHasTurn, NoTalkOver
  <1>. QED
    BY <1>1, <1>2, <1>3 DEF DialogueInv

(* The detector keeps its type: a run never reaches its threshold.         *)
LEMMA ProcessTypes ==
  ASSUME NEW level \in Levels, NEW ev, VadTypeOK, Process(level, ev)
  PROVE  /\ inSpeech' \in BOOLEAN /\ run' \in Nat
         /\ inSpeech' => run' < Hangover
         /\ ~inSpeech' => run' < MinSpeech
  <1>1. inSpeech' \in BOOLEAN
    BY DEF VadTypeOK, Process, Rises, Decays
  <1>2. CASE run' = 0
    <2>1. 0 \in Nat /\ 0 < Hangover /\ 0 < MinSpeech
      BY VadAssumption
    <2>. QED BY <1>1, <1>2, <2>1
  <1>3. CASE run' = run + 1 /\ inSpeech' = inSpeech
    <2>1. run \in Nat /\ run + 1 \in Nat /\ run + 1 # 0
      BY DEF VadTypeOK
    <2>2. \/ Rises(level) /\ run + 1 < MinSpeech
          \/ Decays(level) /\ run + 1 < Hangover
      <3>1. run' # 0
        BY <1>3, <2>1
      <3>2. \/ Rises(level) /\ run + 1 < MinSpeech
            \/ Decays(level) /\ run + 1 < Hangover
            \/ run' = 0
        BY DEF Process
      <3>. QED BY <3>1, <3>2
    <2>3. inSpeech => run + 1 < Hangover
      BY <2>2 DEF Rises
    <2>4. ~inSpeech => run + 1 < MinSpeech
      BY <2>2 DEF Decays
    <2>. QED BY <1>1, <1>3, <2>1, <2>3, <2>4
  <1>. QED
    BY <1>1, <1>2, <1>3 DEF Process

(* Machine.Apply keeps the state a state and the counter a number.         *)
LEMMA ApplyTypes ==
  ASSUME NEW ev, NEW act, state \in States, illegal \in Nat, Apply(ev, act)
  PROVE  state' \in States /\ illegal' \in Nat
  BY DEF Apply, Transitions, Row, States

(* What the buffers hold keeps its type when an end is cut off or added.   *)
LEMMA SeqTypes ==
  ASSUME NEW S, NEW s \in Seq(S), NEW x \in S
  PROVE  /\ Append(s, x) \in Seq(S) /\ Len(Append(s, x)) = Len(s) + 1
         /\ s # << >> => /\ Tail(s) \in Seq(S) /\ Head(s) \in S
                        /\ Len(Tail(s)) = Len(s) - 1 /\ Len(s) > 0
  OBVIOUS

(* The history keeps its type when a turn is remembered.                   *)
LEMMA RememberTypes ==
  ASSUME NEW t \in Nat, history \in Seq(Nat)
  PROVE  Remember(t) \in Seq(Nat)
  <1>1. Append(history, t) \in Seq(Nat) /\ Append(history, t) # << >>
    BY SeqTypes
  <1>2. Tail(Append(history, t)) \in Seq(Nat)
    BY <1>1
  <1>. QED BY <1>1, <1>2 DEF Remember

(* The detector and the machine keep their types where they do not change. *)
LEMMA VadTypesKept ==
  ASSUME VadTypeOK, UNCHANGED <<inSpeech, run>>,
         state' \in States, illegal' \in Nat
  PROVE  VadTypeOK'
  BY DEF VadTypeOK

(* Every step keeps the types.                                             *)
LEMMA TypeStep == TypeOK /\ [Next]_vars => TypeOK'
  <1> SUFFICES ASSUME TypeOK, [Next]_vars PROVE TypeOK'
    OBVIOUS
  <1> USE DEF TypeOK
  <1>0. UNCHANGED vadVars => VadTypeOK'
    BY VadTypesKept DEF vadVars, VadTypeOK
  <1>1. ASSUME NEW level \in Levels, Ingest(level) PROVE TypeOK'
    <2>1. PICK ev \in {"none", "SpeechStart", "SpeechEnd"}, act \in Actions :
            /\ Process(level, ev)
            /\ IF ev = "none" THEN act = "none" /\ UNCHANGED <<state, illegal>>
                              ELSE Apply(ev, act)
            /\ speeches' = IF ev = "SpeechStart" THEN speeches + 1 ELSE speeches
            /\ ract' = act
            /\ rpc' = IF act = "none" THEN "read" ELSE "signal"
      BY <1>1 DEF Ingest
    <2>2. state' \in States /\ illegal' \in Nat
      BY <2>1, ApplyTypes DEF VadTypeOK
    <2>3. VadTypeOK'
      BY <2>1, <2>2, ProcessTypes DEF VadTypeOK
    <2>4. rpc' \in {"read", "signal"} /\ ract' \in Actions /\ speeches' \in Nat
      BY <2>1
    <2>. QED
      BY <1>0, <1>1, <2>3, <2>4 DEF Ingest, asrVars, orchVars, chainVars, signalVars
  <1>2. CASE Signal
    BY <1>0, <1>2 DEF Signal, Actions, asrVars, orchVars, chainVars
  <1>3. CASE Asr \/ AsrFails
    <2>1. CASE HandOver
      <3>1. finals' \in Seq(BOOLEAN)
        BY <2>1, SeqTypes DEF HandOver
      <3>. QED
        BY <1>0, <2>1, <3>1 DEF HandOver, readerVars, signalVars,
                          orchVars, chainVars
    <2>2. CASE EndOfUtterance \/ AsrStops \/ AsrFails
      <3>1. CASE EndOfUtterance
        <4>1. endUtt' \in BOOLEAN /\ bargeIn' \in BOOLEAN /\ called' \in BOOLEAN
          BY <3>1 DEF EndOfUtterance
        <4>2. apc' = "closing"
          BY <3>1 DEF EndOfUtterance
        <4>. QED
          BY <1>0, <3>1, <4>1, <4>2 DEF EndOfUtterance, readerVars, orchVars, chainVars
      <3>2. CASE AsrStops
        BY <1>0, <3>2 DEF AsrStops, readerVars, signalVars, orchVars, chainVars
      <3>3. CASE AsrFails
        BY <1>0, <3>3 DEF AsrFails, readerVars, signalVars, orchVars, chainVars
      <3>. QED BY <2>2, <3>1, <3>2, <3>3
    <2>3. ASSUME NEW text \in BOOLEAN, Transcribed(text) PROVE TypeOK'
      BY <1>0, <2>3 DEF Transcribed, readerVars, signalVars, orchVars,
                  chainVars
    <2>. QED BY <1>3, <2>1, <2>2, <2>3 DEF Asr
  <1>4. CASE PushFrame
    <2>1. egress' \in Seq(Nat)
      BY <1>4, SeqTypes, DialogueAssumption DEF PushFrame
    <2>2. frames' \in Nat
      BY <1>4 DEF PushFrame
    <2>. QED
      BY <1>0, <1>4, <2>1, <2>2 DEF PushFrame, readerVars, signalVars,
                              asrVars, orchVars
  <1>5. CASE Downlink
    <2>1. egress' \in Seq(Nat)
      BY <1>5, SeqTypes DEF Downlink
    <2>. QED
      BY <1>0, <1>5, <2>1 DEF Downlink, readerVars, signalVars,
                        asrVars, orchVars
  <1>6. CASE ChainExits \/ CancelSession
    <2>1. CASE ChainExits
      BY <1>0, <2>1 DEF ChainExits, readerVars, signalVars, asrVars, orchVars, chainVars
    <2>2. CASE CancelSession
      BY <1>0, <2>2 DEF CancelSession, readerVars, signalVars, asrVars, orchVars, chainVars
    <2>. QED BY <1>6, <2>1, <2>2
  <1>7. CASE SelectCtxDone \/ SelectAsrErr \/ SelectBargeIn
    <2>1. CASE SelectCtxDone
      BY <1>0, <2>1 DEF SelectCtxDone, CancelThen, readerVars, signalVars, asrVars, chainVars
    <2>2. CASE SelectAsrErr
      BY <1>0, <2>2 DEF SelectAsrErr, CancelThen, readerVars, signalVars, asrVars, chainVars
    <2>3. CASE SelectBargeIn
      <3>1. endUtt' \in BOOLEAN /\ bargeIn' \in BOOLEAN /\ called' \in BOOLEAN
        BY <2>3 DEF SelectBargeIn
      <3>2. opc' \in {"select", "cancel"} /\ after' \in {"select", after}
        BY <2>3 DEF SelectBargeIn, CancelThen
      <3>. QED
        BY <1>0, <2>3, <3>1, <3>2 DEF SelectBargeIn, readerVars, asrVars, chainVars
    <2>. QED BY <1>7, <2>1, <2>2, <2>3
  <1>8. CASE SelectFinal
    <2>1. finals' \in Seq(BOOLEAN)
      BY <1>8, SeqTypes DEF SelectFinal
    <2>2. turns' \in Nat /\ cur' \in Nat /\ frames' \in Nat
      <3>1. turns + 1 \in Nat
        OBVIOUS
      <3>. QED BY <1>8, <3>1 DEF SelectFinal
    <2>3. /\ chain' \in {"none", "running", "exited"} /\ cancelled' \in BOOLEAN
          /\ called' \in BOOLEAN
      BY <1>8 DEF SelectFinal
    <2>4. opc' \in {opc, "started"}
      BY <1>8 DEF SelectFinal
    <2>5. UNCHANGED <<vadVars, readerVars, endUtt, bargeIn, asrVars, after, flushed,
                      history, egress, ctxDone>>
      BY <1>8 DEF SelectFinal
    <2>. QED
      BY <1>0, <2>1, <2>2, <2>3, <2>4, <2>5 DEF readerVars, asrVars
  <1>9. CASE ResponseStarted
    <2>1. PICK act \in Actions : Apply("ResponseStarted", act)
                               /\ opc' = IF act = "CancelTurn" THEN "bargeIn" ELSE "select"
      BY <1>9 DEF ResponseStarted
    <2>2. state' \in States /\ illegal' \in Nat
      BY <2>1, ApplyTypes DEF VadTypeOK
    <2>. QED
      BY <1>9, <2>1, <2>2, VadTypesKept DEF ResponseStarted, readerVars, signalVars,
                              asrVars, chainVars
  <1>10. CASE SelectDone \/ EndCancelled
    <2>1. PICK act \in Actions : Apply("ResponseDone", act)
      BY <1>10 DEF SelectDone, EndCancelled
    <2>2. state' \in States /\ illegal' \in Nat
      BY <2>1, ApplyTypes DEF VadTypeOK
    <2>3. VadTypeOK'
      BY <1>10, <2>2, VadTypesKept DEF SelectDone, EndCancelled
    <2>4. history' \in Seq(Nat)
      BY <1>10, RememberTypes DEF SelectDone, EndCancelled
    <2>5. CASE SelectDone
      BY <2>3, <2>4, <2>5 DEF SelectDone, readerVars, signalVars, asrVars
    <2>6. CASE EndCancelled
      BY <2>3, <2>4, <2>6 DEF EndCancelled, readerVars, signalVars, asrVars
    <2>. QED BY <1>10, <2>5, <2>6
  <1>11. CASE Drain
    BY <1>0, <1>11 DEF Drain, readerVars, signalVars, asrVars
  <1>12. CASE StaleTurnBargeIn \/ CancelTurn \/ AwaitDone \/ WaitAsr
    <2>1. CASE StaleTurnBargeIn
      BY <1>0, <2>1 DEF StaleTurnBargeIn, readerVars, signalVars, asrVars, chainVars
    <2>2. CASE CancelTurn
      BY <1>0, <2>2 DEF CancelTurn, readerVars, signalVars, asrVars, chainVars
    <2>3. CASE AwaitDone
      BY <1>0, <2>3 DEF AwaitDone, readerVars, signalVars, asrVars, chainVars
    <2>4. CASE WaitAsr
      BY <1>0, <2>4 DEF WaitAsr, readerVars, signalVars, asrVars, chainVars
    <2>. QED BY <1>12, <2>1, <2>2, <2>3, <2>4
  <1>13. CASE UNCHANGED vars
    BY <1>0, <1>13 DEF vars, vadVars
  <1>. QED
    BY <1>1, <1>2, <1>3, <1>4, <1>5, <1>6, <1>7, <1>8, <1>9, <1>10, <1>11, <1>12, <1>13
    DEF Next, Reader, Turn, Orchestrator

(* What the orchestrator and the sub-chain own is left alone by the reader *)
(* and the ASR loop, and by the end of the session.                        *)
LEMMA OthersKeepTheTurn ==
  Reader \/ Asr \/ AsrFails \/ CancelSession =>
    UNCHANGED <<orchVars, chain, egress>>
  BY DEF Reader, Asr, AsrFails, CancelSession, Ingest, Signal, EndOfUtterance,
         Transcribed, HandOver, AsrStops, chainVars

(* The current turn is the latest and not flushed, and the ring stays      *)
(* empty between the drain and the end of the turn.                        *)
LEMMA TurnStep == TypeOK /\ InvTurn /\ [Next]_vars => InvTurn'
  <1> SUFFICES ASSUME TypeOK, InvTurn, [Next]_vars PROVE InvTurn'
    OBVIOUS
  <1>0. turns \in Nat /\ cur \in Nat /\ flushed \subseteq Nat
    BY DEF TypeOK
  <1>1. CASE UNCHANGED <<orchVars, chain, egress>>
    BY <1>1 DEF InvTurn, orchVars
  <1>2. CASE PushFrame
    BY <1>2 DEF PushFrame, InvTurn, orchVars
  <1>3. CASE ChainExits
    BY <1>3 DEF ChainExits, InvTurn, orchVars
  <1>4. CASE Downlink
    BY <1>4 DEF Downlink, InvTurn, orchVars
  <1>5. CASE SelectCtxDone \/ SelectAsrErr \/ SelectBargeIn
    BY <1>5 DEF SelectCtxDone, SelectAsrErr, SelectBargeIn, CancelThen, InvTurn, Ending,
                Selecting, chainVars
  <1>6. CASE SelectFinal
    <2>1. CASE UNCHANGED <<turns, cur, chain, opc>>
      BY <1>6, <2>1 DEF SelectFinal, InvTurn
    <2>2. CASE turns' = turns + 1 /\ cur' = turns + 1 /\ chain' = "running" /\ opc' = "started"
      <3>1. turns + 1 # 0 /\ turns + 1 \notin 1 .. turns /\ 1 .. turns \subseteq 1 .. turns + 1
        BY <1>0
      <3>. QED BY <1>6, <2>2, <3>1 DEF SelectFinal, InvTurn, Ending
    <2>. QED BY <1>6, <2>1, <2>2 DEF SelectFinal
  <1>7. CASE ResponseStarted
    BY <1>7 DEF ResponseStarted, InvTurn, Ending, chainVars
  <1>8. CASE StaleTurnBargeIn
    BY <1>8 DEF StaleTurnBargeIn, InvTurn, Ending, chainVars
  <1>9. CASE SelectDone
    BY <1>0, <1>9 DEF SelectDone, Selecting, InvTurn, Ending
  <1>10. CASE CancelTurn
    BY <1>10 DEF CancelTurn, InvTurn, Ending
  <1>11. CASE AwaitDone
    BY <1>11 DEF AwaitDone, InvTurn, Ending, chainVars
  <1>12. CASE Drain
    BY <1>12 DEF Drain, InvTurn, Ending
  <1>13. CASE EndCancelled
    <2>1. cur \in 1 .. turns /\ 0 \notin 1 .. turns
      BY <1>0, <1>13 DEF EndCancelled, InvTurn, Ending
    <2>2. after' = "select" /\ opc' \in {"select", "waitAsr", "returned"}
      BY <1>13 DEF EndCancelled, TypeOK
    <2>. QED BY <1>13, <2>1, <2>2 DEF EndCancelled, InvTurn, Ending
  <1>14. CASE WaitAsr
    BY <1>14 DEF WaitAsr, InvTurn, Ending, chainVars
  <1>15. CASE UNCHANGED vars
    BY <1>15 DEF vars, InvTurn
  <1>. QED
    BY <1>1, <1>2, <1>3, <1>4, <1>5, <1>6, <1>7, <1>8, <1>9, <1>10, <1>11, <1>12, <1>13,
       <1>14, <1>15, OthersKeepTheTurn
    DEF Next, Turn, Orchestrator

(* The ring never holds a frame of a turn that was flushed: it is empty    *)
(* when its turn is, and only the current turn pushes.                     *)
LEMMA EgressStep ==
  TypeOK /\ InvTurn /\ NothingStaleInEgress /\ [Next]_vars => NothingStaleInEgress'
  <1> SUFFICES ASSUME TypeOK, InvTurn, NothingStaleInEgress, [Next]_vars
               PROVE  NothingStaleInEgress'
    OBVIOUS
  <1>0. egress \in Seq(Nat)
    BY DEF TypeOK
  <1>1. CASE UNCHANGED <<egress, flushed>>
    BY <1>1 DEF NothingStaleInEgress
  <1>2. CASE egress' = << >>
    BY <1>2 DEF NothingStaleInEgress
  <1>3. CASE PushFrame
    <2>1. cur \notin flushed /\ flushed' = flushed /\ cur \in Nat
      BY <1>3 DEF PushFrame, InvTurn, orchVars, TypeOK
    <2>2. PICK old \in Seq(Nat) :
            /\ \A i \in DOMAIN old : old[i] \notin flushed
            /\ egress' = Append(old, cur)
      <3>1. CASE Len(egress) = EgressCap
        <4>1. egress # << >>
          BY <1>0, <3>1, DialogueAssumption
        <4>2. /\ Tail(egress) \in Seq(Nat)
              /\ \A i \in DOMAIN Tail(egress) : Tail(egress)[i] \notin flushed
          BY <1>0, <4>1 DEF NothingStaleInEgress
        <4>. QED BY <1>3, <3>1, <4>2 DEF PushFrame
      <3>2. CASE Len(egress) # EgressCap
        BY <1>0, <1>3, <3>2 DEF PushFrame, NothingStaleInEgress
      <3>. QED BY <3>1, <3>2
    <2>. QED BY <2>1, <2>2 DEF NothingStaleInEgress
  <1>4. CASE Downlink
    <2>1. egress # << >> /\ egress' = Tail(egress) /\ flushed' = flushed
      BY <1>4 DEF Downlink, orchVars
    <2>. QED BY <1>0, <2>1 DEF NothingStaleInEgress
  <1>5. CASE EndCancelled
    BY <1>5 DEF EndCancelled, InvTurn, NothingStaleInEgress
  <1>6. CASE Drain
    BY <1>2, <1>6 DEF Drain
  <1>7. CASE ChainExits \/ SelectCtxDone \/ SelectAsrErr \/ SelectBargeIn \/ SelectFinal
             \/ ResponseStarted \/ StaleTurnBargeIn \/ SelectDone \/ CancelTurn
             \/ AwaitDone \/ WaitAsr
    BY <1>1, <1>7 DEF ChainExits, SelectCtxDone, SelectAsrErr, SelectBargeIn, SelectFinal,
                      ResponseStarted, StaleTurnBargeIn, SelectDone, CancelTurn, AwaitDone,
                      WaitAsr, orchVars, chainVars
  <1>. QED
    BY <1>1, <1>3, <1>4, <1>5, <1>6, <1>7, OthersKeepTheTurn
    DEF Next, Turn, Orchestrator, orchVars, vars

(* The rows of the table, event by event.                                  *)
LEMMA OnSpeechStart ==
  ASSUME NEW act, state \in States, state # "SPEAKING_USER", Apply("SpeechStart", act)
  PROVE  /\ state' = "SPEAKING_USER" /\ illegal' = illegal
         /\ state = "LISTENING" => act = "none"
         /\ state # "LISTENING" => act = "CancelTurn"
  BY DEF Apply, Transitions, Row, States

LEMMA OnSpeechEnd ==
  ASSUME NEW act, state = "SPEAKING_USER", Apply("SpeechEnd", act)
  PROVE  state' = "THINKING" /\ illegal' = illegal /\ act = "EndUtterance"
  BY DEF Apply, Transitions, Row

LEMMA OnResponseStarted ==
  ASSUME NEW act, state \in States, state # "RESPONDING", Apply("ResponseStarted", act)
  PROVE  /\ illegal' = illegal
         /\ state = "SPEAKING_USER" => state' = state /\ act = "CancelTurn"
         /\ state # "SPEAKING_USER" => state' = "RESPONDING" /\ act = "none"
  BY DEF Apply, Transitions, Row, States

LEMMA OnResponseDone ==
  ASSUME NEW act, state \in States, Apply("ResponseDone", act)
  PROVE  /\ illegal' = illegal
         /\ state = "SPEAKING_USER" => state' = state
         /\ state # "SPEAKING_USER" => state' = "LISTENING"
  BY DEF Apply, Transitions, Row, States

(* The detector fires SpeechStart outside speech only, and SpeechEnd in    *)
(* speech only.                                                            *)
LEMMA DetectorEvents ==
  ASSUME NEW level, NEW ev, inSpeech \in BOOLEAN, Process(level, ev)
  PROVE  /\ ev = "SpeechStart" => ~inSpeech /\ inSpeech'
         /\ ev = "SpeechEnd" => inSpeech /\ ~inSpeech'
         /\ ev = "none" => inSpeech' = inSpeech
         /\ inSpeech' \in BOOLEAN
  BY DEF Process, Rises, Decays

(* Detector and machine stay together, no event is undefined, and whoever  *)
(* leaves RESPONDING with a turn running has its cancellation under way.   *)
LEMMA MachineStep == TypeOK /\ InvTurn /\ MachineInv /\ [Next]_vars => MachineInv'
  <1> SUFFICES ASSUME TypeOK, InvTurn, MachineInv, [Next]_vars PROVE MachineInv'
    OBVIOUS
  <1> USE DEF MachineInv, NoIllegalEvent, DetectorAgrees, RespondingHasTurn, NoTalkOver,
              Doomed
  <1>0. state \in States /\ inSpeech \in BOOLEAN
    BY DEF TypeOK, VadTypeOK
  <1>1. ASSUME NEW level \in Levels, Ingest(level) PROVE MachineInv'
    <2>1. PICK ev \in {"none", "SpeechStart", "SpeechEnd"}, act \in Actions :
            /\ Process(level, ev)
            /\ IF ev = "none" THEN act = "none" /\ UNCHANGED <<state, illegal>>
                              ELSE Apply(ev, act)
            /\ ract' = act
            /\ rpc' = IF act = "none" THEN "read" ELSE "signal"
      BY <1>1 DEF Ingest
    <2>2. rpc = "read" /\ UNCHANGED <<bargeIn, opc, cur>>
      BY <1>1 DEF Ingest, signalVars, orchVars
    <2>3. CASE ev = "none"
      <3>1. inSpeech' = inSpeech /\ UNCHANGED <<state, illegal>> /\ rpc' = "read"
        BY <1>0, <2>1, <2>3, DetectorEvents
      <3>. QED BY <2>2, <3>1
    <2>4. CASE ev = "SpeechStart"
      <3>1. state # "SPEAKING_USER" /\ inSpeech'
        <4>1. ~inSpeech /\ inSpeech'
          BY <1>0, <2>1, <2>4, DetectorEvents
        <4>. QED BY <4>1
      <3>2. /\ state' = "SPEAKING_USER" /\ illegal' = 0
            /\ state # "LISTENING" => ract' = "CancelTurn" /\ rpc' = "signal"
        BY <1>0, <2>1, <2>4, <3>1, OnSpeechStart
      <3>. QED BY <2>2, <3>1, <3>2
    <2>5. CASE ev = "SpeechEnd"
      <3>1. state = "SPEAKING_USER" /\ ~inSpeech'
        <4>1. inSpeech /\ ~inSpeech'
          BY <1>0, <2>1, <2>5, DetectorEvents
        <4>. QED BY <4>1
      <3>2. state' = "THINKING" /\ illegal' = 0
        BY <2>1, <2>5, <3>1, OnSpeechEnd
      <3>3. inSpeech' = FALSE
        BY <1>0, <2>1, <3>1, DetectorEvents
      <3>. QED BY <2>2, <3>1, <3>2, <3>3
    <2>. QED BY <2>1, <2>3, <2>4, <2>5
  <1>2. CASE Signal
    BY <1>2 DEF Signal, vadVars, orchVars, Actions, TypeOK
  <1>3. CASE Asr \/ AsrFails \/ CancelSession \/ PushFrame \/ ChainExits \/ Downlink
    <2>1. UNCHANGED <<state, inSpeech, illegal, rpc, ract, bargeIn, opc, cur>>
      BY <1>3 DEF Asr, AsrFails, CancelSession, PushFrame, ChainExits, Downlink,
                  EndOfUtterance, Transcribed, HandOver, AsrStops, vadVars, readerVars,
                  signalVars, orchVars
    <2>. QED BY <2>1
  <1>4. CASE SelectCtxDone \/ SelectAsrErr \/ SelectBargeIn
    <2>1. UNCHANGED <<state, inSpeech, illegal, cur>> /\ opc # "started" /\ opc' # "started"
      BY <1>4 DEF SelectCtxDone, SelectAsrErr, SelectBargeIn, Selecting, CancelThen, vadVars
    <2>2. cur # 0 => opc' = "cancel"
      BY <1>4 DEF SelectCtxDone, SelectAsrErr, SelectBargeIn, CancelThen
    <2>. QED BY <2>1, <2>2
  <1>5. CASE SelectFinal
    <2>1. cur = 0 /\ UNCHANGED <<state, inSpeech, illegal, rpc, ract, bargeIn>>
          /\ (cur' = 0 \/ opc' = "started")
      BY <1>5 DEF SelectFinal, vadVars, readerVars
    <2>. QED BY <2>1
  <1>6. CASE ResponseStarted
    <2>1. PICK act \in Actions : /\ Apply("ResponseStarted", act)
                                /\ opc' = IF act = "CancelTurn" THEN "bargeIn" ELSE "select"
      BY <1>6 DEF ResponseStarted
    <2>2. opc = "started" /\ cur # 0 /\ UNCHANGED <<inSpeech, cur, rpc, ract, bargeIn>>
      BY <1>6 DEF ResponseStarted, InvTurn, readerVars, signalVars
    <2>3. state # "RESPONDING"
      BY <2>2
    <2>4. /\ illegal' = 0
          /\ state = "SPEAKING_USER" => state' = state /\ opc' = "bargeIn"
          /\ state # "SPEAKING_USER" => state' = "RESPONDING" /\ opc' = "select"
      BY <1>0, <2>1, <2>3, OnResponseStarted
    <2>. QED BY <2>2, <2>4
  <1>7. CASE SelectDone \/ EndCancelled
    <2>1. PICK act \in Actions : Apply("ResponseDone", act)
      BY <1>7 DEF SelectDone, EndCancelled
    <2>2. cur' = 0 /\ inSpeech' = inSpeech
      BY <1>7 DEF SelectDone, EndCancelled
    <2>3. /\ illegal' = 0
          /\ state = "SPEAKING_USER" => state' = state
          /\ state # "SPEAKING_USER" => state' = "LISTENING"
      BY <1>0, <2>1, OnResponseDone
    <2>. QED BY <2>2, <2>3
  <1>8. CASE StaleTurnBargeIn \/ CancelTurn \/ AwaitDone \/ Drain \/ WaitAsr
    <2>1. UNCHANGED <<state, inSpeech, illegal, cur, rpc, ract>>
          /\ opc # "started" /\ opc' # "started"
      BY <1>8 DEF StaleTurnBargeIn, CancelTurn, AwaitDone, Drain, WaitAsr, vadVars, readerVars
    <2>2. bargeIn' = TRUE \/ opc' \in {"await", "drain", "end"} \/ opc = "waitAsr"
      BY <1>8 DEF StaleTurnBargeIn, CancelTurn, AwaitDone, Drain, WaitAsr
    <2>3. opc = "waitAsr" => bargeIn' = bargeIn
      BY <1>8 DEF StaleTurnBargeIn, CancelTurn, AwaitDone, Drain, WaitAsr, signalVars
    <2>. QED BY <2>1, <2>2, <2>3
  <1>9. CASE UNCHANGED vars
    BY <1>9 DEF vars
  <1>. QED
    BY <1>1, <1>2, <1>3, <1>4, <1>5, <1>6, <1>7, <1>8, <1>9
    DEF Next, Reader, Turn, Orchestrator

(* All but the first of a sequence.                                        *)
LEMMA Rest ==
  ASSUME NEW S, NEW s \in Seq(S), s # << >>
  PROVE  Len(Tail(s)) = Len(s) - 1 /\ \A i \in 1 .. Len(s) - 1 : Tail(s)[i] = s[i + 1]
OBVIOUS

(* Remembering the next turn extends the run of turn numbers by one, also  *)
(* when the oldest has to go.                                              *)
LEMMA RememberExtends ==
  ASSUME history \in Seq(Nat), NEW d \in Nat, NEW t \in Nat, t = d + 1,
         \A i \in 1 .. Len(history) : history[i] = d - Len(history) + i
  PROVE  \A i \in 1 .. Len(Remember(t)) : Remember(t)[i] = t - Len(Remember(t)) + i
  <1> DEFINE h == Append(history, t)
             n == Len(history)
  <1>1. h \in Seq(Nat) /\ Len(h) = n + 1 /\ h # << >> /\ n \in Nat
    <2>1. n \in Nat
      OBVIOUS
    <2>2. h \in Seq(Nat) /\ Len(h) = n + 1
      BY SeqTypes
    <2>. QED BY <2>1, <2>2
  <1>2. \A i \in 1 .. Len(h) : h[i] = t - Len(h) + i
    <2>1. TAKE i \in 1 .. Len(h)
    <2>2. CASE i \in 1 .. n
      <3>1. h[i] = history[i] /\ history[i] = d - n + i
        BY <2>2
      <3>. QED BY <1>1, <2>2, <3>1
    <2>3. CASE i = n + 1
      <3>1. h[i] = t
        BY <2>3
      <3>. QED BY <1>1, <2>3, <3>1
    <2>. QED BY <1>1, <2>1, <2>2, <2>3
  <1>3. Len(Tail(h)) = n /\ \A i \in 1 .. n : Tail(h)[i] = h[i + 1]
    <2>1. Len(h) - 1 = n
      BY <1>1
    <2>2. /\ Len(Tail(h)) = Len(h) - 1
          /\ \A i \in 1 .. Len(h) - 1 : Tail(h)[i] = h[i + 1]
      BY <1>1, Rest
    <2>. QED BY <2>1, <2>2
  <1>4. \A i \in 1 .. n : Tail(h)[i] = t - n + i
    <2>1. TAKE i \in 1 .. n
    <2>2. i + 1 \in 1 .. Len(h)
      BY <1>1, <2>1
    <2>3. h[i + 1] = t - (n + 1) + (i + 1)
      BY <1>1, <1>2, <2>2
    <2>4. t - (n + 1) + (i + 1) = t - n + i
      BY <1>1, <2>1
    <2>. QED BY <1>3, <2>1, <2>3, <2>4
  <1>. HIDE DEF h, n
  <1>5. CASE Remember(t) = h
    BY <1>2, <1>5
  <1>6. CASE Remember(t) = Tail(h)
    BY <1>3, <1>4, <1>6
  <1>. QED BY <1>5, <1>6 DEF Remember, h

(* The history gains a turn exactly when one ends.                         *)
LEMMA HistoryStep ==
  TypeOK /\ InvTurn /\ HistoryInOrder /\ [Next]_vars => HistoryInOrder'
  <1> SUFFICES ASSUME TypeOK, InvTurn, HistoryInOrder, [Next]_vars PROVE HistoryInOrder'
    OBVIOUS
  <1>0. history \in Seq(Nat) /\ turns \in Nat /\ cur \in Nat /\ Len(history) \in Nat
    BY DEF TypeOK
  <1>1. CASE UNCHANGED <<history, cur, turns>>
    BY <1>1 DEF HistoryInOrder
  <1>2. CASE SelectFinal
    <2>1. cur = 0 /\ history' = history
          /\ \/ UNCHANGED <<turns, cur>>
             \/ turns' = turns + 1 /\ cur' = turns + 1
      BY <1>2 DEF SelectFinal
    <2>2. CASE turns' = turns + 1 /\ cur' = turns + 1
      <3>1. cur' # 0 /\ turns' - 1 = turns
        BY <1>0, <2>2
      <3>. QED BY <2>1, <3>1 DEF HistoryInOrder
    <2>. QED BY <1>1, <2>1, <2>2
  <1>3. CASE SelectDone \/ EndCancelled
    <2>1. cur # 0 /\ cur = turns
      BY <1>3 DEF SelectDone, EndCancelled, InvTurn, Ending
    <2>2. cur' = 0 /\ turns' = turns /\ history' = Remember(cur)
      BY <1>3 DEF SelectDone, EndCancelled
    <2>3. turns - 1 \in Nat /\ cur = (turns - 1) + 1
      BY <1>0, <2>1
    <2>4. \A i \in 1 .. Len(history) : history[i] = (turns - 1) - Len(history) + i
      BY <2>1 DEF HistoryInOrder
    <2>5. \A i \in 1 .. Len(Remember(cur)) :
             Remember(cur)[i] = cur - Len(Remember(cur)) + i
      BY <1>0, <2>3, <2>4, RememberExtends
    <2>. QED BY <2>1, <2>2, <2>5 DEF HistoryInOrder
  <1>4. CASE \/ PushFrame \/ ChainExits \/ Downlink \/ SelectCtxDone \/ SelectAsrErr
             \/ SelectBargeIn \/ ResponseStarted \/ StaleTurnBargeIn \/ CancelTurn
             \/ AwaitDone \/ Drain \/ WaitAsr
    BY <1>1, <1>4 DEF PushFrame, ChainExits, Downlink, SelectCtxDone, SelectAsrErr,
                      SelectBargeIn, ResponseStarted, StaleTurnBargeIn, CancelTurn,
                      AwaitDone, Drain, WaitAsr, orchVars
  <1>. QED
    BY <1>1, <1>2, <1>3, <1>4, OthersKeepTheTurn DEF Next, Turn, Orchestrator, orchVars, vars
-----------------------------------------------------------------------------
(* The invariant of the conversation: every reachable state satisfies it,  *)
(* for every threshold, capacity and bound.                                *)
THEOREM DialogueInvariant == Spec => []DialogueInv
  <1>1. DialogueInv /\ [Next]_vars => DialogueInv'
    BY TypeStep, TurnStep, MachineStep, EgressStep, HistoryStep DEF DialogueInv
  <1>. QED
    BY InitInv, <1>1, PTL DEF Spec

(* No goroutine ever meets an undefined transition of Machine.Apply.       *)
THEOREM DialogueNoIllegalEvent == Spec => []NoIllegalEvent
  <1>1. DialogueInv => NoIllegalEvent
    BY DEF DialogueInv, MachineInv
  <1>. QED BY DialogueInvariant, <1>1, PTL

(* Energy.inSpeech and the machine's SPEAKING_USER are one fact.           *)
THEOREM DialogueDetectorAgrees == Spec => []DetectorAgrees
  <1>1. DialogueInv => DetectorAgrees
    BY DEF DialogueInv, MachineInv
  <1>. QED BY DialogueInvariant, <1>1, PTL

(* The machine and the current turn agree: no turn goes on over the user   *)
(* without its cancellation on its way, and RESPONDING has a turn whose    *)
(* end will leave it (controller.go 77-99, pipeline.go 164-212).           *)
THEOREM DialogueMachineFollowsTurn == Spec => []MachineFollowsTurn
  <1>1. DialogueInv => MachineFollowsTurn
    BY DEF DialogueInv, MachineInv, MachineFollowsTurn
  <1>. QED BY DialogueInvariant, <1>1, PTL

(* After cancelTurn the egress ring holds nothing of the cancelled turn.   *)
THEOREM DialogueNothingStale == Spec => []NothingStaleInEgress
  <1>1. DialogueInv => NothingStaleInEgress
    BY DEF DialogueInv
  <1>. QED BY DialogueInvariant, <1>1, PTL

(* The history is the latest turns that ended, in order.                   *)
THEOREM DialogueHistoryInOrder == Spec => []HistoryInOrder
  <1>1. DialogueInv => HistoryInOrder
    BY DEF DialogueInv
  <1>. QED BY DialogueInvariant, <1>1, PTL
-----------------------------------------------------------------------------
(* What Dialogue takes the ASR loop and the sub-chain to be is what the    *)
(* modules that detail them implement: AsrLoop implements Recognizer, Turn *)
(* implements ResponseChain, and Dialogue takes steps of both, no others.  *)
Uplink == INSTANCE Recognizer
Reply == INSTANCE ResponseChain WITH cancelled <- TurnCtxDone, pushed <- frames

(* What the ASR loop cannot touch.                                         *)
BesideAsr == <<vadVars, readerVars, bargeIn, called, orchVars, chainVars>>

(* Dialogue's uplink is Recognizer exactly: the loop's steps here are the  *)
(* steps it has there, and whatever else happens is a signal to it, a      *)
(* final taken from it, the end of the session, or nothing to it.          *)
THEOREM DialogueTakesRecognizer ==
  Spec => /\ Uplink!Safety
          /\ [][(Asr \/ AsrFails) <=>
                  (Uplink!Asr \/ Uplink!AsrFails) /\ UNCHANGED BesideAsr]_vars
<1>1. Init => Uplink!Init
  BY DEF Init, Uplink!Init
<1>2. (Asr \/ AsrFails) <=> (Uplink!Asr \/ Uplink!AsrFails) /\ UNCHANGED BesideAsr
  <2> USE DEF BesideAsr, signalVars, asrVars, vadVars, readerVars, orchVars, chainVars
  <2>1. EndOfUtterance <=> Uplink!EndOfUtterance /\ UNCHANGED BesideAsr
    BY DEF EndOfUtterance, Uplink!EndOfUtterance
  <2>2. \A text \in BOOLEAN :
          Transcribed(text) <=> Uplink!Transcribed(text) /\ UNCHANGED BesideAsr
    BY DEF Transcribed, Uplink!Transcribed
  <2>3. HandOver <=> Uplink!HandOver /\ UNCHANGED BesideAsr
    BY DEF HandOver, Uplink!HandOver
  <2>4. AsrStops <=> Uplink!AsrStops /\ UNCHANGED BesideAsr
    BY DEF AsrStops, Uplink!AsrStops
  <2>5. AsrFails <=> Uplink!AsrFails /\ UNCHANGED BesideAsr
    BY DEF AsrFails, Uplink!AsrFails
  <2> HIDE DEF BesideAsr
  <2> QED BY <2>1, <2>2, <2>3, <2>4, <2>5 DEF Asr, Uplink!Asr
<1>3. TypeOK /\ [Next]_vars => [Uplink!Next]_(Uplink!vars)
  <2> SUFFICES ASSUME TypeOK, [Next]_vars PROVE Uplink!Next \/ UNCHANGED Uplink!vars
    OBVIOUS
  <2> USE DEF Uplink!vars, asrVars, signalVars
  <2>1. CASE Asr \/ AsrFails
    BY <1>2, <2>1 DEF Uplink!Next
  <2>2. CASE Reader
    <3>1. CASE Signal /\ ract = "EndUtterance"
      BY <3>1 DEF Signal, Uplink!Next, Uplink!Signal
    <3>2. CASE Signal /\ ract # "EndUtterance"
      <4>1. endUtt' = endUtt
        BY <3>2 DEF Signal, TypeOK
      <4> QED BY <3>2, <4>1 DEF Signal
    <3>3. CASE \E level \in Levels : Ingest(level)
      BY <3>3 DEF Ingest
    <3> QED BY <2>2, <3>1, <3>2, <3>3 DEF Reader
  <2>3. CASE Turn \/ Downlink
    BY <2>3 DEF Turn, PushFrame, ChainExits, Downlink
  <2>4. CASE SelectFinal
    BY <2>4 DEF SelectFinal, Uplink!Next, Uplink!TakeFinal
  <2>5. CASE CancelSession
    BY <2>5 DEF CancelSession, Uplink!Next, Uplink!CancelSession
  <2>6. CASE \/ SelectCtxDone \/ SelectAsrErr \/ SelectBargeIn \/ SelectDone
             \/ ResponseStarted \/ StaleTurnBargeIn
             \/ CancelTurn \/ AwaitDone \/ Drain \/ EndCancelled \/ WaitAsr
    BY <2>6 DEF SelectCtxDone, SelectAsrErr, SelectBargeIn, SelectDone, ResponseStarted,
                StaleTurnBargeIn, CancelTurn, AwaitDone, Drain, EndCancelled, WaitAsr
  <2>7. CASE UNCHANGED vars
    BY <2>7 DEF vars
  <2> QED BY <2>1, <2>2, <2>3, <2>4, <2>5, <2>6, <2>7 DEF Next, Orchestrator
<1>4. DialogueInv => TypeOK
  BY DEF DialogueInv
<1> QED BY <1>1, <1>2, <1>3, <1>4, DialogueInvariant, PTL DEF Spec, Uplink!Safety

(* What happens to the sub-chain in a step that does not change the turn.  *)
LEMMA ReplyStep ==
  ASSUME [Next]_vars, cur # 0, cur' = cur
  PROVE  Reply!Next \/ UNCHANGED Reply!chainVars
<1> USE DEF Reply!chainVars, TurnCtxDone, chainVars, orchVars
<1>1. CASE PushFrame
  BY <1>1 DEF PushFrame, Reply!Next, Reply!Push
<1>2. CASE ChainExits
  BY <1>2 DEF ChainExits, Reply!Next, Reply!Exit
<1>3. CASE CancelTurn \/ CancelSession
  BY <1>3 DEF CancelTurn, CancelSession, Reply!Next, Reply!Cancel
<1>4. CASE Reader \/ Asr \/ AsrFails
  BY <1>4 DEF Reader, Ingest, Signal, Asr, EndOfUtterance, HandOver, AsrStops, Transcribed,
              AsrFails
<1>5. CASE Downlink
  BY <1>5 DEF Downlink
<1>6. CASE \/ SelectCtxDone \/ SelectAsrErr \/ SelectBargeIn \/ ResponseStarted
           \/ StaleTurnBargeIn \/ AwaitDone \/ Drain \/ WaitAsr
  BY <1>6 DEF SelectCtxDone, SelectAsrErr, SelectBargeIn, ResponseStarted, StaleTurnBargeIn,
              AwaitDone, Drain, WaitAsr
<1>7. CASE SelectFinal \/ SelectDone \/ EndCancelled
  BY <1>7 DEF SelectFinal, SelectDone, EndCancelled
<1>8. CASE UNCHANGED vars
  BY <1>8 DEF vars
<1> QED BY <1>1, <1>2, <1>3, <1>4, <1>5, <1>6, <1>7, <1>8 DEF Next, Turn, Orchestrator

(* The sub-chain of each turn is a ResponseChain from its start to its     *)
(* exit: a turn is begun only when there is none, with a fresh sub-chain,  *)
(* and it is let go, done or cancelled, only when its sub-chain has        *)
(* exited, so no two turns ever push to the egress edge at the same time.  *)
THEOREM DialogueTakesChain ==
  Spec => /\ [][cur # 0 /\ cur' = cur => [Reply!Next]_(Reply!chainVars)]_vars
          /\ [][cur' # cur =>
                  \/ cur = 0 /\ chain' = "running" /\ frames' = 0 /\ ~cancelled'
                  \/ cur' = 0 /\ chain = "exited"]_vars
<1>1. ASSUME DialogueInv, [Next]_vars, cur' # cur
      PROVE  \/ cur = 0 /\ chain' = "running" /\ frames' = 0 /\ ~cancelled'
             \/ cur' = 0 /\ chain = "exited"
  <2>1. CASE UNCHANGED orchVars
    BY <1>1, <2>1 DEF orchVars
  <2>2. CASE Turn \/ Downlink
    BY <2>1, <2>2 DEF Turn, PushFrame, ChainExits, Downlink
  <2>3. CASE SelectFinal
    BY <1>1, <2>3 DEF SelectFinal
  <2>4. CASE SelectDone
    BY <2>4 DEF SelectDone
  <2>5. CASE EndCancelled
    BY <1>1, <2>5 DEF EndCancelled, DialogueInv, InvTurn
  <2>6. CASE \/ SelectCtxDone \/ SelectAsrErr \/ SelectBargeIn
             \/ ResponseStarted \/ StaleTurnBargeIn
             \/ CancelTurn \/ AwaitDone \/ Drain \/ WaitAsr
    BY <1>1, <2>6 DEF SelectCtxDone, SelectAsrErr, SelectBargeIn, ResponseStarted,
                StaleTurnBargeIn, CancelTurn, AwaitDone, Drain, WaitAsr
  <2>7. CASE UNCHANGED vars
    BY <1>1, <2>7 DEF vars
  <2> QED BY <1>1, <2>1, <2>2, <2>3, <2>4, <2>5, <2>6, <2>7, OthersKeepTheTurn
          DEF Next, Orchestrator
<1>2. DialogueInv /\ [Next]_vars => [cur # 0 /\ cur' = cur => [Reply!Next]_(Reply!chainVars)]_vars
  BY ReplyStep
<1>3. DialogueInv /\ [Next]_vars =>
        [cur' # cur => \/ cur = 0 /\ chain' = "running" /\ frames' = 0 /\ ~cancelled'
                       \/ cur' = 0 /\ chain = "exited"]_vars
  BY <1>1
<1> QED BY <1>2, <1>3, DialogueInvariant, PTL DEF Spec
-----------------------------------------------------------------------------
(* What Pipeline.Run waits for outside its select, and what it leaves.     *)
RunInv ==
  /\ opc = "await" => cancelled
  /\ "waitAsr" \in {opc, after} => ctxDone
  /\ "returned" \in {opc, after} => AsrReturned
  /\ opc \in {"waitAsr", "returned"} => cur = 0

LEMMA RunStep == TypeOK /\ RunInv /\ [Next]_vars => RunInv'
<1> SUFFICES ASSUME TypeOK, RunInv, [Next]_vars PROVE RunInv'
  OBVIOUS
<1> USE DEF RunInv, AsrReturned, orchVars, chainVars, asrVars, signalVars
<1>1. CASE Reader
  BY <1>1 DEF Reader, Ingest, Signal
<1>2. CASE Asr \/ AsrFails
  BY <1>2 DEF Asr, EndOfUtterance, HandOver, AsrStops, Transcribed, AsrFails
<1>3. CASE Turn \/ Downlink
  BY <1>3 DEF Turn, PushFrame, ChainExits, Downlink
<1>4. CASE CancelSession
  BY <1>4 DEF CancelSession
<1>5. CASE SelectCtxDone
  BY <1>5 DEF SelectCtxDone, CancelThen, Selecting
<1>6. CASE SelectAsrErr
  BY <1>6 DEF SelectAsrErr, CancelThen, Selecting
<1>7. CASE SelectBargeIn
  BY <1>7 DEF SelectBargeIn, CancelThen, Selecting
<1>8. CASE SelectFinal
  BY <1>8 DEF SelectFinal, Selecting
<1>9. CASE SelectDone
  BY <1>9 DEF SelectDone, Selecting
<1>10. CASE ResponseStarted \/ StaleTurnBargeIn
  BY <1>10 DEF ResponseStarted, StaleTurnBargeIn
<1>11. CASE CancelTurn
  BY <1>11 DEF CancelTurn
<1>12. CASE AwaitDone \/ Drain
  BY <1>12 DEF AwaitDone, Drain
<1>13. CASE EndCancelled
  BY <1>13 DEF EndCancelled, TypeOK
<1>14. CASE WaitAsr
  BY <1>14 DEF WaitAsr
<1>15. CASE UNCHANGED vars
  BY <1>15 DEF vars
<1> QED BY <1>1, <1>2, <1>3, <1>4, <1>5, <1>6, <1>7, <1>8, <1>9, <1>10, <1>11, <1>12, <1>13,
           <1>14, <1>15 DEF Next, Orchestrator

(* Run returns only when nothing it started still runs, on every path out  *)
(* of it: no turn, no sub-chain, no ASR loop.  And it waits only for what  *)
(* it has told to end, which is why RunReturns needs so little fairness:   *)
(* for the done channel of a turn whose context it has cancelled, and for  *)
(* the ASR loop once the session's context is done.                        *)
THEOREM RunLeavesNothing ==
  Spec => []( /\ opc = "returned" => cur = 0 /\ chain = "none" /\ AsrReturned
              /\ opc = "await" => cur # 0 /\ chain # "none" /\ cancelled
              /\ opc = "waitAsr" => cur = 0 /\ ctxDone )
<1>1. Init => RunInv
  BY DEF Init, RunInv
<1>2. DialogueInv => TypeOK /\ InvTurn
  BY DEF DialogueInv
<1>3. InvTurn /\ RunInv =>
        /\ opc = "returned" => cur = 0 /\ chain = "none" /\ AsrReturned
        /\ opc = "await" => cur # 0 /\ chain # "none" /\ cancelled
        /\ opc = "waitAsr" => cur = 0 /\ ctxDone
  BY DEF InvTurn, RunInv, Ending
<1> QED BY <1>1, <1>2, <1>3, RunStep, DialogueInvariant, PTL DEF Spec

(* The places of Run from the start of a turn to its end.                  *)
PlaceAhead(l) ==
  CASE l = "started" -> 7 [] l = "bargeIn" -> 6 [] l = "select" -> 5 [] l = "cancel" -> 4
    [] l = "await" -> 3 [] l = "drain" -> 2 [] l = "end" -> 1 [] OTHER -> 0

(* While a turn is current Run only moves towards letting go of it: every  *)
(* branch of the select then ends it or goes on to cancel it, none serves  *)
(* another final, and cancelTurn cannot be left half way (pipeline.go      *)
(* 181-205).  A barge-in that is latched meanwhile stays latched until the *)
(* turn is over or its cancellation begins: the safety half of             *)
(* BargeInEndsTheTurn.                                                     *)
THEOREM BargeInNotLost ==
  Spec => [][cur # 0 =>
               \/ cur' = 0
               \/ /\ cur' = cur
                  /\ opc' = opc \/ PlaceAhead(opc') < PlaceAhead(opc)
                  /\ bargeIn => bargeIn' \/ opc' = "cancel"]_vars
<1> DEFINE Towards == \/ cur' = 0
                      \/ /\ cur' = cur
                         /\ opc' = opc \/ PlaceAhead(opc') < PlaceAhead(opc)
                         /\ bargeIn => bargeIn' \/ opc' = "cancel"
<1>0. /\ PlaceAhead("started") = 7 /\ PlaceAhead("bargeIn") = 6 /\ PlaceAhead("select") = 5
      /\ PlaceAhead("cancel") = 4 /\ PlaceAhead("await") = 3 /\ PlaceAhead("drain") = 2
      /\ PlaceAhead("end") = 1
  BY DEF PlaceAhead
<1>1. ASSUME opc = "waitAsr" => cur = 0, [Next]_vars, cur # 0 PROVE Towards
  <2> USE DEF vadVars, readerVars, signalVars, asrVars, orchVars, chainVars
  <2>1. CASE cur' = cur /\ opc' = opc /\ (bargeIn => bargeIn')
    BY <2>1
  <2>2. CASE Reader
    BY <2>1, <2>2 DEF Reader, Signal, Ingest
  <2>3. CASE Asr \/ AsrFails
    BY <2>1, <2>3 DEF Asr, AsrFails, EndOfUtterance, HandOver, AsrStops, Transcribed
  <2>4. CASE Turn \/ Downlink \/ CancelSession
    BY <2>1, <2>4 DEF Turn, PushFrame, ChainExits, Downlink, CancelSession
  <2>5. CASE SelectCtxDone \/ SelectAsrErr \/ SelectBargeIn
    BY <1>0, <1>1, <2>5 DEF SelectCtxDone, SelectAsrErr, SelectBargeIn, CancelThen, Selecting
  <2>6. CASE SelectFinal \/ WaitAsr
    BY <1>1, <2>1, <2>6 DEF SelectFinal, WaitAsr
  <2>7. CASE SelectDone \/ EndCancelled
    BY <2>7 DEF SelectDone, EndCancelled
  <2>8. CASE ResponseStarted
    BY <1>0, <2>8 DEF ResponseStarted
  <2>9. CASE StaleTurnBargeIn \/ CancelTurn \/ AwaitDone \/ Drain
    BY <1>0, <2>9 DEF StaleTurnBargeIn, CancelTurn, AwaitDone, Drain
  <2>10. CASE UNCHANGED vars
    BY <2>1, <2>10 DEF vars
  <2> QED BY <1>1, <2>2, <2>3, <2>4, <2>5, <2>6, <2>7, <2>8, <2>9, <2>10 DEF Next, Orchestrator
<1>2. (opc = "waitAsr" => cur = 0) /\ [Next]_vars => [cur # 0 => Towards]_vars
  BY <1>1
<1>3. Spec => [](opc = "waitAsr" => cur = 0)
  BY RunLeavesNothing, PTL
<1> QED BY <1>2, <1>3, PTL DEF Spec
=============================================================================
