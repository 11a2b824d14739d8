------------------------------- MODULE Caller -------------------------------
(***************************************************************************)
(* internal/loadgen/worker.go: a virtual caller of the load generator.  It *)
(* speaks, sends silence until the first frame of the answer is there, in  *)
(* some turns speaks over the answer and waits for BARGE_IN and the next   *)
(* answer, and sends silence until the line is quiet.  A reader goroutine  *)
(* stamps what arrives and puts it in small channels that drop what does   *)
(* not fit.  What the caller samples is the product of the load generator. *)
(*                                                                         *)
(* Beside it stands the server as the rest of this project describes it:   *)
(* it answers utterances in order, one at a time, may pause within an      *)
(* answer, stops one that is spoken over, and sends BARGE_IN after its     *)
(* frames, but for the one in the audio pump's hand (Downlink).            *)
(*                                                                         *)
(* Abstracted: a slot is one frame sent; a stamp tells only which of the   *)
(* caller's marks (the end of its speech, the start of a barge-in) and     *)
(* which BARGE_IN came before the arrival.  The shaping of the uplink is   *)
(* left out: a slot may already take any time.                             *)
(***************************************************************************)
EXTENDS Naturals, Sequences

CONSTANTS AudioChan,   \* capacity of audioC, 8 there
          BargeChan,   \* capacity of bargeC, 4 there
          SpeechFrames,
          QuietGap,    \* in slots
          TurnTimeout, \* in slots
          BargeEvery,  \* every so many turns speak over the answer, 0: never
          MaxCalls     \* bound: turns

ASSUME CallerAssumption ==
  /\ {AudioChan, BargeChan, SpeechFrames, QuietGap, TurnTimeout} \subseteq Nat \ {0}
  /\ BargeEvery \in Nat /\ MaxCalls \in Nat

VARIABLES wpc,      \* where turn is
          turnNo,
          said,     \* speech frames sent of this utterance
          waited,   \* slots since the phase began
          mark,     \* marks set and BARGE_INs arrived so far
          after,    \* the mark an arrival must not precede
          utt,      \* history: utterances spoken
          audioC, bargeC,  \* the channels: stamps
          still,    \* slots since the last audio, up to QuietGap
          asked,    \* server: utterances not answered yet
          answer,   \* server: the utterance it answers, or 0
          stray,    \* server: the cancelled answer of which a frame is on its way, or 0
          speaking, \* server: it hears the caller over its answer
          mishaps,  \* history: what has happened that may spoil a sample
          samples   \* history: first-response samples, whose frame they were taken from

serverVars == <<asked, answer, stray, speaking>>
callerVars == <<wpc, turnNo, said, waited, mark, after, utt, audioC, bargeC,
                still, asked, answer, stray, speaking, mishaps, samples>>

CallerInit ==
  /\ wpc = "next" /\ turnNo = 0 /\ said = 0 /\ waited = 0 /\ mark = 0 /\ after = 0
  /\ utt = 0 /\ audioC = << >> /\ bargeC = << >> /\ still = QuietGap
  /\ asked = << >> /\ answer = 0 /\ stray = 0 /\ speaking = FALSE
  /\ mishaps = {} /\ samples = << >>

Barging == BargeEvery > 0 /\ turnNo % BargeEvery = 0
-----------------------------------------------------------------------------
(* The server.                                                             *)

Answer ==
  /\ answer = 0 /\ asked # << >>
  /\ answer' = Head(asked) /\ asked' = Tail(asked)
  /\ UNCHANGED <<wpc, turnNo, said, waited, mark, after, utt, audioC, bargeC,
                 still, stray, speaking, mishaps, samples>>

(* Nothing was understood, or the answer failed: there is none.            *)
NoAnswer ==
  /\ asked # << >> /\ asked' = Tail(asked)
  /\ UNCHANGED <<wpc, turnNo, said, waited, mark, after, utt, audioC, bargeC,
                 still, answer, stray, speaking, mishaps, samples>>

(* readLoop on an AUDIO frame of the answer a: what does not fit is lost.  *)
Room == Len(audioC) < AudioChan
StampAudio(a) ==
  /\ still' = 0
  /\ audioC' = IF Room THEN Append(audioC, [at |-> mark, of |-> a]) ELSE audioC

(* The frames of an answer, in their order behind the one of the last.     *)
AudioArrives ==
  /\ answer # 0 /\ stray = 0 /\ StampAudio(answer)
  /\ UNCHANGED <<wpc, turnNo, said, waited, mark, after, utt, bargeC, serverVars,
                 mishaps, samples>>

(* The straggler: what the audio pump had in its hand when the answer was  *)
(* cancelled and put in the queue behind BARGE_IN.                         *)
StrayArrives ==
  /\ stray # 0 /\ StampAudio(stray) /\ stray' = 0
  /\ mishaps' = IF Room THEN mishaps \cup {"straggler"} ELSE mishaps
  /\ UNCHANGED <<wpc, turnNo, said, waited, mark, after, utt, bargeC, asked, answer,
                 speaking, samples>>

AnswerEnds ==
  /\ answer # 0 /\ answer' = 0 /\ speaking' = FALSE
  /\ UNCHANGED <<wpc, turnNo, said, waited, mark, after, utt, audioC, bargeC,
                 still, asked, stray, mishaps, samples>>

(* The answer is cancelled, with or without a frame in the pump's hand;    *)
(* readLoop on the BARGE_IN that follows.                                  *)
BargeInArrives ==
  /\ answer # 0 /\ speaking /\ answer' = 0 /\ speaking' = FALSE
  /\ stray' \in IF stray = 0 THEN {0, answer} ELSE {stray}
  /\ mark' = mark + 1
  /\ bargeC' = IF Len(bargeC) < BargeChan THEN Append(bargeC, mark + 1) ELSE bargeC
  /\ UNCHANGED <<wpc, turnNo, said, waited, after, utt, audioC, still, asked, mishaps,
                 samples>>
-----------------------------------------------------------------------------
(* sendAudio: a slot goes by.                                              *)
Slot == still' = IF still < QuietGap THEN still + 1 ELSE still

StartCall ==
  /\ wpc = "next" /\ turnNo < MaxCalls
  /\ turnNo' = turnNo + 1 /\ wpc' = "speak" /\ said' = 0 /\ utt' = utt + 1
  /\ UNCHANGED <<waited, mark, after, audioC, bargeC, still, serverVars, mishaps,
                 samples>>

(* A frame of speech.  The last one sets the mark the answer is measured   *)
(* from, and the server comes to have the utterance.                       *)
SendSpeech ==
  /\ wpc \in {"speak", "barge"} /\ Slot
  /\ said' = said + 1
  /\ speaking' = (answer # 0)
  /\ IF said + 1 < SpeechFrames THEN UNCHANGED <<wpc, waited, mark, after, asked>>
     ELSE /\ mark' = mark + 1 /\ asked' = Append(asked, utt)
          /\ waited' = 0
          /\ IF wpc = "speak" THEN wpc' = "first" /\ after' = mark + 1
             ELSE wpc' = "awaitBarge" /\ UNCHANGED after
  /\ UNCHANGED <<turnNo, utt, audioC, bargeC, answer, stray, mishaps, samples>>

(* A phase runs into its deadline: the caller goes on to wait for silence. *)
TimedOut ==
  /\ waited' = 0 /\ mishaps' = mishaps \cup {"timeout"} /\ wpc' = "recover"
WaitOn ==
  IF waited < TurnTimeout THEN waited' = waited + 1 /\ UNCHANGED <<wpc, mishaps>>
  ELSE TimedOut

(* A mutant: any stamp will do.                                            *)
AwaitAudioAny ==
  /\ wpc \in {"first", "second"} /\ Slot
  /\ \/ /\ audioC # << >>
        /\ samples' = Append(samples, [want |-> utt, got |-> Head(audioC).of,
                                       clean |-> mishaps = {}])
        /\ wpc' = IF wpc = "first" /\ Barging THEN "ride" ELSE "quiet"
        /\ waited' = 0 /\ audioC' = Tail(audioC) /\ UNCHANGED mishaps
     \/ audioC = << >> /\ WaitOn /\ UNCHANGED <<audioC, samples>>
  /\ UNCHANGED <<turnNo, said, mark, after, utt, bargeC, serverVars>>

(* silenceUntilAudioAfter: one stamp is looked at in a slot, and the ones  *)
(* from before the mark are thrown away.                                   *)
AwaitAudio ==
  /\ wpc \in {"first", "second"} /\ Slot
  /\ \/ /\ audioC # << >> /\ Head(audioC).at >= after
        /\ samples' = Append(samples, [want |-> utt, got |-> Head(audioC).of,
                                       clean |-> mishaps = {}])
        /\ wpc' = IF wpc = "first" /\ Barging THEN "ride" ELSE "quiet"
        /\ waited' = 0 /\ audioC' = Tail(audioC) /\ UNCHANGED mishaps
     \/ /\ audioC # << >> => Head(audioC).at < after
        /\ audioC' = IF audioC = << >> THEN audioC ELSE Tail(audioC)
        /\ WaitOn /\ UNCHANGED samples
  /\ UNCHANGED <<turnNo, said, mark, after, utt, bargeC, serverVars>>

(* silenceFor, a while of listening; then the caller speaks again.         *)
Ride ==
  /\ wpc = "ride" /\ Slot
  /\ UNCHANGED <<wpc, turnNo, said, waited, mark, after, utt, audioC, bargeC,
                 serverVars, mishaps, samples>>

StartBarge ==
  /\ wpc = "ride" /\ wpc' = "barge"
  /\ bargeC' = << >> /\ mark' = mark + 1 /\ after' = mark + 1
  /\ said' = 0 /\ utt' = utt + 1
  /\ UNCHANGED <<turnNo, waited, audioC, still, serverVars, mishaps, samples>>

AwaitBarge ==
  /\ wpc = "awaitBarge"
  /\ \/ /\ bargeC # << >> /\ Head(bargeC) >= after
        /\ after' = Head(bargeC) /\ bargeC' = Tail(bargeC)
        /\ wpc' = "second" /\ waited' = 0 /\ UNCHANGED <<still, mishaps>>
     \/ /\ bargeC # << >> => Head(bargeC) < after
        /\ bargeC' = IF bargeC = << >> THEN bargeC ELSE Tail(bargeC)
        /\ Slot /\ WaitOn /\ UNCHANGED after
  /\ UNCHANGED <<turnNo, said, mark, utt, audioC, serverVars, samples>>

(* silenceUntilQuiet ends a turn, and follows on a timeout, where one of   *)
(* its own is let pass and the BARGE_INs are dropped too.  An answer that  *)
(* pauses for as long as the gap is taken to be over.                      *)
AwaitQuiet ==
  /\ wpc \in {"quiet", "recover"} /\ Slot
  /\ \/ /\ still' >= QuietGap
        /\ audioC' = << >> /\ wpc' = "next" /\ waited' = 0
        /\ mishaps' = IF answer # 0 THEN mishaps \cup {"pause"} ELSE mishaps
     \/ /\ still' < QuietGap /\ wpc = "quiet"
        /\ WaitOn /\ UNCHANGED audioC
     \/ /\ still' < QuietGap /\ wpc = "recover" /\ UNCHANGED <<audioC, mishaps>>
        /\ IF waited < TurnTimeout THEN waited' = waited + 1 /\ wpc' = wpc
           ELSE waited' = 0 /\ wpc' = "next"
  /\ bargeC' = IF wpc = "recover" /\ wpc' = "next" THEN << >> ELSE bargeC
  /\ UNCHANGED <<turnNo, said, mark, after, utt, serverVars, samples>>

(* The connection fails, or the run is over.                               *)
CallEnds ==
  /\ wpc # "ended" /\ wpc' = "ended"
  /\ UNCHANGED <<turnNo, said, waited, mark, after, utt, audioC, bargeC, still,
                 serverVars, mishaps, samples>>

CallerNext ==
  \/ Answer \/ NoAnswer \/ AudioArrives \/ StrayArrives \/ AnswerEnds
  \/ BargeInArrives \/ StartCall \/ SendSpeech \/ AwaitAudio \/ Ride \/ StartBarge \/ AwaitBarge
  \/ AwaitQuiet \/ CallEnds

CallerSpec == CallerInit /\ [][CallerNext]_callerVars
-----------------------------------------------------------------------------
(* The frame a first-response sample is taken from belongs to the answer   *)
(* to the utterance the sample is counted for, also after a barge-in with  *)
(* the frames of the answer spoken over still in the channel; unless one   *)
(* of three things has happened: a phase timed out, an answer paused for   *)
(* QuietGap and the next turn began over it, or the straggler of an answer *)
(* that was spoken over came behind its BARGE_IN.  worker.go 296-298 knows *)
(* nothing of the third: "anything that arrives after bargeAt belongs to   *)
(* the new turn", and 367-368 nothing of the second.                       *)
OwnAnswer == \A i \in DOMAIN samples : samples[i].clean => samples[i].got = samples[i].want

=============================================================================
