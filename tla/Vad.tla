--------------------------------- MODULE Vad ---------------------------------
(***************************************************************************)
(* internal/vad: the energy detector, run by the socket reader on every    *)
(* uplink frame, and the conversation machine, which the reader and the    *)
(* orchestrator both drive under its mutex.  The modules that extend this  *)
(* one decide who calls Process and Apply, and when.                       *)
(*                                                                         *)
(* A frame is abstracted to its level: at least Enter, between Exit and    *)
(* Enter, or below Exit (Validate: Exit <= Enter).                         *)
(***************************************************************************)
EXTENDS Naturals

CONSTANTS MinSpeech,  \* Energy.MinSpeechFrames
          Hangover    \* Energy.HangoverFrames

(* durationFrames rounds up and yields at least one frame.                 *)
ASSUME VadAssumption == MinSpeech \in Nat \ {0} /\ Hangover \in Nat \ {0}

VARIABLES inSpeech,  \* Energy.inSpeech
          run,       \* Energy.run: frames in a row of the opposite condition
          state,     \* Machine.state
          illegal    \* Machine.illegal

vadVars == <<inSpeech, run, state, illegal>>

Levels == {"loud", "middle", "quiet"}
States == {"LISTENING", "SPEAKING_USER", "THINKING", "RESPONDING"}
Actions == {"none", "EndUtterance", "CancelTurn"}

VadInit ==
  /\ inSpeech = FALSE /\ run = 0
  /\ state = "LISTENING" /\ illegal = 0
-----------------------------------------------------------------------------
(* Energy.Process on one frame; ev is the event it returns.                *)
Rises(level) == ~inSpeech /\ level = "loud"
Decays(level) == inSpeech /\ level = "quiet"

Process(level, ev) ==
  \/ /\ Rises(level) /\ run + 1 >= MinSpeech
     /\ ev = "SpeechStart" /\ inSpeech' = TRUE /\ run' = 0
  \/ /\ Decays(level) /\ run + 1 >= Hangover
     /\ ev = "SpeechEnd" /\ inSpeech' = FALSE /\ run' = 0
  \/ /\ \/ Rises(level) /\ run + 1 < MinSpeech
        \/ Decays(level) /\ run + 1 < Hangover
     /\ ev = "none" /\ run' = run + 1 /\ inSpeech' = inSpeech
  \/ /\ ~Rises(level) /\ ~Decays(level)
     /\ ev = "none" /\ run' = 0 /\ inSpeech' = inSpeech
-----------------------------------------------------------------------------
(* The transition table of Machine.Apply, one row per legal cell.          *)
Row(from, ev, to, act) == [from |-> from, on |-> ev, to |-> to, act |-> act]

(* A mutant: response_started is not expected while the user speaks.       *)
TransitionsStrict ==
  { Row("LISTENING", "SpeechStart", "SPEAKING_USER", "none"),
    Row("LISTENING", "ResponseStarted", "RESPONDING", "none"),
    Row("LISTENING", "ResponseDone", "LISTENING", "none"),
    Row("SPEAKING_USER", "SpeechEnd", "THINKING", "EndUtterance"),
    Row("SPEAKING_USER", "ResponseDone", "SPEAKING_USER", "none"),
    Row("THINKING", "SpeechStart", "SPEAKING_USER", "CancelTurn"),
    Row("THINKING", "ResponseStarted", "RESPONDING", "none"),
    Row("THINKING", "ResponseDone", "LISTENING", "none"),
    Row("RESPONDING", "SpeechStart", "SPEAKING_USER", "CancelTurn"),
    Row("RESPONDING", "ResponseDone", "LISTENING", "none") }

Transitions ==
  { Row("LISTENING", "SpeechStart", "SPEAKING_USER", "none"),
    Row("LISTENING", "ResponseStarted", "RESPONDING", "none"),
    Row("LISTENING", "ResponseDone", "LISTENING", "none"),
    Row("SPEAKING_USER", "SpeechEnd", "THINKING", "EndUtterance"),
    Row("SPEAKING_USER", "ResponseStarted", "SPEAKING_USER", "CancelTurn"),
    Row("SPEAKING_USER", "ResponseDone", "SPEAKING_USER", "none"),
    Row("THINKING", "SpeechStart", "SPEAKING_USER", "CancelTurn"),
    Row("THINKING", "ResponseStarted", "RESPONDING", "none"),
    Row("THINKING", "ResponseDone", "LISTENING", "none"),
    Row("RESPONDING", "SpeechStart", "SPEAKING_USER", "CancelTurn"),
    Row("RESPONDING", "ResponseDone", "LISTENING", "none") }

(* Machine.Apply: act is what the caller must do; an undefined transition  *)
(* keeps the state, is counted, and asks for nothing.                      *)
Apply(ev, act) ==
  \/ \E r \in Transitions :
       /\ r.from = state /\ r.on = ev /\ r.act = act
       /\ state' = r.to /\ illegal' = illegal
  \/ /\ \A r \in Transitions : ~(r.from = state /\ r.on = ev)
     /\ act = "none"
     /\ state' = state /\ illegal' = illegal + 1

VadTypeOK ==
  /\ inSpeech \in BOOLEAN
  /\ run \in Nat
  /\ inSpeech => run < Hangover
  /\ ~inSpeech => run < MinSpeech
  /\ state \in States
  /\ illegal \in Nat
=============================================================================
