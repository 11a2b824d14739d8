------------------------------- MODULE Synth -------------------------------
(***************************************************************************)
(* Stream of the two TTS clients, adapter/sherpa/tts.go and                *)
(* adapter/openaitts/openaitts.go: tokens are gathered into sentences, a   *)
(* sentence is sent to the service, and the chunks of audio that come back *)
(* go through the framer, which this module extends.  The one dials a      *)
(* connection for all the sentences, the other makes a request for each.   *)
(*                                                                         *)
(* Abstracted: a token has text and ends no sentence (word) or one (mark), *)
(* or is a line break, which has none and ends one.  The input's channel   *)
(* is what the client finds when it looks: a token, or the end.  The       *)
(* service answers when and what it likes.                                 *)
(***************************************************************************)
EXTENDS Framer

CONSTANT MaxGather  \* bound: tokens taken

ASSUME SynthAssumption == MaxGather \in Nat

VARIABLES client,    \* "sherpa" or "http"
          spc,       \* "dial", "select", "ask", "read", "emit", "flush", "return", "returned"
          gathered,  \* words in buf
          inputOver, \* in was found closed
          ttsCancel, \* the context of the turn is cancelled
          returned,  \* "none", or what Stream returned
          tokensIn,  \* history: tokens taken
          wordsIn,   \* history: words among them
          ends       \* history: a sentence's last word and its audio's last byte

synthOnly == <<client, spc, gathered, inputOver, ttsCancel, returned, tokensIn, wordsIn, ends>>
synthVars == <<framerVars, synthOnly>>

Kinds == {"word", "mark", "line"}
Says(k) == k \in {"word", "mark"}
EndsSentence(k) == k \in {"mark", "line"}

SynthInit ==
  /\ FramerInit
  /\ client \in {"sherpa", "http"} /\ spc = IF client = "sherpa" THEN "dial" ELSE "select"
  /\ gathered = 0 /\ inputOver = FALSE /\ ttsCancel = FALSE /\ returned = "none"
  /\ tokensIn = 0 /\ wordsIn = 0 /\ ends = << >>

CancelTts ==
  /\ returned = "none" /\ ~ttsCancel /\ ttsCancel' = TRUE
  /\ UNCHANGED <<framerVars, client, spc, gathered, inputOver, returned, tokensIn, wordsIn, ends>>
-----------------------------------------------------------------------------
DialTts ==
  /\ spc = "dial" /\ spc' = "select"
  /\ UNCHANGED <<framerVars, client, gathered, inputOver, ttsCancel, returned, tokensIn, wordsIn,
                 ends>>

(* A token joins the text; at the end of a sentence that is sent, unless   *)
(* it is blank.                                                            *)
Gather(k) ==
  LET words == gathered + (IF Says(k) THEN 1 ELSE 0) IN
  /\ spc = "select" /\ tokensIn < MaxGather
  /\ gathered' = words /\ tokensIn' = tokensIn + 1
  /\ wordsIn' = wordsIn + (words - gathered)
  /\ spc' = IF EndsSentence(k) /\ words > 0 THEN "ask" ELSE "select"
  /\ UNCHANGED <<framerVars, client, inputOver, ttsCancel, returned, ends>>

(* A mutant: the text that no mark ended is forgotten.                     *)
RestForgotten == "flush"

(* The text that no mark ended is the last sentence.                       *)
Rest == IF gathered > 0 THEN "ask" ELSE "flush"

TextEnds ==
  /\ spc = "select" /\ inputOver' = TRUE /\ spc' = Rest
  /\ UNCHANGED <<framerVars, client, gathered, ttsCancel, returned, tokensIn, wordsIn, ends>>

(* synth: the text goes out, over the connection or in a request.          *)
Asked ==
  /\ spc = "ask" /\ spc' = "read"
  /\ UNCHANGED <<framerVars, client, gathered, inputOver, ttsCancel, returned, tokensIn, wordsIn,
                 ends>>

WriteText == client = "sherpa" /\ Asked
Request == client = "http" /\ Asked

ReceiveAudio(n) ==
  /\ spc = "read" /\ Chunk(n) /\ spc' = "emit"
  /\ UNCHANGED <<client, gathered, inputOver, ttsCancel, returned, tokensIn, wordsIn, ends>>

(* The framer's Emit, and back from it.                                    *)
Emits ==
  /\ spc = "emit"
  /\ \/ (Pace \/ PaceOver \/ SendFrame) /\ spc' = spc
     \/ EmitReturns /\ spc' = "read"
  /\ UNCHANGED <<client, gathered, inputOver, ttsCancel, returned, tokensIn, wordsIn, ends>>

(* The sentence is complete: a text message says so, or the body's end.    *)
SentenceOver ==
  /\ spc = "read" /\ spc' = IF inputOver THEN "flush" ELSE "select"
  /\ gathered' = 0 /\ ends' = Append(ends, [word |-> wordsIn, byte |-> taken])
  /\ UNCHANGED <<framerVars, client, inputOver, ttsCancel, returned, tokensIn, wordsIn>>

Finished == client = "sherpa" /\ SentenceOver
BodyEnds == client = "http" /\ SentenceOver

FlushRest ==
  /\ spc = "flush" /\ FlushFrame /\ spc' = "return"
  /\ UNCHANGED <<client, gathered, inputOver, ttsCancel, returned, tokensIn, wordsIn, ends>>

Stops(r) ==
  /\ returned' = r /\ spc' = "returned"
  /\ UNCHANGED <<client, gathered, inputOver, ttsCancel, tokensIn, wordsIn, ends>>

ReturnsNil == spc = "return" /\ Stops("nil") /\ UNCHANGED framerVars

(* A dial, a write, a request or a read fails.                             *)
ConnFails ==
  client = "sherpa" /\ spc \in {"dial", "ask", "read"} /\ Stops("error") /\ UNCHANGED framerVars
RequestFails ==
  client = "http" /\ spc \in {"ask", "read"} /\ Stops("error") /\ UNCHANGED framerVars

(* Whatever waits, waits for the context too.                              *)
Canceled ==
  /\ ttsCancel /\ Stops("canceled")
  /\ \/ spc \in {"dial", "select", "ask", "read"} /\ UNCHANGED framerVars
     \/ spc = "flush" /\ carry > 0 /\ UNCHANGED framerVars
     \/ spc = "emit" /\ EmitCanceled

TimePasses == returned = "none" /\ Tick /\ UNCHANGED synthOnly
-----------------------------------------------------------------------------
SynthNext ==
  \/ CancelTts \/ DialTts \/ TextEnds \/ WriteText \/ Request \/ Emits \/ Finished \/ BodyEnds
  \/ FlushRest \/ ReturnsNil \/ ConnFails \/ RequestFails \/ Canceled \/ TimePasses
  \/ \E k \in Kinds : Gather(k)
  \/ \E n \in ChunkSizes : ReceiveAudio(n)

(* The goroutine is scheduled.  Nothing makes the service answer or more   *)
(* text arrive.                                                            *)
SynthFairness ==
  WF_synthVars(Emits) /\ WF_synthVars(FlushRest \/ ReturnsNil) /\ WF_synthVars(Canceled)

SynthSpec == SynthInit /\ [][SynthNext]_synthVars /\ SynthFairness
-----------------------------------------------------------------------------
SentBytes == IF fpc = "flushed" THEN taken ELSE total * FrameBytes

(* The last word of the last sentence that is in frames to its last byte.  *)
SpokenWords ==
  LET done == {i \in DOMAIN ends : ends[i].byte <= SentBytes}
  IN  IF done = {} THEN 0 ELSE ends[CHOOSE i \in done : \A j \in done : j <= i].word

(* The clients are the TTS stage Turn has: whichever token ends a          *)
(* sentence, wherever the bytes of a sentence end in a frame, and whatever *)
(* the service does, nil means that every word was spoken, and a           *)
(* cancelled turn gets its TTS back.                                       *)
Stage == INSTANCE TtsStage WITH
  heard <- wordsIn, spoken <- SpokenWords, over <- inputOver, cancelled <- ttsCancel,
  result <- returned

ImplementsTtsStage == Stage!Spec
=============================================================================
