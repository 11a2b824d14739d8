----------------------------- MODULE SherpaAsr -----------------------------
(***************************************************************************)
(* internal/adapter/sherpa/asr.go, ASR.Stream: the caller's goroutine      *)
(* writes the audio of one utterance to the sidecar, and a reader          *)
(* goroutine forwards the partials that come back and puts the segment the *)
(* sidecar has finished aside in a channel of capacity one.  When the      *)
(* input is closed, silence is sent to make the sidecar finish one, which  *)
(* is waited for, and one final transcript is sent last.                   *)
(*                                                                         *)
(* Beside it stand the caller, which closes out when Stream has returned   *)
(* (adapter.go 43), and the sidecar, which sends what it wants when it     *)
(* wants.  Transcripts are numbered as the sidecar sends them; 0 is empty. *)
(* Assumed: a write to the connection returns, and a dial does.            *)
(***************************************************************************)
EXTENDS Naturals, Sequences

CONSTANTS OutCap,     \* pipeline.audio_chan_cap, the capacity of out
          MaxResults  \* bound: transcripts the sidecar sends

ASSUME SherpaAssumption == OutCap \in Nat \ {0} /\ MaxResults \in Nat

VARIABLES main,       \* Stream: "dial", "write", "silence", "wait", "join", "joining",
                      \* "pick", "emit", "returned", and "closed": out is closed too
          reader,     \* "none", "read", "send", "parked" in the send, "exited", "panicked"
          inEnded,    \* the caller has closed in
          gone,       \* ctx is cancelled
          readGone,   \* readCtx is cancelled
          line,       \* the connection: "up", "down", or "closed" by Stream
          sent,       \* history: transcripts the sidecar sent
          reading,    \* the partial the reader forwards
          lastText, finalCh, finalText, \* as in the code, 0 when empty
          outLen,     \* transcripts in out
          outs,       \* history: what was sent to out, [text, final]
          finished,   \* history: the first segment received that the sidecar had finished
          verdict     \* "none", "nil", "error", "canceled"

outVars == <<outLen, outs>>
sherpaVars == <<main, reader, inEnded, gone, readGone, line, sent, reading, lastText,
                finalCh, finalText, outLen, outs, finished, verdict>>

SherpaInit ==
  /\ main = "dial" /\ reader = "none" /\ inEnded = FALSE /\ gone = FALSE
  /\ readGone = FALSE /\ line = "up" /\ sent = 0 /\ reading = 0 /\ lastText = 0
  /\ finalCh = 0 /\ finalText = 0 /\ outLen = 0 /\ outs = << >> /\ finished = 0
  /\ verdict = "none"

SendOut(tr) == outLen < OutCap /\ outLen' = outLen + 1 /\ outs' = Append(outs, tr)

(* Every return runs the deferred cancelRead and CloseNow.                 *)
Return(r) ==
  /\ main' = "returned" /\ verdict' = r /\ readGone' = TRUE /\ line' = "closed"
Failed == IF gone THEN "canceled" ELSE "error"
-----------------------------------------------------------------------------
Dial ==
  /\ main = "dial"
  /\ \/ line = "up" /\ main' = "write" /\ reader' = "read"
        /\ UNCHANGED <<verdict, readGone, line>>
     \/ Return(Failed) /\ UNCHANGED reader
  /\ UNCHANGED <<inEnded, gone, sent, reading, lastText, finalCh, finalText, outVars, finished>>

(* The write loop.  A frame was taken and could not be written; or the     *)
(* context is done.                                                        *)
WriteFailed ==
  /\ main = "write" /\ (gone \/ (line = "down" /\ ~inEnded))
  /\ Return(Failed)
  /\ UNCHANGED <<reader, inEnded, gone, sent, reading, lastText, finalCh, finalText, outVars,
                 finished>>

(* The reader ended first: a failure unless there is some text.            *)
ReaderEndedFirst ==
  /\ main = "write" /\ reader = "exited"
  /\ IF lastText = 0 THEN Return(Failed)
     ELSE main' = "join" /\ UNCHANGED <<verdict, readGone, line>>
  /\ UNCHANGED <<reader, inEnded, gone, sent, reading, lastText, finalCh, finalText, outVars,
                 finished>>

InputEnds ==
  /\ main = "write" /\ inEnded /\ main' = "silence"
  /\ UNCHANGED <<reader, inEnded, gone, readGone, line, sent, reading, lastText, finalCh,
                 finalText, outVars, finished, verdict>>

FeedSilence ==
  /\ main = "silence"
  /\ \/ line = "up" /\ ~gone /\ main' = "wait" /\ UNCHANGED <<verdict, readGone, line>>
     \/ (line = "down" \/ gone) /\ Return(Failed)
  /\ UNCHANGED <<reader, inEnded, gone, sent, reading, lastText, finalCh, finalText, outVars,
                 finished>>

(* A mutant: there is no deadline.                                         *)
WaitForFinalForever ==
  /\ main = "wait"
  /\ \/ finalCh # 0 /\ finalText' = finalCh /\ finalCh' = 0 /\ main' = "join"
     \/ reader = "exited" /\ main' = "join" /\ UNCHANGED <<finalText, finalCh>>
  /\ UNCHANGED <<reader, inEnded, gone, readGone, line, sent, reading, lastText, outVars,
                 finished, verdict>>

(* A finished segment, none for finalWait, or the end of the               *)
(* reader.                                                                 *)
WaitForFinal ==
  /\ main = "wait"
  /\ \/ finalCh # 0 /\ finalText' = finalCh /\ finalCh' = 0 /\ main' = "join"
     \/ main' = "join" /\ UNCHANGED <<finalText, finalCh>>
  /\ UNCHANGED <<reader, inEnded, gone, readGone, line, sent, reading, lastText, outVars,
                 finished, verdict>>

WaitCancelled ==
  /\ main = "wait" /\ gone /\ Return("canceled")
  /\ UNCHANGED <<reader, inEnded, gone, sent, reading, lastText, finalCh, finalText, outVars,
                 finished>>

CancelRead ==
  /\ main = "join" /\ readGone' = TRUE /\ main' = "joining"
  /\ UNCHANGED <<reader, inEnded, gone, line, sent, reading, lastText, finalCh, finalText,
                 outVars, finished, verdict>>

(* A mutant: the reader is not waited for.                                 *)
JoinAtOnce ==
  /\ main = "joining" /\ main' = "pick"
  /\ UNCHANGED <<reader, inEnded, gone, readGone, line, sent, reading, lastText, finalCh,
                 finalText, outVars, finished, verdict>>

Join ==
  /\ main = "joining" /\ reader = "exited" /\ main' = "pick"
  /\ UNCHANGED <<reader, inEnded, gone, readGone, line, sent, reading, lastText, finalCh,
                 finalText, outVars, finished, verdict>>

(* A segment finished in the last moment is still taken; without one it is *)
(* the last partial.                                                       *)
Pick ==
  /\ main = "pick" /\ main' = "emit"
  /\ finalText' = IF finalText # 0 THEN finalText
                  ELSE IF finalCh # 0 THEN finalCh ELSE lastText
  /\ UNCHANGED <<reader, inEnded, gone, readGone, line, sent, reading, lastText, finalCh,
                 outVars, finished, verdict>>

SendFinal ==
  /\ main = "emit"
  /\ \/ SendOut([text |-> finalText, final |-> TRUE]) /\ Return("nil")
     \/ gone /\ Return("canceled") /\ UNCHANGED outVars
  /\ UNCHANGED <<reader, inEnded, gone, sent, reading, lastText, finalCh, finalText, finished>>
-----------------------------------------------------------------------------
(* The reader.  A finished segment is kept if there is room for it.        *)
Read ==
  /\ reader = "read" /\ line = "up" /\ sent < MaxResults
  /\ sent' = sent + 1
  /\ \/ /\ finalCh' = IF finalCh = 0 THEN sent + 1 ELSE finalCh
        /\ finished' = IF finished = 0 THEN sent + 1 ELSE finished
        /\ UNCHANGED <<reader, reading, lastText>>
     \/ /\ lastText' = sent + 1 /\ reading' = sent + 1 /\ reader' = "send"
        /\ UNCHANGED <<finalCh, finished>>
  /\ UNCHANGED <<main, inEnded, gone, readGone, line, finalText, outVars, verdict>>

ReadFails ==
  /\ reader = "read" /\ (readGone \/ gone \/ line # "up")
  /\ reader' = "exited"
  /\ UNCHANGED <<main, inEnded, gone, readGone, line, sent, reading, lastText, finalCh,
                 finalText, outVars, finished, verdict>>

(* The select of send: the partial goes out; or the context is done; or    *)
(* neither, and the goroutine parks, from where the end of the context     *)
(* frees it.  On a closed channel the first case is ready too, and panics. *)
SendPartial ==
  /\ reader \in {"send", "parked"} /\ main # "closed"
  /\ SendOut([text |-> reading, final |-> FALSE]) /\ reader' = "read"
  /\ UNCHANGED <<main, inEnded, gone, readGone, line, sent, reading, lastText, finalCh,
                 finalText, finished, verdict>>

SendCancelled ==
  /\ reader \in {"send", "parked"} /\ (readGone \/ gone)
  /\ reader' = "exited"
  /\ UNCHANGED <<main, inEnded, gone, readGone, line, sent, reading, lastText, finalCh,
                 finalText, outVars, finished, verdict>>

SendParks ==
  /\ reader = "send" /\ outLen = OutCap /\ ~readGone /\ ~gone
  /\ reader' = "parked"
  /\ UNCHANGED <<main, inEnded, gone, readGone, line, sent, reading, lastText, finalCh,
                 finalText, outVars, finished, verdict>>

SendOnClosed ==
  /\ reader = "send" /\ main = "closed"
  /\ reader' = "panicked"
  /\ UNCHANGED <<main, inEnded, gone, readGone, line, sent, reading, lastText, finalCh,
                 finalText, outVars, finished, verdict>>
-----------------------------------------------------------------------------
(* The caller of Stream, its collector, and the sidecar's line.            *)
CloseOut ==
  /\ main = "returned" /\ main' = "closed"
  /\ UNCHANGED <<reader, inEnded, gone, readGone, line, sent, reading, lastText, finalCh,
                 finalText, outVars, finished, verdict>>

Collect ==
  /\ outLen > 0 /\ outLen' = outLen - 1
  /\ UNCHANGED <<main, reader, inEnded, gone, readGone, line, sent, reading, lastText,
                 finalCh, finalText, outs, finished, verdict>>

EndInput ==
  /\ ~inEnded /\ inEnded' = TRUE
  /\ UNCHANGED <<main, reader, gone, readGone, line, sent, reading, lastText, finalCh,
                 finalText, outVars, finished, verdict>>

CancelStream ==
  /\ ~gone /\ gone' = TRUE
  /\ UNCHANGED <<main, reader, inEnded, readGone, line, sent, reading, lastText, finalCh,
                 finalText, outVars, finished, verdict>>

LineDown ==
  /\ line = "up" /\ line' = "down"
  /\ UNCHANGED <<main, reader, inEnded, gone, readGone, sent, reading, lastText, finalCh,
                 finalText, outVars, finished, verdict>>
-----------------------------------------------------------------------------
Stream ==
  \/ Dial \/ WriteFailed \/ ReaderEndedFirst \/ InputEnds \/ FeedSilence \/ WaitForFinal
  \/ WaitCancelled \/ CancelRead \/ Join \/ Pick \/ SendFinal

ReaderStops == ReadFails \/ SendPartial \/ SendCancelled \/ SendParks

SherpaNext ==
  \/ Stream \/ Read \/ ReaderStops \/ SendOnClosed
  \/ CloseOut \/ Collect \/ EndInput \/ CancelStream \/ LineDown

SherpaSpec == SherpaInit /\ [][SherpaNext]_sherpaVars

(* The goroutines run, the timer fires, and the pipeline's collector takes *)
(* what is in out.                                                         *)
SherpaFairness ==
  /\ WF_sherpaVars(Stream) /\ WF_sherpaVars(ReaderStops) /\ WF_sherpaVars(Collect)
-----------------------------------------------------------------------------
(* A stream that returns nil has sent exactly one final, last, with the    *)
(* first segment the sidecar had finished, or the last partial received if *)
(* there was none, whatever the reader was at when the input ended (asr.go *)
(* 44-45).  A pause within an utterance makes the sidecar finish a segment *)
(* early: what it finishes later goes nowhere (82-88), although sherpa.go  *)
(* 18 has all finished segments handled as partials.                       *)
OneFinalLast ==
  /\ \A i \in DOMAIN outs : outs[i].final => i = Len(outs)
  /\ verdict = "nil" =>
       /\ outs # << >> /\ outs[Len(outs)].final
       /\ outs[Len(outs)].text = IF finished # 0 THEN finished ELSE lastText

(* Stream returns once its input ends or it is cancelled, though the       *)
(* sidecar never says another word.                                        *)
StreamReturns == (inEnded \/ gone) ~> verdict # "none"

(* Nothing is sent to out once Stream has returned and the caller, which   *)
(* owns it, has closed it (adapter.go 43-45, asr.go 149).                  *)
NoSendOnClosed == reader # "panicked"
=============================================================================
