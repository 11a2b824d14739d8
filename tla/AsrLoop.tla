------------------------------ MODULE AsrLoop -------------------------------
(***************************************************************************)
(* The uplink of one session: the socket reader that reads frames into     *)
(* pooled buffers, the ingress edge, and runASRLoop, which pumps the edge  *)
(* into one ASR stream per utterance, gives the buffers back to the pool   *)
(* and hands the final over to the orchestrator.                           *)
(*                                                                         *)
(* The two rings (ingress, drop-oldest; the free list, reject) are atomic  *)
(* queues (Ring, which is one from capacity 2 on), and a push rings the    *)
(* doorbell at once (Edge shows no wake-up is lost).  The ASR is its       *)
(* contract (adapter.go 33-57): it may emit and return when it likes, and  *)
(* reads a frame's buffer between the recv that took it and the next one.  *)
(* A frame is its buffer.  A buffer nobody refers to is garbage, so a new  *)
(* allocation may take its number.                                         *)
(***************************************************************************)
EXTENDS Naturals, Sequences, Functions

CONSTANTS IngressCap, \* ring_buffer.ingress_capacity
          OutCap,     \* pipeline.audio_chan_cap, the capacity of out
          FinalsCap,  \* pipeline.transcript_chan_cap
          MaxPush,    \* bound: AUDIO frames pushed and attachments that take over
          MaxReaders, \* bound: the latter alone
          MaxUtts     \* bound: ends of utterance signalled

ASSUME AsrLoopAssumption ==
  /\ IngressCap \in Nat \ {0, 1} /\ OutCap \in Nat \ {0} /\ FinalsCap \in Nat \ {0}
  /\ MaxPush \in Nat /\ MaxReaders \in Nat /\ MaxUtts \in Nat

PoolCap == 2 * IngressCap
Bufs == 1 .. PoolCap + IngressCap + 4

VARIABLES rpc,     \* reader: "get", "read", "push"
          rbuf,    \* reader: its buffer, 0 for none
          pushes,  \* history: frames pushed
          utts,    \* history: ends of utterance signalled
          readers, \* history: attachments that took over
          free,    \* BufferPool.free
          ingress, \* the ingress ring
          bell,    \* its doorbell holds the token
          endUtt,  \* the endUtt channel holds its token
          pc,      \* the loop: where it is
          fr,      \* the loop: the frame in hand
          prev,    \* the loop: the last frame handed to the ASR
          endAt,   \* the loop: endAt is set, the utterance was ended by endUtt
          inClosed,\* the channel in is closed
          asr,     \* ASR goroutine: "none", in Stream "recv", "busy", "tail",
                   \* after it "ended", "returned" (out closed, result sent)
          using,   \* ASR: the frame it is reading, 0 for none
          err,     \* ASR: what Stream returned
          stream,  \* history: the number of the stream
          emitted, \* history: the last final text of this stream
          out,     \* the channel out
          col,     \* collector: "run" or "done"
          final,   \* collector: the final so far, 0 for no text
          heard,   \* the text the loop hands over, 0 for none
          finals,  \* the finals channel
          ctxDone  \* the session context is cancelled

readerVars == <<rpc, rbuf, pushes, utts, readers>>
edgeVars == <<ingress, bell>>
pumpVars == <<pc, fr, prev, endAt>>
asrVars == <<asr, using, err, emitted>>
colVars == <<col, final>>
vars == <<rpc, rbuf, pushes, utts, readers, free, ingress, bell, endUtt, pc, fr, prev,
          endAt, inClosed, asr, using, err, stream, emitted, out, col, final, heard, finals,
          ctxDone>>

Init ==
  /\ rpc = "get" /\ rbuf = 0 /\ pushes = 0 /\ utts = 0
  /\ readers = 0
  /\ free = [i \in 1 .. PoolCap |-> i]
  /\ ingress = << >> /\ bell = FALSE /\ endUtt = FALSE
  /\ pc = "open" /\ fr = 0 /\ prev = 0 /\ endAt = FALSE /\ inClosed = FALSE
  /\ asr = "none" /\ using = 0 /\ err = "none" /\ stream = 0 /\ emitted = 0
  /\ out = << >> /\ col = "done" /\ final = 0 /\ heard = 0 /\ finals = << >>
  /\ ctxDone = FALSE
-----------------------------------------------------------------------------
(* BufferPool.                                                             *)

Referred == {rbuf, fr, prev, using} \cup Range(free) \cup Range(ingress)
NewBuf(b) == b \notin Referred /\ \A c \in Bufs \ Referred : b <= c

(* A mutant: the pool is never drawn from.                                 *)
GetAllocates(b) == NewBuf(b) /\ UNCHANGED free

Get(b) ==
  IF free # << >> THEN b = Head(free) /\ free' = Tail(free)
                  ELSE NewBuf(b) /\ UNCHANGED free

Put(b) == free' = IF Len(free) < PoolCap THEN Append(free, b) ELSE free
-----------------------------------------------------------------------------
(* The reader (session.go, readLoop): each AUDIO frame goes to the ring    *)
(* with its buffer; any other frame leaves the buffer with the reader.  A  *)
(* new attachment's reader starts with a buffer of its own.                *)
GetBuf ==
  /\ rpc = "get"
  /\ \E b \in Bufs : Get(b) /\ rbuf' = b
  /\ rpc' = "read"
  /\ UNCHANGED <<pushes, utts, readers, edgeVars, endUtt, pumpVars, inClosed, asrVars,
                 stream, out, colVars, heard, finals, ctxDone>>

(* EndUtterance, from the same Ingest, before the frame is pushed.         *)
Signal ==
  /\ rpc = "read" /\ utts < MaxUtts
  /\ endUtt' = TRUE /\ utts' = utts + 1 /\ rpc' = "push"
  /\ UNCHANGED <<rbuf, pushes, readers, free, edgeVars, pumpVars, inClosed, asrVars,
                 stream, out, colVars, heard, finals, ctxDone>>

Push ==
  /\ rpc \in {"read", "push"} /\ pushes + readers < MaxPush
  /\ ingress' = Append(IF Len(ingress) = IngressCap THEN Tail(ingress) ELSE ingress, rbuf)
  /\ pushes' = pushes + 1 /\ bell' = TRUE /\ rbuf' = 0 /\ rpc' = "get"
  /\ UNCHANGED <<utts, readers, free, endUtt, pumpVars, inClosed, asrVars, stream, out,
                 colVars, heard, finals, ctxDone>>

NewReader ==
  /\ rpc = "read" /\ readers < MaxReaders /\ pushes + readers < MaxPush
  /\ readers' = readers + 1 /\ rpc' = "get" /\ rbuf' = 0
  /\ UNCHANGED <<pushes, utts, free, edgeVars, endUtt, pumpVars, inClosed,
                 asrVars, stream, out, colVars, heard, finals, ctxDone>>

Reader == GetBuf \/ Signal \/ Push \/ NewReader
-----------------------------------------------------------------------------
(* The loop.  A new stream: its goroutine, its channels, its collector.    *)
Open ==
  /\ pc = "open" /\ ~ctxDone
  /\ stream' = stream + 1 /\ asr' = "recv" /\ using' = 0 /\ err' = "none"
  /\ emitted' = 0 /\ inClosed' = FALSE /\ out' = << >> /\ col' = "run" /\ final' = 0
  /\ prev' = 0 /\ endAt' = FALSE /\ pc' = "pop"
  /\ UNCHANGED <<readerVars, free, edgeVars, endUtt, fr, heard, finals, ctxDone>>

Pop ==
  /\ pc = "pop"
  /\ \/ /\ ingress # << >>
        /\ fr' = Head(ingress) /\ ingress' = Tail(ingress) /\ pc' = "give"
     \/ ingress = << >> /\ pc' = "wait" /\ UNCHANGED <<fr, ingress>>
  /\ UNCHANGED <<readerVars, endAt, free, bell, endUtt, prev, inClosed, asrVars, stream, out,
                 colVars, heard, finals, ctxDone>>

(* The select on an empty ring, and the test of the context after it.      *)
Wait ==
  /\ pc = "wait"
  /\ \/ /\ bell /\ bell' = FALSE /\ UNCHANGED <<endUtt, endAt>>
        /\ pc' = IF ctxDone THEN "close" ELSE "pop"
     \/ endUtt /\ endUtt' = FALSE /\ endAt' = TRUE /\ pc' = "close" /\ bell' = bell
     \/ ctxDone /\ pc' = "close" /\ UNCHANGED <<bell, endUtt, endAt>>
  /\ UNCHANGED <<readerVars, free, ingress, fr, prev, inClosed, asrVars, stream, out,
                 colVars, heard, finals, ctxDone>>

(* The select with a frame in hand.  in is unbuffered: the send is over    *)
(* when the ASR, at its recv, has the frame.                               *)
Give ==
  /\ pc = "give" /\ asr = "recv"
  /\ using' = fr /\ asr' = "busy" /\ pc' = "put"
  /\ UNCHANGED <<readerVars, endAt, free, edgeVars, endUtt, fr, prev, inClosed, err, emitted,
                 stream, out, colVars, heard, finals, ctxDone>>

(* A mutant: the cancellation of the session is not watched.               *)
GiveUpOnEndOnly ==
  /\ pc = "give"
  /\ endUtt /\ endUtt' = FALSE /\ endAt' = TRUE
  /\ pc' = "drop"
  /\ UNCHANGED <<readerVars, free, edgeVars, fr, prev, inClosed, asrVars, stream, out,
                 colVars, heard, finals, ctxDone>>

(* The boundary, or the cancellation, comes while the frame is offered.    *)
GiveUp ==
  /\ pc = "give"
  /\ \/ endUtt /\ endUtt' = FALSE /\ endAt' = TRUE
     \/ ctxDone /\ UNCHANGED <<endUtt, endAt>>
  /\ pc' = "drop"
  /\ UNCHANGED <<readerVars, free, edgeVars, fr, prev, inClosed, asrVars, stream, out,
                 colVars, heard, finals, ctxDone>>

(* A mutant: the frame just given is recycled instead of the one before.   *)
RecycleGiven ==
  /\ pc = "put"
  /\ Put(fr)
  /\ prev' = 0 /\ fr' = 0 /\ pc' = "pop"
  /\ UNCHANGED <<readerVars, endAt, edgeVars, endUtt, inClosed, asrVars, stream, out, colVars,
                 heard, finals, ctxDone>>

(* The ASR has fr, so it is done with prev: its buffer is free.            *)
Recycle ==
  /\ pc = "put"
  /\ IF prev # 0 THEN Put(prev) ELSE UNCHANGED free
  /\ prev' = fr /\ fr' = 0 /\ pc' = "pop"
  /\ UNCHANGED <<readerVars, endAt, edgeVars, endUtt, inClosed, asrVars, stream, out, colVars,
                 heard, finals, ctxDone>>

Drop ==
  /\ pc = "drop"
  /\ Put(fr)
  /\ fr' = 0 /\ pc' = "close"
  /\ UNCHANGED <<readerVars, endAt, edgeVars, endUtt, prev, inClosed, asrVars, stream, out,
                 colVars, heard, finals, ctxDone>>

CloseIn ==
  /\ pc = "close"
  /\ inClosed' = TRUE /\ pc' = "awaitStream"
  /\ UNCHANGED <<readerVars, endAt, free, edgeVars, endUtt, fr, prev, asrVars, stream, out,
                 colVars, heard, finals, ctxDone>>

(* A mutant: the collector is not waited for.                              *)
AwaitStreamOnly ==
  /\ pc = "awaitStream" /\ asr = "returned"
  /\ pc' = "recycle"
  /\ UNCHANGED <<readerVars, endAt, free, edgeVars, endUtt, fr, prev, inClosed, asrVars, stream,
                 out, colVars, heard, finals, ctxDone>>

AwaitStream ==
  /\ pc = "awaitStream" /\ asr = "returned" /\ col = "done"
  /\ pc' = "recycle"
  /\ UNCHANGED <<readerVars, endAt, free, edgeVars, endUtt, fr, prev, inClosed, asrVars, stream,
                 out, colVars, heard, finals, ctxDone>>

RecycleLast ==
  /\ pc = "recycle"
  /\ IF prev # 0 THEN Put(prev) ELSE UNCHANGED free
  /\ prev' = 0 /\ pc' = "boundary"
  /\ UNCHANGED <<readerVars, endAt, edgeVars, endUtt, fr, inClosed, asrVars, stream, out,
                 colVars, heard, finals, ctxDone>>

Boundary ==
  /\ pc = "boundary"
  /\ \/ ctxDone /\ pc' = "stopped" /\ heard' = heard
     \/ ~ctxDone /\ err = "error" /\ pc' = "failed" /\ heard' = heard
     \/ ~ctxDone /\ err # "error" /\ pc' = "hand" /\ heard' = final
  /\ UNCHANGED <<readerVars, endAt, free, edgeVars, endUtt, fr, prev, inClosed, asrVars, stream,
                 out, colVars, finals, ctxDone>>

HandOver ==
  /\ pc = "hand" /\ Len(finals) < FinalsCap
  /\ finals' = Append(finals, heard) /\ pc' = "open"
  /\ UNCHANGED <<readerVars, endAt, free, edgeVars, endUtt, fr, prev, inClosed, asrVars, stream,
                 out, colVars, heard, ctxDone>>

Stop ==
  /\ pc \in {"hand", "open"} /\ ctxDone
  /\ pc' = "stopped"
  /\ UNCHANGED <<readerVars, endAt, free, edgeVars, endUtt, fr, prev, inClosed, asrVars, stream,
                 out, colVars, heard, finals, ctxDone>>

Loop ==
  \/ Open \/ Pop \/ Wait \/ Give \/ GiveUp \/ Recycle \/ Drop \/ CloseIn
  \/ AwaitStream \/ RecycleLast \/ Boundary \/ HandOver \/ Stop
-----------------------------------------------------------------------------
(* The goroutine of the stream, and the collector beside it.               *)
InStream == asr \in {"recv", "busy", "tail"}

(* It asks for the next frame; or it comes to the final, because in is     *)
(* closed or because the recognizer it talks to has gone away.             *)
AsrNext ==
  /\ \/ asr = "busy" /\ asr' = "recv"
     \/ asr = "recv" /\ asr' = "tail"
  /\ using' = 0
  /\ UNCHANGED <<readerVars, free, edgeVars, endUtt, pumpVars, inClosed, err,
                 emitted, stream, out, colVars, heard, finals, ctxDone>>

(* A partial, or the final, with the text of this stream or with none.     *)
(* Both adapters send the final last, with nothing else under way.         *)
Emit(tr) ==
  /\ InStream /\ Len(out) < OutCap
  /\ tr.final <=> asr = "tail"
  /\ out' = Append(out, tr) /\ emitted' = IF tr.final THEN tr.text ELSE emitted
  /\ asr' = IF tr.final THEN "ended" ELSE asr
  /\ err' = IF tr.final THEN "nil" ELSE err
  /\ UNCHANGED <<readerVars, free, edgeVars, endUtt, pumpVars, inClosed, using, stream,
                 colVars, heard, finals, ctxDone>>

AsrReturns(e) ==
  /\ InStream
  /\ e = "canceled" => ctxDone
  /\ err' = e /\ asr' = "ended" /\ using' = 0
  /\ UNCHANGED <<readerVars, free, edgeVars, endUtt, pumpVars, inClosed, emitted,
                 stream, out, colVars, heard, finals, ctxDone>>

AfterStream ==
  /\ asr = "ended" /\ asr' = "returned"
  /\ UNCHANGED <<readerVars, free, edgeVars, endUtt, pumpVars, inClosed, using, err,
                 emitted, stream, out, colVars, heard, finals, ctxDone>>

Collect ==
  /\ col = "run"
  /\ \/ /\ out # << >>
        /\ final' = IF Head(out).final THEN Head(out).text ELSE final
        /\ out' = Tail(out) /\ col' = col
     \/ out = << >> /\ asr = "returned" /\ col' = "done" /\ UNCHANGED <<final, out>>
  /\ UNCHANGED <<readerVars, free, edgeVars, endUtt, pumpVars, inClosed, asrVars, stream,
                 heard, finals, ctxDone>>

(* The orchestrator takes a final; the session ends.                       *)
TakeFinal ==
  /\ finals # << >>
  /\ finals' = Tail(finals)
  /\ UNCHANGED <<readerVars, free, edgeVars, endUtt, pumpVars, inClosed, asrVars, stream,
                 out, colVars, heard, ctxDone>>

CancelSession ==
  /\ ~ctxDone
  /\ ctxDone' = TRUE
  /\ UNCHANGED <<readerVars, free, edgeVars, endUtt, pumpVars, inClosed, asrVars, stream,
                 out, colVars, heard, finals>>

Finals == [final : {TRUE}, text : {0, stream}]
Transcripts == Finals \cup {[final |-> FALSE, text |-> 0]}

Asr ==
  \/ AsrNext \/ AfterStream \/ (\E tr \in Transcripts : Emit(tr))
  \/ \E e \in {"error", "canceled"} : AsrReturns(e)

Next == Reader \/ Loop \/ Asr \/ Collect \/ TakeFinal \/ CancelSession

Spec == Init /\ [][Next]_vars

(* The goroutines of the kernel are scheduled.  The ASR returns once in is *)
(* closed, or when cancelled; that it asks for another frame is its own.   *)
Fairness ==
  /\ WF_vars(Loop) /\ WF_vars(Collect) /\ WF_vars(AfterStream)
  /\ WF_vars(AsrNext /\ inClosed)
  /\ WF_vars(AsrReturns("canceled"))
  /\ WF_vars(\E tr \in Finals : Emit(tr))

FairSpec == Spec /\ Fairness
-----------------------------------------------------------------------------
TypeOK ==
  /\ rpc \in {"get", "read", "push"} /\ rbuf \in Bufs \cup {0}
  /\ rbuf = 0 <=> rpc = "get"
  /\ {pushes, utts, readers} \subseteq Nat
  /\ free \in Seq(Bufs) /\ Len(free) <= PoolCap
  /\ ingress \in Seq(Bufs) /\ Len(ingress) <= IngressCap
  /\ bell \in BOOLEAN /\ endUtt \in BOOLEAN /\ inClosed \in BOOLEAN /\ endAt \in BOOLEAN /\ ctxDone \in BOOLEAN
  /\ pc \in {"open", "pop", "wait", "give", "put", "drop", "close", "awaitStream",
             "recycle", "boundary", "hand", "failed", "stopped"}
  /\ {fr, prev, using} \subseteq Bufs \cup {0}
  /\ fr # 0 <=> pc \in {"give", "put", "drop"}
  /\ asr \in {"none", "recv", "busy", "tail", "ended", "returned"}
  /\ err \in {"none", "nil", "error", "canceled"}
  /\ stream \in Nat /\ {emitted, final, heard} \subseteq 0 .. stream
  /\ out \in Seq(Transcripts) /\ Len(out) <= OutCap /\ col \in {"run", "done"}
  /\ finals \in Seq(0 .. stream) /\ Len(finals) <= FinalsCap

(* A buffer has one owner: the pool, the reader, the ring, or the loop.    *)
(* Nobody gets a buffer from the pool that somebody else still has.        *)
OneOwner ==
  /\ IsInjective(free) /\ IsInjective(ingress) /\ Range(free) \cap Range(ingress) = {}
  /\ {rbuf, fr, prev} \cap (Range(free) \cup Range(ingress)) = {}
  /\ rbuf # 0 => rbuf \notin {fr, prev}
  /\ fr # 0 => fr # prev

(* The buffer the ASR may still read, from the recv of its frame to the    *)
(* next one, is neither free nor with the reader, who would overwrite it   *)
(* (pipeline.go 231-232: "in <- f returning proves the ASR has written the *)
(* frame before, so its buffer can safely go back to the pool").           *)
NotReusedYet == using # 0 => using # rbuf /\ using \notin Range(free)

(* Both: frames of two utterances, two readers and a pump that drops,      *)
(* gives up or is stopped never meet in one buffer.                        *)
BuffersApart == OneOwner /\ NotReusedYet

(* Of the buffers: those of the pool, and those it has given out and can   *)
(* still get back.                                                         *)
InExistence ==
  LET One(b) == IF b = 0 THEN 0 ELSE 1
  IN  Len(free) + Len(ingress) + One(rbuf) + One(fr) + One(prev)

(* However many frames are dropped and readers taken over, and whatever is *)
(* allocated on a miss, there are never more buffers than the pool was     *)
(* made with (one more with the smallest ring, whose pool a miss can find  *)
(* all given out), so that Put, which has one in hand, has room for it.    *)
BuffersBounded == InExistence <= PoolCap + (IF IngressCap = 2 THEN 1 ELSE 0)

(* What the loop hands over is the final of this stream, and all of it:    *)
(* the collector has taken the last transcript before final is read.       *)
FinalOfThisStream == pc = "hand" => heard = emitted

(* The loop is the one Dialogue takes it for.                              *)
Apc ==
  IF pc \in {"failed", "stopped"} THEN pc
  ELSE IF pc = "hand" THEN "handing"
  ELSE IF endAt /\ pc # "open" THEN "closing"
  ELSE "pumping"

(* What a final is to the orchestrator: whether it has any text.           *)
Texts(s) == [i \in DOMAIN s |-> s[i] # 0]

Abstract == INSTANCE Recognizer WITH
  apc <- Apc, heard <- heard # 0, finals <- Texts(finals)

ImplementsRecognizer == Abstract!Spec
-----------------------------------------------------------------------------
(* The inductive invariant.  Of the buffers: the ASR reads the frame given *)
(* last, which the loop keeps until the ASR has the next one or returned.  *)
(* Of the finals: the last transcript of a stream is its final, still in   *)
(* out or taken by the collector.                                          *)
BufTypes ==
  /\ free \in Seq(Bufs) /\ ingress \in Seq(Bufs)
  /\ {rbuf, fr, prev, using} \subseteq Bufs \cup {0}
  /\ rbuf # 0 <=> rpc # "get"
  /\ fr # 0 <=> pc \in {"give", "put", "drop"}

KeptForAsr ==
  /\ using # 0 => asr = "busy" /\ using = IF pc = "put" THEN fr ELSE prev
  /\ pc = "recycle" => asr = "returned"

BufInv == BufTypes /\ OneOwner /\ KeptForAsr

NoFinal(s) == \A i \in DOMAIN s : ~ s[i].final

FinalLast(s) ==
  LET n == Len(s)
  IN  /\ n > 0 /\ s[n].final /\ s[n].text = emitted
      /\ \A i \in 1 .. n - 1 : ~ s[i].final

FinalInv ==
  /\ stream \in Nat /\ out \in Seq([final : BOOLEAN, text : Nat])
  /\ asr \in {"none", "recv", "busy", "tail", "ended", "returned"}
  /\ asr \in {"none", "recv", "busy", "tail"} => NoFinal(out) /\ final = emitted
  /\ asr \in {"ended", "returned"} => (NoFinal(out) /\ final = emitted) \/ FinalLast(out)
  /\ col = "done" => asr \in {"none", "returned"} /\ out = << >>
  /\ pc \in {"recycle", "boundary", "hand"} => col = "done"
  /\ FinalOfThisStream

(* Of the boundary: the pump is left with endAt set, or because the        *)
(* session has ended.                                                      *)
EndInv ==
  /\ endAt \in BOOLEAN /\ ctxDone \in BOOLEAN
  /\ heard \in Nat /\ finals \in Seq(Nat) /\ stream \in Nat /\ final \in Nat
  /\ out \in Seq([final : BOOLEAN, text : Nat])
  /\ pc \in {"pop", "wait", "give", "put"} => ~endAt
  /\ pc \in {"drop", "close", "awaitStream", "recycle", "boundary"} => endAt \/ ctxDone
=============================================================================
