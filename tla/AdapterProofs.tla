---------------------------- MODULE AdapterProofs ----------------------------
(***************************************************************************)
(* Proofs about the adapters, for every capacity, frame size and lead: the *)
(* final transcript of the ASR client, and of the TTS clients that they do *)
(* not burst and are the stage a turn takes them for.                      *)
(***************************************************************************)
EXTENDS SherpaAsr, Synth, SequenceTheorems, TLAPS

(* Where the sidecar's final is: put aside, taken, or in the transcript    *)
(* that Stream has chosen.  The reader is over by the time it chooses, and *)
(* for good; before, nothing in out is final.                              *)
SherpaInv ==
  /\ outs \in Seq([text : Nat, final : BOOLEAN])
  /\ sent \in Nat /\ reading \in Nat /\ lastText \in Nat /\ finalCh \in Nat
  /\ finalText \in Nat /\ finished \in Nat
  /\ main \in {"dial", "write", "silence", "wait", "join", "joining", "pick", "emit",
               "returned", "closed"}
  /\ main = "dial" => reader = "none"
  /\ main \in {"returned", "closed"} <=> verdict # "none"
  /\ main \in {"pick", "emit"} \/ verdict = "nil" => reader = "exited"
  /\ main \in {"dial", "write", "silence", "wait"} => finalText = 0
  /\ main \in {"dial", "write", "silence", "wait", "join", "joining", "pick"} =>
       IF finalText = 0 THEN finalCh = finished ELSE finalText = finished
  /\ main = "emit" => finalText = IF finished # 0 THEN finished ELSE lastText
  /\ verdict # "nil" => \A i \in DOMAIN outs : ~outs[i].final
  /\ verdict # "none" => line = "closed"

(* A transcript sent is the last one in the history of out.                *)
LEMMA SentOut ==
  ASSUME NEW text \in Nat, NEW final \in BOOLEAN, outs \in Seq([text : Nat, final : BOOLEAN]),
         SendOut([text |-> text, final |-> final])
  PROVE  /\ outs' \in Seq([text : Nat, final : BOOLEAN]) /\ outs' # << >>
         /\ Len(outs') = Len(outs) + 1 /\ Len(outs) \in Nat
         /\ outs'[Len(outs')].text = text /\ outs'[Len(outs')].final = final
         /\ \A i \in DOMAIN outs' : i = Len(outs') \/ (i \in DOMAIN outs /\ outs'[i] = outs[i])
<1> DEFINE tr == [text |-> text, final |-> final]
           Tr == [text : Nat, final : BOOLEAN]
<1>1. tr \in Tr /\ tr.text = text /\ tr.final = final /\ outs' = Append(outs, tr)
  BY DEF SendOut
<1> HIDE DEF tr, Tr
<1>2. outs \in Seq(Tr)
  BY DEF Tr
<1>3. /\ outs' \in Seq(Tr) /\ Len(outs') = Len(outs) + 1 /\ Len(outs) \in Nat
      /\ DOMAIN outs = 1 .. Len(outs)
  BY <1>1, <1>2
<1>4. outs'[Len(outs) + 1] = tr /\ \A i \in 1 .. Len(outs) : outs'[i] = outs[i]
  BY <1>1, <1>2
<1>5. DOMAIN outs' = 1 .. Len(outs) + 1 /\ outs' # << >>
  BY <1>3
<1>6. \A i \in DOMAIN outs' : i = Len(outs') \/ (i \in DOMAIN outs /\ outs'[i] = outs[i])
  BY <1>3, <1>4, <1>5
<1> QED BY <1>1, <1>3, <1>4, <1>5, <1>6 DEF Tr

LEMMA SherpaStarts == SherpaInit => SherpaInv /\ OneFinalLast
<1> SUFFICES ASSUME SherpaInit PROVE SherpaInv /\ OneFinalLast
  OBVIOUS
<1>1. outs \in Seq([text : Nat, final : BOOLEAN]) /\ DOMAIN outs = {}
  BY DEF SherpaInit
<1> QED BY <1>1 DEF SherpaInit, SherpaInv, OneFinalLast

(* Stream itself.  Only its last step puts a final in out.                 *)
LEMMA StreamStep ==
  ASSUME SherpaInv, OneFinalLast, Stream
  PROVE  SherpaInv' /\ OneFinalLast'
<1>1. CASE \/ Dial \/ WriteFailed \/ ReaderEndedFirst \/ InputEnds \/ FeedSilence
  <2>1. SherpaInv'
    BY <1>1 DEF SherpaInv, Dial, WriteFailed, ReaderEndedFirst, InputEnds, FeedSilence,
                Return, Failed, outVars
  <2>2. UNCHANGED outs /\ verdict' # "nil" /\ verdict = "none"
    BY <1>1 DEF SherpaInv, Dial, WriteFailed, ReaderEndedFirst, InputEnds, FeedSilence,
                Return, Failed, outVars
  <2> QED BY <2>1, <2>2 DEF OneFinalLast
<1>2. CASE WaitForFinal \/ WaitCancelled \/ CancelRead \/ Join \/ Pick
  <2>1. SherpaInv'
    BY <1>2 DEF SherpaInv, WaitForFinal, WaitCancelled, CancelRead, Join, Pick, Return, outVars
  <2>2. UNCHANGED outs /\ verdict' # "nil" /\ verdict = "none"
    BY <1>2 DEF SherpaInv, WaitForFinal, WaitCancelled, CancelRead, Join, Pick, Return, outVars
  <2> QED BY <2>1, <2>2 DEF OneFinalLast
<1>3. CASE SendFinal /\ UNCHANGED outVars
  <2>1. UNCHANGED outs /\ verdict' = "canceled" /\ verdict = "none" /\ main = "emit"
    BY <1>3 DEF SherpaInv, SendFinal, Return, outVars, SendOut
  <2> QED BY <1>3, <2>1 DEF SherpaInv, OneFinalLast, SendFinal, Return, outVars
<1>4. CASE SendFinal /\ verdict' = "nil"
  <2>1. /\ main = "emit" /\ main' = "returned" /\ line' = "closed"
        /\ SendOut([text |-> finalText, final |-> TRUE])
        /\ UNCHANGED <<reader, sent, reading, lastText, finalCh, finalText, finished>>
    BY <1>4 DEF SendFinal, Return
  <2>2. /\ reader = "exited" /\ finalText = IF finished # 0 THEN finished ELSE lastText
        /\ verdict = "none" /\ \A i \in DOMAIN outs : ~outs[i].final
        /\ finalText \in Nat /\ outs \in Seq([text : Nat, final : BOOLEAN])
    BY <2>1 DEF SherpaInv
  <2>3. /\ outs' \in Seq([text : Nat, final : BOOLEAN]) /\ outs' # << >>
        /\ outs'[Len(outs')].text = finalText /\ outs'[Len(outs')].final = TRUE
        /\ \A i \in DOMAIN outs' : i = Len(outs') \/ (i \in DOMAIN outs /\ outs'[i] = outs[i])
    BY <2>1, <2>2, SentOut
  <2>4. SherpaInv'
    BY <1>4, <2>1, <2>2, <2>3 DEF SherpaInv
  <2>5. \A i \in DOMAIN outs' : outs'[i].final => i = Len(outs')
    BY <2>2, <2>3
  <2>6. outs'[Len(outs')].text = IF finished' # 0 THEN finished' ELSE lastText'
    BY <2>1, <2>2, <2>3
  <2> QED BY <2>3, <2>4, <2>5, <2>6 DEF OneFinalLast
<1> QED BY <1>1, <1>2, <1>3, <1>4 DEF Stream, SendFinal, Return

(* The reader: it forwards partials only, and while it runs nothing final  *)
(* has been sent.                                                          *)
LEMMA ReaderStep ==
  ASSUME SherpaInv, OneFinalLast, Read \/ ReaderStops \/ SendOnClosed
  PROVE  SherpaInv' /\ OneFinalLast'
<1>0. reader # "exited" /\ verdict # "nil" /\ UNCHANGED <<main, verdict, line>>
  BY DEF SherpaInv, Read, ReaderStops, SendOnClosed, ReadFails, SendPartial, SendCancelled,
         SendParks
<1>1. CASE Read
  <2>1. UNCHANGED outs /\ main \notin {"pick", "emit", "returned", "closed"}
    BY <1>0, <1>1 DEF SherpaInv, Read, outVars
  <2>2. SherpaInv'
    BY <1>0, <1>1, <2>1 DEF SherpaInv, Read
  <2> QED BY <1>0, <2>1, <2>2 DEF OneFinalLast
<1>2. CASE ReadFails \/ SendCancelled \/ SendParks \/ SendOnClosed
  <2>1. UNCHANGED <<outs, sent, reading, lastText, finalCh, finalText, finished>> /\ main # "dial"
    BY <1>2 DEF ReadFails, SendCancelled, SendParks, SendOnClosed, outVars, SherpaInv
  <2>2. SherpaInv'
    BY <1>0, <2>1 DEF SherpaInv
  <2> QED BY <1>0, <2>1, <2>2 DEF OneFinalLast
<1>3. CASE SendPartial
  <2>1. /\ SendOut([text |-> reading, final |-> FALSE]) /\ reading \in Nat /\ reader' = "read"
        /\ outs \in Seq([text : Nat, final : BOOLEAN]) /\ main # "dial"
        /\ UNCHANGED <<sent, reading, lastText, finalCh, finalText, finished>>
    BY <1>3 DEF SendPartial, SherpaInv
  <2>2. /\ outs' \in Seq([text : Nat, final : BOOLEAN]) /\ outs'[Len(outs')].final = FALSE
        /\ \A i \in DOMAIN outs' : i = Len(outs') \/ (i \in DOMAIN outs /\ outs'[i] = outs[i])
    BY <2>1, SentOut
  <2>3. \A i \in DOMAIN outs' : ~outs'[i].final
    BY <1>0, <2>2 DEF SherpaInv
  <2>4. main \notin {"pick", "emit"}
    BY <1>0 DEF SherpaInv
  <2>5. SherpaInv'
    BY <1>0, <2>1, <2>2, <2>3, <2>4 DEF SherpaInv
  <2> QED BY <1>0, <2>3, <2>5 DEF OneFinalLast
<1> QED BY <1>1, <1>2, <1>3 DEF ReaderStops

LEMMA SherpaInvariant == SherpaSpec => [](SherpaInv /\ OneFinalLast)
<1>1. SherpaInv /\ OneFinalLast /\ [SherpaNext]_sherpaVars => SherpaInv' /\ OneFinalLast'
  <2> SUFFICES ASSUME SherpaInv, OneFinalLast, [SherpaNext]_sherpaVars
               PROVE  SherpaInv' /\ OneFinalLast'
    OBVIOUS
  <2>1. CASE CloseOut
    BY <2>1 DEF CloseOut, SherpaInv, OneFinalLast, outVars
  <2>2. CASE Collect \/ EndInput \/ CancelStream
    BY <2>2 DEF Collect, EndInput, CancelStream, SherpaInv, OneFinalLast, outVars
  <2>3. CASE LineDown
    BY <2>3 DEF LineDown, SherpaInv, OneFinalLast, outVars
  <2>4. CASE UNCHANGED sherpaVars
    BY <2>4 DEF sherpaVars, SherpaInv, OneFinalLast
  <2> QED BY <2>1, <2>2, <2>3, <2>4, StreamStep, ReaderStep DEF SherpaNext
<1> QED BY <1>1, SherpaStarts, PTL DEF SherpaSpec

(* An utterance has one final transcript, the last that is sent: the first *)
(* segment the sidecar finished or else the last partial, in every         *)
(* interleaving of the reader with the end of the stream (asr.go 44-45).   *)
THEOREM SherpaOneFinalLast == SherpaSpec => []OneFinalLast
<1> QED BY SherpaInvariant, PTL
-----------------------------------------------------------------------------
(* How Stream returns: the safety half of StreamReturns, and how far the   *)
(* finding about the send on a closed channel reaches.                     *)
ReturnInv ==
  /\ verdict \in {"none", "nil", "error", "canceled"} /\ line \in {"up", "down", "closed"}
  /\ reader \in {"none", "read", "send", "parked", "exited", "panicked"}
  /\ outLen \in 0 .. OutCap
  /\ reader = "none" => main \in {"dial", "returned", "closed"}
  /\ reader = "panicked" => main = "closed"
  /\ main = "joining" => readGone

LEMMA ReturnStep == SherpaInv /\ ReturnInv /\ [SherpaNext]_sherpaVars => ReturnInv'
<1> SUFFICES ASSUME SherpaInv, ReturnInv, [SherpaNext]_sherpaVars PROVE ReturnInv'
  OBVIOUS
<1> USE SherpaAssumption DEF ReturnInv, SherpaInv, outVars
<1>1. CASE Dial
  BY <1>1 DEF Dial, Return, Failed
<1>2. CASE WriteFailed \/ ReaderEndedFirst \/ FeedSilence \/ WaitCancelled
  BY <1>2 DEF WriteFailed, ReaderEndedFirst, FeedSilence, WaitCancelled, Return, Failed
<1>3. CASE InputEnds \/ WaitForFinal \/ CancelRead \/ Join \/ Pick
  BY <1>3 DEF InputEnds, WaitForFinal, CancelRead, Join, Pick
<1>4. CASE SendFinal
  BY <1>4 DEF SendFinal, SendOut, Return
<1>5. CASE Read \/ ReadFails \/ SendCancelled \/ SendParks \/ SendOnClosed
  BY <1>5 DEF Read, ReadFails, SendCancelled, SendParks, SendOnClosed
<1>6. CASE SendPartial
  BY <1>6 DEF SendPartial, SendOut
<1>7. CASE CloseOut \/ Collect \/ EndInput \/ CancelStream \/ LineDown
  BY <1>7 DEF CloseOut, Collect, EndInput, CancelStream, LineDown
<1>8. CASE UNCHANGED sherpaVars
  BY <1>8 DEF sherpaVars
<1> QED BY <1>1, <1>2, <1>3, <1>4, <1>5, <1>6, <1>7, <1>8 DEF SherpaNext, Stream, ReaderStops

LEMMA ReturnInvariant == SherpaSpec => [](SherpaInv /\ ReturnInv)
<1>1. SherpaInit => ReturnInv
  BY SherpaAssumption DEF SherpaInit, ReturnInv
<1> QED BY <1>1, ReturnStep, SherpaInvariant, PTL DEF SherpaSpec

(* The stages Stream has before it.                                        *)
StreamAhead(l) ==
  CASE l = "dial" -> 9 [] l = "write" -> 8 [] l = "silence" -> 7 [] l = "wait" -> 6
    [] l = "join" -> 5 [] l = "joining" -> 4 [] l = "pick" -> 3 [] l = "emit" -> 2
    [] l = "returned" -> 1 [] OTHER -> 0

(* What Stream waits for, where it waits, is there or is bound to come:    *)
(* the reader, told to end, can end, and the collector can make room.      *)
CanReturn ==
  \/ main \in {"dial", "silence", "wait", "join", "pick"}
  \/ main = "write" /\ (inEnded \/ gone)
  \/ main = "joining" /\ (reader = "exited" \/ (readGone /\ reader \in {"read", "send", "parked"}))
  \/ main = "emit" /\ (outLen < OutCap \/ outLen > 0)

(* Once its input has ended or it is cancelled, Stream is never stuck, and *)
(* it goes through its stages in one direction (asr.go, ASR.Stream).       *)
THEOREM SherpaNeverStuck ==
  SherpaSpec => /\ []((inEnded \/ gone) /\ verdict = "none" => CanReturn)
                /\ [][main' = main \/ StreamAhead(main') < StreamAhead(main)]_sherpaVars
<1>1. SherpaInv /\ ReturnInv => ((inEnded \/ gone) /\ verdict = "none" => CanReturn)
  <2> SUFFICES ASSUME SherpaInv, ReturnInv, inEnded \/ gone, verdict = "none" PROVE CanReturn
    OBVIOUS
  <2>1. CASE main = "joining"
    BY <2>1 DEF SherpaInv, ReturnInv, CanReturn
  <2>2. CASE main = "emit"
    BY <2>2, SherpaAssumption DEF ReturnInv, CanReturn
  <2>3. CASE main \notin {"joining", "emit"}
    BY <2>3 DEF SherpaInv, CanReturn
  <2> QED BY <2>1, <2>2, <2>3
<1>2. [SherpaNext]_sherpaVars =>
        [main' = main \/ StreamAhead(main') < StreamAhead(main)]_sherpaVars
  <2> SUFFICES ASSUME SherpaNext PROVE main' = main \/ StreamAhead(main') < StreamAhead(main)
    OBVIOUS
  <2>1. CASE Stream
    BY <2>1 DEF Stream, Dial, WriteFailed, ReaderEndedFirst, InputEnds, FeedSilence,
                WaitForFinal, WaitCancelled, CancelRead, Join, Pick, SendFinal, Return, StreamAhead
  <2>2. CASE CloseOut
    BY <2>2 DEF CloseOut, StreamAhead
  <2>3. CASE \/ Read \/ ReaderStops \/ SendOnClosed
             \/ Collect \/ EndInput \/ CancelStream \/ LineDown
    BY <2>3 DEF Read, ReaderStops, ReadFails, SendPartial, SendCancelled, SendParks,
                SendOnClosed, Collect, EndInput, CancelStream, LineDown
  <2> QED BY <2>1, <2>2, <2>3 DEF SherpaNext
<1> QED BY <1>1, <1>2, ReturnInvariant, PTL DEF SherpaSpec

(* A stream that returns its transcript leaves no reader behind; only one  *)
(* that fails or is cancelled does, and only that reader can be the one    *)
(* that sends on the channel its caller has closed (asr.go 149).           *)
THEOREM SherpaPanicsOnlyOnFailure ==
  SherpaSpec => []( /\ verdict = "nil" => reader = "exited"
                    /\ ~NoSendOnClosed => main = "closed" /\ verdict \in {"error", "canceled"} )
<1>1. SherpaInv /\ ReturnInv =>
        /\ verdict = "nil" => reader = "exited"
        /\ ~NoSendOnClosed => main = "closed" /\ verdict \in {"error", "canceled"}
  BY DEF SherpaInv, ReturnInv, NoSendOnClosed
<1> QED BY <1>1, ReturnInvariant, PTL DEF SherpaSpec
-----------------------------------------------------------------------------
(* The framer, which only the clients' steps move.                         *)
LEMMA FramerMoves ==
  ASSUME [SynthNext]_synthVars
  PROVE  \/ \E n \in ChunkSizes : Chunk(n)
         \/ Pace \/ PaceOver \/ SendFrame \/ EmitReturns \/ FlushFrame \/ EmitCanceled \/ Tick
         \/ UNCHANGED framerVars
<1>1. CASE CancelTts \/ DialTts \/ TextEnds \/ WriteText \/ Request \/ Finished \/ BodyEnds
  BY <1>1 DEF CancelTts, DialTts, TextEnds, WriteText, Request, Asked, Finished, BodyEnds,
              SentenceOver
<1>2. CASE Emits \/ FlushRest \/ Canceled \/ TimePasses
  BY <1>2 DEF Emits, FlushRest, Canceled, TimePasses
<1>3. CASE ReturnsNil \/ ConnFails \/ RequestFails
  BY <1>3 DEF ReturnsNil, ConnFails, RequestFails
<1>4. ASSUME NEW k \in Kinds, Gather(k) PROVE UNCHANGED framerVars
  BY <1>4 DEF Gather
<1>5. ASSUME NEW n \in ChunkSizes, ReceiveAudio(n) PROVE Chunk(n)
  BY <1>5 DEF ReceiveAudio
<1>6. CASE UNCHANGED synthVars
  BY <1>6 DEF synthVars
<1> QED BY <1>1, <1>2, <1>3, <1>4, <1>5, <1>6 DEF SynthNext

FramerTypes ==
  /\ fpc \in {"idle", "loop", "pace", "send", "flushed", "canceled"}
  /\ carry \in Nat /\ total \in Nat /\ start \in Nat /\ target \in Nat /\ now \in Nat
  /\ taken \in Nat /\ ahead \in Int /\ lowest \in Int

(* The start of the stream, which only moves forward, keeps every frame    *)
(* behind it in reach: a frame that is being paced is due no more than a   *)
(* frame later than any sent before it, and of the last one sent the clock *)
(* itself says so, until the start is looked at again.                     *)
FramerInv ==
  /\ FramerTypes
  /\ fpc = "pace" => target = start + FramePos
  /\ fpc = "send" => start + FramePos <= now + Lead
  /\ total = 0 => ahead = lowest
  /\ total > 0 /\ fpc \in {"pace", "send"} => start + lowest + FrameTicks >= 0
  /\ total > 0 /\ fpc # "flushed" =>
       start + lowest + FrameTicks >= 0 \/ lowest = ahead
  /\ total > 0 => ahead + FrameTicks + now >= FramePos
  /\ NoBurst

LEMMA OneFrameMore ==
  ASSUME FramerTypes
  PROVE  FramePos \in Nat /\ (total + 1) * FrameTicks = FramePos + FrameTicks
BY FramerAssumption DEF FramerTypes, FramePos

LEMMA FramerStep == FramerInv /\ [SynthNext]_synthVars => FramerInv'
<1> SUFFICES ASSUME FramerInv, [SynthNext]_synthVars PROVE FramerInv'
  OBVIOUS
<1>0. FramerTypes /\ FramePos \in Nat /\ FrameTicks \in Nat /\ FrameBytes \in Nat /\ Lead \in Nat
      /\ ChunkSizes \subseteq Nat
  BY OneFrameMore, FramerAssumption DEF FramerInv
<1>1. ASSUME total' = total PROVE FramePos' = FramePos
  BY <1>1 DEF FramePos
<1> HIDE DEF FramePos
<1> USE DEF FramerInv, FramerTypes, NoBurst
<1>2. ASSUME NEW n \in ChunkSizes, Chunk(n) PROVE FramerInv'
  BY <1>0, <1>1, <1>2 DEF Chunk
<1>3. CASE Pace
  <2>1. /\ fpc = "loop" /\ carry >= FrameBytes /\ fpc' = "pace" /\ carry' = carry - FrameBytes
        /\ UNCHANGED <<total, now, taken, ahead, lowest>>
    BY <1>3 DEF Pace
  <2>2. PICK s \in Nat : /\ start' = s /\ target' = s + FramePos
                         /\ s + FramePos >= now /\ (s >= start \/ total = 0)
    <3> DEFINE first == IF total = 0 THEN now ELSE start
    <3>1. IF now > first + FramePos THEN start' = now - FramePos /\ target' = now
          ELSE start' = first /\ target' = first + FramePos
      BY <1>3 DEF Pace
    <3>2. first \in Nat /\ (first = start \/ total = 0)
      BY <1>0
    <3> HIDE DEF first
    <3>3. CASE now > first + FramePos
      <4>1. /\ now - FramePos \in Nat /\ now = (now - FramePos) + FramePos
            /\ now - FramePos >= first
        BY <1>0, <3>2, <3>3
      <4> QED BY <1>0, <3>1, <3>2, <3>3, <4>1
    <3>4. CASE ~(now > first + FramePos)
      BY <1>0, <3>1, <3>2, <3>4
    <3> QED BY <3>3, <3>4
  <2>3. total > 0 => s + lowest + FrameTicks >= 0
    <3> SUFFICES ASSUME total > 0 PROVE s + lowest + FrameTicks >= 0
      OBVIOUS
    <3>1. /\ start + lowest + FrameTicks >= 0 \/ lowest = ahead
          /\ ahead + FrameTicks + now >= FramePos
          /\ start \in Nat /\ lowest \in Int /\ ahead \in Int /\ now \in Nat
      BY <2>1
    <3> HIDE DEF FramerInv, FramerTypes, NoBurst
    <3> QED BY <1>0, <2>2, <3>1
  <2>4. FramerTypes'
    BY <1>0, <2>1, <2>2
  <2>5. (total' = 0 => ahead' = lowest') /\ (total' > 0 => ahead' + FrameTicks + now' >= FramePos')
    BY <1>1, <2>1
  <2>6. NoBurst'
    BY <2>1
  <2> QED BY <1>1, <2>1, <2>2, <2>3, <2>4, <2>5, <2>6
<1>4. CASE PaceOver
  BY <1>0, <1>1, <1>4 DEF PaceOver
<1>5. CASE SendFrame
  <2>1. /\ fpc = "send" /\ fpc' = "loop" /\ total' = total + 1
        /\ ahead' = FramePos - now
        /\ lowest' = IF total = 0 \/ ahead' < lowest THEN ahead' ELSE lowest
        /\ UNCHANGED <<carry, start, target, now, taken>>
    BY <1>5 DEF SendFrame, Leaves
  <2>2. FramePos' = FramePos + FrameTicks
    BY <1>0, <2>1, OneFrameMore DEF FramePos
  <2>3. FramerTypes'
    BY <1>0, <2>1
  <2>4. ahead' <= Lead - start
    BY <1>0, <2>1
  <2>5. lowest' = ahead' \/ (total > 0 /\ lowest' = lowest)
    BY <1>0, <2>1
  <2>6. total > 0 => start + lowest + FrameTicks >= 0
    BY <2>1
  <2>7. ahead' - lowest' <= Lead + FrameTicks
    BY <1>0, <2>1, <2>4, <2>5, <2>6
  <2>8. start' + lowest' + FrameTicks >= 0 \/ lowest' = ahead'
    BY <2>1, <2>5, <2>6
  <2>9. ahead' + FrameTicks + now' >= FramePos' /\ total' > 0
    BY <1>0, <2>1, <2>2
  <2> QED BY <1>0, <2>1, <2>3, <2>7, <2>8, <2>9
<1>6. CASE EmitReturns
  BY <1>0, <1>1, <1>6 DEF EmitReturns
<1>7. CASE FlushFrame
  <2>1. /\ fpc = "idle" /\ fpc' = "flushed" /\ carry' = 0
        /\ UNCHANGED <<total, start, target, now, taken>>
    BY <1>7 DEF FlushFrame
  <2>2. CASE carry = 0
    BY <1>0, <1>1, <1>7, <2>1, <2>2 DEF FlushFrame
  <2>3. CASE carry # 0
    <3>1. /\ ahead' = FramePos - now
          /\ lowest' = IF total = 0 \/ ahead' < lowest THEN ahead' ELSE lowest
      BY <1>7, <2>3 DEF FlushFrame, Leaves
    <3>2. FramerTypes'
      BY <1>0, <2>1, <3>1
    <3>3. ahead' - lowest' <= Lead + 2 * FrameTicks
      BY <1>0, <2>1, <3>1
    <3> QED BY <1>0, <1>1, <2>1, <3>1, <3>2, <3>3
  <2> QED BY <2>2, <2>3
<1>8. CASE EmitCanceled
  BY <1>0, <1>1, <1>8 DEF EmitCanceled
<1>9. CASE Tick
  BY <1>0, <1>1, <1>9 DEF Tick
<1>10. CASE UNCHANGED framerVars
  BY <1>0, <1>1, <1>10 DEF framerVars
<1> QED BY <1>2, <1>3, <1>4, <1>5, <1>6, <1>7, <1>8, <1>9, <1>10, FramerMoves

LEMMA FramerStarts == SynthInit => FramerInv
BY FramerAssumption DEF SynthInit, FramerInit, FramerInv, FramerTypes, FramePos, NoBurst

(* Whatever the chunks, however late a sentence and however slow the       *)
(* receiver, no more audio is sent at once than the lead and one frame     *)
(* (ttsframe.go 55).                                                       *)
THEOREM FramerNoBurst == SynthSpec => []NoBurst
<1>1. FramerInv => NoBurst
  BY DEF FramerInv
<1> QED BY <1>1, FramerStarts, FramerStep, PTL DEF SynthSpec
-----------------------------------------------------------------------------
(* The clients are the stage: where the words are, from the buffer of text *)
(* to the frames that carry them.                                          *)
Sentence == [word : Nat, byte : Nat]
Whole == total * FrameBytes

(* Of the sentences e the first n end within the first b bytes.            *)
Upto(e, b, n) ==
  n \in 0 .. Len(e) /\ \A i \in DOMAIN e : e[i].byte <= b <=> i <= n
WordOf(e, n) == IF n = 0 THEN 0 ELSE e[n].word

SynthTypes ==
  /\ client \in {"sherpa", "http"}
  /\ spc \in {"dial", "select", "ask", "read", "emit", "flush", "return", "returned"}
  /\ gathered \in Nat /\ wordsIn \in Nat /\ inputOver \in BOOLEAN /\ ttsCancel \in BOOLEAN
  /\ returned \in {"none", "nil", "error", "canceled"} /\ ends \in Seq(Sentence)

SynthPlace ==
  /\ spc = "returned" <=> returned # "none"
  /\ spc \in {"dial", "select", "ask", "read", "flush"} => fpc = "idle"
  /\ spc = "emit" => fpc \in {"loop", "pace", "send"}
  /\ spc = "return" => fpc = "flushed"
  /\ spc \in {"dial", "select"} => ~inputOver
  /\ spc \in {"flush", "return"} => inputOver /\ gathered = 0

(* What came in is in frames or carried, and a sentence ends before the    *)
(* frame after next: the frame that takes its last byte takes it whole.    *)
SynthBytes ==
  /\ fpc \in {"idle", "loop"} => taken = carry + Whole
  /\ fpc \in {"pace", "send"} => taken = carry + Whole + FrameBytes
  /\ fpc = "idle" => carry < FrameBytes
  /\ \A i \in DOMAIN ends : ends[i].byte <= taken /\ ends[i].byte < Whole + FrameBytes

SynthWords ==
  /\ \A i, j \in DOMAIN ends : i < j => ends[i].word <= ends[j].word
  /\ \A i \in DOMAIN ends : ends[i].word <= wordsIn
  /\ wordsIn = gathered + WordOf(ends, Len(ends))
  /\ \E n \in Nat : Upto(ends, SentBytes, n)

StageInv == FramerInv /\ SynthTypes /\ SynthPlace /\ SynthBytes /\ SynthWords

LEMMA WholeFrames ==
  ASSUME FramerTypes
  PROVE  Whole \in Nat /\ (total + 1) * FrameBytes = Whole + FrameBytes
BY FramerAssumption DEF FramerTypes, Whole

LEMMA SpokenIs ==
  ASSUME NEW n \in Nat, ends \in Seq(Sentence), Upto(ends, SentBytes, n)
  PROVE  SpokenWords = WordOf(ends, n)
<1> DEFINE done == {i \in DOMAIN ends : ends[i].byte <= SentBytes}
<1>1. DOMAIN ends = 1 .. Len(ends) /\ Len(ends) \in Nat
  OBVIOUS
<1>2. done = 1 .. n
  BY <1>1 DEF Upto
<1>3. CASE n = 0
  <2>1. done = {}
    BY <1>2, <1>3
  <2> QED BY <1>3, <2>1 DEF SpokenWords, WordOf
<1>4. CASE n # 0
  <2>1. n \in done /\ \A j \in done : j <= n
    BY <1>2, <1>4
  <2>2. \A i \in done : (\A j \in done : j <= i) => i = n
    BY <1>2, <1>4
  <2>0. SpokenWords = IF done = {} THEN 0
                       ELSE ends[CHOOSE i \in done : \A j \in done : j <= i].word
    BY DEF SpokenWords
  <2> HIDE DEF done
  <2>3. (CHOOSE i \in done : \A j \in done : j <= i) = n
    BY <2>1, <2>2
  <2>4. done # {}
    BY <2>1
  <2>5. SpokenWords = ends[n].word
    BY <2>0, <2>3, <2>4
  <2> QED BY <1>4, <2>5 DEF WordOf
<1> QED BY <1>3, <1>4

(* The same, of the state after a step.                                    *)
LEMMA SpokenNext ==
  ASSUME NEW n \in Nat, ends' \in Seq(Sentence), Upto(ends', SentBytes', n)
  PROVE  SpokenWords' = WordOf(ends', n)
<1> DEFINE done == {i \in DOMAIN ends' : ends'[i].byte <= SentBytes'}
<1>1. DOMAIN ends' = 1 .. Len(ends') /\ Len(ends') \in Nat
  OBVIOUS
<1>2. done = 1 .. n
  BY <1>1 DEF Upto
<1>3. CASE n = 0
  <2>1. done = {}
    BY <1>2, <1>3
  <2> QED BY <1>3, <2>1 DEF SpokenWords, WordOf
<1>4. CASE n # 0
  <2>1. n \in done /\ \A j \in done : j <= n
    BY <1>2, <1>4
  <2>2. \A i \in done : (\A j \in done : j <= i) => i = n
    BY <1>2, <1>4
  <2>0. SpokenWords' = IF done = {} THEN 0
                       ELSE ends'[CHOOSE i \in done : \A j \in done : j <= i].word
    BY DEF SpokenWords
  <2> HIDE DEF done
  <2>3. (CHOOSE i \in done : \A j \in done : j <= i) = n
    BY <2>1, <2>2
  <2>4. done # {}
    BY <2>1
  <2>5. SpokenWords' = ends'[n].word
    BY <2>0, <2>3, <2>4
  <2> QED BY <1>4, <2>5 DEF WordOf
<1> QED BY <1>3, <1>4

(* More sentences in frames are no fewer words.                            *)
LEMMA WordsGrow ==
  ASSUME SynthTypes, SynthWords, NEW n \in 0 .. Len(ends), NEW m \in n .. Len(ends)
  PROVE  /\ WordOf(ends, n) \in Nat /\ WordOf(ends, m) \in Nat
         /\ WordOf(ends, n) <= WordOf(ends, m) /\ WordOf(ends, m) <= wordsIn
<1>1. DOMAIN ends = 1 .. Len(ends) /\ Len(ends) \in Nat
      /\ \A i \in DOMAIN ends : ends[i].word \in Nat
  <2>1. ends \in Seq(Sentence)
    BY DEF SynthTypes
  <2>2. \A s \in Sentence : s.word \in Nat
    BY DEF Sentence
  <2>3. \A i \in DOMAIN ends : ends[i] \in Sentence
    BY <2>1
  <2> QED BY <2>1, <2>2, <2>3
<1>2. \A k \in 1 .. Len(ends) : k \in DOMAIN ends
  BY <1>1
<1>3. n = 0 \/ n \in DOMAIN ends
  BY <1>1
<1>4. m = 0 \/ m \in DOMAIN ends
  BY <1>1
<1>5. wordsIn \in Nat
  BY DEF SynthTypes
<1>6. n = m \/ n < m
  BY <1>1
<1> QED BY <1>1, <1>3, <1>4, <1>5, <1>6 DEF WordOf, SynthWords

LEMMA PlaceStep ==
  ASSUME StageInv, [SynthNext]_synthVars
  PROVE  SynthTypes' /\ SynthPlace'
<1> USE DEF StageInv, SynthTypes, SynthPlace
<1>1. CASE CancelTts \/ DialTts \/ WriteText \/ Request
  <2>1. CASE CancelTts
    BY <2>1 DEF CancelTts, framerVars
  <2>2. CASE DialTts
    BY <2>2 DEF DialTts, framerVars
  <2>3. CASE Asked
    BY <2>3 DEF Asked, framerVars
  <2> QED BY <1>1, <2>1, <2>2, <2>3 DEF WriteText, Request
<1>2. CASE Finished \/ BodyEnds
  <2>1. SentenceOver
    BY <1>2 DEF Finished, BodyEnds
  <2>2. taken \in Nat /\ [word |-> wordsIn, byte |-> taken] \in Sentence
    BY DEF FramerInv, FramerTypes, Sentence
  <2>3. ends' \in Seq(Sentence)
    BY <2>1, <2>2 DEF SentenceOver
  <2> QED BY <2>1, <2>3 DEF SentenceOver, framerVars
<1>3. CASE Emits
  BY <1>3 DEF Emits, Pace, PaceOver, SendFrame, EmitReturns
<1>4. CASE FlushRest \/ TimePasses
  BY <1>4 DEF FlushRest, FlushFrame, TimePasses, Tick, synthOnly
<1>5. CASE ReturnsNil \/ ConnFails \/ RequestFails \/ Canceled
  BY <1>5 DEF ReturnsNil, ConnFails, RequestFails, Canceled, Stops, framerVars, EmitCanceled
<1>6. ASSUME NEW k \in Kinds, Gather(k) PROVE SynthTypes' /\ SynthPlace'
  BY <1>6 DEF Gather, framerVars
<1>7. ASSUME NEW n \in ChunkSizes, ReceiveAudio(n) PROVE SynthTypes' /\ SynthPlace'
  BY <1>7 DEF ReceiveAudio, Chunk
<1>8. CASE TextEnds
  <2>1. spc' = "ask" \/ (spc' = "flush" /\ gathered = 0)
    BY <1>8 DEF TextEnds, Rest
  <2> QED BY <1>8, <2>1 DEF TextEnds, framerVars
<1>9. CASE UNCHANGED synthVars
  BY <1>9 DEF synthVars, synthOnly, framerVars
<1> QED BY <1>1, <1>2, <1>3, <1>4, <1>5, <1>6, <1>7, <1>8, <1>9 DEF SynthNext

(* A sentence's bytes go from those that came in to the frames.            *)
LEMMA BytesStep ==
  ASSUME StageInv, [SynthNext]_synthVars
  PROVE  SynthBytes'
<1>0. /\ carry \in Nat /\ total \in Nat /\ taken \in Nat /\ FrameBytes \in Nat
      /\ Whole \in Nat /\ ChunkSizes \subseteq Nat
      /\ \A i \in DOMAIN ends : ends[i].byte \in Nat
  <2>1. ends \in Seq(Sentence) /\ \A s \in Sentence : s.byte \in Nat
    BY DEF StageInv, SynthTypes, Sentence
  <2>2. \A i \in DOMAIN ends : ends[i] \in Sentence
    BY <2>1
  <2> QED BY <2>1, <2>2, WholeFrames, FramerAssumption DEF StageInv, FramerInv, FramerTypes
<1>1. ASSUME total' = total PROVE Whole' = Whole
  BY <1>1 DEF Whole
<1>2. SynthBytes /\ SynthPlace
  BY DEF StageInv
<1>3. CASE UNCHANGED <<framerVars, ends>>
  BY <1>1, <1>2, <1>3 DEF framerVars, SynthBytes
<1>4. ASSUME NEW n \in ChunkSizes, Chunk(n), UNCHANGED ends PROVE SynthBytes'
  BY <1>0, <1>1, <1>2, <1>4 DEF Chunk, SynthBytes
<1>5. CASE UNCHANGED ends /\ (Pace \/ PaceOver \/ EmitReturns \/ FlushFrame \/ EmitCanceled)
  BY <1>0, <1>1, <1>2, <1>5 DEF Pace, PaceOver, EmitReturns, FlushFrame, EmitCanceled, SynthBytes
<1>6. CASE UNCHANGED ends /\ Tick
  BY <1>1, <1>2, <1>6 DEF Tick, SynthBytes
<1>7. CASE UNCHANGED ends /\ SendFrame
  <2>1. /\ fpc = "send" /\ fpc' = "loop" /\ total' = total + 1 /\ UNCHANGED <<carry, taken, ends>>
    BY <1>7 DEF SendFrame
  <2>2. Whole' = Whole + FrameBytes
    BY <2>1, WholeFrames DEF StageInv, FramerInv, Whole
  <2> QED BY <1>0, <1>2, <2>1, <2>2 DEF SynthBytes
<1>8. CASE SentenceOver
  <2>1. /\ UNCHANGED framerVars /\ fpc = "idle" /\ ends \in Seq(Sentence)
        /\ ends' = Append(ends, [word |-> wordsIn, byte |-> taken])
    BY <1>2, <1>8 DEF SentenceOver, SynthPlace, StageInv, SynthTypes
  <2>2. \A i \in DOMAIN ends' : (i \in DOMAIN ends /\ ends'[i] = ends[i]) \/ ends'[i].byte = taken
    BY <2>1
  <2> QED BY <1>0, <1>1, <1>2, <2>1, <2>2 DEF SynthBytes, framerVars
<1> QED BY <1>3, <1>4, <1>5, <1>6, <1>7, <1>8
    DEF SynthNext, CancelTts, DialTts, TextEnds, WriteText, Request, Asked, Emits, Finished,
        BodyEnds, FlushRest, ReturnsNil, ConnFails, RequestFails, Canceled, Stops, TimePasses,
        Gather, ReceiveAudio, synthVars, synthOnly

(* A step that moves neither sentences nor frames leaves what is spoken.   *)
LEMMA SameWords ==
  ASSUME UNCHANGED ends, SentBytes' = SentBytes
  PROVE  /\ SpokenWords' = SpokenWords
         /\ \A n \in Nat : Upto(ends', SentBytes', n) <=> Upto(ends, SentBytes, n)
BY DEF SpokenWords, Upto

(* What a step promises: the invariant, and a step of the stage.           *)
Promised == SynthWords' /\ (Stage!Next \/ UNCHANGED Stage!stageVars)

(* The steps that send no frame and end no sentence.                       *)
LEMMA QuietStep ==
  ASSUME StageInv, UNCHANGED ends, SentBytes' = SentBytes,
         UNCHANGED <<gathered, wordsIn, inputOver>>,
         \/ UNCHANGED <<ttsCancel, returned>>
         \/ UNCHANGED ttsCancel /\ returned = "none" /\ returned' = "error"
         \/ UNCHANGED ttsCancel /\ returned = "none" /\ ttsCancel /\ returned' = "canceled"
         \/ UNCHANGED returned /\ ttsCancel'
  PROVE  Promised
<1>1. SynthWords'
  BY SameWords DEF StageInv, SynthWords
<1>2. SpokenWords' = SpokenWords
  BY SameWords
<1> QED BY <1>1, <1>2 DEF Promised, Stage!Next, Stage!Cancel, Stage!Returns, Stage!Return,
                         Stage!stageVars

(* Text is taken, or ends.                                                 *)
LEMMA HearStep ==
  ASSUME StageInv, TextEnds \/ \E k \in Kinds : Gather(k)
  PROVE  Promised
<1>1. UNCHANGED ends /\ SentBytes' = SentBytes
  BY DEF TextEnds, Gather, SentBytes, framerVars
<1>2. returned = "none" /\ ~inputOver /\ gathered \in Nat /\ wordsIn \in Nat
  BY DEF StageInv, SynthPlace, SynthTypes, TextEnds, Gather
<1>3. /\ SpokenWords' = SpokenWords
      /\ \A n \in Nat : Upto(ends', SentBytes', n) <=> Upto(ends, SentBytes, n)
  BY <1>1, SameWords
<1>4. CASE TextEnds
  <2>1. SynthWords'
    BY <1>1, <1>3, <1>4 DEF StageInv, SynthWords, TextEnds
  <2> QED BY <1>2, <1>3, <1>4, <2>1 DEF Promised, TextEnds, Stage!Next, Stage!End
<1>5. ASSUME NEW k \in Kinds, Gather(k) PROVE Promised
  <2>1. \/ gathered' = gathered + 1 /\ wordsIn' = wordsIn + 1
        \/ gathered' = gathered /\ wordsIn' = wordsIn
    BY <1>2, <1>5 DEF Gather
  <2>2. UNCHANGED <<ends, inputOver, ttsCancel, returned>>
    BY <1>5 DEF Gather
  <2>3. \A i \in DOMAIN ends : ends[i].word \in Nat
    <3>1. ends \in Seq(Sentence) /\ \A s \in Sentence : s.word \in Nat
      BY DEF StageInv, SynthTypes, Sentence
    <3> QED BY <3>1
  <2>4. WordOf(ends, Len(ends)) \in Nat /\ Len(ends) \in Nat
    <3>1. Len(ends) \in Nat /\ DOMAIN ends = 1 .. Len(ends)
      BY DEF StageInv, SynthTypes
    <3> QED BY <2>3, <3>1 DEF WordOf
  <2>5. SynthWords'
    <3>1. \A i, j \in DOMAIN ends' : i < j => ends'[i].word <= ends'[j].word
      BY <2>2 DEF StageInv, SynthWords
    <3>2. \A i \in DOMAIN ends : ends[i].word <= wordsIn
      BY DEF StageInv, SynthWords
    <3>3. \A i \in DOMAIN ends' : ends'[i].word <= wordsIn'
      BY <1>2, <2>1, <2>2, <2>3, <3>2
    <3>4. wordsIn' = gathered' + WordOf(ends', Len(ends'))
      <4>1. wordsIn = gathered + WordOf(ends, Len(ends))
        BY DEF StageInv, SynthWords
      <4>2. WordOf(ends', Len(ends')) = WordOf(ends, Len(ends))
        BY <2>2
      <4> QED BY <1>2, <2>1, <2>4, <4>1, <4>2
    <3>5. \E n \in Nat : Upto(ends', SentBytes', n)
      BY <1>3 DEF StageInv, SynthWords
    <3> QED BY <3>1, <3>3, <3>4, <3>5 DEF SynthWords
  <2> QED BY <1>2, <1>3, <2>1, <2>2, <2>5 DEF Promised, Stage!Next, Stage!Hear, Stage!stageVars
<1> QED BY <1>4, <1>5

(* A frame, the last one too, takes every sentence to its end.             *)
LEMMA FrameSpeaks ==
  ASSUME StageInv, returned = "none", \A i \in DOMAIN ends : ends[i].byte <= SentBytes',
         UNCHANGED <<ends, gathered, wordsIn, inputOver, ttsCancel, returned>>
  PROVE  Promised
<1> DEFINE len == Len(ends)
<1>1. /\ len \in Nat /\ DOMAIN ends = 1 .. len
      /\ SynthTypes /\ SynthWords /\ wordsIn \in Nat /\ ends \in Seq(Sentence)
  BY DEF StageInv, SynthTypes
<1>2. PICK n \in Nat : Upto(ends, SentBytes, n)
  BY DEF StageInv, SynthWords
<1>3. n \in 0 .. len /\ len \in n .. len
  BY <1>1, <1>2 DEF Upto
<1>4. SpokenWords = WordOf(ends, n)
  BY <1>1, <1>2, SpokenIs
<1>5. Upto(ends', SentBytes', len)
  BY <1>1 DEF Upto
<1>6. SpokenWords' = WordOf(ends', len)
  BY <1>1, <1>5, SpokenNext
<1>7. /\ WordOf(ends, n) \in Nat /\ WordOf(ends, len) \in Nat
      /\ WordOf(ends, n) <= WordOf(ends, len) /\ WordOf(ends, len) <= wordsIn
  BY <1>1, <1>3, WordsGrow
<1>8. WordOf(ends', len) = WordOf(ends, len)
  OBVIOUS
<1>9. SynthWords'
  <2>1. wordsIn' = gathered' + WordOf(ends', Len(ends'))
    BY DEF StageInv, SynthWords
  <2>2. /\ \A i, j \in DOMAIN ends' : i < j => ends'[i].word <= ends'[j].word
        /\ \A i \in DOMAIN ends' : ends'[i].word <= wordsIn'
    BY DEF StageInv, SynthWords
  <2> QED BY <1>1, <1>5, <2>1, <2>2 DEF SynthWords
<1>10. SpokenWords' = SpokenWords \/ SpokenWords' \in SpokenWords + 1 .. wordsIn
  <2> HIDE DEF len
  <2>1. PICK a \in Nat : a = WordOf(ends, n) /\ SpokenWords = a
    BY <1>4, <1>7
  <2>2. PICK b \in Nat : b = WordOf(ends, len) /\ SpokenWords' = b
    BY <1>6, <1>7, <1>8
  <2> QED BY <1>1, <1>7, <2>1, <2>2
<1> QED BY <1>9, <1>10 DEF Promised, Stage!Next, Stage!Speak, Stage!stageVars

(* The end of a sentence: with its last byte in a frame already, all there *)
(* is has been spoken; or it is left to the frames to come.                *)
LEMMA SentenceSpeaks ==
  ASSUME StageInv, SentenceOver
  PROVE  Promised
<1> DEFINE len == Len(ends)
           last == [word |-> wordsIn, byte |-> taken]
<1>1. /\ len \in Nat /\ DOMAIN ends = 1 .. len
      /\ SynthTypes /\ SynthWords /\ wordsIn \in Nat /\ ends \in Seq(Sentence)
  BY DEF StageInv, SynthTypes
<1>2. PICK n \in Nat : Upto(ends, SentBytes, n)
  BY DEF StageInv, SynthWords
<1>3. /\ ends' = Append(ends, last) /\ gathered' = 0
      /\ UNCHANGED <<framerVars, wordsIn, inputOver, ttsCancel, returned>>
      /\ fpc = "idle" /\ returned = "none"
  BY DEF SentenceOver, StageInv, SynthPlace
<1>4. taken \in Nat /\ last \in Sentence /\ last.word = wordsIn /\ last.byte = taken
  BY DEF StageInv, FramerInv, FramerTypes, SynthTypes, Sentence
<1>5. SentBytes = Whole /\ SentBytes' = SentBytes /\ Whole \in Nat
  BY <1>3, WholeFrames DEF SentBytes, framerVars, Whole, StageInv, FramerInv
<1> HIDE DEF last
<1>6. /\ ends' \in Seq(Sentence) /\ DOMAIN ends' = 1 .. len + 1 /\ Len(ends') = len + 1
      /\ ends'[len + 1] = last /\ \A i \in 1 .. len : ends'[i] = ends[i]
  BY <1>1, <1>3, <1>4
<1>7. n \in 0 .. len /\ SpokenWords = WordOf(ends, n) /\ len \in n .. len
  BY <1>1, <1>2, SpokenIs DEF Upto
<1>8. WordOf(ends, n) \in Nat /\ WordOf(ends, n) <= wordsIn
  BY <1>1, <1>7, WordsGrow
<1>9. /\ WordOf(ends', len + 1) = wordsIn
      /\ n # len + 1 /\ WordOf(ends', n) = WordOf(ends, n)
  BY <1>1, <1>4, <1>6, <1>7 DEF WordOf
<1>10. PICK m \in {n, len + 1} : Upto(ends', SentBytes', m)
  <2> HIDE DEF len
  <2>1. \A i \in 1 .. len : ends[i].byte <= taken
    BY <1>1, <1>3 DEF StageInv, SynthBytes
  <2>2. \A i \in 1 .. len : ends[i].byte <= Whole <=> i <= n
    BY <1>1, <1>2, <1>5 DEF Upto
  <2>3. \A i \in 1 .. len : ends[i].byte \in Nat
    <3>1. \A s \in Sentence : s.byte \in Nat
      BY DEF Sentence
    <3> QED BY <1>1, <3>1
  <2>4. CASE taken <= Whole
    <3>1. \A i \in 1 .. len + 1 : ends'[i].byte <= Whole
      BY <1>1, <1>4, <1>5, <1>6, <2>1, <2>3, <2>4
    <3>2. Upto(ends', SentBytes', len + 1)
      BY <1>1, <1>5, <1>6, <3>1 DEF Upto
    <3> QED BY <3>2
  <2>5. CASE ~(taken <= Whole)
    <3>1. \A i \in 1 .. len + 1 : ends'[i].byte <= Whole <=> i <= n
      BY <1>1, <1>4, <1>5, <1>6, <1>7, <2>2, <2>5
    <3>2. Upto(ends', SentBytes', n)
      BY <1>1, <1>5, <1>6, <1>7, <3>1 DEF Upto
    <3> QED BY <3>2
  <2> QED BY <2>4, <2>5
<1>11. m \in Nat /\ SpokenWords' = WordOf(ends', m)
  BY <1>1, <1>6, <1>7, <1>10, SpokenNext
<1>12. SynthWords'
  <2>1. /\ \A i, j \in 1 .. len : i < j => ends[i].word <= ends[j].word
        /\ \A i \in 1 .. len : ends[i].word <= wordsIn
    BY <1>1 DEF SynthWords
  <2>2. \A i, j \in DOMAIN ends' : i < j => ends'[i].word <= ends'[j].word
    BY <1>1, <1>4, <1>6, <2>1
  <2>3. \A i \in DOMAIN ends' : ends'[i].word <= wordsIn'
    BY <1>1, <1>3, <1>4, <1>6, <2>1
  <2>4. wordsIn' = gathered' + WordOf(ends', Len(ends'))
    BY <1>1, <1>3, <1>6, <1>9
  <2> QED BY <1>10, <1>11, <2>2, <2>3, <2>4 DEF SynthWords
<1>13. SpokenWords' = SpokenWords \/ SpokenWords' \in SpokenWords + 1 .. wordsIn
  <2> HIDE DEF len
  <2>1. SpokenWords' = SpokenWords \/ SpokenWords' = wordsIn
    BY <1>7, <1>9, <1>10, <1>11
  <2>2. SpokenWords \in Nat /\ SpokenWords <= wordsIn
    BY <1>7, <1>8
  <2> QED BY <1>1, <2>1, <2>2
<1> QED BY <1>3, <1>12, <1>13 DEF Promised, Stage!Next, Stage!Speak, Stage!stageVars

(* nil is returned when all that came in has been spoken.                  *)
LEMMA NilStep ==
  ASSUME StageInv, ReturnsNil
  PROVE  Promised
<1>1. /\ UNCHANGED <<ends, framerVars, gathered, wordsIn, inputOver, ttsCancel>>
      /\ returned = "none" /\ returned' = "nil" /\ fpc = "flushed" /\ inputOver /\ gathered = 0
  BY DEF StageInv, SynthPlace, ReturnsNil, Stops
<1>2. SentBytes = taken /\ SentBytes' = SentBytes
  BY <1>1 DEF SentBytes, framerVars
<1>3. /\ SpokenWords' = SpokenWords
      /\ \A n \in Nat : Upto(ends', SentBytes', n) <=> Upto(ends, SentBytes, n)
  BY <1>1, <1>2, SameWords
<1>4. SynthWords'
  BY <1>1, <1>3 DEF StageInv, SynthWords
<1>5. ends \in Seq(Sentence) /\ Len(ends) \in Nat /\ DOMAIN ends = 1 .. Len(ends)
  BY DEF StageInv, SynthTypes
<1>6. Upto(ends, SentBytes, Len(ends))
  BY <1>2, <1>5 DEF StageInv, SynthBytes, Upto
<1>7. SpokenWords = WordOf(ends, Len(ends))
  BY <1>5, <1>6, SpokenIs
<1>8. wordsIn = WordOf(ends, Len(ends))
  <2>1. WordOf(ends, Len(ends)) \in Nat
    BY <1>5, WordsGrow DEF StageInv
  <2> QED BY <1>1, <2>1 DEF StageInv, SynthWords
<1> QED BY <1>1, <1>3, <1>4, <1>7, <1>8
    DEF Promised, Stage!Next, Stage!Returns, Stage!Return

(* The framer's own step takes what came in to its end, or nothing.        *)
LEMMA EmitStep ==
  ASSUME StageInv, Emits \/ FlushRest
  PROVE  Promised
<1>1. /\ UNCHANGED <<ends, gathered, wordsIn, inputOver, ttsCancel, returned>>
      /\ returned = "none" /\ fpc # "flushed"
  BY DEF Emits, FlushRest, FlushFrame, StageInv, SynthPlace
<1>2. CASE Emits /\ ~SendFrame
  <2>1. Pace \/ PaceOver \/ EmitReturns
    BY <1>2 DEF Emits
  <2>2. SentBytes' = SentBytes
    BY <1>1, <2>1 DEF Pace, PaceOver, EmitReturns, SentBytes
  <2> QED BY <1>1, <2>2, QuietStep
<1>3. CASE SendFrame
  <2>1. fpc' = "loop" /\ total' = total + 1
    BY <1>3 DEF SendFrame
  <2>2. SentBytes' = Whole + FrameBytes
    BY <2>1, WholeFrames DEF SentBytes, StageInv, FramerInv
  <2>3. \A i \in DOMAIN ends : ends[i].byte <= SentBytes'
    <3>1. \A i \in DOMAIN ends : ends[i].byte < Whole + FrameBytes
      BY DEF StageInv, SynthBytes
    <3>2. Whole + FrameBytes \in Nat
      BY WholeFrames, FramerAssumption DEF StageInv, FramerInv
    <3>3. \A i \in DOMAIN ends : ends[i].byte \in Nat
      <4>1. ends \in Seq(Sentence) /\ \A s \in Sentence : s.byte \in Nat
        BY DEF StageInv, SynthTypes, Sentence
      <4> QED BY <4>1
    <3> QED BY <2>2, <3>1, <3>2, <3>3
  <2> QED BY <1>1, <2>3, FrameSpeaks
<1>4. CASE FlushRest
  <2>1. fpc' = "flushed" /\ taken' = taken
    BY <1>4 DEF FlushRest, FlushFrame
  <2>2. \A i \in DOMAIN ends : ends[i].byte <= SentBytes'
    BY <2>1 DEF SentBytes, StageInv, SynthBytes
  <2> QED BY <1>1, <2>2, FrameSpeaks
<1> QED BY <1>2, <1>3, <1>4

LEMMA StageStep ==
  StageInv /\ [SynthNext]_synthVars => StageInv' /\ (Stage!Next \/ UNCHANGED Stage!stageVars)
<1> SUFFICES ASSUME StageInv, [SynthNext]_synthVars PROVE StageInv' /\ Promised
  BY DEF Promised
<1>1. FramerInv' /\ SynthTypes' /\ SynthPlace' /\ SynthBytes'
  BY FramerStep, PlaceStep, BytesStep DEF StageInv
<1>2. Promised
  <2>1. CASE CancelTts \/ DialTts \/ WriteText \/ Request
    <3>1. /\ UNCHANGED <<ends, framerVars, gathered, wordsIn, inputOver, returned>>
          /\ UNCHANGED ttsCancel \/ ttsCancel'
      BY <2>1 DEF CancelTts, DialTts, WriteText, Request, Asked
    <3>2. SentBytes' = SentBytes
      BY <3>1 DEF SentBytes, framerVars
    <3> QED BY <3>1, <3>2, QuietStep
  <2>2. CASE TextEnds \/ \E k \in Kinds : Gather(k)
    BY <2>2, HearStep
  <2>3. CASE Emits \/ FlushRest
    BY <2>3, EmitStep
  <2>4. CASE Finished \/ BodyEnds
    BY <2>4, SentenceSpeaks DEF Finished, BodyEnds
  <2>5. CASE ReturnsNil
    BY <2>5, NilStep
  <2>6. CASE ConnFails \/ RequestFails \/ Canceled
    <3>1. /\ UNCHANGED <<ends, total, taken, gathered, wordsIn, inputOver, ttsCancel>>
          /\ returned = "none" /\ fpc # "flushed" /\ fpc' # "flushed"
          /\ returned' = "error" \/ (ttsCancel /\ returned' = "canceled")
      BY <2>6 DEF ConnFails, RequestFails, Canceled, Stops, EmitCanceled, framerVars, StageInv,
                  SynthPlace
    <3>2. SentBytes' = SentBytes
      BY <3>1 DEF SentBytes
    <3> QED BY <3>1, <3>2, QuietStep
  <2>7. ASSUME NEW n \in ChunkSizes, ReceiveAudio(n) PROVE Promised
    <3>1. /\ UNCHANGED <<ends, total, gathered, wordsIn, inputOver, ttsCancel, returned>>
          /\ fpc # "flushed" /\ fpc' # "flushed"
      BY <2>7 DEF ReceiveAudio, Chunk
    <3>2. SentBytes' = SentBytes
      BY <3>1 DEF SentBytes
    <3> QED BY <3>1, <3>2, QuietStep
  <2>8. CASE TimePasses \/ UNCHANGED synthVars
    <3>1. UNCHANGED <<ends, fpc, total, taken, gathered, wordsIn, inputOver, ttsCancel, returned>>
      BY <2>8 DEF TimePasses, Tick, synthOnly, synthVars, framerVars
    <3>2. SentBytes' = SentBytes
      BY <3>1 DEF SentBytes
    <3> QED BY <3>1, <3>2, QuietStep
  <2> QED BY <2>1, <2>2, <2>3, <2>4, <2>5, <2>6, <2>7, <2>8 DEF SynthNext
<1> QED BY <1>1, <1>2 DEF StageInv, Promised

LEMMA StageStarts == SynthInit => StageInv /\ Stage!Init
<1> SUFFICES ASSUME SynthInit PROVE StageInv /\ Stage!Init
  OBVIOUS
<1>1. FramerInv
  BY FramerStarts
<1>2. /\ ends = << >> /\ ends \in Seq(Sentence) /\ DOMAIN ends = {} /\ Len(ends) = 0
      /\ fpc = "idle" /\ total = 0 /\ carry = 0 /\ taken = 0 /\ FrameBytes \in Nat \ {0}
  BY FramerAssumption DEF SynthInit, FramerInit
<1>3. Whole = 0
  BY <1>2 DEF Whole
<1>4. SynthTypes /\ SynthPlace
  BY <1>2 DEF SynthInit, SynthTypes, SynthPlace
<1>5. SynthBytes
  BY <1>2, <1>3 DEF SynthBytes
<1>6. Upto(ends, SentBytes, 0)
  BY <1>2 DEF Upto
<1>7. SpokenWords = 0
  BY <1>2 DEF SpokenWords
<1>8. SynthWords
  BY <1>2, <1>6 DEF SynthInit, SynthWords, WordOf
<1> QED BY <1>1, <1>4, <1>5, <1>7, <1>8 DEF StageInv, SynthInit, Stage!Init

(* Both clients are, step by step, the TTS stage a turn takes for granted  *)
(* (adapter.go 40-48, but for the promise to return): whichever token ends *)
(* a sentence, wherever its bytes end in a frame and whatever the service  *)
(* does, nothing is spoken that was not taken, and nil is returned only    *)
(* when the input is over and every word of it has been spoken.            *)
THEOREM SynthIsTheStage == SynthSpec => Stage!Init /\ [][Stage!Next]_(Stage!stageVars)
BY StageStarts, StageStep, PTL DEF SynthSpec
=============================================================================
