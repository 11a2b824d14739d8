# VoiceFluxEngine: a verification project

VoiceFluxEngine is a Go server for full-duplex voice conversations. A browser
(or the load generator) opens a WebSocket and streams 20 ms PCM frames up; the
server detects speech, recognises it, asks an LLM, synthesises the answer and
streams it down, and stops talking at once when the user speaks over it
(barge-in). This directory models the parts of it that are hard to test and
checks them with TLC and TLAPS. The repository has no test files, so comments
and documents are the only statements of intent beside the code.

Contents: 1 inventory, 2 plan and structure, 3 modules and code, 4 runs,
5 fairness, 6 proofs, 7 where code and comments disagree, 8 what is not
modelled, 9 what comes next.

## 1. Inventory

| part | source | state | operations | modelled by |
|---|---|---|---|---|
| ring | `internal/ringbuf/ring.go` | per-slot gates, values, `head`, `tail`, `dropped` | `Push`, `Pop` | `Ring`, `DropQueue` |
| buffer pool | `internal/ringbuf/pool.go` | a rejecting ring of free buffers | `Get`, `Put` | `AsrLoop` |
| edge | `internal/pipeline/edge.go` | a ring and a doorbell channel of capacity 1 | `push`, `pop`, `await`, `drain` | `Edge` |
| detector, machine, controller | `internal/vad` | `inSpeech`, `run`; the conversation's state | `Process`, `Apply`, `Ingest`, `ResponseStarted`, `ResponseDone` | `Vad`, `Dialogue` |
| orchestrator | `internal/pipeline/pipeline.go` (`Run`) | current turn, queue of finals, latched `endUtt` and `bargeIn` | the five branches of its `select` | `Dialogue` |
| ASR loop | `pipeline.go` (`runASRLoop`) | the stream's channels, the frame in flight | pump, boundary, hand-over, recycling | `AsrLoop`, `Recognizer`, `Dialogue` |
| response sub-chain | `internal/pipeline/turn.go` | three channels, the turn's context, the first error | LLM, forwarder, TTS, egress pump, `cancelTurn`, `finishTurn` | `Turn`, `ResponseChain`, `Dialogue` |
| session | `internal/session/session.go` | attachment, epoch, wire queue, `closed` | `attach`, `detach`, `close`, `readLoop`, `writeLoop`, `audioPump` | `Session`, `Downlink` |
| manager | `internal/session/manager.go` | the map of sessions, cumulative counters | `Handler`, `resolve`, `reapIdle`, `reclaim`, the sums of a scrape | `Session`, `Counters` |
| frame codec, reader | `internal/transport/frame.go`, `wsconn.go` | the caller's frame buffer | `AppendBinary`, `Decode`, `ReadFrameInto` | `FrameCodec` |
| adapters | `internal/adapter` and its sub-packages | per-stream state | `Stream` | `SherpaAsr`, `Synth` (both TTS clients); the contract in `Turn`, `TtsStage` and `AsrLoop` |
| TTS framer | `internal/adapter/ttsframe.go` | samples sent, bytes left over, the pacing base | `Emit`, `Flush` | `Framer` |
| metrics | `internal/metrics` | counters, histograms | `Observe`, `RecordTurn` | `Histogram` (one histogram) |
| dashboard hub | `internal/metrics/hub.go` | a history and the subscribers' channels | `Publish`, `subscribe`, `unsubscribe`, `ServeHTTP` | `Hub` |
| load generator | `internal/loadgen` | collector, workers, network shaper | one turn of a caller, `release`, the window of two scrapes | `Caller`, `Shaper`, `Histogram` |
| web client | `web/app.js` | playout buffer, subtitles; socket, epoch, tries, timers | playback, capture; `start`, `stop`, `connectWS`, `scheduleReconnect` | `Player`, `Reconnect` |
| configuration, entry points, protobuf | `internal/config`, `cmd/`, `transport/transportpb` | none | | not modelled |

How the parts interact:

* **Uplink.** The socket reader (one per session, handed over on reconnect)
  takes a buffer from the pool, reads a frame into it, runs the detector, may
  call `EndUtterance` or `BargeIn`, and pushes the frame to the ingress edge. The
  ASR loop pops it, hands it to the ASR stream over an unbuffered channel, and
  returns the *previous* buffer to the pool.
* **Conversation.** Reader and orchestrator both drive the machine under its
  mutex, and act on the result after they have released it. The latched
  tokens and the queue of finals reach the orchestrator through one `select`.
* **Downlink.** A turn's pump pushes frames to the egress edge; the session's
  audio pump moves them to the wire queue; the attached writer sends them.
  Subtitles and controls go straight to the wire queue, and are lost if it is full.
* **Lifetime.** A connection resumes a session by its id and a higher epoch; the
  superseded reader must be gone before the new one starts. STOP, the idle
  reaper, a failed pipeline and shutdown all reclaim a session.
* **Observation.** A scrape sums the live sessions' counters and what reclaimed
  ones left; each finished turn is a record that the orchestrator publishes to the
  dashboards. Neither may stop or mislead a session.

What is hard about it: two goroutines on one machine (interleaving, actions
carried out after the lock is released), lock-free slots shared with an evicting
producer, buffers recycled on the strength of an unbuffered send, cancellation
racing with the natural end of a turn, takeover with a mutex held,
reconnects with replayed frames, and a page whose sockets, timers and callbacks
share one variable `ws`. `PROJECT.json` lists these hazards at their lines.

What makes each part correct: the **ring** has one owner per slot and is a
drop-oldest (or rejecting) FIFO queue; the **edge** never sleeps over a frame;
the **machine** never meets an undefined event, never lets the agent talk over
the user and is never left in RESPONDING; a **turn** ends when any stage does,
delivers everything if nothing failed, and never lets the user hear what the
history does not have; the **ASR loop** shares no buffer and mixes no finals;
the **session** has one reader and ingests every frame once; the **downlink** is in
order and falls silent after a barge-in; the **page** is never left without a
socket or a timer; an **exported counter** never says more than was counted, nor
less than it has said, but in the cases its comment leaves out; a **dashboard** sees
records in order and never holds up a turn.

## 2. Plan and structure

The modules were written in this order, the innermost concurrency first:

1. `DropQueue` (abstract) and `Ring` (detailed): every atomic operation of the
   lock-free ring; the ring is a queue from here on.
2. `Edge`: the doorbell over that queue.
3. `Vad` and `Dialogue`: detector, machine, reader, orchestrator and turns. It takes
   the ASR loop and the sub-chain of a turn for small abstract machines.
4. `ResponseChain` (abstract) and `Turn` (detailed): what Dialogue takes a turn for.
5. `Recognizer` (abstract) and `AsrLoop` (detailed): what Dialogue takes the
   ASR loop for, with the buffer pool.
6. `Session`: connections, takeovers and reclaiming.
7. `Player` and `Downlink` (extends it): egress ring to loudspeaker.
8. The adapters: `SherpaAsr`; `Framer`, `TtsStage` (abstract) and `Synth` (detailed,
   extends Framer): the stage Turn takes a TTS for. Then `FrameCodec`, `Histogram`,
   `Caller`, `Shaper`, which stand alone.
9. `Reconnect`: the page's side of what Session answers; `Counters` and `Hub`:
   what the process tells its observers.
10. `*Proofs`: theorems about the modules they extend. `RingProofs`, `DialogueProofs`,
   `TurnProofs`, `AsrLoopProofs`, `SessionProofs` and `DownlinkProofs` (with Player) are
   about one component each, `AdapterProofs` about SherpaAsr, Framer and Synth, `PartsProofs`
   about Edge, Shaper, Hub, Reconnect, Caller, Counters, FrameCodec and Histogram.
   `DialogueProofs` also ties Dialogue
   to Recognizer and ResponseChain.

```
 Downlink --extends--> Player        Dialogue --extends--> Vad
 Ring    --refines--> DropQueue      (Edge, AsrLoop, Dialogue, Downlink use that queue)
 Turn    --refines--> ResponseChain  (the sub-chain inside Dialogue: DialogueTakesChain)
 AsrLoop --refines--> Recognizer     (the ASR loop inside Dialogue: DialogueTakesRecognizer)
 Synth   --refines--> TtsStage       (the TTS stage inside Turn)
 Synth   --extends--> Framer
 MCParts --extends--> Edge, Turn, SherpaAsr, Synth, FrameCodec, Histogram, Caller,
                      Shaper, Reconnect, Counters, Hub
```

The modules `MC*` give model values and symmetry; the `.cfg` files give the bounds.
An operator whose comment begins "A mutant:" is no part of a specification: it is
a plausible bug in the definition that follows or precedes it, and each property
is violated when its mutant takes that definition's place.

## 3. Modules and code

`PROJECT.json` maps every definition to its lines. In short:

**Ring** One action per atomic load, store or CAS of `Push`, `tryPush` and `pop`.
`seq` are the gates, `val` the values, `pc` where each goroutine stands, `pos`
and `reg` its locals. The producer pops too, when it evicts. History: `log` (items in
the order they were published), `got`. Items are numbered by the call that
pushed them. Positions are naturals: the code's `uint64` does not wrap in a
lifetime of 2^64 pushes. The signed difference of `pop` is modelled as such.
**DropQueue** is the queue with atomic push (which may evict), pop and refusal: of a
push that finds it full, or the slot it needs still with the consumer that takes its element.

**Edge** `push` in its two steps (ring, then doorbell), `await` in its three (pop,
wait, woken), and the orchestrator's `drain` beside it.

**Vad, Dialogue** A frame is its level against the two thresholds. `Ingest` is
one frame under the controller's mutex; `Signal` the action carried out after it
is released. `apc` stands for the ASR loop, `opc` for the place of the orchestrator
in `Run`: every branch of `select` is an action, as are the steps of
`cancelTurn` (cancel, await done, drain, end). `SelectDone` and its neighbours
may be taken in any order when several are ready, as Go's `select` does. The reply and the
transcripts are abstracted to whether there is text.

**Turn** Four goroutines and three bounded channels. A token is its place in the
reply, a frame the place up to which it speaks. The adapters do what their
contract lets them: emit, end or fail at any time, and return when cancelled.
**ResponseChain** is a running sub-chain that may push frames and exits, surely so
when cancelled.

**AsrLoop** Buffers are numbers. `free` is the pool's ring, `rbuf` the reader's
buffer, `fr` and `prev` the loop's two, `using` (history) the one the ASR may still
read. The stream, its collector and the boundary are goroutines of their own. A
takeover drops the buffer the superseded reader held. **Recognizer** is the
loop as Dialogue has it: pumping, closing, handing over, failed, stopped.

**Session** Per connection the handler (`hpc`), reader (`rd`) and writer (`wr`); per
session the mutex, the attachment, the epoch, the receive floor, and `ingested`,
what reached the pipeline; per reclaimer the steps of `reclaim` and `close`.
`attach` holds the mutex from `Supersede` to `Bind`. A client may send any
sequence number again after a reconnect.

**Downlink, Player** The turn (frames, subtitles, cancellation and its
notification), the egress ring, the frame in the audio pump's hand, the wire queue, the writers of
successive connections, and the browser's playout buffer. `audio` and `heardOf` are
history: what reached the client, and where BARGE_IN fell in it.

**SherpaAsr** Both goroutines of `Stream`, the dial, the connection and a sidecar that
sends what it wants. **Framer** Chunks of any size, wall time at any
pace. **Synth** `Stream` of both TTS clients: tokens gathered into sentences, a connection or a
request, chunks through the framer, and every place where the service may fail or the
turn be cancelled. `ends` (history) is where the audio of each sentence ends, from which
the refinement knows the words that are spoken. **TtsStage** hears, speaks what it has heard, returns nil
only when all is spoken, and surely returns when cancelled. **FrameCodec** Bytes below a small base and fields of small width, encoder,
whole-message decoder and the two-part reader; powers and numbers read off bytes are recursive functions,
over which one can prove. **Histogram** Observations beside a
scrape that reads bucket by bucket, and the estimated quantile; the exact one is the value whose rank,
counted as the values no larger, is that of the quantile. **Caller** One
virtual caller with its reader goroutine, and beside it a server that does what Dialogue and Downlink
let it: it may pause within an answer for any time, and of an answer that is spoken over one frame, `stray`, may
follow the BARGE_IN. `mishaps` (history) is what has happened so far that may spoil a sample. **Shaper** The
uplink's grid of slots, the delays and the clock.

**Reconnect** Every callback of the page is an action: the two uses of the button, a timer, and
`onopen`, `onerror`, `onclose` and `onmessage` of each socket. `page.ws` is the one variable
that all of them share, so that a late callback of one socket may send on, or hang up,
another. `start()` waits for the microphone between its look at `running` and `connectWS`: `Click` is the
look, `MediaReady` and `MediaRefused` what comes of it, and two calls may overlap. The server is an
environment that does what `Session` does with a START,
a STOP, a time-out and an idle session. The network drops a connection with what is
on its way.

**Counters** One counter of each session, `acc` (the folded sum), a reclaimer's three
steps (out of the map, closed, folded) and the three reads of a scrape. **Hub**
`Publish`, `subscribe` and `unsubscribe` hold the mutex throughout and are one action
each; a replay of the history that does not fit would block with the mutex held, which `held` records.

## 4. Runs

| run | what it checks | bounds |
|---|---|---|
| `ring` | `NoSlotRace`, `PopReadsWhatWasPushed`, `EmptyOnlyWhenEmpty`, `CallsReturn`, and that Ring implements DropQueue, which refuses a push only when it is full or an element is still with its popper | 2 slots, both policies, two poppers beside the producer, 4 pushes: the ring wraps twice |
| `ring_capacity_one` (violation) | `PopReturns` with one slot | 2 pushes, the second over the first item |
| `parts` | `NoLostWakeup`; `HeardIsReply`, `CompleteOnSuccess`, `TurnEnds`, and that Turn implements ResponseChain; `OneFinalLast`, `StreamReturns`; `NoBurst`, and that Synth implements TtsStage; `ReadersAgree`; `QuantileInBucket`; `OwnAnswer`; `StallsDoNotAddUp`; `NeverStranded`; `ReportIsTrue`; `FeedInOrder` | a behaviour is one of one part; the bounds are below |
| `dialogue` | `NoIllegalEvent`, `MachineFollowsTurn`, `NothingStaleInEgress`, `HistoryInOrder`, `BargeInEndsTheTurn`, `RunReturns` | thresholds of 2 frames, 3 stretches of speech, a queue of one final, an egress ring of 2, a history of 2 |
| `dialogue_idle_barge_in` (violation) | `IdleBargeInIsNoOp` | as `dialogue`, 2 frames |
| `asr_loop` | `BuffersApart`, `BuffersBounded`, `FinalOfThisStream`, and that AsrLoop implements Recognizer | ring of 2, pool of 4, 4 frames, a boundary, a takeover |
| `session` | `SingleReader`, `AckCoversTheOld`, `MapAgrees` | 3 connections, 1 session, 3 epochs, one audio frame number, STOP, reaper, pipeline failure |
| `session_live` | `IngestedInOrder`, `ReclaimReleases`, `TakeoverCompletes` | 2 connections, two audio frame numbers in any order and again, no STOP, reaper, pipeline failure |
| `session_stop_deadlock` (violation) | `TakeoverCompletes` with STOP | 2 connections |
| `downlink` | `AudioInOrder`, `SilentAfterBargeIn`, `PlaybackNeverBack` | 2 turns, 3 frames, 2 connections, ring and wire queue of 2, playout depth 2 to 3 |
| `sherpa_send_on_closed` (violation) | `NoSendOnClosed` | out of capacity 1, 4 results |
| `reconnect_lost_ack` (violation) | `SurvivesOutage` | 2 sockets, 2 tries, 1 start, 2 faults |

Why the bounds are enough. In every run each buffer can be full, empty and wrapped
around, and every pair of goroutines that shares state can be anywhere in its
code at once. Two poppers show each race over a slot: a third would meet the same gate.
Up to three stretches of speech give a turn, a barge-in and the turn after it. Three connections
give a takeover of a takeover, the case in which two superseded readers might
coexist, and in which a detach that takes off an attachment not its own lets a third bind beside the second.
Order among ingested frames needs two frame numbers, and two connections to replay them on: these are in
`session_live`. Two turns with a reconnect let the frames of a cancelled turn meet those
of the next on both connections. The `parts` bounds are: edge of 2 with 5
pushes, egress policy; a turn of 3 tokens with token channels of 1 and an audio channel of
2, so that both fill up; 4 results of the sidecar; 2 tokens in up to 2 sentences, chunks of 3
and 4 bytes over frames of 2, so that sentences end within a frame and on its edge, and 5 ticks of time; fields of width 2 over base 2, where a
length can be wrong in either direction and a timestamp negative; 4
observations in 3 buckets; 2 turns of a caller, the second with a barge-in, with answers that pause, come after a time-out
or leave a frame behind; 5 slots of
the shaper with a burst in them; a page with 2 sockets, 2 tries, 2 starts, 2 faults and a
server with 2 sessions and epochs to 3, where a socket of an attempt given up, one
of its retry and a timer coexist and tries run out; 2 sessions that count to
2, reclaimed around 2 scrapes; 2 dashboards with 4 records, a history and channels of 2,
so that the history drops records and a dashboard misses some.

Deadlock is checked in the runs over the ring and the dialogue. The others
really may stop: a session is reclaimed, a stream returns, or a bound on
frames or time is used up.

What the runs found to hold and is easy to get wrong: the detector and the machine
stay in step although the orchestrator changes the machine in between; `ResponseDone`
may find the user speaking and is still legal; draining after `done` leaves
nothing stale; however often a miss allocates and a takeover drops, no more buffers exist than
the pool of twice the ring's capacity holds, so that `Put` has room (with a ring of two, a miss
may find the pool all given out: one buffer more exists, and one `Put` leaves its buffer to the
collector); a page that schedules two
reconnects for one broken connection, or starts twice, still has a socket or a timer, which is not to say that its
sockets leave each other in peace (section 7); a history that
fits into a channel is enough to keep the hub's mutex free; the LastSeq told to a
resuming client is exact, since it is read after the superseded reader is gone.

Every action and every disjunct of a next-state relation is fired by a passing run.

## 5. Fairness

A goroutine that can run is scheduled: weak fairness of each goroutine's steps
(Go's scheduler is preemptive, and channels and mutexes hand over to a waiter).
More is not assumed:

* of an adapter only what `adapter.go` 40-48 asks of it: it returns once its
  context is cancelled, and an ASR or TTS once its input is closed and
  consumed. The TTS clients are shown to return (`ImplementsTtsStage`) when cancelled, and need
  of their service nothing for it; that a TTS with closed input comes to an end, which
  `TurnEnds` uses, does need a service that answers. Nothing makes an LLM end by itself, a stage fail, a user speak,
  a client connect, leave or send STOP, a session fall idle or end;
- `select` with several ready branches takes any: no property relies on which,
  nor on strong fairness of one of them. `BargeInEndsTheTurn` holds all the same
  because the finals, ends and tokens that compete with the barge-in run out;
* a timer fires and a read or write returns when its context is done or its
  connection closed (`Session`, `SherpaAsr`); the collector of a stream takes
  what is in its channel.

Edge, Downlink, FrameCodec, Histogram, Caller, Shaper, Reconnect, Counters and
Hub have safety properties only, and no fairness.

## 6. Proofs

TLAPS proves the following for every value of the constants that the modules'
`ASSUME`s admit. These assumptions are what `config.Validate` and the
constructors let pass, with one exception, stated where it is used: `RingProofs` needs a capacity of
at least 2 (see section 7).

| theorem | statement | argument |
|---|---|---|
| `RingInvariant`, `RingTypes`, `RingNoSlotRace`, `RingPopReadsWhatWasPushed`, `RingEmptyOnlyWhenEmpty` | the ring is safe for any capacity of 2 or more, any number of poppers, either policy | `RingInv`: positions `head .. head+Cap-1` meet every slot once; one below `Len(log)` is published, one above is free or still held by the popper that claimed it a lap ago (`InvFree`), and a popper's stale `head` sees a gate that has moved on (`InvStale`). Slot ownership alone is not inductive: it needs the gates' values |
| `RingIsTheQueue` | Ring implements DropQueue: each atomic step is a push, an eviction, a pop, a refusal or nothing | the queue is `log` from `head` on; a push takes effect at the publishing store, a pop at the successful CAS. That a push is refused only when the queue is full, or an element is still with its popper, is `InvFree` read backwards; that only the producer of a drop-oldest ring evicts is `EvictInv` |
| `RingPopAdvances`, `RingPushRefused` | an access of a pop brings it nearer its return, or another popper has taken the position it had loaded; a push is refused, or evicts, only when the ring is full or a consumer still reads the slot it needs | from `RingInv`: a gate that is neither free nor published belongs to a position already taken |
| `EdgeNoLostWakeup` | no consumer sleeps over a frame with the bell silent and nobody about to ring it | inductive with the types |
| `DialogueInvariant`, `DialogueNoIllegalEvent`, `DialogueDetectorAgrees`, `DialogueMachineFollowsTurn`, `DialogueNothingStale`, `DialogueHistoryInOrder` | the conversation's safety, for all thresholds, capacities and numbers of turns | `DialogueInv`: the machine part is inductive as one formula, since whether an event is legal depends on the detector and on the turn alike; the turn part says the sub-chain has exited before the ring is drained, which keeps stale frames out |
| `RunLeavesNothing` | `Run` returns only with no turn, no sub-chain and the ASR loop over, and waits only for what it has told to end | `RunInv` (what each place of `Run` has left to do) with the turn part of `DialogueInv` |
| `BargeInNotLost` | while a turn is current `Run` only moves towards letting go of it; a latched barge-in stays so until the turn is over or its cancellation begins | the places of `Run` in their order (`PlaceAhead`): with a turn current each branch of `select` ends it or starts to cancel it |
| `DialogueTakesRecognizer`, `DialogueTakesChain` | the ASR loop in Dialogue takes exactly the steps of Recognizer; from its start to its exit the sub-chain of each turn is a ResponseChain, and no turn begins before the one before it has exited | action by action; with `AsrLoopImplements` and `TurnIsTheChain` this says that the safety of Dialogue is that of the detailed loop and sub-chain |
| `TurnTypes`, `TurnHeardIsReply` | what reached the egress ring is in the reply | `TurnInv`: tokens in the two channels carry consecutive places, so that `heard` plus what waits for the TTS is the reply but for the token in the forwarder's hand; frames lie below `spoken`, which lies below `heard` |
| `TurnComplete` | a turn that nobody cancelled and no stage of which failed has delivered the whole reply | `EndInv`: a stage's channel is closed exactly when the stage is done, what a stage has seen to its end is all there was (`InvSeen`), and the last frame on its way, or through, speaks up to `spoken` (`InvLast`) |
| `TurnWindsDown`, `TurnNeverStuck` | every step of a turn brings it nearer its end; once a stage has returned some goroutine can go on until `done` is closed | `Ahead` adds up what each goroutine has before it and what each channel holds, so that a message passed on counts less than before; `Ready` lists the guards of the steps that `Fairness` counts on |
| `TurnIsTheChain` | Turn implements the safety part of ResponseChain | every step maps to a step or a stutter, from the types and `InvClosed` |
| `AsrLoopBuffers`, `AsrLoopBuffersApart` | no buffer is shared or reused too early | `BufInv`: the buffer the ASR reads is the one the loop keeps in `prev` (or, for one step, `fr`) |
| `AsrLoopBuffersBounded`, `AsrLoopPutHasRoom` | no more buffers exist at a time than the pool holds, one more with a ring of two; with a larger ring `Put` always has room | `PoolInv`: a miss finds the pool empty, so what exists is in the ring, with the reader or with the loop, which the bound admits; no other step makes a buffer |
| `AsrLoopFinal` | the final handed over is that of its stream | `FinalInv`: the last transcript of a stream is its final, and sits in `out` or was taken |
| `AsrLoopImplements` | AsrLoop implements the safety part of Recognizer | every step maps to a step or a stutter, from `FinalInv` and `EndInv` |
| `SessionTypes`, `OneReader`, `FramesInOrder`, `MapInAgreement` | one reader at a time; every frame ingested once and in order; the map and the reclaiming agree; for any number of connections, sessions, epochs and reclaimers | `SessionInv`: the mutex is held across steps exactly by an `attach` that waits (`LockInv`), and whoever has not finished reading is the attachment in place (`AttachInv`), so the floor has one writer (`FloorInv`); of the goroutines that reclaim a session exactly one took it out of the map (`ReclaimInv`) |
| `ResumeExact` | the LastSeq told to a resuming client covers all its predecessor ingested | `AckInv`: the frames of a session come from connections that are or were attached, whose epochs lie below that of the one that resumes |
| `TakeoverUnwinds` | a takeover waits for one attachment; nothing but its client's STOP can keep that reader from ending, and it only gets nearer its end | `TakeoverInv`: who is waited for is stale, cancelled and closed, and none of that is taken back |
| `StopDeadlocks` | once a STOP has taken the superseded reader into `Session.close`, the two wait for each other in every later state | only `attach` itself releases the mutex. The run `session_stop_deadlock` finds the state, the theorem says that nobody ever ends it |
| `ReclaimUnwinds` | a closed session has left the map, its mutex is free, its context is done or one `Shut` away, every connection it has left can take a step, none is attached to it again, and its readers only get nearer their ends | `ReleaseInv`: a session is closed once, by a reclaimer that finds its mutex free, and counted only with its context done; so a takeover and a STOP can lock each other only before the session is closed |
| `DownlinkTypes`, `AudioArrivesInOrder`, `SilentOnceInterrupted`, `PlaybackNeverRewinds` | the way from egress ring to loudspeaker, for any number of connections and turns and any capacities | `DownlinkInv`: what is further on its way comes before what is behind it, stage by stage (`OrderInv`), and playback lies below it all (`PlayInv`); once a BARGE_IN is in the wire queue its turn is over upstream but for the one frame in the pump's hand, a bound which travels with the message to the client (`BargeInv`) |
| `SherpaOneFinalLast` | a successful stream of the ASR client sends one final, last: the first segment the sidecar finished or else the last partial | `SherpaInv`: where that segment is, place by place; by the time `Stream` chooses, the reader goroutine is over |
| `SherpaNeverStuck`, `SherpaPanicsOnlyOnFailure` | with its input ended or its context cancelled the stream always has something that can go on, and passes its stages in one direction; only a stream that failed or was cancelled leaves a reader that may send on the closed channel | `ReturnInv`: where `Stream` waits for its reader it has told it to end, or the reader is over |
| `FramerNoBurst` | the framer is never ahead of real time by more than its lead | `FramerInv`: a frame that is being paced is due at most one frame later than any sent before it. The bound alone is not inductive, for it says nothing of `start`, which a stall moves |
| `SynthIsTheStage` | Synth implements the safety part of TtsStage: only what was heard is spoken, and success means all of it | `StageInv`: every sentence ends before the frame after next, so the words carried by the frames sent can be counted by bytes; needs the framer's invariant for what is carried over |
| `ShaperStallsDoNotAddUp` | the uplink keeps to its grid | `Grid` ties the next slot to the count of frames sent |
| `HubInvariant`, `HubFeedInOrder` | every dashboard's feed is in order and complete but for what found its channel full, and no subscribe is stuck, for any number of dashboards | `HubInv`: the history is the last records, and a dashboard that is away has an empty feed, so that what a subscriber is sent first continues into what is published next |
| `ReconnectNeverStranded` | a running page has a socket that is not over, or a timer, for any number of sockets, tries and faults | `StandInv`: every place where a socket becomes free schedules a reconnect or stops the page, whichever socket `page.ws` names by then |
| `CallerOwnAnswer` | a caller samples its own answers, whatever pauses, stragglers and full channels there are, unless a phase timed out, the next turn began in a pause of an answer, or a straggler was stamped | `CallerInv`: what may be on its way in each phase of a turn (`CallerPhase`). While none of the three has happened a stamp from the mark on is of the utterance spoken last, which holds across a barge-in since its BARGE_IN separates the answers, and across turns since the answer is over when quiet is found |
| `CountersReportIsTrue` | an exported counter never overstates, and dips only in the two excluded cases, for any number of sessions and scrapes | `CountersInv`: folded, lost and not yet folded make up all that was counted, and a scrape under way has, with what it has left to read, no more than that, and no less than an earlier report |
| `DecodeEncode`, `EncodeDecode`, `CodecReadersAgree` | for every base and every width: what a peer encodes is decoded to the frame it was encoded from, what is accepted encodes to that very message, and the two-part reader accepts what the whole-message decoder does, whatever the capacity of its buffer | digits and number determine each other (induction over the width), a number of w digits lies below `Pow[w]`; the reader has taken the header, or header and payload, off a message that `Decode` splits in the same places |
| `HistogramQuantileInBucket` | for all bounds, observations and quantiles the estimate lies in the bucket of the exact quantile of the window, which holds what was observed between the reads of each bucket | the cumulative count of a bucket is the number of values of the window up to its bound, so that the target bucket is the first whose count reaches the rank; a value of that rank exists since counts rise by steps |

The operators are proved about through small lemmas on sequences (a message taken
from a channel moves the rest up, one put in leaves them), each stated once. Induction is
available over sets: `SubsetInduction` (what holds of a finite set when it holds of all its proper subsets)
follows from the absence of a least counterexample, and `LeastNat` and `NatSetInduction` say the
same of sets of naturals. A property is a set, not an operator, so the provers can
use them. From these come the sums of Counters over any finite set of sessions (`SumUnique`,
`SumExists`, `SumChanges`, `SumMonotone`), and what the recursive functions of FrameCodec and
Histogram compute for every width and any number of buckets.

Liveness under fairness cannot be proved here, but what is hard about it often is safety: that
no goroutine waits for one that will not go on, and that each that goes on gets nearer
its end. The theorems `RingPopAdvances`, `TurnWindsDown` with
`TurnNeverStuck`, `TakeoverUnwinds`, `ReclaimUnwinds`, `RunLeavesNothing`, `BargeInNotLost` and `SherpaNeverStuck` state
this half of `CallsReturn` (of a pop), `TurnEnds`, `TakeoverCompletes`, `ReclaimReleases`, `RunReturns`,
`BargeInEndsTheTurn` and `StreamReturns`. What can go on is stated as guards listed one by one (`Ready`, `ReaderEnds`,
`MayLeave`, `CanReturn`), not with ENABLED; that a step which can be taken is taken is the part that fairness adds
and TLC checks.

One proof attempt corrected the model. It was to show that `Put` never finds
the pool full, which held in the run with its bounds of then; with the smallest ring and one frame more it is
false: reader, ring and loop then hold all four buffers, a miss allocates a fifth, and
one of the five is left to the collector. `BuffersBounded` says what is true for every
ring, `AsrLoopPutHasRoom` is the former statement for all but the smallest, and the run has the bounds
that show the difference.

**Only model-checked:**

* liveness: `CallsReturn`, `TurnEnds`, `StreamReturns`, `RunReturns`, `BargeInEndsTheTurn`,
  `ReclaimReleases`, `TakeoverCompletes`, and the fair halves of
  `ImplementsResponseChain`, `ImplementsTtsStage` and `ImplementsRecognizer`: fairness and ENABLED are out of the prover's reach;
* the five statements of section 7, which are false.

Every invariant and every action property that a passing run checks is proved.

## 7. Where code and comments disagree

Five runs are expected to fail, each on a statement of the source:

1. **A ring of capacity 1** (`ring_capacity_one`). `New` and `Validate` accept it, but a
   free slot's gate `lap+cap` then equals a published slot's `h+1`. A second push takes the only
   slot for free and overwrites the item in it, without counting a drop; this leaves `head` 0, `tail` 2 and
   gate 2, and `Pop`, for which a gate above `head+1` means that `head` has moved, retries forever
   (`ring.go` 135-136: it never blocks). `Pop` on a one-slot ring without items returns false.
2. **BargeIn while idle** (`dialogue_idle_barge_in`). The token stays latched, and
   if a final is served first it cancels the next turn (`pipeline.go` 126-127:
   a no-op when idle).
3. **STOP against a takeover** (`session_stop_deadlock`). The reader that got STOP
   waits for the session's mutex, which `attach` holds while it waits for
   that reader (`session.go` 149-150: that path does not take the mutex).
4. **Send on a closed channel** (`sherpa_send_on_closed`). Five returns of the sherpa
   ASR's `Stream` leave its reader goroutine behind, which may send on `out`
   after the caller has closed it (`adapter.go` 43-44).
5. **A lost acknowledgement** (`reconnect_lost_ack`). The page claims the last acknowledged
   epoch plus one (`app.js` 300). If the server takes that claim and the connection fails
   before the page hears of it, the next claim is the same, `attach` refuses it
   (`session.go` 141), and the page stops on the ERROR although its session is
   live (`docs/M8-session-design.md` 21: after a short outage the same conversation goes on in
   place; `manager.go` 180: a client that is refused tries again).

Smaller ones, met while modelling and not stated as runs:

* one audio frame of a cancelled turn may follow its BARGE_IN, the one in the audio
  pump's hand (`session.go` 333-341). `worker.go` 296-298 says that whatever arrives after the
  BARGE_IN is of the new turn, and 299-303 takes the frame for the first response to the utterance that interrupted.
  `SilentAfterBargeIn` allows that one frame and no other; `OwnAnswer` excepts a caller that has stamped one;
* `worker.go` 367-368 takes `QuietGap` (350 ms) without audio for the end of the response. Nothing keeps a response
  from pausing that long between two sentences; the next turn then begins over it, and samples what is left
  of it. `OwnAnswer` excepts a caller that has gone on in a pause;
* after a time-out the load generator's caller waits for quiet only for a while,
  and an answer that comes later still counts for the next turn
  (`worker.go` 101-104: best effort; `OwnAnswer` excepts a caller that has timed out). Each of
  these three exceptions is needed: without it `OwnAnswer` is violated;
* `sherpa.go` 17-19 says that the sidecar's finished segments are all handled as partials. `asr.go` 82-88 and 128-162
  forward none of them: the first becomes the stream's only final, and the text of every later one is
  dropped, so an utterance with a pause in it that the sidecar takes for an end has as its final what came
  before the pause. `OneFinalLast` states what the code does, which is also what `asr.go` 44-45 says;
* `report.go` 57 indexes a percentile by `int(q*n+0.5)`, which is not the nearest rank;
* the counters a manager exports dip while a session moves from the map to the
  folded sums (`manager.go` 244-256), and lose what its goroutines count after that,
  although `manager.go` 249-250 calls them monotone; `ReportIsTrue` excludes these two cases and no other;
* `app.js` 295 and 309 may both start a reconnect for one broken connection, and so use up
  two tries (`Reconnect` has both). If the second is opened when the first is acknowledged,
  two live sockets claim one session: each takeover closes the other socket, whose `onclose` starts the next
  attempt, and each acknowledgement resets the count of tries (`app.js` 370-372), so that they may supersede
  each other for as long as the page is open. `NeverStranded` does not speak of this;
* nothing waits for the reclaiming of sessions at shutdown, which `main.go` 67 speaks of;
* a push refused by a rejecting edge is ignored by both callers, although
  `config.go` 46-47 speaks of backpressure;
* `TTSStartAt` is stamped after the hand-over to the TTS (`turn.go` 135), so that a share of the
  latency may come out negative;
* `finishTurn` never cancels its turn's context (`turn.go` 82), which stays registered
  until the session ends;
* the audio pump stamps frames when it takes them, so frames shed by
  the egress ring leave no gap in the timestamps;
* BARGE_IN is dropped if the wire queue is full (`session.go` 368), and the
  client is not told.

## 8. What is not modelled, and why

* **WebSocket server, commands, configuration, protobuf**: pure I/O, wiring, start-up
  validation and generated code. The constants stand for the settings.
* **The LLM client, the mocks, the registry**: their
  `Stream` is within what `Turn` lets a stage do; the lines of the LLM's event stream are not modelled.
* **Runtime gauges and `RecordTurn`**: the gauges read the runtime; `RecordTurn`
  observes into histograms (`Histogram`) and publishes (`Hub`), one after the other.
* **Load generator harness and report**: one goroutine ramps the callers up, and a
  collector whose every method holds one mutex takes their samples; the percentile and the search for the
  knee are pure, sequential and in floating point, and the rest is layout.
* **The browser's capture and drawing**: devices and pixels. Of the devices only how long `start`
  waits for them and that they may be refused is in `Reconnect`. The server's side of two clients in one session is in `Session`.
* **Abstractions throughout**: text is its place or whether there is any; audio is a
  level, a number or a turn; latency milestones and wall clocks are left out except where a
  module is about time; pings end a writer as any failure does.
* **Composition**: Session, Dialogue, Downlink and Reconnect are checked apart. Their interfaces
  are a single reader that pushes in order (`SingleReader`), an atomic egress
  queue (`Ring`), and a pipeline that returns when cancelled (`RunReturns`). Reconnect
  has the answers of the server as single steps, which Session takes apart.

## 9. What comes next

1. `NothingStaleInEgress` and `AudioInOrder` as one statement: Dialogue and Downlink meet in the egress
   ring, each with a simplified other side.
2. A measure for the producer of the ring, as there is for a pop, so that only the fairness of
   `CallsReturn` is left to TLC.
3. The analysis of a load test (`report.go`: percentile and knee) against a reference
   definition over small inputs, and liveness of the edge beside its producer.
