------------------------------- MODULE Framer -------------------------------
(***************************************************************************)
(* internal/adapter/ttsframe.go, PCMFramer: synthesised PCM comes in       *)
(* chunks of any size, faster or slower than it plays, and leaves in whole *)
(* frames, stamped by the count of samples and paced so that what is sent  *)
(* runs ahead of real time by Lead at most.  One framer serves the         *)
(* sentences of one Stream, in Synth.                                      *)
(*                                                                         *)
(* Abstracted: bytes are counted, not kept; time is in ticks, of which a   *)
(* frame lasts FrameTicks.  Wall time passes at any point, so a sentence   *)
(* may be late and the receiver of out slow.                               *)
(***************************************************************************)
EXTENDS Integers, Sequences

CONSTANTS FrameBytes,  \* bytesPerFrame()
          FrameTicks,  \* FrameDuration
          Lead,
          ChunkSizes,  \* the sizes of the chunks, in bytes
          MaxBytes, MaxTime  \* bounds

ASSUME FramerAssumption ==
  /\ FrameBytes \in Nat \ {0} /\ FrameTicks \in Nat \ {0} /\ Lead \in Nat
  /\ ChunkSizes \subseteq Nat /\ MaxBytes \in Nat /\ MaxTime \in Nat

VARIABLES fpc,       \* "idle", in Emit: "loop", "pace", "send"; "flushed", "canceled"
          carry,     \* the bytes that do not make a frame yet
          total,     \* the frames made, by which the next one is stamped
          start,     \* when the stream started, moved when synthesis fell behind
          target,    \* of the frame being paced
          now,       \* the wall clock
          taken,     \* history: bytes that came in
          ahead,     \* history: how far the last frame sent was ahead of the clock
          lowest     \* history: the least of that among the frames sent

framerVars == <<fpc, carry, total, start, target, now, taken, ahead, lowest>>

FramerInit ==
  /\ fpc = "idle" /\ carry = 0 /\ total = 0 /\ start = 0 /\ target = 0 /\ now = 0
  /\ taken = 0 /\ ahead = 0 /\ lowest = 0

FramePos == total * FrameTicks

(* A frame leaves now; the history of it.                                  *)
Leaves ==
  /\ ahead' = FramePos - now
  /\ lowest' = IF total = 0 \/ ahead' < lowest THEN ahead' ELSE lowest
-----------------------------------------------------------------------------
(* Emit: the chunk joins the bytes carried over.                           *)
Chunk(n) ==
  /\ fpc = "idle" /\ taken + n <= MaxBytes
  /\ taken' = taken + n /\ carry' = carry + n /\ fpc' = "loop"
  /\ UNCHANGED <<total, start, target, now, ahead, lowest>>

(* A mutant: the start stays where it is when synthesis falls behind.      *)
PaceFixedStart ==
  /\ fpc = "loop" /\ carry >= FrameBytes
  /\ LET s == IF total = 0 THEN now ELSE start
     IN start' = s /\ target' = s + FramePos
  /\ carry' = carry - FrameBytes /\ fpc' = "pace"
  /\ UNCHANGED <<total, now, taken, ahead, lowest>>

(* A frame is due at start plus its place in the stream; when that is past *)
(* the start is moved so that it is due now.                               *)
Pace ==
  /\ fpc = "loop" /\ carry >= FrameBytes
  /\ LET s == IF total = 0 THEN now ELSE start
     IN  IF now > s + FramePos THEN start' = now - FramePos /\ target' = now
         ELSE start' = s /\ target' = s + FramePos
  /\ carry' = carry - FrameBytes /\ fpc' = "pace"
  /\ UNCHANGED <<total, now, taken, ahead, lowest>>

EmitReturns ==
  /\ fpc = "loop" /\ carry < FrameBytes /\ fpc' = "idle"
  /\ UNCHANGED <<carry, total, start, target, now, taken, ahead, lowest>>

(* The sleep ends Lead before the frame is due.                            *)
PaceOver ==
  /\ fpc = "pace" /\ target <= now + Lead /\ fpc' = "send" /\ target' = 0
  /\ UNCHANGED <<carry, total, start, now, taken, ahead, lowest>>

SendFrame ==
  /\ fpc = "send"
  /\ Leaves
  /\ total' = total + 1 /\ fpc' = "loop"
  /\ UNCHANGED <<carry, start, target, now, taken>>

(* Flush: the rest, filled up with silence, is sent without pacing.        *)
FlushFrame ==
  /\ fpc = "idle" /\ fpc' = "flushed" /\ carry' = 0
  /\ IF carry = 0 THEN UNCHANGED <<ahead, lowest>> ELSE Leaves
  /\ UNCHANGED <<total, start, target, now, taken>>

EmitCanceled ==
  /\ fpc \in {"pace", "send"} /\ fpc' = "canceled"
  /\ UNCHANGED <<carry, total, start, target, now, taken, ahead, lowest>>

Tick ==
  /\ now < MaxTime /\ now' = now + 1
  /\ UNCHANGED <<fpc, carry, total, start, target, taken, ahead, lowest>>
-----------------------------------------------------------------------------
(* Between any two frames no more audio is sent than plays in the time     *)
(* between them, Lead, and one frame more (two with the unpaced one that   *)
(* ends the stream): a sentence that came late, however late, and a        *)
(* receiver that was slow are not followed by a burst, which would push    *)
(* the start of the sentence out of the egress ring (ttsframe.go 55).      *)
NoBurst == ahead - lowest <= Lead + (IF fpc = "flushed" THEN 2 ELSE 1) * FrameTicks
=============================================================================
