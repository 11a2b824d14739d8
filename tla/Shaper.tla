------------------------------- MODULE Shaper -------------------------------
(***************************************************************************)
(* internal/loadgen/shaper.go: the uplink of a virtual caller.  Its clock  *)
(* has a slot every interval; a shaper delays what is sent in a slot by    *)
(* Delay, by some jitter, and to the end of a hold at the start of every   *)
(* burst window, and keeps the order.  The caller sleeps until the frame   *)
(* is released; when it is behind, it does not sleep at all.               *)
(*                                                                         *)
(* Abstracted: time is in ticks, and passes at any point.                  *)
(***************************************************************************)
EXTENDS Integers, Sequences

CONSTANTS Interval,
          Delay, Jitter, BurstEvery, BurstHold,  \* the Netem, 0: not set
          MaxSlots, MaxWall  \* bounds

ASSUME ShaperAssumption ==
  /\ Interval \in Nat \ {0} /\ Delay \in Nat /\ Jitter \in Nat
  /\ BurstEvery \in Nat /\ BurstHold \in Nat
  /\ MaxSlots \in Nat /\ MaxWall \in Nat

VARIABLES asleep,      \* wait sleeps until lastRelease
          slots,       \* slots used; at 0 neither next nor epoch is set
          next,        \* the ideal time of the next slot
          epoch,       \* the ideal time of the first, the phase of the bursts
          lastIdeal,
          lastRelease, \* 0: none yet
          wall,        \* time.Now()
          sentAt       \* history: frame -> when it was sent

shaperVars == <<asleep, slots, next, epoch, lastIdeal, lastRelease, wall, sentAt>>

ShaperInit ==
  /\ asleep = FALSE /\ slots = 0 /\ next = 0 /\ epoch = 0 /\ lastIdeal = 0
  /\ lastRelease = 0 /\ wall = 0 /\ sentAt = << >>

Larger(a, b) == IF a < b THEN b ELSE a

(* The delays there are for a frame of the slot at ideal, bursts being     *)
(* counted from time from.                                                 *)
Jitters == 0 .. (IF Jitter > 0 THEN Jitter - 1 ELSE 0)
Held(ideal, from) ==
  LET phase == (ideal - from) % BurstEvery
  IN  IF BurstEvery > 0 /\ BurstHold > 0
      THEN IF phase < BurstHold THEN BurstHold - phase ELSE 0
      ELSE 0

(* A mutant: a frame held up by the one before has its own delay on top.   *)
ReleasePiledUp(ideal, from, jitter) ==
  Larger(ideal, lastRelease) + Delay + jitter + Held(ideal, from)

(* release: never before the frame before.                                 *)
Release(ideal, from, jitter) ==
  Larger(ideal + Delay + jitter + Held(ideal, from), lastRelease)

(* clock.wait, up to its sleep.                                            *)
Wait ==
  /\ ~asleep /\ slots < MaxSlots /\ asleep' = TRUE /\ slots' = slots + 1
  /\ LET ideal == IF slots = 0 THEN wall ELSE next
         from == IF slots = 0 THEN ideal ELSE epoch
     IN  /\ epoch' = from /\ lastIdeal' = ideal /\ next' = ideal + Interval
         /\ \E jitter \in Jitters : lastRelease' = Release(ideal, from, jitter)
  /\ UNCHANGED <<wall, sentAt>>

(* sleepUntil is over, and the frame is sent.                              *)
Wake ==
  /\ asleep /\ wall >= lastRelease
  /\ asleep' = FALSE /\ sentAt' = Append(sentAt, wall)
  /\ UNCHANGED <<slots, next, epoch, lastIdeal, lastRelease, wall>>

Elapse ==
  /\ wall < MaxWall /\ wall' = wall + 1
  /\ UNCHANGED <<asleep, slots, next, epoch, lastIdeal, lastRelease, sentAt>>

ShaperNext == Wait \/ Wake \/ Elapse
ShaperSpec == ShaperInit /\ [][ShaperNext]_shaperVars
-----------------------------------------------------------------------------
Longest == Delay + (IF Jitter > 0 THEN Jitter - 1 ELSE 0) + BurstHold

(* Frames keep to the grid of their slots, whatever was late, and a frame  *)
(* that waits for those before it waits no longer than one that is delayed *)
(* by all there is: stalls do not add up (shaper.go 70-72).                *)
StallsDoNotAddUp ==
  slots > 0 =>
    /\ lastIdeal = epoch + (slots - 1) * Interval
    /\ lastIdeal + Delay <= lastRelease /\ lastRelease <= lastIdeal + Longest
=============================================================================
