-------------------------------- MODULE Edge --------------------------------
(***************************************************************************)
(* internal/pipeline/edge.go: a ring and a doorbell of capacity one.  The  *)
(* producer pushes and rings; the consumer parks on the bell when it finds *)
(* the ring empty; on the egress edge the orchestrator drains beside it.   *)
(*                                                                         *)
(* The ring is the atomic queue that Ring is shown to implement.  Frames   *)
(* are numbered in the order they are offered.                             *)
(***************************************************************************)
EXTENDS Integers, Sequences

CONSTANTS Cap,        \* capacity of the ring
          DropOldest, \* TRUE: policy drop_oldest, FALSE: policy reject
          MaxPush     \* bound: frames the producer offers

ASSUME EdgeAssumption ==
  Cap \in Nat \ {0} /\ DropOldest \in BOOLEAN /\ MaxPush \in Nat

VARIABLES queue,    \* the ring
          bell,     \* the bell channel holds its token
          dropped,  \* frames evicted
          ppc,      \* producer: "idle", or about to "ring"
          cpc,      \* consumer: "idle", or in await: "pop", "empty", "park", "failed"
          dpc,      \* the drainer: "idle" or in the loop of "drain"
          waitDone, \* the context of await is cancelled
          offered,  \* history: frames offered
          got,      \* history: the frames await returned
          drained   \* history: the number of frames drain discarded

edgeVars == <<queue, bell, dropped, ppc, cpc, dpc, waitDone, offered, got, drained>>

EdgeInit ==
  /\ queue = << >> /\ bell = FALSE /\ dropped = 0
  /\ ppc = "idle" /\ cpc = "idle" /\ dpc = "idle" /\ waitDone = FALSE
  /\ offered = 0 /\ got = << >> /\ drained = 0
-----------------------------------------------------------------------------
Full == Len(queue) = Cap

(* edge.push: the ring evicts under drop_oldest, and refuses under reject; *)
(* the bell rings only for a frame that got in.  Both callers ignore what  *)
(* push returns.                                                           *)
Push ==
  /\ ppc = "idle" /\ offered < MaxPush
  /\ offered' = offered + 1
  /\ \/ /\ ~Full \/ DropOldest
        /\ queue' = Append(IF Full THEN Tail(queue) ELSE queue, offered + 1)
        /\ dropped' = IF Full THEN dropped + 1 ELSE dropped
        /\ ppc' = "ring"
     \/ Full /\ ~DropOldest /\ UNCHANGED <<queue, dropped, ppc>>
  /\ UNCHANGED <<bell, cpc, dpc, waitDone, got, drained>>

(* A mutant: the bell is not latched, it only reaches a parked consumer.   *)
RingBellUnlatched ==
  /\ ppc = "ring"
  /\ bell' = (bell \/ cpc = "park") /\ ppc' = "idle"
  /\ UNCHANGED <<queue, dropped, cpc, dpc, waitDone, offered, got, drained>>

(* A send to a channel of capacity one, dropped when the token is there.   *)
RingBell ==
  /\ ppc = "ring"
  /\ bell' = TRUE /\ ppc' = "idle"
  /\ UNCHANGED <<queue, dropped, cpc, dpc, waitDone, offered, got, drained>>
-----------------------------------------------------------------------------
CallAwait ==
  /\ cpc = "idle"
  /\ cpc' = "pop"
  /\ UNCHANGED <<queue, bell, dropped, ppc, dpc, waitDone, offered, got, drained>>

(* The pop of await: a frame is returned, or the ring was empty.           *)
AwaitPop ==
  /\ cpc = "pop"
  /\ \/ /\ queue # << >>
        /\ got' = Append(got, Head(queue)) /\ queue' = Tail(queue)
        /\ cpc' = "idle"
     \/ queue = << >> /\ cpc' = "empty" /\ UNCHANGED <<queue, got>>
  /\ UNCHANGED <<bell, dropped, ppc, dpc, waitDone, offered, drained>>

(* The consumer enters the select; until then nothing can wake it.         *)
Park ==
  /\ cpc = "empty"
  /\ cpc' = "park"
  /\ UNCHANGED <<queue, bell, dropped, ppc, dpc, waitDone, offered, got, drained>>

AwaitBell ==
  /\ cpc = "park" /\ bell
  /\ bell' = FALSE /\ cpc' = "pop"
  /\ UNCHANGED <<queue, dropped, ppc, dpc, waitDone, offered, got, drained>>

AwaitCancelled ==
  /\ cpc = "park" /\ waitDone
  /\ cpc' = "failed"
  /\ UNCHANGED <<queue, bell, dropped, ppc, dpc, waitDone, offered, got, drained>>
-----------------------------------------------------------------------------
CallDrain ==
  /\ dpc = "idle"
  /\ dpc' = "drain"
  /\ UNCHANGED <<queue, bell, dropped, ppc, cpc, waitDone, offered, got, drained>>

DrainPop ==
  /\ dpc = "drain"
  /\ \/ queue # << >> /\ queue' = Tail(queue) /\ drained' = drained + 1 /\ dpc' = dpc
     \/ queue = << >> /\ dpc' = "idle" /\ UNCHANGED <<queue, drained>>
  /\ UNCHANGED <<bell, dropped, ppc, cpc, waitDone, offered, got>>

Cancel ==
  /\ ~waitDone /\ waitDone' = TRUE
  /\ UNCHANGED <<queue, bell, dropped, ppc, cpc, dpc, offered, got, drained>>
-----------------------------------------------------------------------------
Consumer == AwaitPop \/ Park \/ AwaitBell \/ AwaitCancelled

EdgeNext ==
  \/ Push \/ RingBell \/ CallAwait \/ Consumer \/ CallDrain \/ DrainPop \/ Cancel

EdgeSpec == EdgeInit /\ [][EdgeNext]_edgeVars
-----------------------------------------------------------------------------
EdgeTypeOK ==
  /\ queue \in Seq(Nat) /\ Len(queue) <= Cap /\ bell \in BOOLEAN /\ dropped \in Nat
  /\ ppc \in {"idle", "ring"} /\ cpc \in {"idle", "pop", "empty", "park", "failed"}
  /\ dpc \in {"idle", "drain"} /\ waitDone \in BOOLEAN
  /\ offered \in Nat /\ got \in Seq(Nat) /\ drained \in Nat

(* No lost wakeup: a consumer is never parked over a frame without a token *)
(* in the bell, or a producer about to put one there (edge.go: a push      *)
(* between "ring empty" and "parked" is never missed).                     *)
NoLostWakeup ==
  cpc \in {"empty", "park"} /\ queue # << >> => bell \/ ppc = "ring"
=============================================================================
