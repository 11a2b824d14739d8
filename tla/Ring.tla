-------------------------------- MODULE Ring --------------------------------
(***************************************************************************)
(* The bounded lock-free ring of internal/ringbuf/ring.go, one action per  *)
(* atomic operation or plain slot access of the code.  The producer runs   *)
(* Push; the consumers run Pop (the transport pump, and the orchestrator   *)
(* when cancelTurn drains the egress ring beside it).  Under the policy    *)
(* drop_oldest the producer runs pop() too, to evict.                      *)
(*                                                                         *)
(* The n-th call of Push pushes the item n, so items are told apart and    *)
(* their order is the order of the calls.  Cursors and sequence numbers    *)
(* are naturals: uint64 wrap-around after 2^64 pushes is not modelled.     *)
(***************************************************************************)
EXTENDS Naturals, Sequences

CONSTANTS Cap,        \* capacity given to New
          Policies,   \* the policies New is given: TRUE drops the oldest,
                      \* FALSE rejects
          Producer,   \* the goroutine that calls Push
          Consumers,  \* the goroutines that call Pop
          MaxPush     \* bound: how many times Push is called

(* New accepts the positive powers of two, 1 included; a position is       *)
(* reduced by a mask there and modulo Cap here, which needs no such power. *)
ASSUME RingAssumption ==
  /\ Cap \in Nat \ {0}
  /\ Policies \subseteq BOOLEAN
  /\ Producer \notin Consumers
  /\ MaxPush \in Nat

VARIABLES seq,      \* slot index -> its sequence gate (slot.seq)
          val,      \* slot index -> its element (slot.val), Zero when wiped
          tail,     \* next write position
          head,     \* next read position
          dropOldest, \* the policy of this ring
          dropped,  \* elements evicted
          pc,       \* goroutine -> where it is in Push / Pop
          pos,      \* goroutine -> the h it loaded in pop()
          reg,      \* goroutine -> the v it read in pop()
          calls,    \* history: calls of Push so far; the current one pushes it
          log,      \* history: the items published, in order of position
          got       \* history: consumer -> the items Pop returned to it

ringVars == <<seq, val, tail, head, dropOldest, dropped>>
histVars == <<calls, log, got>>
vars == <<seq, val, tail, head, dropOldest, dropped, pc, pos, reg, calls, log, got>>

Procs == {Producer} \cup Consumers
Slots == 0 .. Cap - 1
Idx(p) == p % Cap
Zero == 0

Init ==
  /\ seq = [i \in Slots |-> i]
  /\ val = [i \in Slots |-> Zero]
  /\ tail = 0 /\ head = 0 /\ dropped = 0 /\ dropOldest \in Policies
  /\ pc = [p \in Procs |-> "idle"]
  /\ pos = [p \in Procs |-> 0]
  /\ reg = [p \in Procs |-> Zero]
  /\ calls = 0 /\ log = << >>
  /\ got = [c \in Consumers |-> << >>]

Goto(p, l) == pc' = [pc EXCEPT ![p] = l]
-----------------------------------------------------------------------------
(* Push and tryPush.  Only the producer writes tail, so its loads of tail  *)
(* are folded into the next access.                                        *)

BeginPush ==
  /\ pc[Producer] = "idle" /\ calls < MaxPush
  /\ calls' = calls + 1
  /\ Goto(Producer, "try")
  /\ UNCHANGED <<ringVars, pos, reg, log, got>>

(* A mutant: tryPush without its look at the slot's gate.                  *)
TryPushUngated ==
  /\ pc[Producer] = "try"
  /\ Goto(Producer, "fill")
  /\ UNCHANGED <<ringVars, pos, reg, histVars>>

(* The load of the slot's gate and what Push does on its outcome: fill the *)
(* slot, give up (reject), or evict (drop_oldest).                         *)
TryPush ==
  /\ pc[Producer] = "try"
  /\ \/ seq[Idx(tail)] = tail /\ Goto(Producer, "fill")
     \/ seq[Idx(tail)] # tail /\ dropOldest /\ Goto(Producer, "loadHead")
     \/ seq[Idx(tail)] # tail /\ ~dropOldest /\ Goto(Producer, "idle")
  /\ UNCHANGED <<ringVars, pos, reg, histVars>>

Fill ==
  /\ pc[Producer] = "fill"
  /\ val' = [val EXCEPT ![Idx(tail)] = calls]
  /\ Goto(Producer, "publish")
  /\ UNCHANGED <<dropOldest, seq, tail, head, dropped, pos, reg, histVars>>

Publish ==
  /\ pc[Producer] = "publish"
  /\ seq' = [seq EXCEPT ![Idx(tail)] = tail + 1]
  /\ log' = Append(log, calls)
  /\ Goto(Producer, "advance")
  /\ UNCHANGED <<dropOldest, val, tail, head, dropped, pos, reg, calls, got>>

Advance ==
  /\ pc[Producer] = "advance"
  /\ tail' = tail + 1
  /\ Goto(Producer, "idle")
  /\ UNCHANGED <<dropOldest, seq, val, head, dropped, pos, reg, histVars>>
-----------------------------------------------------------------------------
(* pop, run by the consumers and, to evict, by the producer.               *)

BeginPop(c) ==
  /\ pc[c] = "idle"
  /\ Goto(c, "loadHead")
  /\ UNCHANGED <<ringVars, pos, reg, histVars>>

LoadHead(p) ==
  /\ pc[p] = "loadHead"
  /\ pos' = [pos EXCEPT ![p] = head]
  /\ Goto(p, "loadSeq")
  /\ UNCHANGED <<ringVars, reg, histVars>>

(* Where a goroutine goes when its pop found the ring empty: Pop returns   *)
(* false, while an evicting producer tries its push again.                 *)
AfterPop(p) == IF p = Producer THEN "try" ELSE "idle"

(* A mutant: a stale head is taken for an empty ring, not reloaded.        *)
LoadSeqNoRetry(p) ==
  /\ pc[p] = "loadSeq"
  /\ Goto(p, IF seq[Idx(pos[p])] = pos[p] + 1 THEN "cas" ELSE AfterPop(p))
  /\ UNCHANGED <<ringVars, pos, reg, histVars>>

(* The signed difference of the gate and h + 1: empty, stale, or ready.    *)
LoadSeq(p) ==
  /\ pc[p] = "loadSeq"
  /\ \/ seq[Idx(pos[p])] < pos[p] + 1 /\ Goto(p, AfterPop(p))
     \/ seq[Idx(pos[p])] > pos[p] + 1 /\ Goto(p, "loadHead")
     \/ seq[Idx(pos[p])] = pos[p] + 1 /\ Goto(p, "cas")
  /\ UNCHANGED <<ringVars, pos, reg, histVars>>

(* A mutant: head is stored, not compared and swapped.                     *)
CasHeadBlind(p) ==
  /\ pc[p] = "cas"
  /\ head' = pos[p] + 1
  /\ Goto(p, "take")
  /\ UNCHANGED <<dropOldest, seq, val, tail, dropped, pos, reg, histVars>>

CasHead(p) ==
  /\ pc[p] = "cas"
  /\ \/ head = pos[p] /\ head' = head + 1 /\ Goto(p, "take")
     \/ head # pos[p] /\ head' = head /\ Goto(p, "loadHead")
  /\ UNCHANGED <<dropOldest, seq, val, tail, dropped, pos, reg, histVars>>

Take(p) ==
  /\ pc[p] = "take"
  /\ reg' = [reg EXCEPT ![p] = val[Idx(pos[p])]]
  /\ Goto(p, "wipe")
  /\ UNCHANGED <<ringVars, pos, histVars>>

Wipe(p) ==
  /\ pc[p] = "wipe"
  /\ val' = [val EXCEPT ![Idx(pos[p])] = Zero]
  /\ Goto(p, "release")
  /\ UNCHANGED <<dropOldest, seq, tail, head, dropped, pos, reg, histVars>>

(* A mutant: the slot is freed for this lap again, not for the next one.   *)
ReleaseSameLap(p) ==
  /\ pc[p] = "release"
  /\ seq' = [seq EXCEPT ![Idx(pos[p])] = pos[p]]
  /\ \/ p = Producer /\ Goto(p, "count") /\ UNCHANGED got
     \/ /\ p \in Consumers /\ Goto(p, "idle")
        /\ got' = [got EXCEPT ![p] = Append(@, reg[p])]
  /\ UNCHANGED <<dropOldest, val, tail, head, dropped, pos, reg, calls, log>>

(* The gate is raised for the next lap; Pop returns what it read.          *)
Release(p) ==
  /\ pc[p] = "release"
  /\ seq' = [seq EXCEPT ![Idx(pos[p])] = pos[p] + Cap]
  /\ \/ p = Producer /\ Goto(p, "count") /\ UNCHANGED got
     \/ /\ p \in Consumers /\ Goto(p, "idle")
        /\ got' = [got EXCEPT ![p] = Append(@, reg[p])]
  /\ UNCHANGED <<dropOldest, val, tail, head, dropped, pos, reg, calls, log>>

(* A mutant: an eviction gives up the push.                                *)
CountThenReturn ==
  /\ pc[Producer] = "count"
  /\ dropped' = dropped + 1
  /\ Goto(Producer, "idle")
  /\ UNCHANGED <<dropOldest, seq, val, tail, head, pos, reg, calls, log, got>>

(* After a successful eviction: dropped.Add(1), then tryPush again.        *)
Count ==
  /\ pc[Producer] = "count"
  /\ dropped' = dropped + 1
  /\ Goto(Producer, "try")
  /\ UNCHANGED <<dropOldest, seq, val, tail, head, pos, reg, calls, log, got>>
-----------------------------------------------------------------------------
PopStep(p) ==
  \/ LoadHead(p) \/ LoadSeq(p) \/ CasHead(p)
  \/ Take(p) \/ Wipe(p) \/ Release(p)

PushStep == TryPush \/ Fill \/ Publish \/ Advance \/ Count

Next ==
  \/ BeginPush
  \/ PushStep
  \/ \E c \in Consumers : BeginPop(c)
  \/ \E p \in Procs : PopStep(p)

Spec == Init /\ [][Next]_vars

(* A goroutine inside a call is scheduled until the call returns; nothing  *)
(* obliges anyone to call Push or Pop.                                     *)
Fairness ==
  /\ WF_vars(PushStep \/ PopStep(Producer))
  /\ \A c \in Consumers : WF_vars(PopStep(c))

FairSpec == Spec /\ Fairness
-----------------------------------------------------------------------------
Labels == {"idle", "try", "fill", "publish", "advance", "count",
           "loadHead", "loadSeq", "cas", "take", "wipe", "release"}

(* The type invariant: every variable has its type, the producer alone is  *)
(* inside Push.                                                            *)
TypeOK ==
  /\ seq \in [Slots -> Nat]
  /\ val \in [Slots -> Nat]
  /\ tail \in Nat /\ head \in Nat /\ dropped \in Nat /\ dropOldest \in BOOLEAN
  /\ pc \in [Procs -> Labels]
  /\ \A c \in Consumers : pc[c] \notin {"try", "fill", "publish", "advance", "count"}
  /\ pos \in [Procs -> Nat]
  /\ reg \in [Procs -> Nat]
  /\ calls \in Nat
  /\ log \in Seq(Nat)
  /\ got \in [Consumers -> Seq(Nat)]

(* A goroutine that won the CAS on head owns its slot until it raises the  *)
(* gate (ring.go: "whoever wins the CAS owns the slot").                   *)
Owns(p) == pc[p] \in {"take", "wipe", "release"}

(* No two goroutines ever touch the val of one slot at the same time: not  *)
(* two poppers, not a popper and the producer filling it.  This is the     *)
(* claim of ring.go that eviction cannot race with a consumer's copy.      *)
NoSlotRace ==
  /\ \A p, q \in Procs :
       p # q /\ Owns(p) /\ Owns(q) => Idx(pos[p]) # Idx(pos[q])
  /\ pc[Producer] \in {"fill", "publish"} =>
       \A p \in Procs : Owns(p) => Idx(pos[p]) # Idx(tail)

(* Pop never returns torn, wiped or overwritten data: what a popper has    *)
(* read is the item that was published at the position it claimed.         *)
PopReadsWhatWasPushed ==
  \A p \in Procs :
    pc[p] \in {"wipe", "release"} =>
      pos[p] < Len(log) /\ reg[p] = log[pos[p] + 1]

(* Pop reports an empty ring only when it is empty at that moment: a head  *)
(* moved by an eviction is told apart from emptiness by the signed         *)
(* difference of pop(), and the popper retries.                            *)
EmptyOnlyWhenEmpty ==
  [][\A p \in Procs :
       pc[p] = "loadSeq" /\ pc'[p] = AfterPop(p) => head = Len(log)]_vars

(* A call of Push returns, also when it has to evict.                      *)
PushReturns == (pc[Producer] # "idle") ~> (pc[Producer] = "idle")

(* A call of Pop returns: "it never blocks" (ring.go 135-136).  With one   *)
(* slot it may not: published and free then have the same gate, a second   *)
(* push overwrites the item in the slot, and Pop, which expects the gate   *)
(* of the item overwritten, retries for ever.                              *)
PopReturns == \A c \in Consumers : (pc[c] # "idle") ~> (pc[c] = "idle")

(* A call of Push returns, and so does a call of Pop: the retry loops of   *)
(* push and pop end once the others are scheduled (lock-free, and wait     *)
(* free against finitely many pushes).                                     *)
CallsReturn == PushReturns /\ PopReturns
-----------------------------------------------------------------------------
(* The inductive invariant.  The window of positions head .. head+Cap-1    *)
(* meets every slot once: a position below Len(log) is published, one      *)
(* above it is free, or still held by the goroutine that claimed it a lap  *)
(* before.                                                                 *)

InvCursors ==
  /\ Len(log) = IF pc[Producer] = "advance" THEN tail + 1 ELSE tail
  /\ head <= Len(log) /\ Len(log) <= head + Cap

InvPublished ==
  \A q \in head .. Len(log) - 1 :
    seq[Idx(q)] = q + 1 /\ val[Idx(q)] = log[q + 1]

InvOwned ==
  \A p \in Procs : Owns(p) =>
    /\ pos[p] < head /\ Len(log) <= pos[p] + Cap
    /\ seq[Idx(pos[p])] = pos[p] + 1
    /\ pc[p] = "take" => val[Idx(pos[p])] = log[pos[p] + 1]
    /\ pc[p] # "take" => reg[p] = log[pos[p] + 1]

InvDistinct ==
  \A p, q \in Procs : p # q /\ Owns(p) /\ Owns(q) => pos[p] # pos[q]

InvFree ==
  \A q \in Len(log) .. head + Cap - 1 :
    seq[Idx(q)] = q \/ \E p \in Procs : Owns(p) /\ pos[p] + Cap = q

InvFill ==
  /\ pc[Producer] \in {"fill", "publish"} =>
       seq[Idx(tail)] = tail /\ tail < head + Cap
  /\ pc[Producer] = "publish" => val[Idx(tail)] = calls

InvStale ==
  \A p \in Procs : pc[p] \in {"loadSeq", "cas"} =>
    /\ pos[p] <= head
    /\ pc[p] = "cas" => pos[p] < Len(log)
    /\ pos[p] < head => seq[Idx(pos[p])] >= pos[p] + 1

RingInv ==
  /\ TypeOK /\ InvCursors /\ InvPublished /\ InvOwned /\ InvDistinct
  /\ InvFree /\ InvFill /\ InvStale
-----------------------------------------------------------------------------
(* The ring implements the atomic queue of DropQueue: an item is queued by *)
(* the store that publishes it and leaves the queue by the CAS on head.    *)
Hand(p) ==
  IF Owns(p) \/ pc[p] = "count" THEN log[pos[p] + 1] ELSE Zero

Queue == INSTANCE DropQueue WITH
  queue   <- SubSeq(log, head + 1, Len(log)),
  pushing <- pc[Producer] \in (Labels \ {"idle", "advance"}),
  hand    <- [p \in Procs |-> Hand(p)],
  None    <- Zero

ImplementsDropQueue == Queue!Spec
=============================================================================
