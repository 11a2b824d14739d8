------------------------------ MODULE DropQueue ------------------------------
(***************************************************************************)
(* What internal/ringbuf promises: a bounded FIFO queue with one producer. *)
(* Push appends; Pop takes the oldest element; while a Push is under way   *)
(* under drop_oldest the producer may take the oldest elements out, each    *)
(* one counted.  Nothing is lost, duplicated or reordered in between, and  *)
(* a push is refused only when the queue is full or an element is still    *)
(* with the consumer that takes it.                                        *)
(***************************************************************************)
EXTENDS Naturals, Sequences

CONSTANTS Cap, Policies, Producer, Consumers, MaxPush, None

VARIABLES dropOldest, \* the policy
          queue,    \* the elements accepted and not yet taken, oldest first
          pushing,  \* TRUE from the call of Push to its outcome
          hand,     \* goroutine -> the element it has taken, or None
          dropped,  \* elements evicted
          calls,    \* calls of Push so far
          got       \* consumer -> the elements returned to it

qvars == <<dropOldest, queue, pushing, hand, dropped, calls, got>>

Init ==
  /\ dropOldest \in Policies /\ queue = << >> /\ pushing = FALSE
  /\ hand = [p \in {Producer} \cup Consumers |-> None]
  /\ dropped = 0 /\ calls = 0
  /\ got = [c \in Consumers |-> << >>]

BeginPush ==
  /\ ~pushing /\ calls < MaxPush
  /\ pushing' = TRUE /\ calls' = calls + 1
  /\ UNCHANGED <<dropOldest, queue, hand, dropped, got>>

Accept ==
  /\ pushing /\ hand[Producer] = None /\ Len(queue) < Cap
  /\ pushing' = FALSE /\ queue' = Append(queue, calls)
  /\ UNCHANGED <<dropOldest, hand, dropped, calls, got>>

Refuse ==
  /\ pushing /\ ~dropOldest
  /\ Len(queue) = Cap \/ \E c \in Consumers : hand[c] # None
  /\ pushing' = FALSE
  /\ UNCHANGED <<dropOldest, queue, hand, dropped, calls, got>>

Claim(p) ==
  /\ queue # << >> /\ hand[p] = None
  /\ p = Producer => pushing /\ dropOldest
  /\ hand' = [hand EXCEPT ![p] = Head(queue)]
  /\ queue' = Tail(queue)
  /\ UNCHANGED <<dropOldest, pushing, dropped, calls, got>>

Return(c) ==
  /\ hand[c] # None
  /\ got' = [got EXCEPT ![c] = Append(@, hand[c])]
  /\ hand' = [hand EXCEPT ![c] = None]
  /\ UNCHANGED <<dropOldest, queue, pushing, dropped, calls>>

Discard ==
  /\ hand[Producer] # None
  /\ hand' = [hand EXCEPT ![Producer] = None]
  /\ dropped' = dropped + 1
  /\ UNCHANGED <<dropOldest, queue, pushing, calls, got>>

Next ==
  \/ BeginPush \/ Accept \/ Refuse \/ Discard
  \/ \E p \in {Producer} \cup Consumers : Claim(p)
  \/ \E c \in Consumers : Return(c)

Spec == Init /\ [][Next]_qvars
=============================================================================
