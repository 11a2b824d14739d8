----------------------------- MODULE RingProofs -----------------------------
(***************************************************************************)
(* Proofs about Ring, for every capacity of at least 2, every number of    *)
(* consumers and every number of pushes: who owns a slot, what a pop       *)
(* reads, and that the ring is the atomic queue of DropQueue.              *)
(***************************************************************************)
EXTENDS Ring, SequenceTheorems, TLAPS

LEMMA CapIsNat == Cap \in Nat /\ Cap >= 1
BY RingAssumption

LEMMA ProcsFacts ==
  /\ Producer \in Procs
  /\ \A c \in Consumers : c \in Procs /\ c # Producer
  /\ \A p \in Procs : p # Producer => p \in Consumers
BY RingAssumption DEF Procs

LEMMA IdxInSlots ==
  \A p \in Nat : Idx(p) \in Slots
BY RingAssumption DEF Idx, Slots

LEMMA Division ==
  ASSUME NEW p \in Nat
  PROVE  \E a \in Nat : p = Cap * a + Idx(p)
<1>1. p \div Cap \in Nat
  BY RingAssumption
<1>2. p = Cap * (p \div Cap) + (p % Cap)
  BY RingAssumption
<1> QED
  BY <1>1, <1>2 DEF Idx

LEMMA Multiples ==
  ASSUME NEW a \in Nat, NEW b \in Nat, a < b
  PROVE  Cap * a + Cap <= Cap * b
<1> DEFINE d == b - (a + 1)
<1>1. d \in Nat /\ b = a + 1 + d
  OBVIOUS
<1>2. Cap * (a + 1 + d) = Cap * a + Cap + Cap * d
  BY <1>1, RingAssumption
<1>3. Cap * d >= 0 /\ Cap * d \in Nat
  BY <1>1, RingAssumption
<1>4. Cap * a \in Nat /\ Cap \in Nat
  BY RingAssumption
<1> QED
  BY <1>1, <1>2, <1>3, <1>4

LEMMA IdxApart ==
  ASSUME NEW p \in Nat, NEW q \in Nat, p < q, q < p + Cap
  PROVE  Idx(p) # Idx(q)
<1>1. PICK a \in Nat : p = Cap * a + Idx(p)
  BY Division
<1>2. PICK b \in Nat : q = Cap * b + Idx(q)
  BY Division
<1>3. Cap * a \in Nat /\ Cap * b \in Nat /\ Cap \in Nat
  BY RingAssumption
<1>4. Idx(p) \in Nat /\ Idx(q) \in Nat
  BY IdxInSlots, RingAssumption DEF Slots
<1>5. CASE a < b
  BY <1>1, <1>2, <1>3, <1>4, <1>5, Multiples
<1>6. CASE b < a
  BY <1>1, <1>2, <1>3, <1>4, <1>6, Multiples
<1>7. CASE a = b
  BY <1>1, <1>2, <1>3, <1>4, <1>7
<1> QED
  BY <1>5, <1>6, <1>7

LEMMA IdxNextLap ==
  ASSUME NEW p \in Nat
  PROVE  Idx(p + Cap) = Idx(p)
<1>0. Cap \in Nat /\ p + Cap \in Nat
  BY RingAssumption
<1>1. PICK a \in Nat : p = Cap * a + Idx(p)
  BY Division
<1>2. PICK b \in Nat : p + Cap = Cap * b + Idx(p + Cap)
  BY <1>0, Division
<1>3. Cap * (a + 1) = Cap * a + Cap
  BY <1>0
<1>4. Idx(p) \in 0 .. Cap - 1 /\ Idx(p + Cap) \in 0 .. Cap - 1
  BY <1>0, IdxInSlots DEF Slots
<1>5. Cap * a \in Nat /\ Cap * b \in Nat /\ Cap * (a + 1) \in Nat
  BY <1>0
<1>6. CASE a + 1 < b
  BY <1>0, <1>1, <1>2, <1>3, <1>4, <1>5, <1>6, Multiples
<1>7. CASE b < a + 1
  BY <1>0, <1>1, <1>2, <1>3, <1>4, <1>5, <1>7, Multiples
<1>8. CASE b = a + 1
  BY <1>0, <1>1, <1>2, <1>3, <1>4, <1>5, <1>8
<1> QED
  BY <1>6, <1>7, <1>8
-----------------------------------------------------------------------------
(* Every step of the ring keeps the types of its variables.                *)
LEMMA TypeStep ==
  ASSUME TypeOK, [Next]_vars
  PROVE  TypeOK'
<1> USE CapIsNat, ProcsFacts DEF TypeOK, Labels, Goto, ringVars, histVars
<1>a. tail \in Nat /\ Idx(tail) \in Slots
  <2>1. tail \in Nat
    OBVIOUS
  <2> QED
    BY ONLY <2>1, IdxInSlots
<1>b. ASSUME NEW p \in Procs
      PROVE  pos[p] \in Nat /\ Idx(pos[p]) \in Slots
  <2>1. pos[p] \in Nat
    OBVIOUS
  <2> QED
    BY ONLY <2>1, IdxInSlots
<1>1. CASE BeginPush
  BY <1>1 DEF BeginPush
<1>2. CASE TryPush
  BY <1>2 DEF TryPush
<1>3. CASE Fill
  BY <1>3, <1>a DEF Fill
<1>4. CASE Publish
  BY <1>4, <1>a DEF Publish
<1>5. CASE Advance
  BY <1>5 DEF Advance
<1>6. CASE Count
  BY <1>6 DEF Count
<1>7. ASSUME NEW c \in Consumers, BeginPop(c) PROVE TypeOK'
  BY <1>7 DEF BeginPop
<1>8. ASSUME NEW p \in Procs, PopStep(p) PROVE TypeOK'
  <2>1. CASE LoadHead(p)
    BY <2>1 DEF LoadHead
  <2>2. CASE LoadSeq(p)
    BY <2>2 DEF LoadSeq, AfterPop
  <2>3. CASE CasHead(p)
    <3>1. head' \in Nat
      BY <2>3 DEF CasHead
    <3>2. pc' \in [Procs -> Labels]
      BY <2>3 DEF CasHead
    <3> QED
      BY <2>3, <3>1, <3>2 DEF CasHead
  <2>4. CASE Take(p)
    BY <2>4, <1>b DEF Take
  <2>5. CASE Wipe(p)
    BY <2>5, <1>b DEF Wipe, Zero
  <2>6. CASE Release(p)
    <3>1. seq' \in [Slots -> Nat]
      BY <2>6, <1>b DEF Release
    <3>2. pc' \in [Procs -> Labels]
      BY <2>6 DEF Release
    <3>3. got' \in [Consumers -> Seq(Nat)]
      <4>1. CASE got' = [got EXCEPT ![p] = Append(@, reg[p])] /\ p \in Consumers
        <5>1. Append(got[p], reg[p]) \in Seq(Nat)
          BY <4>1
        <5> QED
          BY <4>1, <5>1
      <4>2. CASE UNCHANGED got
        BY <4>2
      <4> QED
        BY <2>6, <4>1, <4>2 DEF Release
    <3> QED
      BY <2>6, <3>1, <3>2, <3>3 DEF Release
  <2> QED
    BY <1>8, <2>1, <2>2, <2>3, <2>4, <2>5, <2>6 DEF PopStep
<1>9. CASE UNCHANGED vars
  BY <1>9 DEF vars
<1> QED
  BY <1>1, <1>2, <1>3, <1>4, <1>5, <1>6, <1>7, <1>8, <1>9 DEF Next, PushStep
-----------------------------------------------------------------------------
(* The numbers the invariant speaks of.                                    *)
LEMMA Numbers ==
  ASSUME TypeOK
  PROVE  /\ head \in Nat /\ tail \in Nat /\ Len(log) \in Nat /\ calls \in Nat
         /\ \A p \in Procs : pos[p] \in Nat /\ reg[p] \in Nat
         /\ \A i \in Slots : seq[i] \in Nat /\ val[i] \in Nat
BY DEF TypeOK

(* The slot of a goroutine that owns one is nobody else's: not another     *)
(* owner's, not a published position's, not the slot being filled.         *)
LEMMA OwnersApart ==
  ASSUME RingInv, NEW p \in Procs, NEW q \in Procs, p # q, Owns(p), Owns(q)
  PROVE  Idx(pos[p]) # Idx(pos[q])
<1>1. /\ pos[p] \in Nat /\ pos[q] \in Nat /\ pos[p] # pos[q]
      /\ head \in Nat /\ Len(log) \in Nat /\ head <= Len(log)
      /\ pos[p] < head /\ pos[q] < head
      /\ Len(log) <= pos[p] + Cap /\ Len(log) <= pos[q] + Cap
  BY Numbers DEF RingInv, InvOwned, InvDistinct, InvCursors
<1>2. CASE pos[p] < pos[q]
  BY ONLY <1>1, <1>2, IdxApart, CapIsNat
<1>3. CASE pos[q] < pos[p]
  BY ONLY <1>1, <1>3, IdxApart, CapIsNat
<1> QED
  BY ONLY <1>1, <1>2, <1>3

LEMMA OwnerOffPublished ==
  ASSUME RingInv, NEW p \in Procs, Owns(p), NEW q \in head .. Len(log) - 1
  PROVE  Idx(pos[p]) # Idx(q)
<1>1. /\ pos[p] \in Nat /\ head \in Nat /\ Len(log) \in Nat
      /\ pos[p] < head /\ Len(log) <= pos[p] + Cap
  BY Numbers DEF RingInv, InvOwned
<1>2. q \in Nat /\ pos[p] < q /\ q < pos[p] + Cap
  BY ONLY <1>1, CapIsNat, q \in head .. Len(log) - 1
<1> QED
  BY ONLY <1>1, <1>2, IdxApart

LEMMA OwnerOffFree ==
  ASSUME RingInv, NEW p \in Procs, Owns(p),
         NEW q \in Len(log) .. head + Cap - 1, q # pos[p] + Cap
  PROVE  Idx(pos[p]) # Idx(q)
<1> DEFINE o == pos[p] + Cap
<1>1. /\ pos[p] \in Nat /\ head \in Nat /\ Len(log) \in Nat /\ head <= Len(log)
      /\ pos[p] < head /\ Len(log) <= o
  BY Numbers DEF RingInv, InvOwned, InvCursors
<1>2. q \in Nat /\ o \in Nat /\ o < q + Cap /\ q < o + Cap /\ q # o
  BY ONLY <1>1, CapIsNat, q \in Len(log) .. head + Cap - 1, q # o
<1>3. Idx(o) = Idx(pos[p])
  BY ONLY <1>1, IdxNextLap
<1> HIDE DEF o
<1>4. CASE o < q
  BY ONLY <1>2, <1>3, <1>4, IdxApart
<1>5. CASE q < o
  BY ONLY <1>2, <1>3, <1>5, IdxApart
<1> QED
  BY ONLY <1>2, <1>4, <1>5

LEMMA OwnerOffFill ==
  ASSUME RingInv, Cap >= 2, NEW p \in Procs, Owns(p),
         pc[Producer] \in {"fill", "publish"}
  PROVE  Idx(pos[p]) # Idx(tail)
<1>1. /\ pos[p] \in Nat /\ head \in Nat /\ tail \in Nat
      /\ seq[Idx(pos[p])] = pos[p] + 1 /\ seq[Idx(tail)] = tail
  BY Numbers DEF RingInv, InvOwned, InvFill
<1>2. SUFFICES ASSUME Idx(pos[p]) = Idx(tail) PROVE FALSE
  OBVIOUS
<1>3. tail = pos[p] + 1
  BY ONLY <1>1, <1>2
<1>4. pos[p] < tail /\ tail < pos[p] + Cap
  BY ONLY <1>1, <1>3, Cap >= 2, CapIsNat
<1> QED
  BY ONLY <1>1, <1>2, <1>4, IdxApart
-----------------------------------------------------------------------------
(* What holds of the slots survives a step that leaves them, the read      *)
(* cursor and the claims alone.                                            *)
Quiet ==
  /\ UNCHANGED <<seq, val, head, log>>
  /\ \A p \in Procs : Owns(p)' = Owns(p)
  /\ \A p \in Procs : Owns(p) => pos'[p] = pos[p]
                             /\ (pc'[p] = "take") = (pc[p] = "take")
                             /\ reg'[p] = reg[p]

LEMMA QuietStep ==
  ASSUME RingInv, Quiet
  PROVE  InvPublished' /\ InvOwned' /\ InvDistinct' /\ InvFree'
<1>1. InvPublished'
  BY DEF RingInv, InvPublished, Quiet
<1>2. InvOwned'
  BY DEF RingInv, InvOwned, Quiet
<1>3. InvDistinct'
  BY DEF RingInv, InvDistinct, Quiet
<1>4. InvFree'
  BY DEF RingInv, InvFree, Quiet
<1> QED
  BY <1>1, <1>2, <1>3, <1>4

LEMMA BeginPushStep ==
  ASSUME RingInv, BeginPush
  PROVE  InvCursors' /\ InvFill' /\ InvStale' /\ Quiet
BY ProcsFacts DEF RingInv, TypeOK, BeginPush, Goto, ringVars, InvCursors, InvFill,
   InvStale, Quiet, Owns

LEMMA AdvanceStep ==
  ASSUME RingInv, Advance
  PROVE  InvCursors' /\ InvFill' /\ InvStale' /\ Quiet
BY ProcsFacts DEF RingInv, TypeOK, Advance, Goto, histVars, InvCursors, InvFill,
   InvStale, Quiet, Owns

LEMMA CountStep ==
  ASSUME RingInv, Count
  PROVE  InvCursors' /\ InvFill' /\ InvStale' /\ Quiet
BY ProcsFacts DEF RingInv, TypeOK, Count, Goto, InvCursors, InvFill, InvStale,
   Quiet, Owns

LEMMA BeginPopStep ==
  ASSUME RingInv, NEW c \in Consumers, BeginPop(c)
  PROVE  InvCursors' /\ InvFill' /\ InvStale' /\ Quiet
BY ProcsFacts DEF RingInv, TypeOK, BeginPop, Goto, ringVars, histVars, InvCursors,
   InvFill, InvStale, Quiet, Owns

LEMMA LoadHeadStep ==
  ASSUME RingInv, NEW p \in Procs, LoadHead(p)
  PROVE  InvCursors' /\ InvFill' /\ InvStale' /\ Quiet
<1> USE ProcsFacts DEF RingInv, TypeOK, LoadHead, Goto, ringVars, histVars
<1>1. InvCursors' /\ Quiet
  BY DEF InvCursors, Quiet, Owns
<1>2. InvFill'
  BY DEF InvFill
<1>3. InvStale'
  BY DEF InvCursors, InvStale
<1> QED
  BY <1>1, <1>2, <1>3

(* The gate of the slot at tail is open only if the window reaches tail:   *)
(* otherwise the slot holds the published element at head, whose gate is   *)
(* head + 1, and head + 1 = head + Cap only when Cap = 1.                  *)
LEMMA OpenGate ==
  ASSUME RingInv, Cap >= 2, pc[Producer] = "try", seq[Idx(tail)] = tail
  PROVE  tail < head + Cap
<1>1. /\ head \in Nat /\ tail \in Nat /\ Len(log) = tail
      /\ head <= tail /\ tail <= head + Cap
  BY Numbers DEF RingInv, InvCursors
<1>2. SUFFICES ASSUME tail = head + Cap PROVE FALSE
  BY <1>1, CapIsNat
<1>3. Idx(tail) = Idx(head)
  BY ONLY <1>1, <1>2, IdxNextLap
<1>4. head \in head .. Len(log) - 1
  BY ONLY <1>1, <1>2, CapIsNat
<1>5. seq[Idx(head)] = head + 1
  BY <1>4 DEF RingInv, InvPublished
<1> QED
  BY ONLY <1>1, <1>2, <1>3, <1>5, Cap >= 2, CapIsNat, seq[Idx(tail)] = tail

LEMMA TryPushStep ==
  ASSUME RingInv, Cap >= 2, TryPush
  PROVE  InvCursors' /\ InvFill' /\ InvStale' /\ Quiet
<1>1. seq[Idx(tail)] = tail => tail < head + Cap
  BY OpenGate DEF TryPush
<1>2. /\ UNCHANGED <<ringVars, pos, reg, histVars>> /\ pc[Producer] = "try"
      /\ \A q \in Procs : q # Producer => pc'[q] = pc[q]
      /\ pc'[Producer] \in {"fill", "idle", "loadHead"}
      /\ pc'[Producer] = "fill" => seq[Idx(tail)] = tail /\ tail < head + Cap
  BY <1>1, ProcsFacts DEF RingInv, TypeOK, TryPush, Goto
<1>3. InvCursors' /\ InvFill' /\ Quiet
  BY <1>2, ProcsFacts DEF RingInv, ringVars, histVars, InvCursors, InvFill, Quiet, Owns
<1>4. InvStale'
  BY <1>2, ProcsFacts DEF RingInv, ringVars, histVars, InvStale
<1> QED
  BY <1>3, <1>4

(* A gate that shows the loaded position published: it is, whether head    *)
(* has moved on or not.                                                    *)
LEMMA SeenPublished ==
  ASSUME RingInv, NEW p \in Procs, pc[p] = "loadSeq",
         seq[Idx(pos[p])] = pos[p] + 1, Cap >= 2
  PROVE  pos[p] < Len(log)
<1>1. /\ pos[p] \in Nat /\ head \in Nat /\ Len(log) \in Nat
      /\ pos[p] <= head /\ head <= Len(log) /\ Cap \in Nat
  BY Numbers, CapIsNat DEF RingInv, InvStale, InvCursors
<1>2. SUFFICES ASSUME pos[p] = head, head = Len(log) PROVE FALSE
  BY <1>1
<1>3. head \in Len(log) .. head + Cap - 1
  BY ONLY <1>1, <1>2, Cap >= 2
<1>4. \/ seq[Idx(head)] = head
      \/ \E r \in Procs : Owns(r) /\ pos[r] + Cap = head
  BY <1>3 DEF RingInv, InvFree
<1>5. CASE seq[Idx(head)] = head
  BY ONLY <1>1, <1>2, <1>5, seq[Idx(pos[p])] = pos[p] + 1
<1>6. ASSUME NEW r \in Procs, Owns(r), pos[r] + Cap = head PROVE FALSE
  <2>1. seq[Idx(pos[r])] = pos[r] + 1 /\ pos[r] \in Nat
    BY <1>6, Numbers DEF RingInv, InvOwned
  <2>2. Idx(pos[r]) = Idx(head)
    BY ONLY <2>1, <1>6, IdxNextLap
  <2> QED
    BY ONLY <1>1, <1>2, <1>6, <2>1, <2>2, Cap >= 2, seq[Idx(pos[p])] = pos[p] + 1
<1> QED
  BY <1>4, <1>5, <1>6

LEMMA LoadSeqStep ==
  ASSUME RingInv, Cap >= 2, NEW p \in Procs, LoadSeq(p)
  PROVE  InvCursors' /\ InvFill' /\ InvStale' /\ Quiet
<1>1. seq[Idx(pos[p])] = pos[p] + 1 => pos[p] < Len(log)
  BY SeenPublished DEF LoadSeq
<1>2. /\ UNCHANGED <<ringVars, pos, reg, histVars>> /\ pc[p] = "loadSeq"
      /\ \A q \in Procs : q # p => pc'[q] = pc[q]
      /\ pc'[p] \in {"try", "idle", "loadHead", "cas"}
      /\ pc'[p] = "cas" => pos[p] < Len(log)
  BY <1>1 DEF RingInv, TypeOK, LoadSeq, AfterPop, Goto
<1>3. InvCursors' /\ InvFill' /\ Quiet
  BY <1>2, ProcsFacts DEF RingInv, ringVars, histVars, InvCursors, InvFill, Quiet, Owns
<1>4. InvStale'
  BY <1>2 DEF RingInv, ringVars, histVars, InvStale
<1> QED
  BY <1>3, <1>4
-----------------------------------------------------------------------------
(* The steps that write a slot or move the read cursor.                    *)
SlotInv == InvPublished /\ InvOwned /\ InvDistinct /\ InvFree

LEMMA FillStep ==
  ASSUME RingInv, Cap >= 2, Fill
  PROVE  InvCursors' /\ InvFill' /\ InvStale' /\ SlotInv'
<1>1. /\ UNCHANGED <<seq, tail, head, log, calls, pos, reg>>
      /\ pc[Producer] = "fill" /\ pc'[Producer] = "publish"
      /\ \A q \in Procs : q # Producer => pc'[q] = pc[q]
      /\ \A q \in Procs : Owns(q)' = Owns(q) /\ (Owns(q) => pc'[q] = pc[q])
  BY ProcsFacts DEF RingInv, TypeOK, Fill, Goto, histVars, Owns
<1>2. /\ head \in Nat /\ tail \in Nat /\ Len(log) = tail
      /\ tail < head + Cap /\ seq[Idx(tail)] = tail
  BY <1>1, Numbers DEF RingInv, InvCursors, InvFill
<1>3. Idx(tail) \in Slots
  BY ONLY <1>2, IdxInSlots
<1>4. /\ val'[Idx(tail)] = calls
      /\ \A i \in Slots : i # Idx(tail) => val'[i] = val[i]
  BY <1>3 DEF RingInv, TypeOK, Fill
<1>5. InvCursors' /\ InvStale'
  BY <1>1, ProcsFacts DEF RingInv, InvCursors, InvStale
<1>6. InvFill'
  BY <1>1, <1>2, <1>4 DEF InvFill
<1>7. ASSUME NEW q \in head .. Len(log) - 1
      PROVE  val'[Idx(q)] = val[Idx(q)]
  <2>1. q \in Nat /\ q < tail /\ tail < q + Cap
    BY ONLY <1>2, <1>7, CapIsNat
  <2>2. Idx(q) # Idx(tail) /\ Idx(q) \in Slots
    BY ONLY <1>2, <2>1, IdxApart, IdxInSlots
  <2> QED
    BY <1>4, <2>2
<1>8. InvPublished'
  BY <1>1, <1>7 DEF RingInv, InvPublished
<1>9. ASSUME NEW p \in Procs, Owns(p)
      PROVE  val'[Idx(pos[p])] = val[Idx(pos[p])]
  <2>1. Idx(pos[p]) # Idx(tail)
    BY <1>1, <1>9, OwnerOffFill
  <2>2. Idx(pos[p]) \in Slots
    BY Numbers, IdxInSlots DEF RingInv
  <2> QED
    BY <1>4, <2>1, <2>2
<1>10. InvOwned'
  BY <1>1, <1>9 DEF RingInv, InvOwned
<1>11. InvDistinct' /\ InvFree'
  BY <1>1 DEF RingInv, InvDistinct, InvFree
<1> QED
  BY <1>5, <1>6, <1>8, <1>10, <1>11 DEF SlotInv

LEMMA PublishStep ==
  ASSUME RingInv, Cap >= 2, Publish
  PROVE  InvCursors' /\ InvFill' /\ InvStale' /\ SlotInv'
<1>1. /\ UNCHANGED <<val, tail, head, calls, pos, reg>>
      /\ pc[Producer] = "publish" /\ pc'[Producer] = "advance"
      /\ \A q \in Procs : q # Producer => pc'[q] = pc[q]
      /\ \A q \in Procs : Owns(q)' = Owns(q) /\ (Owns(q) => pc'[q] = pc[q])
  BY ProcsFacts DEF RingInv, TypeOK, Publish, Goto, Owns
<1>2. /\ head \in Nat /\ tail \in Nat /\ Len(log) = tail /\ head <= tail
      /\ tail < head + Cap /\ seq[Idx(tail)] = tail /\ val[Idx(tail)] = calls
  BY <1>1, Numbers DEF RingInv, InvCursors, InvFill
<1>3. Idx(tail) \in Slots
  BY ONLY <1>2, IdxInSlots
<1>4. /\ seq'[Idx(tail)] = tail + 1
      /\ \A i \in Slots : i # Idx(tail) => seq'[i] = seq[i]
  BY <1>3 DEF RingInv, TypeOK, Publish
<1>5. /\ Len(log') = tail + 1 /\ log'[tail + 1] = calls
      /\ \A q \in 0 .. tail - 1 : log'[q + 1] = log[q + 1]
  BY <1>2 DEF RingInv, TypeOK, Publish
<1>6. InvCursors' /\ InvFill'
  BY <1>1, <1>2, <1>5, CapIsNat DEF InvCursors, InvFill
<1>7. ASSUME NEW q \in Nat, Idx(q) # Idx(tail) PROVE seq'[Idx(q)] = seq[Idx(q)]
  BY <1>4, <1>7, IdxInSlots
<1>8. InvPublished'
  <2> SUFFICES ASSUME NEW q \in head .. tail
               PROVE  seq'[Idx(q)] = q + 1 /\ val[Idx(q)] = log'[q + 1]
    BY <1>1, <1>2, <1>5 DEF InvPublished
  <2>1. CASE q = tail
    BY <1>2, <1>4, <1>5, <2>1
  <2>2. CASE q # tail
    <3>1. /\ q \in Nat /\ q < tail /\ tail < q + Cap
          /\ q \in 0 .. tail - 1 /\ q \in head .. Len(log) - 1
      BY ONLY <1>2, <2>2, CapIsNat, q \in head .. tail
    <3>2. Idx(q) # Idx(tail)
      BY ONLY <1>2, <3>1, IdxApart
    <3> QED
      BY <1>5, <1>7, <3>1, <3>2 DEF RingInv, InvPublished
  <2> QED
    BY <2>1, <2>2
<1>9. InvOwned'
  <2> SUFFICES ASSUME NEW p \in Procs, Owns(p)
               PROVE  /\ tail + 1 <= pos[p] + Cap
                      /\ seq'[Idx(pos[p])] = seq[Idx(pos[p])]
                      /\ log'[pos[p] + 1] = log[pos[p] + 1]
    BY <1>1, <1>5 DEF RingInv, InvOwned
  <2>1. Idx(pos[p]) # Idx(tail)
    BY <1>1, OwnerOffFill
  <2>2. pos[p] \in Nat /\ pos[p] < head /\ tail <= pos[p] + Cap
    BY <1>2, Numbers DEF RingInv, InvOwned
  <2>3. tail # pos[p] + Cap
    BY ONLY <2>1, <2>2, IdxNextLap
  <2>4. pos[p] \in 0 .. tail - 1
    BY ONLY <1>2, <2>2
  <2> QED
    BY <1>2, <1>5, <1>7, <2>1, <2>2, <2>3, <2>4, CapIsNat
<1>10. InvDistinct'
  BY <1>1 DEF RingInv, InvDistinct
<1>11. InvFree'
  <2> SUFFICES ASSUME NEW q \in tail + 1 .. head + Cap - 1
               PROVE  seq'[Idx(q)] = seq[Idx(q)]
    BY <1>1, <1>2, <1>5 DEF RingInv, InvFree
  <2>1. q \in Nat /\ tail < q /\ q < tail + Cap
    BY ONLY <1>2, CapIsNat, q \in tail + 1 .. head + Cap - 1
  <2> QED
    BY <1>2, <1>7, <2>1, IdxApart
<1>12. InvStale'
  <2> SUFFICES ASSUME NEW p \in Procs, pc[p] \in {"loadSeq", "cas"}
               PROVE  /\ pos[p] < Len(log) => pos[p] < Len(log')
                      /\ seq[Idx(pos[p])] >= pos[p] + 1 => seq'[Idx(pos[p])] >= pos[p] + 1
    BY <1>1, ProcsFacts DEF RingInv, InvStale
  <2>1. pos[p] \in Nat
    BY Numbers DEF RingInv
  <2>2. CASE Idx(pos[p]) = Idx(tail)
    BY <1>2, <1>4, <1>5, <2>1, <2>2
  <2>3. CASE Idx(pos[p]) # Idx(tail)
    BY <1>2, <1>5, <1>7, <2>1, <2>3
  <2> QED
    BY <2>2, <2>3
<1> QED
  BY <1>6, <1>8, <1>9, <1>10, <1>11, <1>12 DEF SlotInv

LEMMA CasHeadStep ==
  ASSUME RingInv, NEW p \in Procs, CasHead(p)
  PROVE  InvCursors' /\ InvFill' /\ InvStale' /\ SlotInv'
<1>1. /\ UNCHANGED <<seq, val, tail, log, calls, pos, reg>> /\ pc[p] = "cas"
      /\ \A q \in Procs : q # p => pc'[q] = pc[q]
  BY DEF RingInv, TypeOK, CasHead, Goto, histVars
<1>n. /\ head \in Nat /\ Len(log) \in Nat /\ head <= Len(log) /\ Len(log) <= head + Cap
      /\ Cap \in Nat /\ Cap >= 1 /\ tail \in Nat
  BY Numbers, CapIsNat DEF RingInv, InvCursors
<1>2. CASE head = pos[p] /\ head' = head + 1 /\ Goto(p, "take")
  <2>1. /\ pc'[p] = "take" /\ head < Len(log)
        /\ Owns(p)' /\ ~Owns(p)
        /\ \A q \in Procs : q # p => Owns(q)' = Owns(q)
    BY <1>1, <1>2 DEF RingInv, TypeOK, Goto, InvStale, Owns
  <2>2. seq[Idx(head)] = head + 1 /\ val[Idx(head)] = log[head + 1]
    BY <1>n, <2>1 DEF RingInv, InvPublished
  <2>a. (pc'[Producer] = "advance") = (pc[Producer] = "advance")
    BY <1>1, <2>1, ProcsFacts
  <2>3. InvCursors'
    <3>1. head + 1 <= Len(log) /\ Len(log) <= head + 1 + Cap
      BY ONLY <1>n, <2>1
    <3>2. Len(log) = IF pc'[Producer] = "advance" THEN tail + 1 ELSE tail
      BY <2>a DEF RingInv, InvCursors
    <3> QED
      BY <1>1, <1>2, <3>1, <3>2 DEF InvCursors
  <2>4. InvFill'
    <3>1. tail < head + Cap => tail < head + 1 + Cap
      BY ONLY <1>n
    <3>2. pc'[Producer] \in {"fill", "publish"} => pc'[Producer] = pc[Producer]
      BY <1>1, <2>1, ProcsFacts
    <3> QED
      BY <1>1, <1>2, <3>1, <3>2 DEF RingInv, InvFill
  <2>5. InvPublished'
    BY <1>1, <1>2, <1>n DEF RingInv, InvPublished
  <2>6. InvOwned'
    <3> SUFFICES ASSUME NEW q \in Procs, Owns(q)'
                 PROVE  /\ pos[q] < head + 1 /\ Len(log) <= pos[q] + Cap
                        /\ seq[Idx(pos[q])] = pos[q] + 1
                        /\ pc'[q] = "take" => val[Idx(pos[q])] = log[pos[q] + 1]
                        /\ pc'[q] # "take" => reg[q] = log[pos[q] + 1]
      BY <1>1, <1>2 DEF InvOwned
    <3>1. CASE q = p
      BY <1>2, <1>n, <2>1, <2>2, <3>1
    <3>2. CASE q # p
      <4>1. pos[q] \in Nat
        BY Numbers DEF RingInv
      <4> QED
        BY <1>1, <1>n, <2>1, <3>2, <4>1 DEF RingInv, InvOwned
    <3> QED
      BY <3>1, <3>2
  <2>7. InvDistinct'
    <3>1. \A q \in Procs : Owns(q) => pos[q] # head
      BY <1>n, Numbers DEF RingInv, InvOwned
    <3> QED
      BY <1>1, <1>2, <2>1, <3>1 DEF RingInv, InvDistinct
  <2>8. InvFree'
    <3> SUFFICES ASSUME NEW q \in Len(log) .. head + 1 + Cap - 1
                 PROVE  \/ seq[Idx(q)] = q
                        \/ \E r \in Procs : Owns(r)' /\ pos[r] + Cap = q
      BY <1>1, <1>2 DEF InvFree
    <3>1. CASE q = head + Cap
      BY <1>2, <2>1, <3>1
    <3>2. CASE q # head + Cap
      <4>1. q \in Len(log) .. head + Cap - 1
        BY ONLY <1>n, <3>2, q \in Len(log) .. head + 1 + Cap - 1
      <4> QED
        BY <2>1, <4>1 DEF RingInv, InvFree
    <3> QED
      BY <3>1, <3>2
  <2>9. InvStale'
    <3> SUFFICES ASSUME NEW q \in Procs, pc'[q] \in {"loadSeq", "cas"}
                 PROVE  /\ pos[q] <= head + 1
                        /\ pc'[q] = "cas" => pos[q] < Len(log)
                        /\ pos[q] < head + 1 => seq[Idx(pos[q])] >= pos[q] + 1
      BY <1>1, <1>2 DEF InvStale
    <3>1. pc'[q] = pc[q]
      BY <1>1, <2>1
    <3>2. /\ pos[q] \in Nat /\ pos[q] <= head
          /\ pc[q] = "cas" => pos[q] < Len(log)
          /\ pos[q] < head => seq[Idx(pos[q])] >= pos[q] + 1
      BY <3>1, Numbers DEF RingInv, InvStale
    <3>3. CASE pos[q] = head
      BY <1>n, <2>2, <3>1, <3>2, <3>3
    <3>4. CASE pos[q] # head
      <4>1. pos[q] < head /\ pos[q] <= head + 1
        BY ONLY <1>n, <3>2, <3>4
      <4> QED BY <3>1, <3>2, <4>1
    <3> QED
      BY <3>3, <3>4
  <2> QED
    BY <2>3, <2>4, <2>5, <2>6, <2>7, <2>8, <2>9 DEF SlotInv
<1>3. CASE head # pos[p] /\ head' = head /\ Goto(p, "loadHead")
  <2>1. Quiet
    BY <1>1, <1>3 DEF RingInv, TypeOK, Goto, Owns, Quiet
  <2>2. pc'[p] = "loadHead"
    BY <1>3 DEF RingInv, TypeOK, Goto
  <2>3. InvCursors' /\ InvFill' /\ InvStale'
    BY <1>1, <1>3, <2>2, ProcsFacts DEF RingInv, InvCursors, InvFill, InvStale
  <2> QED
    BY <2>1, <2>3, QuietStep DEF SlotInv
<1> QED
  BY <1>2, <1>3 DEF CasHead

LEMMA TakeStep ==
  ASSUME RingInv, NEW p \in Procs, Take(p)
  PROVE  InvCursors' /\ InvFill' /\ InvStale' /\ SlotInv'
<1>1. /\ UNCHANGED <<seq, val, head, tail, log, calls, pos>>
      /\ pc[p] = "take" /\ pc'[p] = "wipe" /\ reg'[p] = val[Idx(pos[p])]
      /\ \A q \in Procs : q # p => pc'[q] = pc[q] /\ reg'[q] = reg[q]
      /\ \A q \in Procs : Owns(q)' = Owns(q)
  BY DEF RingInv, TypeOK, Take, Goto, ringVars, histVars, Owns
<1>2. InvCursors' /\ InvFill' /\ InvStale'
  BY <1>1, ProcsFacts DEF RingInv, InvCursors, InvFill, InvStale
<1>3. InvPublished' /\ InvDistinct' /\ InvFree'
  BY <1>1 DEF RingInv, InvPublished, InvDistinct, InvFree
<1>4. val[Idx(pos[p])] = log[pos[p] + 1]
  BY <1>1 DEF RingInv, InvOwned, Owns
<1>5. InvOwned'
  BY <1>1, <1>4 DEF RingInv, InvOwned
<1> QED
  BY <1>2, <1>3, <1>5 DEF SlotInv

LEMMA WipeStep ==
  ASSUME RingInv, Cap >= 2, NEW p \in Procs, Wipe(p)
  PROVE  InvCursors' /\ InvFill' /\ InvStale' /\ SlotInv'
<1>1. /\ UNCHANGED <<seq, head, tail, log, calls, pos, reg>>
      /\ pc[p] = "wipe" /\ pc'[p] = "release" /\ Owns(p)
      /\ \A q \in Procs : q # p => pc'[q] = pc[q]
      /\ \A q \in Procs : Owns(q)' = Owns(q)
  BY DEF RingInv, TypeOK, Wipe, Goto, histVars, Owns
<1>2. \A i \in Slots : i # Idx(pos[p]) => val'[i] = val[i]
  BY DEF RingInv, TypeOK, Wipe
<1>3. pos[p] \in Nat /\ \A q \in Procs : pos[q] \in Nat
  BY Numbers DEF RingInv
<1>n. head \in Nat /\ tail \in Nat /\ Len(log) \in Nat
  BY Numbers DEF RingInv
<1>4. InvCursors' /\ InvStale'
  BY <1>1, ProcsFacts DEF RingInv, InvCursors, InvStale
<1>5. InvFill'
  <2>1. CASE pc[Producer] = "publish"
    <3>1. Idx(tail) # Idx(pos[p]) /\ Idx(tail) \in Slots
      BY <1>1, <1>n, <2>1, OwnerOffFill, IdxInSlots
    <3> QED
      BY <1>1, <1>2, <2>1, <3>1, ProcsFacts DEF RingInv, InvFill
  <2>2. CASE pc[Producer] # "publish"
    BY <1>1, <2>2, ProcsFacts DEF RingInv, InvFill
  <2> QED
    BY <2>1, <2>2
<1>6. InvPublished'
  <2> SUFFICES ASSUME NEW q \in head .. Len(log) - 1
               PROVE  val'[Idx(q)] = val[Idx(q)]
    BY <1>1 DEF RingInv, InvPublished
  <2>1. Idx(q) # Idx(pos[p])
    BY <1>1, OwnerOffPublished
  <2>2. q \in Nat
    BY ONLY <1>n, q \in head .. Len(log) - 1
  <2> QED
    BY <1>2, <2>1, <2>2, IdxInSlots
<1>7. InvOwned'
  <2> SUFFICES ASSUME NEW q \in Procs, Owns(q), pc'[q] = "take"
               PROVE  val'[Idx(pos[q])] = val[Idx(pos[q])]
    BY <1>1 DEF RingInv, InvOwned
  <2>1. Idx(pos[q]) # Idx(pos[p])
    BY <1>1, OwnersApart
  <2> QED
    BY <1>2, <1>3, <2>1, IdxInSlots
<1>8. InvDistinct' /\ InvFree'
  BY <1>1 DEF RingInv, InvDistinct, InvFree
<1> QED
  BY <1>4, <1>5, <1>6, <1>7, <1>8 DEF SlotInv

LEMMA ReleaseStep ==
  ASSUME RingInv, Cap >= 2, NEW p \in Procs, Release(p)
  PROVE  InvCursors' /\ InvFill' /\ InvStale' /\ SlotInv'
<1>1. /\ UNCHANGED <<val, head, tail, log, calls, pos, reg>>
      /\ pc[p] = "release" /\ pc'[p] \in {"count", "idle"}
      /\ Owns(p) /\ ~Owns(p)'
      /\ \A q \in Procs : q # p => pc'[q] = pc[q] /\ Owns(q)' = Owns(q)
  BY DEF RingInv, TypeOK, Release, Goto, Owns
<1>n. /\ head \in Nat /\ tail \in Nat /\ Len(log) \in Nat /\ Cap \in Nat
      /\ \A q \in Procs : pos[q] \in Nat
  BY Numbers, CapIsNat DEF RingInv
<1>2. Idx(pos[p]) \in Slots
  BY <1>n, IdxInSlots
<1>3. /\ seq[Idx(pos[p])] = pos[p] + 1
      /\ seq'[Idx(pos[p])] = pos[p] + Cap
      /\ \A i \in Slots : i # Idx(pos[p]) => seq'[i] = seq[i]
  BY <1>1, <1>2 DEF RingInv, TypeOK, Release, InvOwned
<1>4. ASSUME NEW q \in Nat, Idx(q) # Idx(pos[p]) PROVE seq'[Idx(q)] = seq[Idx(q)]
  BY <1>3, <1>4, IdxInSlots
<1>5. InvCursors'
  BY <1>1, ProcsFacts DEF RingInv, InvCursors
<1>6. InvFill'
  <2>1. CASE pc[Producer] \in {"fill", "publish"}
    <3>1. Idx(tail) # Idx(pos[p])
      BY <1>1, <2>1, OwnerOffFill
    <3> QED
      BY <1>1, <1>4, <1>n, <2>1, <3>1, ProcsFacts DEF RingInv, InvFill
  <2>2. CASE pc[Producer] \notin {"fill", "publish"}
    BY <1>1, <2>2, ProcsFacts DEF InvFill
  <2> QED
    BY <2>1, <2>2
<1>7. InvPublished'
  <2> SUFFICES ASSUME NEW q \in head .. Len(log) - 1
               PROVE  seq'[Idx(q)] = seq[Idx(q)]
    BY <1>1 DEF RingInv, InvPublished
  <2>1. Idx(q) # Idx(pos[p])
    BY <1>1, OwnerOffPublished
  <2>2. q \in Nat
    BY ONLY <1>n, q \in head .. Len(log) - 1
  <2> QED
    BY <1>4, <2>1, <2>2
<1>8. InvOwned'
  <2> SUFFICES ASSUME NEW q \in Procs, Owns(q), q # p
               PROVE  seq'[Idx(pos[q])] = seq[Idx(pos[q])]
    BY <1>1 DEF RingInv, InvOwned
  <2>1. Idx(pos[q]) # Idx(pos[p])
    BY <1>1, OwnersApart
  <2> QED
    BY <1>4, <1>n, <2>1
<1>9. InvDistinct'
  BY <1>1 DEF RingInv, InvDistinct
<1>10. InvFree'
  <2> SUFFICES ASSUME NEW q \in Len(log) .. head + Cap - 1
               PROVE  \/ seq'[Idx(q)] = q
                      \/ \E r \in Procs : Owns(r)' /\ pos[r] + Cap = q
    BY <1>1 DEF InvFree
  <2>n. q \in Nat
    BY ONLY <1>n, q \in Len(log) .. head + Cap - 1
  <2>1. CASE q = pos[p] + Cap
    BY <1>3, <1>n, <2>1, IdxNextLap
  <2>2. CASE q # pos[p] + Cap
    <3>1. seq'[Idx(q)] = seq[Idx(q)]
      BY <1>1, <1>4, <2>2, <2>n, OwnerOffFree
    <3>2. \/ seq[Idx(q)] = q
          \/ \E r \in Procs : Owns(r) /\ pos[r] + Cap = q
      BY DEF RingInv, InvFree
    <3> QED
      BY <1>1, <2>2, <3>1, <3>2
  <2> QED
    BY <2>1, <2>2
<1>11. InvStale'
  <2> SUFFICES ASSUME NEW q \in Procs, q # p, seq[Idx(pos[q])] >= pos[q] + 1
               PROVE  seq'[Idx(pos[q])] >= pos[q] + 1
    BY <1>1 DEF RingInv, InvStale
  <2>1. CASE Idx(pos[q]) = Idx(pos[p])
    <3>1. pos[p] + 1 >= pos[q] + 1 /\ seq'[Idx(pos[q])] = pos[p] + Cap
      BY <1>3, <2>1
    <3> QED
      BY ONLY <1>n, <3>1, Cap >= 2
  <2>2. CASE Idx(pos[q]) # Idx(pos[p])
    BY <1>4, <1>n, <2>2
  <2> QED
    BY <2>1, <2>2
<1> QED
  BY <1>5, <1>6, <1>7, <1>8, <1>9, <1>10, <1>11 DEF SlotInv
-----------------------------------------------------------------------------
LEMMA RingInvInit ==
  Init => RingInv
<1> SUFFICES ASSUME Init PROVE RingInv
  OBVIOUS
<1>1. TypeOK
  BY CapIsNat, ProcsFacts, RingAssumption DEF Init, TypeOK, Labels, Slots, Zero
<1>2. /\ head = 0 /\ tail = 0 /\ Len(log) = 0
      /\ \A p \in Procs : pc[p] = "idle"
  BY DEF Init
<1>3. InvCursors /\ InvPublished /\ InvFill
  BY <1>2, CapIsNat, ProcsFacts DEF InvCursors, InvPublished, InvFill
<1>4. InvOwned /\ InvDistinct /\ InvStale
  BY <1>2 DEF InvOwned, InvDistinct, InvStale, Owns
<1>5. InvFree
  <2> SUFFICES ASSUME NEW q \in 0 .. Cap - 1 PROVE seq[Idx(q)] = q
    BY <1>2, CapIsNat DEF InvFree
  <2>1. q % Cap = q
    BY CapIsNat
  <2> QED
    BY <2>1 DEF Init, Idx, Slots
<1> QED
  BY <1>1, <1>3, <1>4, <1>5 DEF RingInv

LEMMA RingInvStep ==
  ASSUME RingInv, Cap >= 2, [Next]_vars
  PROVE  RingInv'
<1>1. TypeOK'
  BY TypeStep DEF RingInv
<1>2. SUFFICES InvCursors' /\ InvFill' /\ InvStale' /\ SlotInv'
  BY <1>1 DEF RingInv, SlotInv
<1> USE DEF SlotInv
<1>3. CASE BeginPush
  BY <1>3, BeginPushStep, QuietStep
<1>4. CASE TryPush
  BY <1>4, TryPushStep, QuietStep
<1>5. CASE Fill
  BY <1>5, FillStep
<1>6. CASE Publish
  BY <1>6, PublishStep
<1>7. CASE Advance
  BY <1>7, AdvanceStep, QuietStep
<1>8. CASE Count
  BY <1>8, CountStep, QuietStep
<1>9. ASSUME NEW c \in Consumers, BeginPop(c)
      PROVE  InvCursors' /\ InvFill' /\ InvStale' /\ SlotInv'
  BY <1>9, BeginPopStep, QuietStep
<1>10. ASSUME NEW p \in Procs, PopStep(p)
       PROVE  InvCursors' /\ InvFill' /\ InvStale' /\ SlotInv'
  <2>1. CASE LoadHead(p)
    BY <2>1, LoadHeadStep, QuietStep
  <2>2. CASE LoadSeq(p)
    BY <2>2, LoadSeqStep, QuietStep
  <2>3. CASE CasHead(p)
    BY <2>3, CasHeadStep
  <2>4. CASE Take(p)
    BY <2>4, TakeStep
  <2>5. CASE Wipe(p)
    BY <2>5, WipeStep
  <2>6. CASE Release(p)
    BY <2>6, ReleaseStep
  <2> QED
    BY <1>10, <2>1, <2>2, <2>3, <2>4, <2>5, <2>6 DEF PopStep
<1>11. CASE UNCHANGED vars
  BY <1>11 DEF vars, RingInv, InvCursors, InvPublished, InvOwned, InvDistinct,
     InvFree, InvFill, InvStale, Owns
<1> QED
  BY <1>3, <1>4, <1>5, <1>6, <1>7, <1>8, <1>9, <1>10, <1>11 DEF Next, PushStep

(* The invariant of the ring holds for every capacity of at least 2: the   *)
(* hypothesis is where Push's test of the gate needs it, see OpenGate.     *)
THEOREM RingInvariant ==
  ASSUME Cap >= 2
  PROVE  Spec => []RingInv
<1>1. Init => RingInv
  BY RingInvInit
<1>2. RingInv /\ [Next]_vars => RingInv'
  BY RingInvStep
<1> QED
  BY <1>1, <1>2, PTL DEF Spec

(* Types hold for every capacity, 1 included.                              *)
THEOREM RingTypes ==
  Spec => []TypeOK
<1>1. Init => TypeOK
  BY RingInvInit DEF RingInv
<1>2. TypeOK /\ [Next]_vars => TypeOK'
  BY TypeStep
<1> QED
  BY <1>1, <1>2, PTL DEF Spec

(* No two goroutines are ever in the val of one slot (ring.go, pop and     *)
(* tryPush), however many pops run beside the producer.                    *)
THEOREM RingNoSlotRace ==
  ASSUME Cap >= 2
  PROVE  Spec => []NoSlotRace
<1>1. RingInv => NoSlotRace
  BY OwnersApart, OwnerOffFill DEF NoSlotRace
<1> QED
  BY <1>1, RingInvariant, PTL

(* Pop returns the item published at the position it claimed.              *)
THEOREM RingPopReadsWhatWasPushed ==
  ASSUME Cap >= 2
  PROVE  Spec => []PopReadsWhatWasPushed
<1>1. RingInv => PopReadsWhatWasPushed
  <2> SUFFICES ASSUME RingInv, NEW p \in Procs, pc[p] \in {"wipe", "release"}
               PROVE  pos[p] < Len(log) /\ reg[p] = log[pos[p] + 1]
    BY DEF PopReadsWhatWasPushed
  <2>1. pos[p] < head /\ reg[p] = log[pos[p] + 1]
    BY DEF RingInv, InvOwned, Owns
  <2>2. /\ pos[p] \in Nat /\ head \in Nat /\ Len(log) \in Nat
        /\ head <= Len(log)
    BY Numbers DEF RingInv, InvCursors
  <2> QED
    BY <2>1, <2>2
<1> QED
  BY <1>1, RingInvariant, PTL

(* A pop that reports the ring empty is right at that moment: the gate it  *)
(* read cannot belong to a position that head has merely left behind.      *)
THEOREM RingEmptyOnlyWhenEmpty ==
  ASSUME Cap >= 2
  PROVE  Spec => EmptyOnlyWhenEmpty
<1> DEFINE A == \A p \in Procs :
       pc[p] = "loadSeq" /\ pc'[p] = AfterPop(p) => head = Len(log)
<1>1. RingInv /\ [Next]_vars => [A]_vars
  <2> SUFFICES ASSUME RingInv, Next, NEW p \in Procs,
                      pc[p] = "loadSeq", pc'[p] = AfterPop(p)
               PROVE  head = Len(log)
    OBVIOUS
  <2>1. LoadSeq(p)
    BY ProcsFacts DEF RingInv, TypeOK, AfterPop, Next, PushStep, PopStep,
       BeginPush, TryPush, Fill, Publish, Advance, Count, BeginPop, LoadHead,
       LoadSeq, CasHead, Take, Wipe, Release, Goto
  <2>2. seq[Idx(pos[p])] < pos[p] + 1
    BY <2>1 DEF LoadSeq, RingInv, TypeOK, Goto, AfterPop
  <2>3. /\ pos[p] \in Nat /\ head \in Nat /\ Len(log) \in Nat
        /\ pos[p] <= head /\ head <= Len(log) /\ Idx(pos[p]) \in Slots
        /\ pos[p] < head => seq[Idx(pos[p])] >= pos[p] + 1
    BY Numbers, IdxInSlots DEF RingInv, InvStale, InvCursors
  <2>4. seq[Idx(pos[p])] \in Nat
    BY <2>3 DEF RingInv, TypeOK
  <2>5. pos[p] = head
    BY ONLY <2>2, <2>3, <2>4
  <2>6. head < Len(log) => seq[Idx(head)] = head + 1
    BY <2>3 DEF RingInv, InvPublished
  <2> QED
    BY ONLY <2>2, <2>3, <2>4, <2>5, <2>6
<1> QED
  BY <1>1, RingInvariant, PTL DEF Spec, EmptyOnlyWhenEmpty
-----------------------------------------------------------------------------
(* The ring implements the queue.  What that takes besides RingInv: an     *)
(* item is never Zero, and the producer pops to evict only.                *)
InEviction == {"loadHead", "loadSeq", "cas", "take", "wipe", "release", "count"}

EvictInv ==
  /\ pc[Producer] # "idle" => calls # 0
  /\ \A i \in DOMAIN log : log[i] # 0
  /\ pc[Producer] \in InEviction => dropOldest
  /\ pc[Producer] = "count" => pos[Producer] < Len(log)

LEMMA EvictStep ==
  ASSUME RingInv, EvictInv, [Next]_vars
  PROVE  EvictInv'
<1>0. /\ TypeOK /\ calls \in Nat /\ log \in Seq(Nat) /\ Len(log) \in Nat
      /\ DOMAIN log = 1 .. Len(log) /\ pc \in [Procs -> Labels] /\ Producer \in Procs
  BY ProcsFacts DEF RingInv, TypeOK
<1>1. CASE BeginPush
  BY <1>0, <1>1 DEF BeginPush, Goto, ringVars, EvictInv, InEviction
<1>2. CASE TryPush \/ Fill \/ Advance \/ Count
  BY <1>0, <1>2 DEF TryPush, Fill, Advance, Count, Goto, ringVars, histVars, EvictInv, InEviction
<1>3. CASE Publish
  <2>1. /\ log' = Append(log, calls) /\ calls' = calls /\ calls # 0
        /\ pc'[Producer] = "advance"
    BY <1>0, <1>3 DEF Publish, Goto, EvictInv
  <2>2. \A i \in DOMAIN log' : log'[i] = calls \/ (i \in DOMAIN log /\ log'[i] = log[i])
    BY <1>0, <2>1
  <2> QED BY <2>1, <2>2 DEF EvictInv, InEviction
<1>4. ASSUME NEW c \in Consumers, BeginPop(c) PROVE EvictInv'
  BY <1>0, <1>4, ProcsFacts DEF BeginPop, Goto, ringVars, histVars, EvictInv, InEviction
<1>5. ASSUME NEW p \in Procs, PopStep(p) PROVE EvictInv'
  <2>1. /\ UNCHANGED <<calls, log, dropOldest>>
        /\ \A q \in Procs : q # p => pc'[q] = pc[q] /\ pos'[q] = pos[q]
    BY <1>0, <1>5 DEF PopStep, LoadHead, LoadSeq, CasHead, Take, Wipe, Release, Goto, ringVars,
                      histVars, RingInv, TypeOK
  <2>2. CASE p # Producer
    BY <1>0, <2>1, <2>2 DEF EvictInv
  <2>3. CASE p = Producer
    <3>1. pc[Producer] \in InEviction /\ pc'[Producer] \in InEviction \cup {"try"}
      BY <1>0, <1>5, <2>3, ProcsFacts
         DEF PopStep, LoadHead, LoadSeq, CasHead, Take, Wipe, Release, Goto, AfterPop, InEviction
    <3>2. pc'[Producer] = "count" => pos'[Producer] < Len(log)
      <4>1. CASE Release(p)
        <5>1. pc[p] = "release" /\ pos' = pos
          BY <4>1 DEF Release
        <5>2. pos[p] < head /\ head <= Len(log) /\ pos[p] \in Nat /\ head \in Nat
          BY <1>0, <5>1 DEF RingInv, InvOwned, Owns, InvCursors, TypeOK
        <5> QED BY <1>0, <2>3, <5>1, <5>2
      <4>2. CASE ~Release(p)
        BY <1>0, <1>5, <2>3, <4>2 DEF PopStep, LoadHead, LoadSeq, CasHead, Take, Wipe, Goto,
                                      AfterPop
      <4> QED BY <4>1, <4>2
    <3> QED BY <1>0, <2>1, <3>1, <3>2 DEF EvictInv, InEviction
  <2> QED BY <2>2, <2>3
<1>6. CASE UNCHANGED vars
  BY <1>6 DEF vars, EvictInv
<1> QED BY <1>1, <1>2, <1>3, <1>4, <1>5, <1>6 DEF Next, PushStep

(* The queue, as the items published from the read cursor on.              *)
Queued(s, h) == SubSeq(s, h + 1, Len(s))

LEMMA QueueParts ==
  ASSUME NEW s \in Seq(Nat), NEW h \in 0 .. Len(s)
  PROVE  /\ Queued(s, h) \in Seq(Nat) /\ Len(Queued(s, h)) = Len(s) - h
         /\ \A i \in 1 .. Len(s) - h : Queued(s, h)[i] = s[h + i]
<1> DEFINE m == h + 1
           n == Len(s)
           q == SubSeq(s, m, n)
<1>1. m \in Nat /\ n \in Nat /\ h \in Nat /\ m = h + 1 /\ h <= n /\ m \in 1 .. Len(s) + 1
  OBVIOUS
<1>2. \A i \in m .. n : s[i] \in Nat
  OBVIOUS
<1> HIDE DEF m
<1>3. n \in (m - 1) .. Len(s)
  BY <1>1
<1>4. /\ q \in Seq(Nat) /\ Len(q) = n - m + 1
      /\ \A i \in 1 .. n - m + 1 : q[i] = s[m + i - 1]
  BY <1>1, <1>2, <1>3, SubSeqProperties
<1>5. q = Queued(s, h)
  BY <1>1 DEF Queued
<1> HIDE DEF q, n
<1>6. n - m + 1 = n - h /\ \A i \in 1 .. n - h : m + i - 1 = h + i
  BY <1>1
<1> QED BY <1>4, <1>5, <1>6 DEF n

LEMMA QueueAppend ==
  ASSUME NEW s \in Seq(Nat), NEW h \in 0 .. Len(s), NEW e \in Nat
  PROVE  Queued(Append(s, e), h) = Append(Queued(s, h), e)
<1> DEFINE n == Len(s)
           t == Append(s, e)
           q == Queued(s, h)
           u == Queued(t, h)
<1>1. /\ n \in Nat /\ t \in Seq(Nat) /\ Len(t) = n + 1 /\ t[n + 1] = e
      /\ \A i \in 1 .. n : t[i] = s[i] /\ s[i] \in Nat
  BY AppendProperties
<1> HIDE DEF t
<1>2. /\ q \in Seq(Nat) /\ Len(q) = n - h
      /\ \A i \in 1 .. n - h : q[i] = s[h + i]
  BY QueueParts
<1>3. /\ u \in Seq(Nat) /\ Len(u) = n + 1 - h
      /\ \A i \in 1 .. n + 1 - h : u[i] = t[h + i]
  <2>1. h \in 0 .. Len(t) /\ Len(t) - h = n + 1 - h
    BY <1>1
  <2>2. /\ u \in Seq(Nat) /\ Len(u) = Len(t) - h
        /\ \A i \in 1 .. Len(t) - h : u[i] = t[h + i]
    BY <1>1, <2>1, QueueParts
  <2> QED BY <2>1, <2>2
<1> HIDE DEF q, u
<1>4. /\ Append(q, e) \in Seq(Nat) /\ Len(Append(q, e)) = n - h + 1
      /\ Append(q, e)[n - h + 1] = e /\ \A i \in 1 .. n - h : Append(q, e)[i] = q[i]
  BY <1>2, AppendProperties
<1>5. h \in Nat /\ h <= n
  BY <1>1
<1> DEFINE w == Append(q, e)
<1> HIDE DEF n, w
<1>6. Len(u) = Len(w) /\ w \in Seq(Nat)
  BY <1>1, <1>3, <1>4, <1>5 DEF w
<1>7. ASSUME NEW i \in 1 .. Len(u) PROVE u[i] = w[i]
  <2>1. i \in 1 .. n + 1 - h
    BY <1>1, <1>3, <1>5
  <2>2. CASE i = n + 1 - h
    <3>1. h + i = n + 1 /\ i = n - h + 1
      BY <1>1, <1>5, <2>1, <2>2
    <3> QED BY <1>1, <1>3, <1>4, <2>1, <3>1 DEF w
  <2>3. CASE i # n + 1 - h
    <3>1. i \in 1 .. n - h /\ h + i \in 1 .. n
      BY <1>1, <1>5, <2>1, <2>3
    <3> QED BY <1>1, <1>2, <1>3, <1>4, <2>1, <3>1 DEF w
  <2> QED BY <2>2, <2>3
<1>8. u = w
  BY <1>3, <1>6, <1>7, SeqEqual
<1> QED BY <1>8 DEF q, u, t, w

LEMMA QueueTake ==
  ASSUME NEW s \in Seq(Nat), NEW h \in Nat, h < Len(s)
  PROVE  /\ Queued(s, h) # << >> /\ Head(Queued(s, h)) = s[h + 1]
         /\ Queued(s, h + 1) = Tail(Queued(s, h))
<1> DEFINE n == Len(s)
           q == Queued(s, h)
           u == Queued(s, h + 1)
<1>1. n \in Nat /\ h + 1 <= n /\ \A i \in 1 .. n : s[i] \in Nat
  OBVIOUS
<1>2. /\ q \in Seq(Nat) /\ Len(q) = n - h
      /\ \A i \in 1 .. n - h : q[i] = s[h + i]
  <2>1. h \in 0 .. n
    BY <1>1
  <2> QED BY <2>1, QueueParts
<1>3. /\ u \in Seq(Nat) /\ Len(u) = n - (h + 1)
      /\ \A i \in 1 .. n - (h + 1) : u[i] = s[h + 1 + i]
  <2>1. h + 1 \in 0 .. n
    BY <1>1
  <2> QED BY <2>1, QueueParts
<1> HIDE DEF q, u
<1>4. q # << >> /\ Head(q) = s[h + 1]
  BY <1>1, <1>2
<1>5. /\ Tail(q) \in Seq(Nat) /\ Len(Tail(q)) = n - h - 1
      /\ \A i \in 1 .. n - h - 1 : Tail(q)[i] = q[i + 1]
  BY <1>1, <1>2, <1>4, HeadTailProperties
<1> DEFINE w == Tail(q)
<1> HIDE DEF n, w
<1>6. Len(u) = Len(w) /\ w \in Seq(Nat)
  BY <1>1, <1>3, <1>5 DEF w
<1>7. ASSUME NEW i \in 1 .. Len(u) PROVE u[i] = w[i]
  <2>1. i \in 1 .. n - (h + 1) /\ i \in 1 .. n - h - 1 /\ i + 1 \in 1 .. n - h
    BY <1>1, <1>3
  <2>2. h + 1 + i = h + (i + 1)
    BY <2>1
  <2> QED BY <1>2, <1>3, <1>5, <2>1, <2>2 DEF w
<1>8. u = w
  BY <1>3, <1>6, <1>7, SeqEqual
<1> QED BY <1>4, <1>8 DEF q, u, w

(* What the queue sees of the ring.                                        *)
Hands == [p \in Procs |-> Hand(p)]
Pushing == pc[Producer] \in (Labels \ {"idle", "advance"})

(* Most steps the queue does not see.                                      *)
Unseen ==
  /\ UNCHANGED <<dropOldest, log, head, dropped, calls, got>>
  /\ Pushing' = Pushing
  /\ \A p \in Procs : Hand(p)' = Hand(p)

LEMMA UnseenStutters == Unseen => UNCHANGED Queue!qvars
<1> SUFFICES ASSUME Unseen PROVE UNCHANGED Queue!qvars
  OBVIOUS
<1>1. Hands' = Hands
  BY DEF Unseen, Hands
<1> QED BY <1>1 DEF Unseen, Queue!qvars, Hands, Pushing

(* The steps of Push.                                                      *)
LEMMA PushImplements ==
  ASSUME RingInv, EvictInv, BeginPush \/ PushStep
  PROVE  Queue!Next \/ UNCHANGED Queue!qvars
<1>0. /\ pc \in [Procs -> Labels] /\ Producer \in Procs /\ head \in Nat /\ Len(log) \in Nat
      /\ log \in Seq(Nat) /\ calls \in Nat /\ tail \in Nat
      /\ \A p \in Procs : pos[p] \in Nat
  BY ProcsFacts, Numbers DEF RingInv, TypeOK
<1>1. CASE BeginPush
  <2>1. /\ pc[Producer] = "idle" /\ pc' = [pc EXCEPT ![Producer] = "try"] /\ calls < MaxPush
        /\ calls' = calls + 1 /\ UNCHANGED <<dropOldest, log, head, dropped, got, pos>>
    BY <1>1 DEF BeginPush, Goto, ringVars
  <2>2. ~Pushing /\ Pushing'
    BY <1>0, <2>1 DEF Pushing, Labels
  <2>3. \A p \in Procs : Hand(p)' = Hand(p)
    BY <1>0, <2>1 DEF Hand, Owns
  <2>4. Hands' = Hands
    BY <2>3 DEF Hands
  <2>5. Queue!BeginPush
    BY <2>1, <2>2, <2>4 DEF Queue!BeginPush, Hands, Pushing
  <2> QED BY <2>5 DEF Queue!Next
<1>2. CASE TryPush /\ pc'[Producer] = "idle"
  <2>1. /\ pc[Producer] = "try" /\ pc' = [pc EXCEPT ![Producer] = "idle"] /\ ~dropOldest
        /\ UNCHANGED <<dropOldest, log, head, dropped, calls, got, pos>>
    BY <1>0, <1>2 DEF TryPush, Goto, ringVars, histVars
  <2>2. Pushing /\ ~Pushing'
    BY <1>0, <2>1 DEF Pushing, Labels
  <2>3. \A p \in Procs : Hand(p)' = Hand(p)
    BY <1>0, <2>1 DEF Hand, Owns
  <2>4. Hands' = Hands
    BY <2>3 DEF Hands
  <2>5. tail = Len(log) /\ seq[Idx(tail)] # tail /\ head <= Len(log) /\ Len(log) <= head + Cap
    <3>1. seq[Idx(tail)] # tail
      BY <1>2, <2>1 DEF TryPush, Goto, Labels
    <3> QED BY <2>1, <3>1 DEF RingInv, InvCursors
  <2>6. Len(Queued(log, head)) = Cap \/ \E c \in Consumers : Hands[c] # Zero
    <3>1. CASE Len(log) = head + Cap
      BY <1>0, <2>5, <3>1, QueueParts, CapIsNat
    <3>2. CASE Len(log) # head + Cap
      <4>1. tail \in Len(log) .. head + Cap - 1
        BY <1>0, <2>5, <3>2, CapIsNat
      <4>2. PICK p \in Procs : Owns(p) /\ pos[p] + Cap = tail
        BY <2>5, <4>1 DEF RingInv, InvFree
      <4>3. p \in Consumers
        BY <2>1, <4>2 DEF Owns, Procs
      <4>4. pos[p] + 1 \in DOMAIN log
        BY <1>0, <2>5, <4>2, CapIsNat
      <4> QED BY <4>2, <4>3, <4>4 DEF Hands, Hand, EvictInv, Zero
    <3> QED BY <3>1, <3>2
  <2>7. Queue!Refuse
    <3>1. UNCHANGED <<dropOldest, Queued(log, head), Hands, dropped, calls, got>>
      BY <2>1, <2>4
    <3>2. Pushing /\ Pushing' = FALSE /\ ~dropOldest
      BY <2>1, <2>2 DEF Pushing
    <3> QED BY <2>6, <3>1, <3>2, Zenon DEF Queue!Refuse, Hands, Pushing, Queued
  <2> QED BY <2>7 DEF Queue!Next
<1>3. CASE (TryPush /\ pc'[Producer] # "idle") \/ Fill \/ Advance
  <2>1. /\ UNCHANGED <<dropOldest, log, head, dropped, calls, got, pos>>
        /\ \A p \in Procs : p # Producer => pc'[p] = pc[p]
        /\ \/ pc[Producer] \in {"try", "fill"} /\ pc'[Producer] \in {"fill", "loadHead", "publish"}
           \/ pc[Producer] = "advance" /\ pc'[Producer] = "idle"
    BY <1>0, <1>3 DEF TryPush, Fill, Advance, Goto, ringVars, histVars
  <2>2. Pushing' = Pushing
    BY <2>1 DEF Pushing, Labels
  <2>3. \A p \in Procs : Hand(p)' = Hand(p)
    BY <1>0, <2>1 DEF Hand, Owns
  <2> QED BY <2>1, <2>2, <2>3, UnseenStutters DEF Unseen
<1>4. CASE Publish
  <2>1. /\ pc[Producer] = "publish" /\ pc' = [pc EXCEPT ![Producer] = "advance"]
        /\ log' = Append(log, calls)
        /\ UNCHANGED <<dropOldest, head, dropped, calls, got, pos>>
    BY <1>4 DEF Publish, Goto
  <2>2. Pushing /\ ~Pushing'
    BY <1>0, <2>1 DEF Pushing, Labels
  <2>3. ASSUME NEW p \in Procs PROVE Hand(p)' = Hand(p)
    <3>1. CASE p = Producer
      BY <1>0, <2>1, <3>1 DEF Hand, Owns
    <3>2. CASE p # Producer /\ Owns(p)
      <4>1. Owns(p)'
        BY <1>0, <2>1, <3>2 DEF Owns
      <4>2. pos[p] + 1 \in 1 .. Len(log)
        BY <1>0, <3>2 DEF RingInv, InvOwned, InvCursors
      <4>3. log'[pos[p] + 1] = log[pos[p] + 1]
        BY <1>0, <2>1, <4>2
      <4> QED BY <2>1, <3>2, <4>1, <4>3 DEF Hand
    <3>3. CASE p # Producer /\ ~Owns(p)
      <4>1. ~Owns(p)' /\ pc[p] # "count" /\ pc'[p] # "count"
        BY <1>0, <2>1, <3>3, ProcsFacts DEF Owns, RingInv, TypeOK
      <4> QED BY <3>3, <4>1 DEF Hand
    <3> QED BY <3>1, <3>2, <3>3
  <2>4. Hands' = Hands
    BY <2>3 DEF Hands
  <2>5. Hands[Producer] = Zero
    BY <1>0, <2>1 DEF Hands, Hand, Owns
  <2>6. head <= Len(log) /\ Len(log) < head + Cap
    BY <1>0, <2>1 DEF RingInv, InvCursors, InvFill
  <2>7. Queued(log', head') = Append(Queued(log, head), calls)
    BY <1>0, <2>1, <2>6, QueueAppend
  <2>8. Len(Queued(log, head)) < Cap
    BY <1>0, <2>6, QueueParts, CapIsNat
  <2>9. Queue!Accept
    <3>1. Queued(log, head)' = Append(Queued(log, head), calls)
      BY <2>7 DEF Queued
    <3>2. UNCHANGED <<dropOldest, Hands, dropped, calls, got>>
      BY <2>1, <2>4
    <3>3. Pushing /\ Pushing' = FALSE
      BY <2>2 DEF Pushing
    <3>4. Pushing /\ Hands[Producer] = Zero /\ Len(Queued(log, head)) < Cap
      BY <2>5, <2>8, <3>3
    <3>5. Pushing' = FALSE /\ Queued(log, head)' = Append(Queued(log, head), calls)
      BY <3>1, <3>3
    <3> QED BY <3>2, <3>4, <3>5, Zenon DEF Queue!Accept, Hands, Pushing, Queued
  <2> QED BY <2>9 DEF Queue!Next
<1>5. CASE Count
  <2>1. /\ pc[Producer] = "count" /\ pc' = [pc EXCEPT ![Producer] = "try"]
        /\ dropped' = dropped + 1
        /\ UNCHANGED <<dropOldest, log, head, calls, got, pos>>
    BY <1>5 DEF Count, Goto
  <2>2. Pushing /\ Pushing'
    BY <1>0, <2>1 DEF Pushing, Labels
  <2>3. Hand(Producer) # Zero
    <3>1. pos[Producer] + 1 \in DOMAIN log
      BY <1>0, <2>1 DEF EvictInv
    <3> QED BY <2>1, <3>1 DEF Hand, EvictInv, Zero
  <2>4. \A p \in Procs : Hand(p)' = IF p = Producer THEN Zero ELSE Hand(p)
    BY <1>0, <2>1 DEF Hand, Owns
  <2>5. Hands' = [Hands EXCEPT ![Producer] = Zero] /\ Hands[Producer] # Zero
    BY <1>0, <2>3, <2>4 DEF Hands
  <2>6. Queue!Discard
    BY <2>1, <2>2, <2>5 DEF Queue!Discard, Hands, Pushing
  <2> QED BY <2>6 DEF Queue!Next
<1> QED BY <1>1, <1>2, <1>3, <1>4, <1>5 DEF PushStep

(* The steps of pop, an evicting producer's among them.                    *)
LEMMA PopImplements ==
  ASSUME RingInv, EvictInv, NEW p \in Procs, PopStep(p)
  PROVE  Queue!Next \/ UNCHANGED Queue!qvars
<1>0. /\ pc \in [Procs -> Labels] /\ Producer \in Procs /\ head \in Nat /\ Len(log) \in Nat
      /\ log \in Seq(Nat) /\ pos \in [Procs -> Nat] /\ got \in [Consumers -> Seq(Nat)]
  BY ProcsFacts, Numbers DEF RingInv, TypeOK
<1>1. CASE CasHead(p) /\ head' # head
  <2>1. /\ pc[p] = "cas" /\ pc' = [pc EXCEPT ![p] = "take"] /\ head = pos[p] /\ head' = head + 1
        /\ UNCHANGED <<dropOldest, log, dropped, calls, got, pos>>
    BY <1>1 DEF CasHead, Goto, histVars
  <2>2. head < Len(log)
    BY <2>1 DEF RingInv, InvStale
  <2>3. /\ Queued(log, head) # << >> /\ Head(Queued(log, head)) = log[head + 1]
        /\ Queued(log', head') = Tail(Queued(log, head))
    BY <1>0, <2>1, <2>2, QueueTake
  <2>4. Hands[p] = Zero
    BY <2>1 DEF Hands, Hand, Owns
  <2>5. \A q \in Procs : Hand(q)' = IF q = p THEN log[head + 1] ELSE Hand(q)
    BY <1>0, <2>1 DEF Hand, Owns
  <2>6. Hands' = [Hands EXCEPT ![p] = log[head + 1]]
    BY <2>5 DEF Hands
  <2>7. Pushing' = Pushing /\ (p = Producer => Pushing /\ dropOldest)
    BY <1>0, <2>1 DEF Pushing, Labels, EvictInv, InEviction
  <2>8. Queue!Claim(p)
    BY <2>1, <2>3, <2>4, <2>6, <2>7 DEF Queue!Claim, Hands, Pushing, Queued
  <2> QED BY <2>8 DEF Queue!Next, Procs
<1>2. CASE Release(p) /\ p # Producer
  <2>1. /\ pc[p] = "release" /\ pc' = [pc EXCEPT ![p] = "idle"] /\ p \in Consumers
        /\ got' = [got EXCEPT ![p] = Append(@, reg[p])]
        /\ UNCHANGED <<dropOldest, log, head, dropped, calls, pos>>
    BY <1>2 DEF Release, Goto
  <2>2. reg[p] = log[pos[p] + 1] /\ pos[p] < Len(log)
    <3>1. /\ reg[p] = log[pos[p] + 1] /\ pos[p] < head /\ head <= Len(log)
      BY <2>1 DEF RingInv, InvOwned, Owns, InvCursors
    <3> QED BY <1>0, <3>1
  <2>3. Hand(p) = reg[p] /\ Hand(p) # Zero
    <3>1. pos[p] + 1 \in DOMAIN log
      BY <1>0, <2>2
    <3> QED BY <2>1, <2>2, <3>1 DEF Hand, Owns, EvictInv, Zero
  <2>4. \A q \in Procs : Hand(q)' = IF q = p THEN Zero ELSE Hand(q)
    BY <1>0, <2>1 DEF Hand, Owns
  <2>5. Hands' = [Hands EXCEPT ![p] = Zero] /\ Hands[p] = reg[p] /\ Hands[p] # Zero
    BY <2>3, <2>4 DEF Hands
  <2>6. Pushing' = Pushing
    BY <1>0, <1>2, <2>1 DEF Pushing
  <2>7. Queue!Return(p)
    BY <2>1, <2>5, <2>6 DEF Queue!Return, Hands, Pushing
  <2> QED BY <2>1, <2>7 DEF Queue!Next
<1>3. CASE LoadHead(p) \/ LoadSeq(p) \/ (CasHead(p) /\ head' = head)
  <2>1. /\ UNCHANGED <<dropOldest, log, head, dropped, calls, got>>
        /\ pc[p] \in {"loadHead", "loadSeq", "cas"}
        /\ pc'[p] \in {"loadHead", "loadSeq", "cas", AfterPop(p)}
        /\ \A q \in Procs : q # p => pc'[q] = pc[q] /\ pos'[q] = pos[q]
    BY <1>0, <1>3 DEF LoadHead, LoadSeq, CasHead, Goto, ringVars, histVars
  <2>2. Pushing' = Pushing
    BY <1>0, <2>1 DEF Pushing, Labels, AfterPop
  <2>3. \A q \in Procs : Hand(q)' = Hand(q)
    BY <1>0, <2>1 DEF Hand, Owns, AfterPop
  <2> QED BY <2>1, <2>2, <2>3, UnseenStutters DEF Unseen
<1>4. CASE Take(p) \/ Wipe(p) \/ (Release(p) /\ p = Producer)
  <2>1. /\ UNCHANGED <<dropOldest, log, head, dropped, calls, got, pos>>
        /\ pc[p] \in {"take", "wipe", "release"}
        /\ pc'[p] \in {"wipe", "release"} \/ (p = Producer /\ pc'[p] = "count")
        /\ \A q \in Procs : q # p => pc'[q] = pc[q]
    BY <1>0, <1>4, ProcsFacts DEF Take, Wipe, Release, Goto, ringVars, histVars
  <2>2. Pushing' = Pushing
    BY <1>0, <2>1 DEF Pushing, Labels
  <2>3. \A q \in Procs : Hand(q)' = Hand(q)
    BY <1>0, <2>1 DEF Hand, Owns
  <2> QED BY <2>1, <2>2, <2>3, UnseenStutters DEF Unseen
<1> QED BY <1>1, <1>2, <1>3, <1>4 DEF PopStep

(* Everything the lock-free ring does, an item lost to a torn read, taken  *)
(* twice or out of order included if it did that, is something the atomic  *)
(* queue does: the store to the gate publishes and the CAS on head takes   *)
(* (ring.go 100-170).                                                      *)
THEOREM RingIsTheQueue ==
  ASSUME Cap >= 2
  PROVE  Spec => ImplementsDropQueue
<1>1. Init => EvictInv /\ Queue!Init
  <2> SUFFICES ASSUME Init PROVE EvictInv /\ Queue!Init
    OBVIOUS
  <2>1. /\ pc = [p \in Procs |-> "idle"] /\ log = << >> /\ head = 0 /\ DOMAIN log = {}
        /\ Producer \in Procs
    BY ProcsFacts DEF Init
  <2>2. EvictInv
    BY <2>1 DEF EvictInv, InEviction
  <2>3. \A p \in Procs : Hand(p) = Zero
    BY <2>1 DEF Hand, Owns
  <2>4. Hands = [p \in Procs |-> Zero]
    BY <2>3 DEF Hands
  <2>5. SubSeq(log, head + 1, Len(log)) = << >>
    BY <2>1, SubSeqEmpty
  <2>6. ~Pushing
    BY <2>1 DEF Pushing
  <2> QED BY <2>2, <2>4, <2>5, <2>6 DEF Init, Queue!Init, Hands, Pushing, Procs
<1>2. RingInv /\ EvictInv /\ [Next]_vars => RingInv' /\ EvictInv'
  BY RingInvStep, EvictStep
<1>3. RingInv /\ EvictInv /\ [Next]_vars => [Queue!Next]_(Queue!qvars)
  <2> SUFFICES ASSUME RingInv, EvictInv, [Next]_vars
               PROVE  Queue!Next \/ UNCHANGED Queue!qvars
    OBVIOUS
  <2>1. ASSUME NEW c \in Consumers, BeginPop(c) PROVE UNCHANGED Queue!qvars
    <3>1. /\ pc \in [Procs -> Labels] /\ c \in Procs /\ c # Producer /\ Producer \in Procs
          /\ pc[c] = "idle" /\ pc' = [pc EXCEPT ![c] = "loadHead"]
          /\ UNCHANGED <<dropOldest, log, head, dropped, calls, got, pos>>
      BY <2>1, ProcsFacts DEF BeginPop, Goto, ringVars, histVars, RingInv, TypeOK
    <3>2. Pushing' = Pushing /\ \A q \in Procs : Hand(q)' = Hand(q)
      BY <3>1 DEF Pushing, Hand, Owns
    <3> QED BY <3>1, <3>2, UnseenStutters DEF Unseen
  <2>2. CASE UNCHANGED vars
    <3>1. Unseen
      BY <2>2 DEF vars, Unseen, Pushing, Hand, Owns
    <3> QED BY <3>1, UnseenStutters
  <2> QED BY <2>1, <2>2, PushImplements, PopImplements DEF Next
<1> QED BY <1>1, <1>2, <1>3, RingInvInit, PTL DEF Spec, ImplementsDropQueue, Queue!Spec
-----------------------------------------------------------------------------
(* Why CallsReturn holds: nobody ever tries again in vain.                 *)

(* The accesses a pop has before it, when it need not try again.           *)
PopAhead(l) ==
  CASE l = "loadHead" -> 6 [] l = "loadSeq" -> 5 [] l = "cas" -> 4
    [] l = "take" -> 3 [] l = "wipe" -> 2 [] l = "release" -> 1 [] OTHER -> 0

(* Every access of a Pop brings it nearer to its return, but a retry, and  *)
(* it only retries when the position it had loaded has been taken by       *)
(* another popper since: some goroutine always gets its element (pop's     *)
(* loop is lock-free, ring.go).                                            *)
THEOREM RingPopAdvances ==
  ASSUME Cap >= 2
  PROVE  Spec => [][\A c \in Consumers : pc[c] # "idle" =>
                      \/ pc'[c] = pc[c]
                      \/ PopAhead(pc'[c]) < PopAhead(pc[c])
                      \/ pc'[c] = "loadHead" /\ pos[c] < head]_vars
<1>1. ASSUME RingInv, [Next]_vars, NEW c \in Consumers, pc[c] # "idle", pc'[c] # pc[c]
      PROVE  \/ PopAhead(pc'[c]) < PopAhead(pc[c])
             \/ pc'[c] = "loadHead" /\ pos[c] < head
  <2>0. /\ c \in Procs /\ c # Producer /\ pc \in [Procs -> Labels] /\ Producer \in Procs
        /\ pc[c] \notin {"try", "fill", "publish", "advance", "count"}
    BY <1>1, ProcsFacts DEF RingInv, TypeOK
  <2>1. PopStep(c)
    <3>1. ~UNCHANGED vars
      BY <1>1 DEF vars
    <3>2. ~BeginPush /\ ~PushStep
      BY <1>1, <2>0 DEF BeginPush, PushStep, TryPush, Fill, Publish, Advance, Count, Goto
    <3>3. \A d \in Consumers : ~BeginPop(d)
      BY <1>1, <2>0, ProcsFacts DEF BeginPop, Goto
    <3>4. \A p \in Procs \ {c} : ~PopStep(p)
      BY <1>1, <2>0 DEF PopStep, LoadHead, LoadSeq, CasHead, Take, Wipe, Release, Goto
    <3> QED BY <1>1, <3>1, <3>2, <3>3, <3>4 DEF Next
  <2>2. CASE LoadHead(c) \/ Take(c) \/ Wipe(c) \/ Release(c)
    BY <2>0, <2>2 DEF LoadHead, Take, Wipe, Release, Goto, PopAhead
  <2>3. CASE LoadSeq(c)
    <3>0. /\ pos[c] \in Nat /\ head \in Nat /\ Len(log) \in Nat /\ Idx(pos[c]) \in Slots
          /\ pos[c] <= head /\ head <= Len(log) /\ Len(log) <= head + Cap
          /\ Cap \in Nat /\ Cap >= 2
      BY <1>1, <2>0, <2>3, Numbers, IdxInSlots, CapIsNat
         DEF LoadSeq, RingInv, InvStale, InvCursors
    <3>1. seq[Idx(pos[c])] \in Nat
      BY <1>1, <3>0 DEF RingInv, TypeOK
    <3>2. CASE seq[Idx(pos[c])] > pos[c] + 1
      <4>1. pos[c] # head
        <5>1. CASE head < Len(log)
          <6>1. head \in head .. Len(log) - 1
            BY ONLY <3>0, <5>1
          <6>2. seq[Idx(head)] = head + 1
            BY <1>1, <6>1 DEF RingInv, InvPublished
          <6> QED BY ONLY <3>0, <3>1, <3>2, <6>2
        <5>2. CASE head = Len(log)
          <6>1. head \in Len(log) .. head + Cap - 1
            BY ONLY <3>0, <5>2
          <6>2. CASE seq[Idx(head)] = head
            BY ONLY <3>0, <3>1, <3>2, <6>2
          <6>3. CASE \E p \in Procs : Owns(p) /\ pos[p] + Cap = head
            <7>1. PICK p \in Procs : Owns(p) /\ pos[p] + Cap = head
              BY <6>3
            <7>2. pos[p] \in Nat /\ seq[Idx(pos[p])] = pos[p] + 1
              BY <1>1, <7>1 DEF RingInv, TypeOK, InvOwned
            <7>3. Idx(pos[p]) = Idx(head)
              BY <7>1, <7>2, IdxNextLap
            <7> QED BY ONLY <3>0, <3>2, <7>1, <7>2, <7>3
          <6> QED BY <1>1, <6>1, <6>2, <6>3 DEF RingInv, InvFree
        <5> QED BY ONLY <3>0, <5>1, <5>2
      <4>2. pos[c] < head
        BY ONLY <3>0, <4>1
      <4> QED BY <2>0, <2>3, <3>2, <4>2 DEF LoadSeq, Goto, AfterPop, PopAhead
    <3>3. CASE ~(seq[Idx(pos[c])] > pos[c] + 1)
      BY <2>0, <2>3, <3>3 DEF LoadSeq, Goto, AfterPop, PopAhead
    <3> QED BY <3>2, <3>3
  <2>4. CASE CasHead(c)
    <3>1. pos[c] \in Nat /\ head \in Nat /\ pos[c] <= head
      BY <1>1, <2>0, <2>4, Numbers DEF CasHead, RingInv, InvStale
    <3> QED BY <2>0, <2>4, <3>1 DEF CasHead, Goto, PopAhead
  <2> QED BY <2>1, <2>2, <2>3, <2>4 DEF PopStep
<1> DEFINE A == \A c \in Consumers : pc[c] # "idle" =>
                  \/ pc'[c] = pc[c]
                  \/ PopAhead(pc'[c]) < PopAhead(pc[c])
                  \/ pc'[c] = "loadHead" /\ pos[c] < head
<1>2. RingInv /\ [Next]_vars => [A]_vars
  BY <1>1
<1> QED BY <1>2, RingInvariant, PTL DEF Spec

(* A push is refused, or evicts, only when the ring is full, or when a     *)
(* consumer is still reading the slot it needs: the one case in which the  *)
(* loop of Push waits for another goroutine (ring.go, tryPush).            *)
THEOREM RingPushRefused ==
  ASSUME Cap >= 2
  PROVE  Spec => [][pc[Producer] = "try" /\ pc'[Producer] \in {"loadHead", "idle"} =>
                      \/ tail = head + Cap
                      \/ \E c \in Consumers : Owns(c) /\ pos[c] + Cap = tail]_vars
<1>1. ASSUME RingInv, [Next]_vars, pc[Producer] = "try", pc'[Producer] \in {"loadHead", "idle"}
      PROVE  \/ tail = head + Cap
             \/ \E c \in Consumers : Owns(c) /\ pos[c] + Cap = tail
  <2>0. pc \in [Procs -> Labels] /\ Producer \in Procs
    BY <1>1, ProcsFacts DEF RingInv, TypeOK
  <2>1. TryPush
    BY <1>1, <2>0, ProcsFacts
       DEF Next, PushStep, PopStep, BeginPush, Fill, Publish, Advance, Count, BeginPop,
           LoadHead, LoadSeq, CasHead, Take, Wipe, Release, Goto, vars
  <2>2. seq[Idx(tail)] # tail
    BY <1>1, <2>0, <2>1 DEF TryPush, Goto
  <2>3. /\ tail \in Nat /\ head \in Nat /\ Cap \in Nat /\ Len(log) = tail
        /\ tail <= head + Cap
    BY <1>1, Numbers, CapIsNat DEF RingInv, InvCursors
  <2>4. CASE tail < head + Cap
    <3>1. tail \in Len(log) .. head + Cap - 1
      BY ONLY <2>3, <2>4
    <3>2. PICK p \in Procs : Owns(p) /\ pos[p] + Cap = tail
      BY <1>1, <2>2, <3>1 DEF RingInv, InvFree
    <3>3. p # Producer
      BY <1>1, <3>2 DEF Owns
    <3> QED BY <3>2, <3>3, ProcsFacts
  <2> QED BY <2>3, <2>4
<1> DEFINE A == pc[Producer] = "try" /\ pc'[Producer] \in {"loadHead", "idle"} =>
                  \/ tail = head + Cap
                  \/ \E c \in Consumers : Owns(c) /\ pos[c] + Cap = tail
<1>2. RingInv /\ [Next]_vars => [A]_vars
  BY <1>1
<1> QED BY <1>2, RingInvariant, PTL DEF Spec
=============================================================================
