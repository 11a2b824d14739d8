----------------------------- MODULE PartsProofs -----------------------------
(***************************************************************************)
(* Proofs about parts that stand alone, for every value of their constants *)
(* (sizes, policies, settings, sets of dashboards, sockets and sessions,   *)
(* widths of fields, bounds of buckets): the edge, the shaper of the       *)
(* uplink, the metrics hub, the connection of the web page, the virtual    *)
(* caller, the exported counters, the wire format and the histogram.       *)
(***************************************************************************)
EXTENDS Edge, Shaper, Hub, Reconnect, Caller, Counters, FrameCodec, Histogram,
        SequenceTheorems, FiniteSetTheorems, WellFoundedInduction, TLAPS

-----------------------------------------------------------------------------
(* Every step of the edge keeps the types, and the ring within its         *)
(* capacity: eviction makes room before the append.                        *)
LEMMA EdgeTypeStep == EdgeTypeOK /\ [EdgeNext]_edgeVars => EdgeTypeOK'
<1> SUFFICES ASSUME EdgeTypeOK, [EdgeNext]_edgeVars PROVE EdgeTypeOK'
  OBVIOUS
<1> USE EdgeAssumption DEF EdgeTypeOK
<1>1. CASE Push
  <2>1. CASE ~Full
    <3>1. queue' = Append(queue, offered + 1) /\ Len(queue) # Cap
      BY <1>1, <2>1 DEF Push, Full
    <3>2. queue' \in Seq(Nat) /\ Len(queue') <= Cap
      BY <3>1
    <3> QED BY <1>1, <2>1, <3>2 DEF Push, Full
  <2>2. CASE Full /\ DropOldest
    <3>1. queue' = Append(Tail(queue), offered + 1) /\ Len(queue) = Cap
      BY <1>1, <2>2 DEF Push, Full
    <3>2. queue # << >>
      BY <3>1
    <3>3. Tail(queue) \in Seq(Nat) /\ Len(Tail(queue)) = Len(queue) - 1
      BY <3>2
    <3>4. queue' \in Seq(Nat) /\ Len(queue') <= Cap
      BY <3>1, <3>3
    <3> QED BY <1>1, <2>2, <3>4 DEF Push, Full
  <2>3. CASE Full /\ ~DropOldest
    BY <1>1, <2>3 DEF Push, Full
  <2> QED BY <2>1, <2>2, <2>3
<1>2. CASE RingBell
  BY <1>2 DEF RingBell
<1>3. CASE CallAwait
  BY <1>3 DEF CallAwait
<1>4. CASE AwaitPop
  <2>1. CASE queue # << >> /\ got' = Append(got, Head(queue)) /\ queue' = Tail(queue)
    <3>1. Head(queue) \in Nat /\ queue' \in Seq(Nat) /\ Len(queue') = Len(queue) - 1
      BY <2>1
    <3>2. got' \in Seq(Nat)
      BY <2>1, <3>1
    <3>3. Len(queue) \in Nat /\ Len(queue') <= Cap
      BY <3>1
    <3> QED BY <1>4, <2>1, <3>1, <3>2, <3>3 DEF AwaitPop
  <2>2. CASE queue = << >> /\ UNCHANGED <<queue, got>>
    BY <1>4, <2>2 DEF AwaitPop
  <2> QED BY <1>4, <2>1, <2>2 DEF AwaitPop
<1>5. CASE Park \/ AwaitBell \/ AwaitCancelled
  BY <1>5 DEF Park, AwaitBell, AwaitCancelled
<1>6. CASE CallDrain
  BY <1>6 DEF CallDrain
<1>7. CASE DrainPop
  <2>1. CASE queue # << >> /\ queue' = Tail(queue)
    <3>1. queue' \in Seq(Nat) /\ Len(queue') = Len(queue) - 1 /\ Len(queue) \in Nat
      BY <2>1
    <3>2. Len(queue') <= Cap
      BY <3>1
    <3>3. drained' \in Nat /\ dpc' = "drain"
      BY <1>7, <2>1 DEF DrainPop
    <3> QED BY <1>7, <3>1, <3>2, <3>3 DEF DrainPop
  <2>2. CASE UNCHANGED <<queue, drained>>
    BY <1>7, <2>2 DEF DrainPop
  <2> QED BY <1>7, <2>1, <2>2 DEF DrainPop
<1>8. CASE Cancel
  BY <1>8 DEF Cancel
<1>9. CASE UNCHANGED edgeVars
  BY <1>9 DEF edgeVars
<1> QED BY <1>1, <1>2, <1>3, <1>4, <1>5, <1>6, <1>7, <1>8, <1>9 DEF EdgeNext, Consumer

(* No step loses a wakeup: a push that fills an empty ring is followed by  *)
(* the bell, and the token is only taken by a consumer that looks again.   *)
LEMMA WakeupStep == EdgeTypeOK /\ NoLostWakeup /\ [EdgeNext]_edgeVars => NoLostWakeup'
<1> SUFFICES ASSUME EdgeTypeOK, NoLostWakeup, [EdgeNext]_edgeVars PROVE NoLostWakeup'
  OBVIOUS
<1> USE DEF NoLostWakeup, EdgeTypeOK
<1>1. CASE Push
  <2>1. CASE ppc' = "ring"
    BY <2>1
  <2>2. CASE Full /\ ~DropOldest /\ UNCHANGED <<queue, dropped, ppc>>
    BY <1>1, <2>2 DEF Push
  <2> QED BY <1>1, <2>1, <2>2 DEF Push
<1>2. CASE RingBell
  BY <1>2 DEF RingBell
<1>3. CASE CallAwait
  BY <1>3 DEF CallAwait
<1>4. CASE AwaitPop
  BY <1>4 DEF AwaitPop
<1>5. CASE Park \/ AwaitBell \/ AwaitCancelled
  BY <1>5 DEF Park, AwaitBell, AwaitCancelled
<1>6. CASE CallDrain
  BY <1>6 DEF CallDrain
<1>7. CASE DrainPop
  BY <1>7 DEF DrainPop
<1>8. CASE Cancel
  BY <1>8 DEF Cancel
<1>9. CASE UNCHANGED edgeVars
  BY <1>9 DEF edgeVars
<1> QED BY <1>1, <1>2, <1>3, <1>4, <1>5, <1>6, <1>7, <1>8, <1>9 DEF EdgeNext, Consumer

(* The edge of edge.go never leaves a consumer asleep over a frame, for    *)
(* any capacity and either policy: the level-triggered bell suffices.      *)
THEOREM EdgeNoLostWakeup == EdgeSpec => [](EdgeTypeOK /\ NoLostWakeup)
<1>1. EdgeInit => EdgeTypeOK /\ NoLostWakeup
  <2> SUFFICES ASSUME EdgeInit PROVE EdgeTypeOK /\ NoLostWakeup
    OBVIOUS
  <2>1. queue = << >> /\ got = << >>
    BY DEF EdgeInit
  <2>2. queue \in Seq(Nat) /\ got \in Seq(Nat)
    BY <2>1
  <2>3. Len(queue) <= Cap
    BY <2>1, EdgeAssumption
  <2>4. EdgeTypeOK
    BY <2>2, <2>3 DEF EdgeInit, EdgeTypeOK
  <2>5. NoLostWakeup
    BY DEF EdgeInit, NoLostWakeup
  <2> QED BY <2>4, <2>5
<1>2. EdgeTypeOK /\ NoLostWakeup /\ [EdgeNext]_edgeVars => (EdgeTypeOK /\ NoLostWakeup)'
  BY EdgeTypeStep, WakeupStep
<1> QED BY <1>1, <1>2, PTL DEF EdgeSpec
-----------------------------------------------------------------------------
ShaperTypeOK ==
  /\ asleep \in BOOLEAN /\ slots \in Nat /\ next \in Nat /\ epoch \in Nat
  /\ lastIdeal \in Nat /\ lastRelease \in Nat /\ wall \in Nat /\ sentAt \in Seq(Nat)

(* The next slot is one interval on, and before the first one nothing has  *)
(* been released.                                                          *)
Grid ==
  /\ slots > 0 => next = lastIdeal + Interval /\ epoch <= lastIdeal
  /\ slots = 0 => lastRelease = 0

ShaperInv == ShaperTypeOK /\ Grid /\ StallsDoNotAddUp

(* A burst window holds a frame for as long as BurstHold at most           *)
(* (shaper.go 56-61).                                                      *)
LEMMA HeldBound ==
  ASSUME NEW ideal \in Nat, NEW from \in Nat, from <= ideal
  PROVE  Held(ideal, from) \in 0 .. BurstHold
<1> USE ShaperAssumption
<1>1. CASE BurstEvery > 0
  <2>1. (ideal - from) % BurstEvery \in 0 .. BurstEvery - 1
    BY <1>1
  <2> QED BY <1>1, <2>1 DEF Held
<1>2. CASE ~(BurstEvery > 0)
  BY <1>2 DEF Held
<1> QED BY <1>1, <1>2

(* The product that counts slots gains one interval with each              *)
(* (shaper.go 103).                                                        *)
LEMMA OneSlotMore ==
  ASSUME NEW n \in Nat \ {0}, NEW t \in Nat, t = epoch + (n - 1) * Interval, epoch \in Nat
  PROVE  t + Interval = epoch + ((n + 1) - 1) * Interval
BY ShaperAssumption

(* What release computes lies between the delay of the frame itself and    *)
(* the longest there is, if the frame before was within bounds             *)
(* (shaper.go 48-68).                                                      *)
LEMMA ReleaseBounds ==
  ASSUME NEW ideal \in Nat, NEW from \in Nat, from <= ideal, NEW jitter \in Jitters,
         lastRelease \in Nat, lastRelease <= ideal + Longest
  PROVE  /\ Release(ideal, from, jitter) \in Nat
         /\ ideal + Delay <= Release(ideal, from, jitter)
         /\ Release(ideal, from, jitter) <= ideal + Longest
<1> USE ShaperAssumption
<1> DEFINE wait == Held(ideal, from)
<1>1. wait \in 0 .. BurstHold
  BY HeldBound
<1>2. jitter \in 0 .. (IF Jitter > 0 THEN Jitter - 1 ELSE 0)
  BY DEF Jitters
<1> HIDE DEF wait
<1>3. Release(ideal, from, jitter) = Larger(ideal + Delay + jitter + wait, lastRelease)
  BY DEF Release, wait
<1> QED BY <1>1, <1>2, <1>3 DEF Larger, Longest

(* ShaperInv is inductive (shaper.go 48-105).                              *)
LEMMA ShaperInvStep == ShaperInv /\ [ShaperNext]_shaperVars => ShaperInv'
<1> SUFFICES ASSUME ShaperInv, [ShaperNext]_shaperVars PROVE ShaperInv'
  OBVIOUS
<1> USE ShaperAssumption
<1>1. ASSUME Wait PROVE ShaperInv'
  <2> DEFINE ideal == IF slots = 0 THEN wall ELSE next
             from == IF slots = 0 THEN ideal ELSE epoch
  <2>1. /\ slots' = slots + 1 /\ asleep' = TRUE /\ wall' = wall /\ sentAt' = sentAt
        /\ epoch' = from /\ lastIdeal' = ideal /\ next' = ideal + Interval
    BY <1>1 DEF Wait
  <2>2. PICK jitter \in Jitters : lastRelease' = Release(ideal, from, jitter)
    BY <1>1 DEF Wait
  <2>3. ideal \in Nat /\ from \in Nat /\ from <= ideal
    BY DEF ShaperInv, ShaperTypeOK, Grid
  <2>4. Longest \in Nat
    BY DEF Longest
  <2>5. lastRelease \in Nat /\ lastRelease <= ideal + Longest
    BY <2>4, <2>3 DEF ShaperInv, ShaperTypeOK, Grid, StallsDoNotAddUp
  <2>6. ideal = from + ((slots + 1) - 1) * Interval
    <3>1. CASE slots = 0
      BY <3>1, <2>3
    <3>2. CASE slots # 0
      <4>1. /\ slots \in Nat \ {0} /\ epoch \in Nat /\ lastIdeal \in Nat
            /\ lastIdeal = epoch + (slots - 1) * Interval
            /\ next = lastIdeal + Interval
        BY <3>2 DEF ShaperInv, ShaperTypeOK, Grid, StallsDoNotAddUp
      <4>2. lastIdeal + Interval = epoch + ((slots + 1) - 1) * Interval
        BY <4>1, OneSlotMore
      <4> QED BY <3>2, <4>1, <4>2
    <3> QED BY <3>1, <3>2
  <2> HIDE DEF ideal, from
  <2>7. /\ lastRelease' \in Nat /\ ideal + Delay <= lastRelease'
        /\ lastRelease' <= ideal + Longest
    BY <2>2, <2>3, <2>5, ReleaseBounds
  <2>8. ShaperTypeOK'
    BY <2>1, <2>3, <2>7 DEF ShaperInv, ShaperTypeOK
  <2>9. slots' \in Nat /\ slots' # 0
    BY <2>1 DEF ShaperInv, ShaperTypeOK
  <2>10. Grid'
    BY <2>1, <2>3, <2>9 DEF Grid
  <2>11. StallsDoNotAddUp'
    BY <2>1, <2>6, <2>7 DEF StallsDoNotAddUp, Longest
  <2> QED BY <2>8, <2>10, <2>11 DEF ShaperInv
<1>2. ASSUME Wake PROVE ShaperInv'
  <2>1. sentAt' \in Seq(Nat)
    BY <1>2 DEF Wake, ShaperInv, ShaperTypeOK
  <2>2. /\ asleep' = FALSE
        /\ UNCHANGED <<slots, next, epoch, lastIdeal, lastRelease, wall>>
    BY <1>2 DEF Wake
  <2>3. Grid' /\ StallsDoNotAddUp'
    BY <2>2 DEF ShaperInv, Grid, StallsDoNotAddUp, Longest
  <2>4. ShaperTypeOK'
    BY <2>1, <2>2 DEF ShaperInv, ShaperTypeOK
  <2> QED BY <2>3, <2>4 DEF ShaperInv
<1>3. ASSUME Elapse PROVE ShaperInv'
  BY <1>3 DEF Elapse, ShaperInv, ShaperTypeOK, Grid, StallsDoNotAddUp, Longest
<1>4. ASSUME UNCHANGED shaperVars PROVE ShaperInv'
  BY <1>4 DEF shaperVars, ShaperInv, ShaperTypeOK, Grid, StallsDoNotAddUp, Longest
<1> QED BY <1>1, <1>2, <1>3, <1>4 DEF ShaperNext

(* Every frame is released within the delays of one frame after its slot,  *)
(* and the slots keep to their grid, for every interval and every setting  *)
(* of delay, jitter and bursts (shaper.go 70-72).                          *)
THEOREM ShaperStallsDoNotAddUp == ShaperSpec => []StallsDoNotAddUp
<1>1. ShaperInit => ShaperInv
  <2> SUFFICES ASSUME ShaperInit PROVE ShaperInv
    OBVIOUS
  <2>1. sentAt \in Seq(Nat)
    BY DEF ShaperInit
  <2>2. ShaperTypeOK
    BY <2>1 DEF ShaperInit, ShaperTypeOK
  <2>3. slots = 0 /\ lastRelease = 0 /\ ~(slots > 0)
    BY DEF ShaperInit
  <2> QED BY <2>2, <2>3 DEF ShaperInv, Grid, StallsDoNotAddUp
<1>2. ShaperInv => StallsDoNotAddUp
  BY DEF ShaperInv
<1> QED BY <1>1, <1>2, ShaperInvStep, PTL DEF ShaperSpec
-----------------------------------------------------------------------------
-----------------------------------------------------------------------------
(* Sequences: what Show, Publish and Subscribe do to shown \o feed.        *)

LEMMA TakeKeepsTheWhole ==
  ASSUME NEW s \in Seq(Nat), NEW t \in Seq(Nat), t # << >>
  PROVE  /\ Append(s, Head(t)) \o Tail(t) = s \o t
         /\ Append(s, Head(t)) \in Seq(Nat) /\ Tail(t) \in Seq(Nat)
  <1>1. Head(t) \in Nat /\ Tail(t) \in Seq(Nat) /\ Append(s, Head(t)) \in Seq(Nat)
    OBVIOUS
  <1>. DEFINE l == Append(s, Head(t)) \o Tail(t)
              r == s \o t
  <1>2. Len(l) = Len(r)
    BY <1>1
  <1>3. \A i \in 1 .. Len(r) : l[i] = r[i]
    BY <1>1
  <1>4. l \in Seq(Nat) /\ r \in Seq(Nat)
    BY <1>1
  <1>. HIDE DEF l, r
  <1>5. l = r
    BY <1>2, <1>3, <1>4, SeqEqual
  <1>. QED BY <1>1, <1>5 DEF l, r

LEMMA AppendRight ==
  ASSUME NEW s \in Seq(Nat), NEW t \in Seq(Nat), NEW e \in Nat
  PROVE  s \o Append(t, e) = Append(s \o t, e)
  <1>. DEFINE l == s \o Append(t, e)
              r == Append(s \o t, e)
  <1>1. l \in Seq(Nat) /\ r \in Seq(Nat)
    OBVIOUS
  <1>2. Len(l) = Len(r) /\ \A i \in 1 .. Len(r) : l[i] = r[i]
    OBVIOUS
  <1>. HIDE DEF l, r
  <1>3. l = r
    BY <1>1, <1>2, SeqEqual
  <1>. QED BY <1>3 DEF l, r

LEMMA WithoutFirst ==
  ASSUME NEW s \in Seq(Nat), Len(s) >= 1
  PROVE  /\ SubSeq(s, 2, Len(s)) \in Seq(Nat) /\ Len(SubSeq(s, 2, Len(s))) = Len(s) - 1
         /\ \A i \in 1 .. Len(s) - 1 : SubSeq(s, 2, Len(s))[i] = s[i + 1]
  <1>1. /\ SubSeq(s, 2, Len(s)) \in Seq(Nat)
        /\ Len(SubSeq(s, 2, Len(s))) = IF 2 <= Len(s) THEN Len(s) - 2 + 1 ELSE 0
        /\ \A i \in 1 .. Len(s) - 2 + 1 : SubSeq(s, 2, Len(s))[i] = s[2 + i - 1]
    BY SubSeqProperties
  <1>2. Len(s) - 2 + 1 = Len(s) - 1 /\ \A i \in 1 .. Len(s) - 1 : 2 + i - 1 = i + 1
    OBVIOUS
  <1>. QED BY <1>1, <1>2

LEMMA EmptyLeft == ASSUME NEW t \in Seq(Nat) PROVE << >> \o t = t
  OBVIOUS

LEMMA ConcatType == ASSUME NEW s \in Seq(Nat), NEW t \in Seq(Nat) PROVE s \o t \in Seq(Nat)
  OBVIOUS
-----------------------------------------------------------------------------
(* Follows, and one more record.                                           *)

LEMMA FollowsAppend ==
  ASSUME NEW f \in Seq(Nat), NEW from \in Nat, NEW m, NEW last \in Nat, from <= last,
         Follows(f, from, m, last)
  PROVE  Follows(Append(f, last + 1), from, m, last + 1)
  <1>. DEFINE g == Append(f, last + 1)
  <1>1. /\ Len(g) = Len(f) + 1 /\ g[Len(f) + 1] = last + 1
        /\ \A i \in 1 .. Len(f) : g[i] = f[i]
    OBVIOUS
  <1>. HIDE DEF g
  <1>. USE DEF Follows
  <1>2. Len(f) \in Nat /\ \A i \in 1 .. Len(f) : f[i] \in Nat
    OBVIOUS
  <1>3. ASSUME NEW i \in 1 .. Len(g), NEW j \in 1 .. Len(g), i < j PROVE g[i] < g[j]
    <2>1. i \in 1 .. Len(f) /\ g[i] = f[i] /\ f[i] \in Nat /\ f[i] <= last
      BY <1>1, <1>2, <1>3
    <2>2. CASE j = Len(f) + 1
      BY <1>1, <2>1, <2>2
    <2>3. CASE j # Len(f) + 1
      <3>1. j \in 1 .. Len(f) /\ g[j] = f[j]
        BY <1>1, <1>2, <2>3
      <3>. QED BY <1>3, <2>1, <3>1
    <2>. QED BY <2>2, <2>3
  <1>4. ASSUME NEW i \in 1 .. Len(g) PROVE from < g[i] /\ g[i] <= last + 1
    <2>1. CASE i = Len(f) + 1
      BY <1>1, <2>1
    <2>2. CASE i # Len(f) + 1
      <3>1. i \in 1 .. Len(f) /\ g[i] = f[i]
        BY <1>1, <1>2, <2>2
      <3>. QED BY <1>2, <3>1
    <2>. QED BY <2>1, <2>2
  <1>5. m \subseteq from + 1 .. last + 1
    OBVIOUS
  <1>6. ASSUME NEW r \in from + 1 .. last + 1
        PROVE  r \in m <=> ~ \E i \in 1 .. Len(g) : g[i] = r
    <2>1. CASE r = last + 1
      <3>1. r \notin m
        BY <2>1
      <3>2. g[Len(g)] = r /\ Len(g) \in 1 .. Len(g)
        BY <1>1, <1>2, <2>1
      <3>. QED BY <3>1, <3>2
    <2>2. CASE r # last + 1
      <3>1. r \in from + 1 .. last
        BY <2>2
      <3>2. (\E i \in 1 .. Len(g) : g[i] = r) <=> (\E i \in 1 .. Len(f) : f[i] = r)
        <4>1. ASSUME NEW i \in 1 .. Len(g), g[i] = r PROVE \E k \in 1 .. Len(f) : f[k] = r
          <5>1. i # Len(f) + 1
            BY <1>1, <2>2, <4>1
          <5>2. i \in 1 .. Len(f) /\ f[i] = r
            BY <1>1, <1>2, <4>1, <5>1
          <5>. QED BY <5>2
        <4>2. ASSUME NEW i \in 1 .. Len(f), f[i] = r PROVE \E k \in 1 .. Len(g) : g[k] = r
          <5>1. i \in 1 .. Len(g) /\ g[i] = r
            BY <1>1, <1>2, <4>2
          <5>. QED BY <5>1
        <4>. QED BY <4>1, <4>2
      <3>. QED BY <3>1, <3>2
    <2>. QED BY <2>1, <2>2
  <1>. QED BY <1>3, <1>4, <1>5, <1>6 DEF g

LEMMA FollowsMiss ==
  ASSUME NEW f \in Seq(Nat), NEW from \in Nat, NEW m, NEW last \in Nat, from <= last,
         Follows(f, from, m, last)
  PROVE  Follows(f, from, m \cup {last + 1}, last + 1)
  <1>. USE DEF Follows
  <1>1. \A i \in 1 .. Len(f) : f[i] \in Nat /\ f[i] <= last
    OBVIOUS
  <1>2. m \cup {last + 1} \subseteq from + 1 .. last + 1
    OBVIOUS
  <1>3. ASSUME NEW r \in from + 1 .. last + 1
        PROVE  r \in m \cup {last + 1} <=> ~ \E i \in 1 .. Len(f) : f[i] = r
    <2>1. CASE r = last + 1
      BY <1>1, <2>1
    <2>2. CASE r # last + 1
      <3>1. r \in from + 1 .. last
        BY <2>2
      <3>. QED BY <2>2, <3>1
    <2>. QED BY <2>1, <2>2
  <1>4. \A i \in 1 .. Len(f) : from < f[i] /\ f[i] <= last + 1
    BY <1>1
  <1>. QED BY <1>2, <1>3, <1>4

(* A history that holds the last records is what a new dashboard follows.  *)
LEMMA HistoryFollows ==
  ASSUME HubTypeOK, HistIsLast
  PROVE  Follows(hist, published - Len(hist), {}, published)
  <1>. USE DEF HubTypeOK, HistIsLast, Follows
  <1>1. Len(hist) \in Nat /\ published \in Nat /\ Len(hist) <= published
    OBVIOUS
  <1>2. ASSUME NEW r \in published - Len(hist) + 1 .. published
        PROVE  \E i \in 1 .. Len(hist) : hist[i] = r
    <2>. DEFINE k == r - (published - Len(hist))
    <2>1. k \in 1 .. Len(hist) /\ published - Len(hist) + k = r
      BY <1>1
    <2>. HIDE DEF k
    <2>2. hist[k] = r
      BY <2>1
    <2>. QED BY <2>1, <2>2
  <1>. QED BY <1>1, <1>2

(* The history after one more record.                                      *)
LEMMA NewestIsLast ==
  ASSUME HubTypeOK, HistIsLast, published' = published + 1,
         hist' = Newest(Append(hist, published + 1))
  PROVE  HistIsLast' /\ hist' \in Seq(Nat)
  <1>. DEFINE h == Append(hist, published + 1)
  <1>1. /\ h \in Seq(Nat) /\ Len(h) = Len(hist) + 1 /\ Len(hist) \in Nat
        /\ Len(hist) <= HistCap /\ Len(hist) <= published /\ published \in Nat
    BY DEF HubTypeOK, HistIsLast
  <1>2. /\ h[Len(hist) + 1] = published + 1 /\ \A i \in 1 .. Len(hist) : h[i] = hist[i]
        /\ hist' = Newest(h) /\ published' = published + 1
    BY DEF HubTypeOK
  <1>. HIDE DEF h
  <1>3. ASSUME NEW i \in 1 .. Len(h) PROVE h[i] = published + 1 - Len(h) + i
    <2>1. CASE i = Len(hist) + 1
      BY <1>1, <1>2, <2>1
    <2>2. CASE i # Len(hist) + 1
      <3>1. i \in 1 .. Len(hist) /\ h[i] = hist[i]
        BY <1>1, <1>2, <2>2
      <3>. QED BY <1>1, <3>1 DEF HistIsLast
    <2>. QED BY <2>1, <2>2
  <1>4. CASE Len(h) <= HistCap
    <2>1. hist' = h
      BY HubAssumption, <1>1, <1>2, <1>4 DEF Newest
    <2>2. Len(hist') <= HistCap /\ Len(hist') <= published' /\ hist' \in Seq(Nat)
      BY <1>1, <1>2, <1>4, <2>1
    <2>3. \A i \in 1 .. Len(hist') : hist'[i] = published' - Len(hist') + i
      <3>. SUFFICES ASSUME NEW i \in 1 .. Len(hist')
                    PROVE  hist'[i] = published' - Len(hist') + i
        OBVIOUS
      <3>1. Len(hist') = Len(h) /\ published' = published + 1 /\ i \in 1 .. Len(h)
        BY <1>2, <2>1
      <3>2. hist'[i] = published + 1 - Len(h) + i
        BY <1>3, <2>1, <3>1
      <3>3. published' - Len(hist') = published + 1 - Len(h)
        BY <1>1, <3>1
      <3>. QED BY <3>2, <3>3, Zenon
    <2>. QED BY <2>2, <2>3 DEF HistIsLast
  <1>5. CASE Len(h) > HistCap
    <2>1. Len(h) = HistCap + 1 /\ Len(h) - HistCap + 1 = 2 /\ Len(h) >= 1
      BY HubAssumption, <1>1, <1>5
    <2>2. hist' = SubSeq(h, 2, Len(h))
      BY <1>2, <1>5, <2>1 DEF Newest
    <2>3. /\ hist' \in Seq(Nat) /\ Len(hist') = Len(h) - 1
          /\ \A i \in 1 .. Len(h) - 1 : hist'[i] = h[i + 1]
      <3>1. /\ SubSeq(h, 2, Len(h)) \in Seq(Nat) /\ Len(SubSeq(h, 2, Len(h))) = Len(h) - 1
            /\ \A i \in 1 .. Len(h) - 1 : SubSeq(h, 2, Len(h))[i] = h[i + 1]
        BY <1>1, <2>1, WithoutFirst, Zenon
      <3>. QED BY <2>2, <3>1, Zenon
    <2>4. Len(hist') = HistCap /\ HistCap <= published'
      BY HubAssumption, <1>1, <1>2, <2>1, <2>3
    <2>5. ASSUME NEW i \in 1 .. HistCap PROVE hist'[i] = published' - HistCap + i
      <3>1. i + 1 \in 1 .. Len(h) /\ i \in 1 .. Len(h) - 1 /\ i \in Nat
        BY HubAssumption, <2>1
      <3>2. hist'[i] = published + 1 - Len(h) + (i + 1)
        BY <1>3, <2>3, <3>1
      <3>3. /\ published \in Nat /\ HistCap \in Nat /\ i \in Nat
            /\ Len(h) = HistCap + 1 /\ published' = published + 1
        BY HubAssumption, <1>1, <1>2, <2>1, <3>1
      <3>4. published + 1 - Len(h) + (i + 1) = published' - HistCap + i
        BY <3>3
      <3>. QED BY <3>2, <3>4, Zenon
    <2>. QED BY <2>3, <2>4, <2>5 DEF HistIsLast
  <1>. QED BY HubAssumption, <1>1, <1>4, <1>5
-----------------------------------------------------------------------------
LEMMA HubInitInv == HubInit => HubInv
  <1>. SUFFICES ASSUME HubInit PROVE HubInv
    OBVIOUS
  <1>. USE DEF HubInit
  <1>. DEFINE none == [b \in Boards |-> << >>]
  <1>4. none \in [Boards -> Seq(Nat)]
    <2>1. << >> \in Seq(Nat)
      OBVIOUS
    <2>. QED BY <2>1
  <1>5. hist \in Seq(Nat) /\ feed = none /\ shown = none
    OBVIOUS
  <1>6. missed \in [Boards -> SUBSET Nat] /\ since \in [Boards -> Nat]
    OBVIOUS
  <1>7. board \in [Boards -> {"away", "subscribed", "left"}]
    OBVIOUS
  <1>. HIDE DEF none
  <1>1. HubTypeOK
    BY <1>4, <1>5, <1>6, <1>7 DEF HubTypeOK
  <1>2. HistIsLast /\ SinceBounded /\ AwayIsEmpty
    BY HubAssumption DEF HistIsLast, SinceBounded, AwayIsEmpty
  <1>3. FeedInOrder
    BY DEF FeedInOrder
  <1>. QED BY <1>1, <1>2, <1>3 DEF HubInv

LEMMA PublishInv == ASSUME HubInv, Publish PROVE HubInv'
  <1>. USE DEF HubInv
  <1>1. published' = published + 1 /\ hist' = Newest(Append(hist, published + 1))
    BY DEF Publish
  <1>2. HistIsLast' /\ hist' \in Seq(Nat)
    BY <1>1, NewestIsLast
  <1>3. HubTypeOK'
    <2>1. feed' \in [Boards -> Seq(Nat)]
      BY DEF HubTypeOK, Publish
    <2>2. missed' \in [Boards -> SUBSET Nat]
      BY DEF HubTypeOK, Publish
    <2>. QED BY <1>1, <1>2, <2>1, <2>2 DEF HubTypeOK, Publish
  <1>4. AwayIsEmpty'
    BY DEF HubTypeOK, AwayIsEmpty, Publish
  <1>5. ASSUME NEW b \in Boards, board[b] = "subscribed"
        PROVE  Follows(Feed(b), since[b], missed[b], published)'
    <2>1. /\ shown[b] \in Seq(Nat) /\ feed[b] \in Seq(Nat) /\ since[b] \in Nat
          /\ published \in Nat /\ Feed(b) \in Seq(Nat)
      BY ConcatType DEF HubTypeOK, Feed
    <2>2. Follows(Feed(b), since[b], missed[b], published)
      BY <1>5 DEF FeedInOrder
    <2>3. since[b] <= published /\ shown' = shown /\ since' = since
      BY <1>5 DEF SinceBounded, Publish
    <2>4. CASE ChanFull(b)
      <3>1. feed'[b] = feed[b] /\ missed'[b] = missed[b] \cup {published + 1}
        BY <1>5, <2>4 DEF Publish, HubTypeOK
      <3>2. Follows(Feed(b), since[b], missed[b] \cup {published + 1}, published + 1)
        BY <2>1, <2>2, <2>3, FollowsMiss
      <3>. QED BY <1>1, <2>3, <3>1, <3>2 DEF Feed
    <2>5. CASE ~ChanFull(b)
      <3>1. feed'[b] = Append(feed[b], published + 1) /\ missed'[b] = missed[b]
        BY <1>5, <2>5 DEF Publish, HubTypeOK
      <3>2. Follows(Append(Feed(b), published + 1), since[b], missed[b], published + 1)
        BY <2>1, <2>2, <2>3, FollowsAppend
      <3>3. Feed(b)' = Append(Feed(b), published + 1)
        <4>1. published + 1 \in Nat
          BY <2>1
        <4>2. shown[b] \o Append(feed[b], published + 1)
                = Append(shown[b] \o feed[b], published + 1)
          BY <2>1, <4>1, AppendRight
        <4>. QED BY <2>3, <3>1, <4>2 DEF Feed
      <3>. QED BY <1>1, <2>3, <3>1, <3>2, <3>3
    <2>. QED BY <2>4, <2>5
  <1>6. FeedInOrder'
    BY <1>5 DEF FeedInOrder, Publish
  <1>7. SinceBounded'
    BY <1>1 DEF SinceBounded, Publish, HubTypeOK
  <1>. QED BY <1>2, <1>3, <1>4, <1>6, <1>7

LEMMA SubscribeInv == ASSUME HubInv, NEW b \in Boards, Subscribe(b) PROVE HubInv'
  <1>. USE DEF HubInv
  <1>1. hist' = hist /\ published' = published /\ shown' = shown /\ missed' = missed
    BY DEF Subscribe
  <1>2. Fits
    BY HubAssumption DEF Fits, HubTypeOK, HistIsLast
  <1>3. /\ held' = FALSE /\ board' = [board EXCEPT ![b] = "subscribed"]
        /\ feed' = [feed EXCEPT ![b] = hist]
        /\ since' = [since EXCEPT ![b] = published - Len(hist)]
    BY <1>2 DEF Subscribe
  <1>4. published - Len(hist) \in Nat /\ published - Len(hist) <= published
    BY DEF HubTypeOK, HistIsLast
  <1>5. HubTypeOK'
    BY <1>1, <1>3, <1>4 DEF HubTypeOK
  <1>6. HistIsLast'
    BY <1>1 DEF HistIsLast
  <1>7. SinceBounded'
    BY <1>1, <1>3, <1>4 DEF SinceBounded, HubTypeOK
  <1>8. AwayIsEmpty'
    BY <1>1, <1>3 DEF AwayIsEmpty, HubTypeOK
  <1>9. Follows(Feed(b), since[b], missed[b], published)'
    <2>1. shown[b] = << >> /\ missed[b] = {}
      BY DEF Subscribe, AwayIsEmpty
    <2>2. << >> \o hist = hist
      BY EmptyLeft DEF HubTypeOK
    <2>3. Feed(b)' = hist
      BY <1>1, <1>3, <2>1, <2>2 DEF Feed, HubTypeOK
    <2>4. since'[b] = published - Len(hist)
      BY <1>3 DEF HubTypeOK
    <2>. QED BY <1>1, <2>1, <2>3, <2>4, HistoryFollows
  <1>10. ASSUME NEW c \in Boards, c # b, board'[c] = "subscribed"
         PROVE  Follows(Feed(c), since[c], missed[c], published)'
    <2>1. /\ board[c] = "subscribed" /\ feed'[c] = feed[c] /\ since'[c] = since[c]
      BY <1>3, <1>10 DEF HubTypeOK
    <2>2. Feed(c)' = Feed(c)
      BY <1>1, <2>1 DEF Feed
    <2>. QED BY <1>1, <2>1, <2>2 DEF FeedInOrder
  <1>11. FeedInOrder'
    BY <1>3, <1>9, <1>10 DEF FeedInOrder
  <1>. QED BY <1>5, <1>6, <1>7, <1>8, <1>11

LEMMA ShowInv == ASSUME HubInv, NEW b \in Boards, Show(b) PROVE HubInv'
  <1>. USE DEF HubInv
  <1>1. /\ hist' = hist /\ published' = published /\ board' = board /\ since' = since
        /\ missed' = missed /\ held' = held /\ board[b] = "subscribed"
        /\ shown' = [shown EXCEPT ![b] = Append(shown[b], Head(feed[b]))]
        /\ feed' = [feed EXCEPT ![b] = Tail(feed[b])] /\ feed[b] # << >>
    BY DEF Show
  <1>2. shown[b] \in Seq(Nat) /\ feed[b] \in Seq(Nat)
    BY DEF HubTypeOK
  <1>3. /\ Append(shown[b], Head(feed[b])) \o Tail(feed[b]) = shown[b] \o feed[b]
        /\ Append(shown[b], Head(feed[b])) \in Seq(Nat) /\ Tail(feed[b]) \in Seq(Nat)
    BY <1>1, <1>2, TakeKeepsTheWhole
  <1>4. HubTypeOK'
    BY <1>1, <1>3 DEF HubTypeOK
  <1>5. HistIsLast' /\ SinceBounded' /\ AwayIsEmpty'
    BY <1>1 DEF HistIsLast, SinceBounded, AwayIsEmpty, HubTypeOK
  <1>6. \A c \in Boards : Feed(c)' = Feed(c)
    <2>. SUFFICES ASSUME NEW c \in Boards PROVE Feed(c)' = Feed(c)
      OBVIOUS
    <2>1. CASE c = b
      <3>1. shown'[b] = Append(shown[b], Head(feed[b])) /\ feed'[b] = Tail(feed[b])
        BY <1>1 DEF HubTypeOK
      <3>. QED BY <1>3, <2>1, <3>1 DEF Feed
    <2>2. CASE c # b
      <3>1. shown'[c] = shown[c] /\ feed'[c] = feed[c]
        BY <1>1, <2>2 DEF HubTypeOK
      <3>. QED BY <3>1 DEF Feed
    <2>. QED BY <2>1, <2>2
  <1>7. FeedInOrder'
    BY <1>1, <1>6 DEF FeedInOrder
  <1>. QED BY <1>4, <1>5, <1>7

LEMMA UnsubscribeInv == ASSUME HubInv, NEW b \in Boards, Unsubscribe(b) PROVE HubInv'
  <1>. USE DEF HubInv
  <1>1. /\ UNCHANGED <<hist, published, feed, shown, since, missed, held>>
        /\ board' = [board EXCEPT ![b] = "left"]
    BY DEF Unsubscribe
  <1>2. HubTypeOK'
    BY <1>1 DEF HubTypeOK
  <1>3. HistIsLast' /\ SinceBounded' /\ AwayIsEmpty'
    BY <1>1 DEF HistIsLast, SinceBounded, AwayIsEmpty, HubTypeOK
  <1>4. FeedInOrder'
    <2>1. \A c \in Boards : board'[c] = "subscribed" => board[c] = "subscribed"
      BY <1>1 DEF HubTypeOK
    <2>2. \A c \in Boards : Feed(c)' = Feed(c)
      BY <1>1 DEF Feed
    <2>. QED BY <1>1, <2>1, <2>2 DEF FeedInOrder
  <1>. QED BY <1>2, <1>3, <1>4

(* The inductive invariant of the hub.                                     *)
THEOREM HubInvariant == HubSpec => []HubInv
  <1>1. HubInv /\ [HubNext]_hubVars => HubInv'
    <2>. SUFFICES ASSUME HubInv, [HubNext]_hubVars PROVE HubInv'
      OBVIOUS
    <2>1. CASE Publish
      BY <2>1, PublishInv
    <2>2. ASSUME NEW b \in Boards, Subscribe(b) \/ Show(b) \/ Unsubscribe(b) PROVE HubInv'
      BY <2>2, SubscribeInv, ShowInv, UnsubscribeInv
    <2>3. CASE UNCHANGED hubVars
      BY <2>3 DEF hubVars, HubInv, HubTypeOK, HistIsLast, SinceBounded, AwayIsEmpty,
                  FeedInOrder, Feed
    <2>. QED BY <2>1, <2>2, <2>3 DEF HubNext
  <1>. QED BY HubInitInv, <1>1, PTL DEF HubSpec

(* Every dashboard gets its records in order, none twice, without a gap    *)
(* but what found its channel full; and subscribe (hub.go 46-55) never     *)
(* blocks, whatever the capacities are, as long as the history's is not    *)
(* beyond the channel's.                                                   *)
THEOREM HubFeedInOrder == HubSpec => []FeedInOrder
  <1>1. HubInv => FeedInOrder
    BY DEF HubInv
  <1>. QED BY HubInvariant, <1>1, PTL
-----------------------------------------------------------------------------
(* The page keeps something to go on with.  A page within a callback is    *)
(* over only when it has stopped.                                          *)
Reasons == {"none", "clicked", "error", "exhausted"}
SocketStates == {"free", "connecting", "aborted", "open", "closing"}
PageRecord ==
  [running : BOOLEAN, ws : Nat, id : Nat, epoch : Nat, tries : Nat, timers : Nat, calls : Nat,
   why : Reasons, over : BOOLEAN]
Messages == [kind : {"start", "ack", "stop", "error", "close"}, id : Nat, epoch : Nat]
ConvTable == [Ids -> [live : BOOLEAN, epoch : Nat, att : Nat]]

PageGoesOn(p, socks) ==
  p.running => p.timers > 0 \/ \E i \in Sockets : socks[i] # "free"

PageStands ==
  /\ page \in PageRecord /\ ~page.over
  /\ sock \in [Sockets -> SocketStates]
  /\ PageGoesOn(page, sock)
WireTypes ==
  /\ upl \in [Sockets -> Seq(Messages)] /\ dnl \in [Sockets -> Seq(Messages)]
  /\ convs \in ConvTable
StandInv == PageStands /\ WireTypes

(* stop ends the page; scheduleReconnect leaves a timer or ends it.        *)
LEMMA EndedStops ==
  ASSUME NEW p, p \in PageRecord, NEW why \in Reasons
  PROVE  Ended(p, why) \in PageRecord /\ ~Ended(p, why).running /\ Ended(p, why).over
BY DEF PageRecord, Reasons, Ended

LEMMA ScheduleGoesOn ==
  ASSUME NEW p, p \in PageRecord, ~p.over
  PROVE  /\ Schedule(p) \in PageRecord
         /\ Schedule(p).over => ~Schedule(p).running
         /\ Schedule(p).over \/ Schedule(p).timers > 0
<1>1. CASE p.tries >= MaxReconnect
  BY <1>1, EndedStops DEF Schedule, Reasons
<1>2. CASE ~(p.tries >= MaxReconnect)
  <2> DEFINE q == [p EXCEPT !.tries = @ + 1, !.timers = @ + 1]
  <2>1. Schedule(p) = q
    BY <1>2 DEF Schedule
  <2>2. p.tries \in Nat /\ p.timers \in Nat
    BY DEF PageRecord
  <2>3. p.tries + 1 \in Nat /\ p.timers + 1 \in Nat /\ p.timers + 1 > 0
    BY <2>2
  <2>4. q \in PageRecord /\ q.timers > 0 /\ ~q.over
    BY <2>3 DEF PageRecord
  <2> QED BY <2>1, <2>4
<1> QED BY <1>1, <1>2

(* What a callback leaves: a page that is not over, and going on if what   *)
(* the callback made of it was over or goes on.                            *)
LEMMA BecomeStands ==
  ASSUME NEW p, NEW socks, p \in PageRecord, p.over => ~p.running,
         socks \in [Sockets -> SocketStates],
         p.over \/ PageGoesOn(p, socks), Become(p, socks)
  PROVE  PageStands'
<1>1. page' = [p EXCEPT !.over = FALSE]
  BY DEF Become
<1>2. page' \in PageRecord /\ ~page'.over /\ page'.running = p.running /\ page'.timers = p.timers
  BY <1>1 DEF PageRecord, Reasons
<1>3. CASE p.over
  <2>1. sock' = HangUp(socks, p.ws)
    BY <1>3 DEF Become
  <2>2. sock' \in [Sockets -> SocketStates]
    BY <2>1 DEF HangUp, SocketStates
  <2> QED BY <1>2, <1>3, <2>2 DEF PageStands, PageGoesOn
<1>4. CASE ~p.over
  <2>1. sock' = socks
    BY <1>4 DEF Become
  <2> QED BY <1>2, <1>4, <2>1 DEF PageStands, PageGoesOn
<1> QED BY <1>3, <1>4

(* A new socket stands for the page.                                       *)
LEMMA ConnectStands ==
  ASSUME PageStands, NEW i \in Sockets, NEW p, p \in PageRecord, ~p.over, Connect(i, p)
  PROVE  PageStands'
<1>1. page' = [p EXCEPT !.ws = i] /\ sock' = [sock EXCEPT ![i] = "connecting"]
  BY DEF Connect
<1>2. page' \in PageRecord /\ ~page'.over
  BY <1>1, ReconnectAssumption DEF PageRecord, Reasons
<1>3. sock'[i] # "free" /\ sock' \in [Sockets -> SocketStates]
  BY <1>1 DEF PageStands, SocketStates
<1> QED BY <1>2, <1>3 DEF PageStands, PageGoesOn

(* A socket is over: a timer takes its place, or the page has stopped.     *)
LEMMA CloseStands ==
  ASSUME PageStands, NEW p, p \in PageRecord, p.over => ~p.running, NEW socks,
         socks \in [Sockets -> SocketStates], Become(OnClose(p), socks)
  PROVE  PageStands'
<1>1. CASE p.running
  <2>1. OnClose(p) = Schedule(p) /\ ~p.over
    BY <1>1 DEF OnClose
  <2>2. Schedule(p).over \/ PageGoesOn(Schedule(p), socks)
    BY <2>1, ScheduleGoesOn DEF PageGoesOn
  <2> QED BY <2>1, <2>2, ScheduleGoesOn, BecomeStands
<1>2. CASE ~p.running
  BY <1>2, BecomeStands DEF OnClose, PageGoesOn
<1> QED BY <1>1, <1>2

LEMMA OpenedStands == ASSUME PageStands, NEW i \in Sockets, Opened(i) PROVE PageStands'
<1> DEFINE socks == [sock EXCEPT ![i] = "open"]
           started == IF i \in retry THEN page ELSE [page EXCEPT !.running = TRUE]
<1>1. socks \in [Sockets -> SocketStates] /\ socks[i] = "open"
  BY DEF PageStands, SocketStates
<1>2. started \in PageRecord /\ ~started.over
  BY DEF PageStands, PageRecord, Reasons
<1>3. \A p : PageGoesOn(p, socks)
  BY <1>1 DEF PageGoesOn
<1>4. CASE page' = started /\ sock' = socks
  BY <1>1, <1>2, <1>3, <1>4 DEF PageStands, PageGoesOn
<1>5. CASE Become(started, socks)
  BY <1>1, <1>2, <1>3, <1>5, BecomeStands
<1>6. CASE Become(IF i \in retry THEN Schedule(page) ELSE page, socks)
  <2>1. page \in PageRecord /\ ~page.over
    BY DEF PageStands
  <2>2. CASE i \in retry
    BY <1>1, <1>3, <1>6, <2>1, <2>2, ScheduleGoesOn, BecomeStands
  <2>3. CASE i \notin retry
    BY <1>1, <1>3, <1>6, <2>1, <2>3, BecomeStands
  <2> QED BY <2>2, <2>3
<1> QED BY <1>4, <1>5, <1>6 DEF Opened

LEMMA PageStep == StandInv /\ [ReconnectNext]_reconnVars => PageStands'
<1> SUFFICES ASSUME StandInv, [ReconnectNext]_reconnVars PROVE PageStands'
  OBVIOUS
<1>0. page \in PageRecord /\ ~page.over /\ sock \in [Sockets -> SocketStates]
  BY DEF StandInv, PageStands
<1>00. PageStands
  BY DEF StandInv
<1>1. ASSUME NEW i \in Sockets, Page(i) PROVE PageStands'
  <2>1. CASE MediaReady(i)
    <3> DEFINE p == [page EXCEPT !.calls = @ - 1]
    <3>1. p \in PageRecord /\ ~p.over
      BY <1>0, <1>00, <2>1 DEF MediaReady, PageRecord, Reasons
    <3> QED BY <1>00, <2>1, <3>1, ConnectStands DEF MediaReady
  <2>2. CASE TimerFires(i)
    <3> DEFINE p == [page EXCEPT !.timers = @ - 1]
    <3>1. p \in PageRecord /\ ~p.over
      BY <1>0, <1>00, <2>2 DEF TimerFires, PageRecord, Reasons
    <3> QED BY <1>00, <2>2, <3>1, ConnectStands DEF TimerFires
  <2>3. CASE Opened(i)
    BY <1>00, <2>3, OpenedStands
  <2>4. CASE OpenFails(i)
    <3> DEFINE p == IF i \in retry THEN Schedule(page) ELSE page
               socks == [sock EXCEPT ![i] = "free"]
    <3>1. p \in PageRecord /\ (p.over => ~p.running)
      BY <1>0, <1>00, ScheduleGoesOn
    <3>2. socks \in [Sockets -> SocketStates]
      BY <1>0 DEF SocketStates
    <3>3. Become(OnClose(p), socks)
      BY <2>4 DEF OpenFails
    <3> HIDE DEF p, socks
    <3> QED BY <3>1, <3>2, <3>3, <1>00, CloseStands
  <2>5. CASE CloseArrives(i)
    <3> DEFINE socks == [sock EXCEPT ![i] = "free"]
    <3>1. socks \in [Sockets -> SocketStates]
      BY <1>0 DEF SocketStates
    <3>2. Become(OnClose(page), socks)
      BY <2>5 DEF CloseArrives
    <3> HIDE DEF socks
    <3> QED BY <1>0, <1>00, <3>1, <3>2, CloseStands
  <2>6. CASE FrameArrives(i)
    <3>1. CASE Become(Ended(page, "error"), sock)
      BY <1>0, <1>00, <3>1, EndedStops, BecomeStands DEF Reasons
    <3>2. CASE /\ page' = [page EXCEPT !.id = Head(dnl[i]).id, !.epoch = Head(dnl[i]).epoch,
                                    !.tries = 0]
               /\ sock' = sock /\ dnl[i] # << >>
      <4>1. Head(dnl[i]) \in Messages
        BY <3>2 DEF StandInv, WireTypes
      <4>2. Head(dnl[i]).id \in Nat /\ Head(dnl[i]).epoch \in Nat
        BY <4>1 DEF Messages
      <4>3. page' \in PageRecord /\ ~page'.over /\ page'.running = page.running
              /\ page'.timers = page.timers
        BY <1>0, <3>2, <4>2 DEF PageRecord, Reasons
      <4> QED BY <3>2, <4>3 DEF StandInv, PageStands, PageGoesOn
    <3> QED BY <2>6, <3>1, <3>2 DEF FrameArrives
  <2> QED BY <1>1, <2>1, <2>2, <2>3, <2>4, <2>5, <2>6 DEF Page
<1>2. CASE ClickStop
  BY <1>0, <1>00, <1>2, EndedStops, BecomeStands DEF ClickStop, Reasons
<1>3. CASE TimerLapses \/ Click \/ MediaRefused
  BY <1>3 DEF TimerLapses, Click, MediaRefused, StandInv, PageStands, PageGoesOn, PageRecord, Reasons
<1>4. CASE UNCHANGED <<page, sock>>
  BY <1>4 DEF StandInv, PageStands, PageGoesOn, PageRecord, Reasons
<1>5. ASSUME NEW i \in Sockets, Server(i) \/ Dropped(i) PROVE UNCHANGED <<page, sock>>
  BY <1>5 DEF Server, Refuse, HandshakeTimesOut, Obey, Attach, Dropped
<1> QED BY <1>1, <1>2, <1>3, <1>4, <1>5 DEF ReconnectNext, IdleEnds, reconnVars

(* What is on the wire is made of messages.                                *)
LEMMA BecomeWires ==
  ASSUME upl \in [Sockets -> Seq(Messages)], NEW p, NEW socks, Become(p, socks)
  PROVE  upl' \in [Sockets -> Seq(Messages)]
<1>1. StopMsg \in Messages
  BY DEF StopMsg, Messages
<1>2. \A i \in Sockets : upl[i] \in Seq(Messages) /\ Append(upl[i], StopMsg) \in Seq(Messages)
  BY <1>1
<1>3. << >> \in Seq(Messages)
  OBVIOUS
<1> QED BY <1>2, <1>3 DEF Become

LEMMA TailOf ==
  ASSUME NEW i \in Sockets, NEW q \in [Sockets -> Seq(Messages)], q[i] # << >>
  PROVE  /\ [q EXCEPT ![i] = Tail(@)] \in [Sockets -> Seq(Messages)]
         /\ Head(q[i]) \in Messages
<1>1. q[i] \in Seq(Messages)
  OBVIOUS
<1>2. Tail(q[i]) \in Seq(Messages) /\ Head(q[i]) \in Messages
  BY <1>1
<1> QED BY <1>2

LEMMA AppendTo ==
  ASSUME NEW i \in Sockets, NEW q \in [Sockets -> Seq(Messages)], NEW m \in Messages
  PROVE  [q EXCEPT ![i] = Append(@, m)] \in [Sockets -> Seq(Messages)]
<1>1. Append(q[i], m) \in Seq(Messages)
  OBVIOUS
<1> QED BY <1>1

LEMMA DetachedType == WireTypes => \A i : Detached(i) \in ConvTable
<1> SUFFICES ASSUME WireTypes, NEW i, NEW s \in Ids
             PROVE  (IF convs[s].att = i THEN [convs[s] EXCEPT !.att = 0] ELSE convs[s])
                      \in [live : BOOLEAN, epoch : Nat, att : Nat]
  BY DEF Detached, ConvTable
<1>1. convs[s] \in [live : BOOLEAN, epoch : Nat, att : Nat]
  BY DEF WireTypes, ConvTable
<1> QED BY <1>1

LEMMA AttachWires ==
  ASSUME WireTypes, NEW i \in Sockets, NEW s \in Ids, Attach(i, s)
  PROVE  WireTypes'
<1> DEFINE m == Head(upl[i])
           e == EpochOf(m, s)
<1>1. m \in Messages /\ upl' \in [Sockets -> Seq(Messages)]
  BY TailOf DEF WireTypes, Attach
<1>2. e \in Nat
  BY <1>1 DEF EpochOf, Messages
<1>3. AckOf(s, e) \in Messages /\ CloseMsg \in Messages
  BY <1>2 DEF AckOf, CloseMsg, Messages, Ids
<1> HIDE DEF m, e
<1>4. convs' = [convs EXCEPT ![s] = [live |-> TRUE, epoch |-> e, att |-> i]]
  BY DEF Attach, m, e
<1>5. convs' \in ConvTable
  <2>1. i \in Nat
    BY ReconnectAssumption
  <2> QED BY <1>2, <1>4, <2>1 DEF WireTypes, ConvTable
<1>6. dnl' = [j \in Sockets |-> IF j = i THEN Append(dnl[i], AckOf(s, e))
                                ELSE IF j = convs[s].att THEN Append(dnl[j], CloseMsg)
                                     ELSE dnl[j]]
  BY DEF Attach, m, e
<1>7. \A j \in Sockets : /\ dnl[j] \in Seq(Messages)
                         /\ Append(dnl[j], AckOf(s, e)) \in Seq(Messages)
                         /\ Append(dnl[j], CloseMsg) \in Seq(Messages)
  BY <1>3 DEF WireTypes
<1>8. dnl' \in [Sockets -> Seq(Messages)]
  BY <1>6, <1>7
<1> QED BY <1>1, <1>5, <1>8 DEF WireTypes

LEMMA ServerWires ==
  ASSUME WireTypes, NEW i \in Sockets, Server(i)
  PROVE  WireTypes'
<1>0. CloseMsg \in Messages /\ ErrorMsg \in Messages
  BY DEF CloseMsg, ErrorMsg, Messages
<1>1. CASE Refuse(i)
  <2>1. upl' \in [Sockets -> Seq(Messages)]
    BY <1>1, TailOf DEF WireTypes, Refuse
  <2>2. dnl[i] \o <<ErrorMsg, CloseMsg>> \in Seq(Messages)
    BY <1>0 DEF WireTypes
  <2>3. dnl' \in [Sockets -> Seq(Messages)]
    BY <1>1, <2>2 DEF WireTypes, Refuse
  <2> QED BY <1>1, <2>1, <2>3 DEF WireTypes, Refuse
<1>2. CASE HandshakeTimesOut(i)
  BY <1>0, <1>2, AppendTo DEF WireTypes, HandshakeTimesOut
<1>3. CASE Obey(i)
  <2>1. upl' \in [Sockets -> Seq(Messages)]
    BY <1>3, TailOf DEF WireTypes, Obey
  <2>2. CASE UNCHANGED <<dnl, convs>>
    BY <2>1, <2>2 DEF WireTypes
  <2>3. CASE Head(upl[i]).kind = "stop"
    <3>1. dnl' \in [Sockets -> Seq(Messages)]
      <4>1. dnl' = [dnl EXCEPT ![i] = Append(@, CloseMsg)]
        BY <1>3, <2>3 DEF Obey
      <4> QED BY <1>0, <4>1, AppendTo DEF WireTypes
    <3>2. ASSUME NEW s \in Ids
          PROVE  (IF convs[s].att = i THEN [convs[s] EXCEPT !.live = FALSE, !.att = 0]
                  ELSE convs[s]) \in [live : BOOLEAN, epoch : Nat, att : Nat]
      <4>1. convs[s] \in [live : BOOLEAN, epoch : Nat, att : Nat]
        BY DEF WireTypes, ConvTable
      <4> QED BY <4>1
    <3>3. convs' \in ConvTable
      BY <1>3, <2>3, <3>2 DEF Obey, ConvTable
    <3> QED BY <2>1, <3>1, <3>3 DEF WireTypes
  <2> QED BY <1>3, <2>2, <2>3 DEF Obey
<1>4. CASE \E s \in Ids : Attach(i, s)
  BY <1>4, AttachWires
<1> QED BY <1>1, <1>2, <1>3, <1>4 DEF Server

LEMMA PageWires ==
  ASSUME StandInv, NEW i \in Sockets, Page(i)
  PROVE  WireTypes'
<1>0. WireTypes /\ upl \in [Sockets -> Seq(Messages)] /\ dnl \in [Sockets -> Seq(Messages)]
  BY DEF StandInv, WireTypes
<1>1. CASE MediaReady(i) \/ TimerFires(i)
  BY <1>0, <1>1 DEF MediaReady, TimerFires, Connect, WireTypes
<1>2. CASE Opened(i)
  <2>1. CASE \E p, socks : Become(p, socks)
    BY <1>0, <1>2, <2>1, BecomeWires DEF Opened, WireTypes
  <2>2. CASE upl' = [upl EXCEPT ![page.ws] = Append(@, StartOf(page.id, page.epoch + 1))]
    <3>1. StartOf(page.id, page.epoch + 1) \in Messages
      BY DEF StandInv, PageStands, PageRecord, Reasons, StartOf, Messages
    <3>2. CASE page.ws \in Sockets
      BY <1>0, <1>2, <2>2, <3>1, <3>2, AppendTo DEF Opened, WireTypes
    <3>3. CASE page.ws \notin Sockets
      BY <1>0, <1>2, <2>2, <3>3 DEF Opened, WireTypes
    <3> QED BY <3>2, <3>3
  <2> QED BY <1>2, <2>1, <2>2 DEF Opened
<1>3. CASE OpenFails(i)
  <2>1. upl' \in [Sockets -> Seq(Messages)]
    BY <1>0, <1>3, BecomeWires DEF OpenFails
  <2> QED BY <1>0, <1>3, <2>1 DEF OpenFails, WireTypes
<1>4. CASE CloseArrives(i)
  <2>1. upl' \in [Sockets -> Seq(Messages)]
    BY <1>0, <1>4, BecomeWires DEF CloseArrives
  <2>2. dnl' \in [Sockets -> Seq(Messages)]
    BY <1>0, <1>4 DEF CloseArrives
  <2>3. convs' \in ConvTable
    BY <1>0, <1>4, DetachedType DEF CloseArrives
  <2> QED BY <2>1, <2>2, <2>3 DEF WireTypes
<1>5. CASE FrameArrives(i)
  <2>1. upl' \in [Sockets -> Seq(Messages)]
    BY <1>0, <1>5, BecomeWires DEF FrameArrives
  <2>2. dnl' \in [Sockets -> Seq(Messages)]
    BY <1>0, <1>5, TailOf DEF FrameArrives
  <2> QED BY <1>0, <1>5, <2>1, <2>2 DEF FrameArrives, WireTypes
<1> QED BY <1>1, <1>2, <1>3, <1>4, <1>5 DEF Page

LEMMA WireStep == StandInv /\ [ReconnectNext]_reconnVars => WireTypes'
<1> SUFFICES ASSUME StandInv, [ReconnectNext]_reconnVars PROVE WireTypes'
  OBVIOUS
<1>0. WireTypes
  BY DEF StandInv
<1>1. ASSUME NEW i \in Sockets, Dropped(i) PROVE WireTypes'
  <2>1. CloseMsg \in Messages
    BY DEF CloseMsg, Messages
  <2>2. <<CloseMsg>> \in Seq(Messages) /\ << >> \in Seq(Messages)
    BY <2>1
  <2>3. /\ upl' \in [Sockets -> Seq(Messages)]
        /\ dnl' \in [Sockets -> Seq(Messages)]
    BY <1>0, <1>1, <2>2 DEF WireTypes, Dropped
  <2>4. convs' \in ConvTable
    BY <1>0, <1>1, DetachedType DEF Dropped
  <2> QED BY <2>3, <2>4 DEF WireTypes
<1>2. CASE ClickStop
  BY <1>0, <1>2, BecomeWires DEF ClickStop, WireTypes
<1>3. ASSUME NEW s \in Ids, IdleEnds(s) PROVE WireTypes'
  <2>1. convs' \in ConvTable
    <3>1. convs[s] \in [live : BOOLEAN, epoch : Nat, att : Nat]
      BY <1>0 DEF WireTypes, ConvTable
    <3> QED BY <1>0, <1>3, <3>1 DEF IdleEnds, WireTypes, ConvTable
  <2> QED BY <1>0, <1>3, <2>1 DEF IdleEnds, WireTypes
<1>4. CASE UNCHANGED <<upl, dnl, convs>>
  BY <1>0, <1>4 DEF WireTypes
<1> QED BY <1>0, <1>1, <1>2, <1>3, <1>4, PageWires, ServerWires
        DEF ReconnectNext, Click, MediaRefused, TimerLapses, reconnVars

(* A conversation that has begun and was not stopped has a socket that is  *)
(* not over, or a timer, for any number of sockets, tries and faults: on   *)
(* every path by which connectWS's socket ends, onclose either schedules   *)
(* the next attempt or stops the page (web/app.js scheduleReconnect).      *)
THEOREM ReconnectNeverStranded == ReconnectSpec => []NeverStranded
<1>1. ReconnectInit => StandInv
  <2> SUFFICES ASSUME ReconnectInit PROVE StandInv
    OBVIOUS
  <2>1. PageStands
    BY DEF ReconnectInit, PageStands, PageRecord, Reasons, PageGoesOn, SocketStates
  <2>2. WireTypes
    BY DEF ReconnectInit, WireTypes, ConvTable, NoConv
  <2> QED BY <2>1, <2>2 DEF StandInv
<1>2. StandInv => NeverStranded
  BY DEF StandInv, PageStands, PageGoesOn, NeverStranded
<1>3. StandInv /\ [ReconnectNext]_reconnVars => StandInv'
  BY PageStep, WireStep DEF StandInv
<1> QED BY <1>1, <1>2, <1>3, PTL DEF ReconnectSpec
-----------------------------------------------------------------------------
(* The caller samples its own answers.  A stamp is fresh, of the utterance *)
(* spoken last, from a mark on, when no other frame can have come since.   *)
Stamps == [at : Nat, of : Nat]
WorkerPlaces == {"next", "speak", "first", "ride", "barge", "awaitBarge", "second",
                 "quiet", "recover", "ended"}
CallerTypes ==
  /\ wpc \in WorkerPlaces
  /\ mark \in Nat /\ after \in Nat /\ utt \in Nat /\ still \in Nat
  /\ answer \in Nat /\ stray \in Nat
  /\ asked \in Seq(Nat) /\ audioC \in Seq(Stamps) /\ bargeC \in Seq(Nat)
  /\ samples \in Seq([want : Nat, got : Nat, clean : BOOLEAN])

CallerStamps ==
  /\ after <= mark
  /\ \A k \in DOMAIN audioC : audioC[k].at <= mark
  /\ \A k \in DOMAIN bargeC : bargeC[k] <= mark

NoneOfThis == \A k \in DOMAIN audioC : audioC[k].of # utt
Fresh(m) == \A k \in DOMAIN audioC : audioC[k].at >= m => audioC[k].of = utt

(* What is on its way in each phase, as long as nothing has gone amiss.    *)
CallerPhase ==
  /\ asked \in {<< >>, <<utt>>}
  /\ asked = <<utt>> => answer # utt /\ NoneOfThis
  /\ wpc # "recover" /\ (wpc # "next" => utt > 0)
  /\ \A k \in DOMAIN audioC : audioC[k].of <= utt
  /\ wpc \in {"next", "speak"} => asked = << >> /\ answer = 0 /\ audioC = << >>
  /\ wpc \in {"ride", "quiet", "barge"} => asked = << >>
  /\ wpc \in {"first", "ride", "quiet", "second"} => answer \in {0, utt}
  /\ wpc = "barge" => answer \in {0, utt - 1} /\ utt > 1 /\ NoneOfThis
  /\ wpc = "awaitBarge" => answer \in {0, utt - 1, utt}
  /\ wpc \in {"barge", "awaitBarge"} =>
       \A k \in DOMAIN bargeC : bargeC[k] >= after => answer \in {0, utt} /\ Fresh(bargeC[k])
  /\ wpc \in {"first", "second"} => Fresh(after)

OnTime == mishaps = {} /\ wpc # "ended"
CallerInv == CallerTypes /\ CallerStamps /\ (OnTime => CallerPhase) /\ OwnAnswer

LEMMA TailPicks ==
  ASSUME NEW S, NEW s \in Seq(S), s # << >>
  PROVE  /\ Tail(s) \in Seq(S) /\ Head(s) = s[1] /\ 1 \in DOMAIN s /\ s[1] \in S
         /\ \A k \in DOMAIN Tail(s) : k + 1 \in DOMAIN s /\ Tail(s)[k] = s[k + 1]
OBVIOUS

LEMMA AppendPicks ==
  ASSUME NEW S, NEW s \in Seq(S), NEW e \in S
  PROVE  /\ Append(s, e) \in Seq(S)
         /\ \A k \in DOMAIN Append(s, e) :
              Append(s, e)[k] = e \/ (k \in DOMAIN s /\ Append(s, e)[k] = s[k])
OBVIOUS

LEMMA StampTypes ==
  ASSUME CallerTypes
  PROVE  /\ \A k \in DOMAIN audioC : audioC[k].at \in Nat /\ audioC[k].of \in Nat
         /\ \A k \in DOMAIN bargeC : bargeC[k] \in Nat
<1>1. \A k \in DOMAIN audioC : audioC[k] \in Stamps
  BY DEF CallerTypes
<1>2. \A k \in DOMAIN bargeC : bargeC[k] \in Nat
  BY DEF CallerTypes
<1> QED BY <1>1, <1>2 DEF Stamps

LEMMA CallerStart == CallerInit => CallerInv
<1> SUFFICES ASSUME CallerInit PROVE CallerInv
  OBVIOUS
<1>1. CallerTypes
  <2>1. QuietGap \in Nat
    BY CallerAssumption
  <2>2. /\ << >> \in Seq(Nat) /\ << >> \in Seq(Stamps)
        /\ << >> \in Seq([want : Nat, got : Nat, clean : BOOLEAN])
    OBVIOUS
  <2> QED BY <2>1, <2>2 DEF CallerInit, CallerTypes, WorkerPlaces
<1>2. CallerStamps /\ CallerPhase /\ OwnAnswer
  BY DEF CallerInit, CallerStamps, CallerPhase, OwnAnswer, Fresh, NoneOfThis
<1> QED BY <1>1, <1>2 DEF CallerInv

(* The server: answers.                                                    *)
LEMMA AnswerKeeps ==
  ASSUME CallerInv, Answer \/ NoAnswer \/ AnswerEnds PROVE CallerInv'
<1> USE DEF CallerInv
<1>0. asked # << >> => /\ Head(asked) \in Nat /\ Tail(asked) \in Seq(Nat)
  BY DEF CallerTypes
<1>1. CallerTypes'
  <2>1. answer' \in Nat /\ asked' \in Seq(Nat)
    <3>1. CASE Answer
      BY <1>0, <3>1 DEF CallerTypes, Answer
    <3>2. CASE NoAnswer
      BY <1>0, <3>2 DEF CallerTypes, NoAnswer
    <3>3. CASE AnswerEnds
      BY <3>3 DEF CallerTypes, AnswerEnds
    <3> QED BY <3>1, <3>2, <3>3
  <2> QED BY <2>1 DEF CallerTypes, Answer, NoAnswer, AnswerEnds
<1>2. CallerStamps'
  BY DEF CallerStamps, Answer, NoAnswer, AnswerEnds
<1>3. OwnAnswer'
  BY DEF OwnAnswer, Answer, NoAnswer, AnswerEnds
<1>4. ASSUME OnTime' PROVE CallerPhase'
  <2>1. OnTime /\ CallerPhase
    BY <1>4 DEF OnTime, Answer, NoAnswer, AnswerEnds
  <2>2. asked = <<utt>> => Head(asked) = utt /\ Tail(asked) = << >>
    BY DEF CallerTypes
  <2>3. << >> # <<utt>> /\ utt' = utt /\ wpc' = wpc /\ audioC' = audioC /\ bargeC' = bargeC
          /\ after' = after
    BY DEF Answer, NoAnswer, AnswerEnds
  <2>4. CASE AnswerEnds
    BY <2>1, <2>3, <2>4 DEF AnswerEnds, CallerPhase, CallerTypes, Fresh, NoneOfThis
  <2>5. CASE NoAnswer
    <3>1. asked' = << >> /\ answer' = answer /\ asked = <<utt>>
      BY <2>1, <2>2, <2>5 DEF NoAnswer, CallerPhase
    <3> QED BY <2>1, <2>3, <3>1 DEF CallerPhase, Fresh, NoneOfThis
  <2>6. CASE Answer
    <3>1. asked' = << >> /\ answer' = utt /\ asked = <<utt>>
      BY <2>1, <2>2, <2>6 DEF Answer, CallerPhase
    <3>2. wpc \in {"first", "awaitBarge", "second"}
      BY <2>1, <2>3, <3>1 DEF CallerPhase, CallerTypes, WorkerPlaces, OnTime
    <3> QED BY <2>1, <2>3, <3>1, <3>2 DEF CallerPhase, Fresh, NoneOfThis
  <2> QED BY <2>4, <2>5, <2>6
<1> QED BY <1>1, <1>2, <1>3, <1>4

(* A frame of the answer is stamped with the mark.                         *)
LEMMA AudioArrivesKeeps == ASSUME CallerInv, AudioArrives PROVE CallerInv'
<1> USE DEF CallerInv
<1> DEFINE e == [at |-> mark, of |-> answer]
<1>0. e \in Stamps /\ e.at = mark /\ e.of = answer
  BY DEF CallerTypes, Stamps
<1>1. audioC' \in Seq(Stamps) /\ \A k \in DOMAIN audioC' :
        audioC'[k] = e \/ (k \in DOMAIN audioC /\ audioC'[k] = audioC[k])
  <2>1. CASE audioC' = audioC
    BY <2>1 DEF CallerTypes
  <2>2. CASE audioC' = Append(audioC, e)
    <3>1. audioC \in Seq(Stamps)
      BY DEF CallerTypes
    <3> QED BY <1>0, <2>2, <3>1, AppendPicks
  <2> QED BY <2>1, <2>2 DEF AudioArrives, StampAudio
<1> HIDE DEF e
<1>2. CallerTypes'
  BY <1>1 DEF CallerTypes, AudioArrives, StampAudio, serverVars
<1>3. OwnAnswer'
  BY DEF OwnAnswer, AudioArrives
<1>4. UNCHANGED <<wpc, mark, after, utt, bargeC, asked, answer, mishaps>> /\ answer # 0
  BY DEF AudioArrives, serverVars
<1>5. ASSUME OnTime' PROVE CallerPhase'
  <2>1. CallerPhase
    BY <1>4, <1>5 DEF OnTime
  <2>2. wpc \notin {"next", "speak"}
    BY <1>4, <2>1 DEF CallerPhase
  <2>3. NoneOfThis /\ answer # utt => NoneOfThis'
    BY <1>0, <1>1, <1>4 DEF NoneOfThis
  <2>4. \A m : answer = utt /\ Fresh(m) => Fresh(m)'
    BY <1>0, <1>1, <1>4 DEF Fresh
  <2>5. wpc = "barge" => answer # utt
    BY <2>1, <1>4 DEF CallerPhase, CallerTypes
  <2>6. answer <= utt
    BY <1>4, <2>1, <2>2, <1>5 DEF CallerPhase, CallerTypes, WorkerPlaces, OnTime
  <2>7. \A k \in DOMAIN audioC' : audioC'[k].of <= utt
    BY <1>0, <1>1, <2>1, <2>6 DEF CallerPhase
  <2> QED BY <1>4, <2>1, <2>2, <2>3, <2>4, <2>5, <2>7 DEF CallerPhase
<1>6. CallerStamps'
  <2>1. ASSUME NEW k \in DOMAIN audioC' PROVE audioC'[k].at <= mark
    <3>1. CASE audioC'[k] # e
      BY <1>1, <2>1, <3>1 DEF CallerStamps
    <3>2. CASE audioC'[k] = e
      BY <1>0, <3>2 DEF CallerStamps, CallerTypes
    <3> QED BY <3>1, <3>2
  <2> QED BY <1>4, <2>1 DEF CallerStamps
<1> QED BY <1>2, <1>3, <1>5, <1>6

(* A straggler that finds room is a mishap, and another changes nothing.   *)
LEMMA StrayArrivesKeeps == ASSUME CallerInv, StrayArrives PROVE CallerInv'
<1> USE DEF CallerInv
<1>1. UNCHANGED <<wpc, mark, after, utt, bargeC, asked, answer, samples>>
      /\ stray' = 0 /\ still' = 0
  BY DEF StrayArrives, StampAudio
<1>2. CASE Room
  <2> DEFINE e == [at |-> mark, of |-> stray]
  <2>1. e \in Stamps /\ audioC \in Seq(Stamps)
    BY DEF CallerTypes, Stamps
  <2>2. audioC' = Append(audioC, e) /\ mishaps' # {}
    BY <1>2 DEF StrayArrives, StampAudio
  <2>3. e.at = mark
    OBVIOUS
  <2> HIDE DEF e
  <2>4. audioC' \in Seq(Stamps) /\ \A k \in DOMAIN audioC' :
          audioC'[k] = e \/ (k \in DOMAIN audioC /\ audioC'[k] = audioC[k])
    BY <2>1, <2>2, AppendPicks
  <2>5. \A k \in DOMAIN audioC' : audioC'[k].at <= mark
    BY <2>3, <2>4 DEF CallerStamps, CallerTypes
  <2> QED BY <1>1, <2>2, <2>4, <2>5 DEF CallerTypes, CallerStamps, OwnAnswer, OnTime
<1>3. CASE ~Room
  <2>1. UNCHANGED <<audioC, mishaps>>
    BY <1>3 DEF StrayArrives, StampAudio
  <2> QED BY <1>1, <2>1 DEF CallerTypes, CallerStamps, CallerPhase, OwnAnswer, OnTime, Fresh,
                            NoneOfThis
<1> QED BY <1>2, <1>3

(* BARGE_IN comes when the answer spoken over is no more.                  *)
LEMMA BargeInKeeps == ASSUME CallerInv, BargeInArrives PROVE CallerInv'
<1> USE DEF CallerInv
<1>0. mark + 1 \in Nat /\ bargeC \in Seq(Nat)
  BY DEF CallerTypes
<1>1. bargeC' \in Seq(Nat) /\ \A k \in DOMAIN bargeC' :
        bargeC'[k] = mark + 1 \/ (k \in DOMAIN bargeC /\ bargeC'[k] = bargeC[k])
  <2>1. CASE bargeC' = bargeC
    BY <1>0, <2>1
  <2>2. CASE bargeC' = Append(bargeC, mark + 1)
    BY <1>0, <2>2, AppendPicks
  <2> QED BY <2>1, <2>2 DEF BargeInArrives
<1>2. /\ UNCHANGED <<wpc, after, utt, audioC, still, asked, mishaps, samples>>
      /\ mark' = mark + 1 /\ answer' = 0 /\ answer # 0 /\ stray' \in Nat
  BY DEF BargeInArrives, CallerTypes
<1>3. CallerTypes' /\ OwnAnswer'
  BY <1>0, <1>1, <1>2 DEF CallerTypes, OwnAnswer
<1>4. CallerStamps'
  <2>1. after <= mark + 1 /\ mark \in Nat
    BY DEF CallerStamps, CallerTypes
  <2>2. \A k \in DOMAIN audioC : audioC[k].at <= mark + 1
    BY <2>1, StampTypes DEF CallerStamps
  <2>3. \A k \in DOMAIN bargeC' : bargeC'[k] <= mark + 1
    BY <1>1, <2>1, StampTypes DEF CallerStamps
  <2> QED BY <1>2, <2>1, <2>2, <2>3 DEF CallerStamps
<1>5. ASSUME OnTime' PROVE CallerPhase'
  <2>1. CallerPhase
    BY <1>2, <1>5 DEF OnTime
  <2>2. ASSUME NEW k \in DOMAIN bargeC', bargeC'[k] >= after', wpc \in {"barge", "awaitBarge"}
        PROVE  Fresh(bargeC[k])'
    <3>1. CASE bargeC'[k] = mark + 1
      BY <1>2, <2>2, <3>1, StampTypes DEF Fresh, CallerStamps, CallerTypes
    <3>2. CASE k \in DOMAIN bargeC /\ bargeC'[k] = bargeC[k]
      BY <1>2, <2>1, <2>2, <3>2 DEF Fresh, CallerPhase
    <3> QED BY <1>1, <3>1, <3>2
  <2>3. wpc \notin {"next", "speak"}
    BY <1>2, <2>1 DEF CallerPhase
  <2>4. utt > 0 /\ (NoneOfThis => NoneOfThis')
    BY <1>2, <2>1, <2>3 DEF CallerPhase, NoneOfThis
  <2>5. Fresh(after) => Fresh(after)'
    BY <1>2 DEF Fresh
  <2>6. asked' = <<utt'>> => NoneOfThis'
    BY <1>2, <2>1, <2>4 DEF CallerPhase
  <2>7. \A k \in DOMAIN bargeC' : bargeC'[k] >= after' /\ wpc \in {"barge", "awaitBarge"} =>
           answer' \in {0, utt'} /\ Fresh(bargeC[k])'
    BY <1>2, <2>2
  <2>8. wpc = "barge" => NoneOfThis'
    BY <2>1, <2>4 DEF CallerPhase
  <2> HIDE DEF CallerInv
  <2> QED BY <1>2, <2>1, <2>3, <2>4, <2>5, <2>6, <2>7, <2>8 DEF CallerPhase
<1> QED BY <1>3, <1>4, <1>5

(* The next turn begins on a line that is quiet.                           *)
LEMMA StartCallKeeps == ASSUME CallerInv, StartCall PROVE CallerInv'
<1> USE DEF CallerInv
<1>1. /\ UNCHANGED <<mark, after, audioC, bargeC, still, asked, answer, stray, mishaps,
                     samples>>
      /\ wpc = "next" /\ wpc' = "speak" /\ utt' = utt + 1
  BY DEF StartCall, serverVars
<1>2. CallerTypes' /\ CallerStamps' /\ OwnAnswer'
  BY <1>1 DEF CallerTypes, CallerStamps, OwnAnswer, WorkerPlaces
<1>3. ASSUME OnTime' PROVE CallerPhase'
  <2>1. CallerPhase
    BY <1>1, <1>3 DEF OnTime
  <2> QED BY <1>1, <2>1 DEF CallerPhase, NoneOfThis, CallerTypes
<1> QED BY <1>2, <1>3

LEMMA SlotKeeps == CallerTypes /\ Slot => still' \in Nat
BY CallerAssumption DEF CallerTypes, Slot

(* Speech over: what is asked comes after the mark.                        *)
LEMMA SendSpeechKeeps == ASSUME CallerInv, SendSpeech PROVE CallerInv'
<1> USE DEF CallerInv
<1>0. /\ UNCHANGED <<utt, audioC, bargeC, answer, stray, mishaps, samples>>
      /\ wpc \in {"speak", "barge"} /\ still' \in Nat
  BY SlotKeeps DEF SendSpeech
<1>1. CASE UNCHANGED <<wpc, mark, after, asked>>
  <2>1. CallerTypes' /\ CallerStamps' /\ OwnAnswer'
    BY <1>0, <1>1 DEF CallerTypes, CallerStamps, OwnAnswer
  <2>2. ASSUME OnTime' PROVE CallerPhase'
    BY <1>0, <1>1, <2>2 DEF OnTime, CallerPhase, NoneOfThis, Fresh
  <2> QED BY <2>1, <2>2
<1>2. CASE /\ mark' = mark + 1 /\ asked' = Append(asked, utt)
           /\ IF wpc = "speak" THEN wpc' = "first" /\ after' = mark + 1
              ELSE wpc' = "awaitBarge" /\ UNCHANGED after
  <2>1. CallerTypes' /\ CallerStamps' /\ OwnAnswer'
    <3>1. asked' \in Seq(Nat) /\ mark' \in Nat /\ after' \in Nat /\ wpc' \in WorkerPlaces
      BY <1>2 DEF CallerTypes, WorkerPlaces
    <3>2. CallerTypes' /\ OwnAnswer'
      BY <1>0, <3>1 DEF CallerTypes, OwnAnswer
    <3>3. after' <= mark + 1
      BY <1>0, <1>2 DEF CallerTypes, CallerStamps
    <3>4. \A k \in DOMAIN audioC : audioC[k].at <= mark + 1
      BY StampTypes DEF CallerStamps, CallerTypes
    <3>5. \A k \in DOMAIN bargeC : bargeC[k] <= mark + 1
      BY StampTypes DEF CallerStamps, CallerTypes
    <3> QED BY <1>0, <1>2, <3>2, <3>3, <3>4, <3>5 DEF CallerStamps
  <2>2. ASSUME OnTime' PROVE CallerPhase'
    <3>1. CallerPhase
      BY <1>0, <2>2 DEF OnTime
    <3>2. asked' = <<utt>> /\ utt > 0
      <4>1. asked = << >> /\ utt > 0
        BY <1>0, <3>1 DEF CallerPhase
      <4>2. Append(<< >>, utt) = <<utt>>
        BY DEF CallerTypes
      <4> QED BY <1>2, <4>1, <4>2
    <3>3. NoneOfThis' /\ answer # utt
      BY <1>0, <3>1, <3>2 DEF CallerPhase, NoneOfThis, CallerTypes
    <3>4. CASE wpc = "speak"
      BY <1>0, <1>2, <3>1, <3>2, <3>3, <3>4 DEF CallerPhase, Fresh
    <3>5. CASE wpc = "barge"
      BY <1>0, <1>2, <3>1, <3>2, <3>3, <3>5 DEF CallerPhase, Fresh
    <3> QED BY <1>0, <3>4, <3>5
  <2> QED BY <2>1, <2>2
<1> QED BY <1>1, <1>2 DEF SendSpeech

(* The barge-in is the next utterance: nothing on its way is of it.        *)
LEMMA StartBargeKeeps == ASSUME CallerInv, StartBarge PROVE CallerInv'
<1> USE DEF CallerInv
<1>1. /\ UNCHANGED <<audioC, still, asked, answer, stray, mishaps, samples>>
      /\ wpc = "ride" /\ wpc' = "barge" /\ utt' = utt + 1 /\ bargeC' = << >>
      /\ mark' = mark + 1 /\ after' = mark + 1
  BY DEF StartBarge, serverVars
<1>2. CallerTypes' /\ CallerStamps' /\ OwnAnswer'
  BY <1>1, StampTypes DEF CallerTypes, CallerStamps, OwnAnswer, WorkerPlaces
<1>3. ASSUME OnTime' PROVE CallerPhase'
  <2>1. CallerPhase
    BY <1>1, <1>3 DEF OnTime
  <2>2. NoneOfThis'
    BY <1>1, <2>1, StampTypes DEF CallerPhase, NoneOfThis, CallerTypes
  <2>3. \A k \in DOMAIN audioC : audioC[k].of <= utt + 1
    BY <2>1, StampTypes DEF CallerPhase, CallerTypes
  <2> QED BY <1>1, <2>1, <2>2, <2>3 DEF CallerPhase, CallerTypes
<1> QED BY <1>2, <1>3

(* A phase that runs out of time is not on time any more.                  *)
LEMMA WaitOnKeeps ==
  ASSUME CallerTypes, WaitOn
  PROVE  /\ wpc' \in WorkerPlaces
         /\ mishaps' = {} => wpc' = wpc /\ mishaps = {}
BY DEF WaitOn, TimedOut, CallerTypes, WorkerPlaces

(* A stamp is taken, or thrown away, or there is none.                     *)
LEMMA AwaitAudioKeeps == ASSUME CallerInv, AwaitAudio PROVE CallerInv'
<1> USE DEF CallerInv
<1>0. /\ UNCHANGED <<mark, after, utt, bargeC, asked, answer, stray>>
      /\ wpc \in {"first", "second"} /\ still' \in Nat
  BY SlotKeeps DEF AwaitAudio, serverVars
<1>1. audioC \in Seq(Stamps) /\ bargeC \in Seq(Nat)
  BY DEF CallerTypes
<1>2. /\ audioC' \in Seq(Stamps)
      /\ \A k \in DOMAIN audioC' : \E j \in DOMAIN audioC : audioC'[k] = audioC[j]
  <2>1. CASE audioC' = audioC
    BY <1>1, <2>1
  <2>2. CASE audioC # << >> /\ audioC' = Tail(audioC)
    BY <1>1, <2>2, TailPicks
  <2> QED BY <2>1, <2>2 DEF AwaitAudio
<1>3. CallerStamps'
  BY <1>0, <1>2 DEF CallerStamps
<1>4. /\ NoneOfThis => NoneOfThis'
      /\ Fresh(after) => Fresh(after)'
      /\ CallerPhase => \A k \in DOMAIN audioC' : audioC'[k].of <= utt
  BY <1>0, <1>2 DEF NoneOfThis, Fresh, CallerPhase
<1>5. CASE /\ audioC # << >> /\ Head(audioC).at >= after
           /\ samples' = Append(samples, [want |-> utt, got |-> Head(audioC).of,
                                          clean |-> mishaps = {}])
           /\ wpc' = IF wpc = "first" /\ Barging THEN "ride" ELSE "quiet"
           /\ UNCHANGED mishaps
  <2> DEFINE s == [want |-> utt, got |-> Head(audioC).of, clean |-> mishaps = {}]
  <2>1. 1 \in DOMAIN audioC /\ Head(audioC) = audioC[1] /\ Head(audioC) \in Stamps
    BY <1>1, <1>5, TailPicks
  <2>2. s \in [want : Nat, got : Nat, clean : BOOLEAN]
    BY <2>1 DEF CallerTypes, Stamps
  <2>3. OnTime => CallerPhase /\ Head(audioC).of = utt
    BY <1>0, <1>5, <2>1 DEF CallerPhase, Fresh
  <2>4. wpc # "ended" /\ (s.clean => s.got = s.want)
    BY <1>0, <2>3 DEF OnTime
  <2>5. OwnAnswer'
    <3>1. samples' = Append(samples, s)
      BY <1>5
    <3> HIDE DEF s
    <3>2. samples \in Seq([want : Nat, got : Nat, clean : BOOLEAN])
      BY DEF CallerTypes
    <3>3. \A k \in DOMAIN samples' :
            samples'[k] = s \/ (k \in DOMAIN samples /\ samples'[k] = samples[k])
      BY <2>2, <3>1, <3>2, AppendPicks
    <3> QED BY <2>4, <3>3 DEF OwnAnswer
  <2>6. CallerTypes'
    <3>1. samples' \in Seq([want : Nat, got : Nat, clean : BOOLEAN])
      BY <1>5, <2>2 DEF CallerTypes
    <3> QED BY <1>0, <1>2, <1>5, <3>1 DEF CallerTypes, WorkerPlaces
  <2>7. ASSUME OnTime' PROVE CallerPhase'
    <3>1. OnTime /\ CallerPhase /\ Head(audioC).of = utt
      BY <1>0, <1>5, <2>3, <2>7 DEF OnTime
    <3>2. asked = << >>
      BY <2>1, <3>1 DEF CallerPhase, NoneOfThis
    <3>3. wpc' \in {"ride", "quiet"} /\ utt > 0 /\ answer \in {0, utt} /\ << >> # <<utt>>
      BY <1>0, <1>5, <3>1 DEF CallerPhase
    <3> QED BY <1>0, <1>4, <3>1, <3>2, <3>3 DEF CallerPhase
  <2> QED BY <1>3, <2>5, <2>6, <2>7
<1>6. CASE WaitOn /\ UNCHANGED samples
  <2>1. CallerTypes' /\ OwnAnswer'
    BY <1>0, <1>2, <1>6, WaitOnKeeps DEF CallerTypes, OwnAnswer
  <2>2. ASSUME OnTime' PROVE CallerPhase'
    <3>1. wpc' = wpc /\ CallerPhase
      BY <1>0, <1>6, <2>2, WaitOnKeeps DEF OnTime
    <3> QED BY <1>0, <1>4, <3>1 DEF CallerPhase
  <2> QED BY <1>3, <2>1, <2>2
<1> QED BY <1>5, <1>6 DEF AwaitAudio

LEMMA AwaitBargeKeeps == ASSUME CallerInv, AwaitBarge PROVE CallerInv'
<1> USE DEF CallerInv
<1>0. /\ UNCHANGED <<mark, utt, audioC, asked, answer, stray, samples>>
      /\ wpc = "awaitBarge"
  BY DEF AwaitBarge, serverVars
<1>1. bargeC \in Seq(Nat)
  BY DEF CallerTypes
<1>2. /\ bargeC' \in Seq(Nat)
      /\ \A k \in DOMAIN bargeC' : \E j \in DOMAIN bargeC : bargeC'[k] = bargeC[j]
  <2>1. CASE bargeC' = bargeC
    BY <1>1, <2>1
  <2>2. CASE bargeC # << >> /\ bargeC' = Tail(bargeC)
    BY <1>1, <2>2, TailPicks
  <2> QED BY <2>1, <2>2 DEF AwaitBarge
<1>3. CASE /\ bargeC # << >> /\ Head(bargeC) >= after
           /\ after' = Head(bargeC) /\ wpc' = "second" /\ UNCHANGED <<still, mishaps>>
  <2>1. 1 \in DOMAIN bargeC /\ Head(bargeC) = bargeC[1] /\ Head(bargeC) \in Nat
    BY <1>1, <1>3, TailPicks
  <2>2. CallerTypes' /\ CallerStamps' /\ OwnAnswer'
    BY <1>0, <1>2, <1>3, <2>1 DEF CallerTypes, CallerStamps, OwnAnswer, WorkerPlaces
  <2>3. ASSUME OnTime' PROVE CallerPhase'
    <3>1. CallerPhase
      BY <1>0, <1>3, <2>3 DEF OnTime
    <3>2. answer \in {0, utt} /\ Fresh(after')
      BY <1>0, <1>3, <2>1, <3>1 DEF CallerPhase
    <3>3. Fresh(after)' /\ NoneOfThis' = NoneOfThis
      BY <1>0, <3>2 DEF Fresh, NoneOfThis
    <3> QED BY <1>0, <1>3, <3>1, <3>2, <3>3 DEF CallerPhase
  <2> QED BY <2>2, <2>3
<1>4. CASE Slot /\ WaitOn /\ UNCHANGED after
  <2>1. CallerTypes' /\ CallerStamps' /\ OwnAnswer'
    BY <1>0, <1>2, <1>4, SlotKeeps, WaitOnKeeps DEF CallerTypes, CallerStamps, OwnAnswer
  <2>2. ASSUME OnTime' PROVE CallerPhase'
    <3>1. wpc' = wpc /\ CallerPhase
      BY <1>0, <1>4, <2>2, WaitOnKeeps DEF OnTime
    <3>2. \A m : Fresh(m)' = Fresh(m)
      BY <1>0 DEF Fresh
    <3>3. NoneOfThis' = NoneOfThis
      BY <1>0 DEF NoneOfThis
    <3>4. \A k \in DOMAIN bargeC' : bargeC'[k] >= after' =>
             answer' \in {0, utt'} /\ Fresh(bargeC'[k])
      BY <1>0, <1>2, <1>4, <3>1 DEF CallerPhase
    <3>5. \A k \in DOMAIN bargeC' : Fresh(bargeC'[k]) => Fresh(bargeC[k])'
      BY <1>0 DEF Fresh
    <3> QED BY <1>0, <1>4, <3>1, <3>3, <3>4, <3>5 DEF CallerPhase
  <2> QED BY <2>1, <2>2
<1> QED BY <1>3, <1>4 DEF AwaitBarge

(* Quiet while an answer is under way is a mishap.                         *)
LEMMA AwaitQuietKeeps == ASSUME CallerInv, AwaitQuiet PROVE CallerInv'
<1> USE DEF CallerInv
<1>0. /\ UNCHANGED <<mark, after, utt, asked, answer, stray, samples>>
      /\ wpc \in {"quiet", "recover"} /\ still' \in Nat
  BY SlotKeeps DEF AwaitQuiet, serverVars
<1>1. (audioC' = audioC \/ audioC' = << >>) /\ (bargeC' = bargeC \/ bargeC' = << >>)
  BY DEF AwaitQuiet
<1>2. wpc' \in WorkerPlaces
  BY WaitOnKeeps DEF AwaitQuiet, CallerTypes, WorkerPlaces
<1>3. CallerTypes'
  <2>1. audioC' \in Seq(Stamps) /\ bargeC' \in Seq(Nat)
    <3>1. << >> \in Seq(Stamps) /\ << >> \in Seq(Nat)
      OBVIOUS
    <3>2. audioC \in Seq(Stamps) /\ bargeC \in Seq(Nat)
      BY DEF CallerTypes
    <3> QED BY <1>1, <3>1, <3>2
  <2> QED BY <1>0, <1>2, <2>1 DEF CallerTypes
<1>4. CallerStamps' /\ OwnAnswer'
  BY <1>0, <1>1 DEF CallerStamps, OwnAnswer
<1>5. ASSUME OnTime' PROVE CallerPhase'
  <2>0. mishaps = {} /\ mishaps' = {}
    BY <1>5, WaitOnKeeps DEF OnTime, AwaitQuiet
  <2>1. CallerPhase
    BY <1>0, <2>0 DEF OnTime
  <2>2. NoneOfThis => NoneOfThis'
    BY <1>0, <1>1 DEF NoneOfThis
  <2>3. \A k \in DOMAIN audioC' : audioC'[k].of <= utt
    BY <1>1, <2>1 DEF CallerPhase
  <2>4. CASE wpc = "quiet"
    <3>1. CASE /\ audioC' = << >> /\ wpc' = "next"
               /\ mishaps' = IF answer # 0 THEN mishaps \cup {"pause"} ELSE mishaps
      <4>1. answer = 0
        BY <2>0, <3>1
      <4> QED BY <1>0, <2>1, <2>2, <2>3, <2>4, <3>1, <4>1 DEF CallerPhase
    <3>2. CASE WaitOn
      <4>1. wpc' = wpc
        BY <2>0, <3>2, WaitOnKeeps
      <4> QED BY <1>0, <2>1, <2>2, <2>3, <2>4, <4>1 DEF CallerPhase
    <3> QED BY <2>4, <3>1, <3>2 DEF AwaitQuiet
  <2>5. CASE wpc = "recover"
    BY <2>1, <2>5 DEF CallerPhase
  <2> QED BY <1>0, <2>4, <2>5
<1> QED BY <1>3, <1>4, <1>5

(* A first-response sample is taken from a frame of the answer to the      *)
(* utterance it is counted for, for every capacity of the channels and     *)
(* every length of the phases, though frames and BARGE_INs that do not fit *)
(* are dropped and the answer spoken over is still in the channel          *)
(* (worker.go 296-298), as long as no phase has timed out, no turn has     *)
(* begun in the pause of an answer and no straggler of a cancelled answer  *)
(* has come behind its BARGE_IN.                                           *)
THEOREM CallerOwnAnswer == CallerSpec => []OwnAnswer
<1>1. CallerInv /\ [CallerNext]_callerVars => CallerInv'
  <2> SUFFICES ASSUME CallerInv, [CallerNext]_callerVars PROVE CallerInv'
    OBVIOUS
  <2>1. CASE UNCHANGED callerVars
    BY <2>1 DEF callerVars, serverVars, CallerInv, CallerTypes, CallerStamps, CallerPhase,
                OwnAnswer, OnTime, Fresh, NoneOfThis
  <2>2. CASE Ride
    <3>1. still' \in Nat
      BY <2>2, SlotKeeps DEF Ride, CallerInv
    <3> QED BY <2>2, <3>1 DEF Ride, serverVars, CallerInv, CallerTypes, CallerStamps, CallerPhase,
                              OwnAnswer, OnTime, Fresh, NoneOfThis
  <2>3. CASE CallEnds
    BY <2>3 DEF CallEnds, serverVars, CallerInv, CallerTypes, CallerStamps, OwnAnswer, OnTime,
                WorkerPlaces
  <2> QED BY <2>1, <2>2, <2>3, AnswerKeeps, AudioArrivesKeeps, StrayArrivesKeeps, BargeInKeeps,
             StartCallKeeps, SendSpeechKeeps, AwaitAudioKeeps, StartBargeKeeps, AwaitBargeKeeps,
             AwaitQuietKeeps DEF CallerNext
<1>2. CallerInv => OwnAnswer
  BY DEF CallerInv
<1> QED BY <1>1, <1>2, CallerStart, PTL DEF CallerSpec
-----------------------------------------------------------------------------
(* Induction, over the subsets of a finite set and over the naturals, for  *)
(* sets of arguments; and the functions that recursion defines.            *)

(* A set of subsets that has every subset whose smaller ones it has, has   *)
(* them all.                                                               *)
LEMMA SubsetInduction ==
  ASSUME NEW S, IsFiniteSet(S), NEW T,
         \A s \in SUBSET S : (\A t \in SUBSET s : t # s => t \in T) => s \in T
  PROVE  SUBSET S \subseteq T
<1> DEFINE Bad == (SUBSET S) \ T
<1> SUFFICES ASSUME Bad # {} PROVE FALSE
  OBVIOUS
<1>1. IsWellFoundedOn(StrictSubsetOrdering(S), SUBSET S)
  <2>1. IsWellFoundedOn(StrictSubsetOrdering(S), FiniteSubsetsOf(S))
    BY FS_StrictSubsetOrderingWellFounded
  <2>2. FiniteSubsetsOf(S) = SUBSET S
    BY FS_FiniteSubsetsOfFinite
  <2> QED BY <2>1, <2>2
<1>2. PICK s \in Bad : \A t \in Bad : <<t, s>> \notin StrictSubsetOrdering(S)
  <2>1. Bad \subseteq SUBSET S
    OBVIOUS
  <2> HIDE DEF Bad
  <2> QED BY <1>1, <2>1, WFMin
<1>3. \A t \in SUBSET s : t # s => t \notin Bad
  <2> SUFFICES ASSUME NEW t \in SUBSET s, t # s, t \in Bad PROVE FALSE
    OBVIOUS
  <2>1. s \in SUBSET S /\ t \in SUBSET S
    OBVIOUS
  <2>2. <<t, s>> \in StrictSubsetOrdering(S)
    BY <2>1 DEF StrictSubsetOrdering
  <2> QED BY <1>2, <2>2
<1>4. s \in T
  BY <1>3
<1> QED BY <1>4

(* A set of naturals that is not empty has a least element.                *)
LEMMA LeastNat ==
  ASSUME NEW B \in SUBSET Nat, B # {}
  PROVE  \E m \in B : \A k \in B : m <= k
<1>1. PICK n \in B : TRUE
  OBVIOUS
<1> DEFINE S == 0 .. n  T == {s \in SUBSET S : \A k \in B : s # 0 .. k}
<1>2. ~ (SUBSET S \subseteq T)
  <2>1. 0 .. n \in SUBSET S /\ 0 .. n \notin T
    BY <1>1
  <2> QED BY <2>1
<1>3. PICK s \in SUBSET S : (\A t \in SUBSET s : t # s => t \in T) /\ s \notin T
  <2>1. IsFiniteSet(S)
    BY <1>1, FS_Interval
  <2> HIDE DEF S, T
  <2> QED BY <1>2, <2>1, SubsetInduction
<1>4. PICK m \in B : s = 0 .. m
  BY <1>3
<1>5. ASSUME NEW k \in B, k < m PROVE FALSE
  <2>1. 0 .. k \in SUBSET s /\ 0 .. k # s
    BY <1>4, <1>5
  <2>2. 0 .. k \in T
    BY <1>3, <2>1
  <2> QED BY <2>2
<1>6. \A k \in B : m <= k
  BY <1>5
<1> QED BY <1>4, <1>6

(* Induction over the naturals, for a set.                                 *)
LEMMA NatSetInduction ==
  ASSUME NEW T, 0 \in T, \A n \in Nat : n \in T => n + 1 \in T
  PROVE  Nat \subseteq T
<1> SUFFICES ASSUME Nat \ T # {} PROVE FALSE
  OBVIOUS
<1>1. PICK m \in Nat \ T : \A k \in Nat \ T : m <= k
  <2> DEFINE B == Nat \ T
  <2>1. B \in SUBSET Nat /\ B # {}
    OBVIOUS
  <2> HIDE DEF B
  <2>2. \E m \in B : \A k \in B : m <= k
    BY <2>1, LeastNat
  <2> QED BY <2>2 DEF B
<1>2. m # 0 /\ m - 1 \in Nat /\ m - 1 \in T
  BY <1>1
<1> QED BY <1>1, <1>2

(* There is a function on the naturals whose values follow each from the   *)
(* one before: the powers, the value of a number of digits, a sum.         *)
Runs(f, z, m, c, n) == f[0] = z /\ \A i \in 1 .. n : f[i] = f[i - 1] * m + c[i]

LEMMA RunsAgree ==
  ASSUME NEW z \in Int, NEW m \in Int, NEW c \in [Nat -> Int], NEW n \in Nat,
         NEW f, Runs(f, z, m, c, n), NEW k \in Nat, k >= n, NEW g, Runs(g, z, m, c, k)
  PROVE  f[n] = g[n]
<1> DEFINE T == {i \in Nat : i <= n => f[i] = g[i]}
<1>1. 0 \in T
  BY DEF Runs
<1>2. ASSUME NEW i \in Nat, i \in T PROVE i + 1 \in T
  <2>1. CASE i + 1 <= n
    <3>1. i + 1 \in 1 .. n /\ i + 1 \in 1 .. k /\ (i + 1) - 1 = i
      BY <2>1
    <3>2. f[i + 1] = f[i] * m + c[i + 1] /\ g[i + 1] = g[i] * m + c[i + 1]
      BY <3>1 DEF Runs
    <3> QED BY <1>2, <2>1, <3>2
  <2> QED BY <2>1
<1> HIDE DEF T
<1>3. n \in T
  BY <1>1, <1>2, NatSetInduction
<1> QED BY <1>3 DEF T

LEMMA RunsUpTo ==
  ASSUME NEW z \in Int, NEW m \in Int, NEW c \in [Nat -> Int], NEW n \in Nat
  PROVE  \E f \in [0 .. n -> Int] : Runs(f, z, m, c, n)
<1> DEFINE T == {i \in Nat : \E f \in [0 .. i -> Int] : Runs(f, z, m, c, i)}
<1>1. 0 \in T
  <2> DEFINE f == [j \in 0 .. 0 |-> z]
  <2>1. f \in [0 .. 0 -> Int] /\ Runs(f, z, m, c, 0)
    BY DEF Runs
  <2> QED BY <2>1
<1>2. ASSUME NEW i \in Nat, i \in T PROVE i + 1 \in T
  <2>1. PICK f \in [0 .. i -> Int] : Runs(f, z, m, c, i)
    BY <1>2
  <2> DEFINE g == [j \in 0 .. i + 1 |-> IF j = i + 1 THEN f[i] * m + c[i + 1] ELSE f[j]]
  <2>2. g \in [0 .. i + 1 -> Int]
    OBVIOUS
  <2>3. g[0] = z
    BY <2>1 DEF Runs
  <2>4. ASSUME NEW j \in 1 .. i + 1 PROVE g[j] = g[j - 1] * m + c[j]
    <3>1. CASE j = i + 1
      <4>1. g[j] = f[i] * m + c[i + 1] /\ g[j - 1] = f[i]
        BY <3>1
      <4> QED BY <3>1, <4>1
    <3>2. CASE j # i + 1
      <4>1. j \in 1 .. i /\ g[j] = f[j] /\ g[j - 1] = f[j - 1]
        BY <3>2
      <4> QED BY <2>1, <4>1 DEF Runs
    <3> QED BY <3>1, <3>2
  <2> HIDE DEF g
  <2>5. Runs(g, z, m, c, i + 1)
    BY <2>3, <2>4 DEF Runs
  <2> QED BY <2>2, <2>5
<1> HIDE DEF T
<1>3. n \in T
  BY <1>1, <1>2, NatSetInduction
<1> QED BY <1>3 DEF T

LEMMA RunsForever ==
  ASSUME NEW z \in Int, NEW m \in Int, NEW c \in [Nat -> Int]
  PROVE  \E f \in [Nat -> Int] : f[0] = z /\ \A i \in Nat : f[i + 1] = f[i] * m + c[i + 1]
<1> DEFINE g(n) == CHOOSE f \in [0 .. n -> Int] : Runs(f, z, m, c, n)
           f == [n \in Nat |-> g(n)[n]]
<1>1. ASSUME NEW n \in Nat PROVE g(n) \in [0 .. n -> Int] /\ Runs(g(n), z, m, c, n)
  BY RunsUpTo
<1> HIDE DEF g
<1>2. f \in [Nat -> Int]
  BY <1>1
<1>3. f[0] = z
  BY <1>1 DEF Runs
<1>4. ASSUME NEW n \in Nat PROVE f[n + 1] = f[n] * m + c[n + 1]
  <2>1. f[n + 1] = g(n + 1)[n] * m + c[n + 1]
    <3>1. n + 1 \in 1 .. n + 1 /\ (n + 1) - 1 = n /\ Runs(g(n + 1), z, m, c, n + 1)
      BY <1>1
    <3>2. g(n + 1)[n + 1] = g(n + 1)[n] * m + c[n + 1]
      BY <3>1 DEF Runs
    <3> QED BY <3>2
  <2>2. g(n)[n] = g(n + 1)[n]
    <3>1. n + 1 \in Nat /\ n + 1 >= n
      OBVIOUS
    <3>2. Runs(g(n), z, m, c, n) /\ Runs(g(n + 1), z, m, c, n + 1)
      BY <1>1, <3>1
    <3> HIDE DEF f
    <3> QED BY ONLY <3>1, <3>2, RunsAgree, z \in Int, m \in Int, c \in [Nat -> Int], n \in Nat
  <2> QED BY <2>1, <2>2
<1> HIDE DEF f
<1> QED BY <1>2, <1>3, <1>4

-----------------------------------------------------------------------------
(* Sums over the sessions.  MapThenSumSet is defined by a recursive        *)
(* function on the subsets; that there is such a function, and what it     *)
(* computes, follows from the subsets of a finite set being well-founded.  *)
Pick(s) == CHOOSE x \in s : TRUE
SumStep(f, it, s) == IF s = {} THEN 0 ELSE f[Pick(s)] + it[s \ {Pick(s)}]
IsSum(f, it, S) == it = [s \in SUBSET S |-> SumStep(f, it, s)]
SumFn(f, S) == CHOOSE it : IsSum(f, it, S)
SumOf(f) == SumFn(f, Convs)[Convs]

LEMMA PickIsIn == ASSUME NEW s, s # {} PROVE Pick(s) \in s
BY DEF Pick

(* Any two such functions agree where both are defined.                    *)
LEMMA SumUnique ==
  ASSUME NEW S, IsFiniteSet(S), NEW R, S \subseteq R, NEW f, NEW it, IsSum(f, it, S),
         NEW jt, IsSum(f, jt, R)
  PROVE  \A s \in SUBSET S : it[s] = jt[s]
<1> DEFINE T == {s \in SUBSET S : it[s] = jt[s]}
<1>1. ASSUME NEW s \in SUBSET S, \A t \in SUBSET s : t # s => t \in T
      PROVE  s \in T
  <2>1. it[s] = SumStep(f, it, s) /\ jt[s] = SumStep(f, jt, s)
    <3>1. s \in SUBSET R
      OBVIOUS
    <3> QED BY <3>1 DEF IsSum
  <2>2. CASE s = {}
    BY <2>1, <2>2 DEF SumStep
  <2>3. CASE s # {}
    <3>1. s \ {Pick(s)} \in T
      BY <1>1, <2>3, PickIsIn
    <3> QED BY <2>1, <2>3, <3>1 DEF SumStep
  <2> QED BY <2>2, <2>3
<1> HIDE DEF T
<1>2. SUBSET S \subseteq T
  BY <1>1, SubsetInduction
<1> QED BY <1>2 DEF T

LEMMA SumExists ==
  ASSUME NEW S, IsFiniteSet(S), NEW f
  PROVE  IsSum(f, SumFn(f, S), S)
<1> DEFINE T == {s \in SUBSET S : \E it : IsSum(f, it, s)}
<1>1. ASSUME NEW s \in SUBSET S, \A t \in SUBSET s : t # s => t \in T
      PROVE  s \in T
  <2> DEFINE it == [t \in SUBSET s |-> IF t = {} THEN 0
                      ELSE f[Pick(t)] + SumFn(f, t \ {Pick(t)})[t \ {Pick(t)}]]
  <2>1. ASSUME NEW t \in SUBSET s, t # s PROVE IsSum(f, SumFn(f, t), t) /\ IsFiniteSet(t)
    <3>1. \E jt : IsSum(f, jt, t)
      BY <1>1, <2>1
    <3>2. IsFiniteSet(t)
      BY FS_Subset
    <3> QED BY <3>1, <3>2 DEF SumFn
  <2>2. ASSUME NEW t \in SUBSET s PROVE it[t] = SumStep(f, it, t)
    <3>1. CASE t = {}
      BY <3>1 DEF SumStep
    <3>2. CASE t # {}
      <4> DEFINE u == t \ {Pick(t)}
      <4>1. u \in SUBSET s /\ u # s /\ u \in SUBSET t
        BY <3>2, PickIsIn
      <4>2. it[u] = SumFn(f, u)[u]
        <5>1. SumFn(f, u)[u] = SumStep(f, SumFn(f, u), u)
          <6>1. IsSum(f, SumFn(f, u), u)
            BY <2>1, <4>1
          <6> HIDE DEF u
          <6>2. u \in SUBSET u
            OBVIOUS
          <6> QED BY <6>1, <6>2 DEF IsSum
        <5>2. CASE u = {}
          BY <4>1, <5>1, <5>2 DEF SumStep
        <5>3. CASE u # {}
          <6> DEFINE v == u \ {Pick(u)}
          <6>1. v \in SUBSET u /\ v \in SUBSET s /\ v # s
            BY <4>1, <5>3, PickIsIn
          <6>2. SumFn(f, v)[v] = SumFn(f, u)[v]
            <7>1. IsSum(f, SumFn(f, v), v) /\ IsFiniteSet(v) /\ IsSum(f, SumFn(f, u), u)
              BY <2>1, <4>1, <6>1
            <7>2. v \in SUBSET v
              OBVIOUS
            <7> HIDE DEF u, v
            <7> QED BY <7>1, <7>2, <6>1, SumUnique
          <6>3. it[u] = f[Pick(u)] + SumFn(f, v)[v]
            BY <4>1, <5>3
          <6> QED BY <5>1, <5>3, <6>2, <6>3 DEF SumStep
        <5> QED BY <5>2, <5>3
      <4>3. it[t] = f[Pick(t)] + SumFn(f, u)[u]
        BY <3>2
      <4> HIDE DEF it
      <4> QED BY <3>2, <4>2, <4>3 DEF SumStep
    <3> QED BY <3>1, <3>2
  <2>3. IsSum(f, it, s)
    <3>1. it = [t \in SUBSET s |-> it[t]]
      OBVIOUS
    <3> HIDE DEF it
    <3> QED BY <2>2, <3>1 DEF IsSum
  <2> HIDE DEF it
  <2> QED BY <2>3
<1>2. SUBSET S \subseteq T
  <2> HIDE DEF T
  <2> QED BY <1>1, SubsetInduction
<1>3. \E it : IsSum(f, it, S)
  BY <1>2
<1> QED BY <1>3 DEF SumFn

LEMMA SumAt ==
  ASSUME NEW S, IsFiniteSet(S), NEW f, NEW s \in SUBSET S
  PROVE  /\ s = {} => SumFn(f, S)[s] = 0
         /\ s # {} => /\ Pick(s) \in s
                      /\ s \ {Pick(s)} \in SUBSET S /\ s \ {Pick(s)} # s
                      /\ SumFn(f, S)[s] = f[Pick(s)] + SumFn(f, S)[s \ {Pick(s)}]
<1> DEFINE it == SumFn(f, S)
<1>1. it[s] = SumStep(f, it, s)
  <2>1. IsSum(f, it, S)
    BY SumExists
  <2> HIDE DEF it
  <2> QED BY <2>1 DEF IsSum
<1>2. s # {} => Pick(s) \in s
  BY PickIsIn
<1> QED BY <1>1, <1>2 DEF SumStep

(* The lemmas the proof uses: a sum of naturals is one, is zero for zeros, *)
(* grows with its terms, and changes by what one term changes.             *)
LEMMA SumMonotone ==
  ASSUME NEW f \in [Convs -> Nat], NEW g \in [Convs -> Nat], \A s \in Convs : f[s] <= g[s]
  PROVE  SumOf(f) \in Nat /\ SumOf(f) <= SumOf(g)
<1> DEFINE F == SumFn(f, Convs)  G == SumFn(g, Convs)
           T == {s \in SUBSET Convs : F[s] \in Nat /\ G[s] \in Nat /\ F[s] <= G[s]}
<1>0. IsFiniteSet(Convs)
  BY CountersAssumption
<1>1. ASSUME NEW s \in SUBSET Convs, \A t \in SUBSET s : t # s => t \in T
      PROVE  s \in T
  <2>1. CASE s = {}
    <3>1. F[s] = 0 /\ G[s] = 0
      BY <1>0, <2>1, SumAt
    <3> QED BY <2>1, <3>1
  <2>2. CASE s # {}
    <3> DEFINE p == Pick(s)  r == s \ {p}
    <3>1. /\ p \in s /\ r \in SUBSET s /\ r # s
          /\ F[s] = f[p] + F[r] /\ G[s] = g[p] + G[r]
      <4>1. /\ p \in s /\ r \in SUBSET Convs /\ r # s /\ F[s] = f[p] + F[r]
        BY <1>0, <2>2, SumAt
      <4>2. G[s] = g[p] + G[r]
        BY <1>0, <2>2, SumAt
      <4> QED BY <4>1, <4>2
    <3>2. r \in T
      BY <1>1, <3>1
    <3>3. F[r] \in Nat /\ G[r] \in Nat /\ F[r] <= G[r]
      BY <3>2
    <3>4. f[p] \in Nat /\ g[p] \in Nat /\ f[p] <= g[p]
      BY <3>1
    <3> HIDE DEF F, G, p, r
    <3>5. F[s] \in Nat /\ G[s] \in Nat /\ F[s] <= G[s]
      BY <3>1, <3>3, <3>4
    <3> QED BY <3>5
  <2> QED BY <2>1, <2>2
<1>2. Convs \in T
  <2> HIDE DEF T
  <2> QED BY <1>0, <1>1, SubsetInduction
<1> QED BY <1>2 DEF SumOf

LEMMA SumType == ASSUME NEW f \in [Convs -> Nat] PROVE SumOf(f) \in Nat
<1>1. \A s \in Convs : f[s] <= f[s]
  OBVIOUS
<1> QED BY <1>1, SumMonotone

LEMMA SumOfZeros ==
  ASSUME NEW f \in [Convs -> Nat], \A s \in Convs : f[s] = 0
  PROVE  SumOf(f) = 0
<1> DEFINE F == SumFn(f, Convs)  T == {s \in SUBSET Convs : F[s] = 0}
<1>0. IsFiniteSet(Convs)
  BY CountersAssumption
<1>1. ASSUME NEW s \in SUBSET Convs, \A t \in SUBSET s : t # s => t \in T
      PROVE  s \in T
  <2>1. CASE s = {}
    <3>1. SumFn(f, Convs)[s] = 0
      BY <1>0, <2>1, SumAt
    <3> QED BY <2>1, <3>1
  <2>2. CASE s # {}
    <3> DEFINE p == Pick(s)  r == s \ {p}
    <3>1. p \in s /\ r \in SUBSET s /\ r # s /\ F[s] = f[p] + F[r]
      BY <1>0, <2>2, SumAt
    <3>2. F[r] = 0 /\ f[p] = 0
      BY <1>1, <3>1
    <3> QED BY <3>1, <3>2
  <2> QED BY <2>1, <2>2
<1>2. Convs \in T
  <2> HIDE DEF T
  <2> QED BY <1>0, <1>1, SubsetInduction
<1> QED BY <1>2 DEF SumOf

LEMMA SumChanges ==
  ASSUME NEW f \in [Convs -> Nat], NEW c \in Convs, NEW v \in Nat
  PROVE  SumOf([f EXCEPT ![c] = v]) + f[c] = SumOf(f) + v
<1> DEFINE g == [f EXCEPT ![c] = v]
           F == SumFn(f, Convs)  G == SumFn(g, Convs)
           T == {s \in SUBSET Convs : /\ F[s] \in Nat /\ G[s] \in Nat
                                      /\ c \in s => G[s] + f[c] = F[s] + v
                                      /\ c \notin s => G[s] = F[s]}
<1>0. IsFiniteSet(Convs) /\ g \in [Convs -> Nat] /\ f[c] \in Nat
  BY CountersAssumption
<1>1. ASSUME NEW s \in SUBSET Convs, \A t \in SUBSET s : t # s => t \in T
      PROVE  s \in T
  <2>1. CASE s = {}
    <3>1. F[s] = 0 /\ G[s] = 0
      <4> HIDE DEF g
      <4> QED BY <1>0, <2>1, SumAt
    <3> QED BY <1>0, <2>1, <3>1
  <2>2. CASE s # {}
    <3> DEFINE p == Pick(s)  r == s \ {p}
    <3>1. /\ p \in s /\ r \in SUBSET s /\ r # s
          /\ F[s] = f[p] + F[r] /\ G[s] = g[p] + G[r]
      <4> HIDE DEF g
      <4> QED BY <1>0, <2>2, SumAt
    <3>2. r \in T
      BY <1>1, <3>1
    <3>3. /\ F[r] \in Nat /\ G[r] \in Nat
          /\ c \in r => G[r] + f[c] = F[r] + v
          /\ c \notin r => G[r] = F[r]
      BY <3>2
    <3>4. /\ f[p] \in Nat /\ g[p] \in Nat
          /\ p = c => g[p] = v
          /\ p # c => g[p] = f[p]
      BY <1>0, <3>1
    <3>5. c \in s <=> c = p \/ c \in r
      BY <3>1
    <3>6. c = p => c \notin r
      OBVIOUS
    <3> HIDE DEF F, G, g, p, r
    <3>7. /\ F[s] \in Nat /\ G[s] \in Nat
          /\ c \in s => G[s] + f[c] = F[s] + v
          /\ c \notin s => G[s] = F[s]
      BY <1>0, <3>1, <3>3, <3>4, <3>5, <3>6
    <3> QED BY <3>7
  <2> QED BY <2>1, <2>2
<1>2. Convs \in T
  <2> HIDE DEF T
  <2> QED BY <1>0, <1>1, SubsetInduction
<1> QED BY <1>2 DEF SumOf

LEMMA MadeIsSum == Made = SumOf(count)
BY DEF Made, MapThenSumSet, MapThenFoldSet, SumOf, SumFn, IsSum, SumStep, Pick

(* The part of f on S, and what its sum does when f or S changes.          *)
Masked(f, S) == [s \in Convs |-> IF s \in S THEN f[s] ELSE 0]

LEMMA MaskedSum ==
  ASSUME NEW f \in [Convs -> Nat], NEW S, NEW R, S \subseteq R
  PROVE  /\ SumOf(f) \in Nat /\ SumOf(Masked(f, S)) \in Nat
         /\ SumOf(Masked(f, S)) <= SumOf(Masked(f, R)) /\ SumOf(Masked(f, S)) <= SumOf(f)
<1>1. Masked(f, S) \in [Convs -> Nat] /\ Masked(f, R) \in [Convs -> Nat]
  BY DEF Masked
<1>2. \A s \in Convs : Masked(f, S)[s] <= Masked(f, R)[s] /\ Masked(f, S)[s] <= f[s]
  BY DEF Masked
<1>3. SumOf(f) \in Nat
  BY SumMonotone
<1>4. SumOf(Masked(f, S)) \in Nat /\ SumOf(Masked(f, S)) <= SumOf(f)
  BY <1>1, <1>2, SumMonotone
<1>5. SumOf(Masked(f, S)) <= SumOf(Masked(f, R))
  BY <1>1, <1>2, SumMonotone
<1> QED BY <1>3, <1>4, <1>5

LEMMA MaskedEmpty == ASSUME NEW f \in [Convs -> Nat] PROVE SumOf(Masked(f, {})) = 0
<1>1. Masked(f, {}) \in [Convs -> Nat] /\ \A s \in Convs : Masked(f, {})[s] = 0
  BY DEF Masked
<1> QED BY <1>1, SumOfZeros

LEMMA MaskedGrows ==
  ASSUME NEW f \in [Convs -> Nat], NEW c \in Convs, NEW g \in [Convs -> Nat],
         g[c] = f[c] + 1, \A s \in Convs : s # c => g[s] = f[s]
  PROVE  /\ SumOf(g) = SumOf(f) + 1
         /\ \A S : SumOf(Masked(g, S)) = SumOf(Masked(f, S)) + (IF c \in S THEN 1 ELSE 0)
<1>0. f[c] \in Nat /\ f[c] + 1 \in Nat /\ g = [f EXCEPT ![c] = f[c] + 1]
  OBVIOUS
<1>1. SumOf(g) + f[c] = SumOf(f) + (f[c] + 1)
  <2> DEFINE v == f[c] + 1
  <2>1. v \in Nat
    BY <1>0
  <2> HIDE DEF v
  <2>2. SumOf([f EXCEPT ![c] = v]) + f[c] = SumOf(f) + v
    BY <2>1, SumChanges
  <2> QED BY <1>0, <2>2 DEF v
<1>2. SumOf(g) \in Nat /\ SumOf(f) \in Nat
  <2>1. g \in [Convs -> Nat]
    BY <1>0
  <2>2. SumOf(f) \in Nat
    BY SumType
  <2> HIDE DEF SumOf
  <2> QED BY <2>1, <2>2, SumType
<1>3. ASSUME NEW S
      PROVE  SumOf(Masked(g, S)) = SumOf(Masked(f, S)) + (IF c \in S THEN 1 ELSE 0)
  <2> DEFINE m == Masked(f, S)
  <2>1. m \in [Convs -> Nat] /\ SumOf(m) \in Nat
    <3>1. m \in [Convs -> Nat]
      BY DEF Masked
    <3> QED BY <3>1, SumType
  <2>2. CASE c \in S
    <3>1. Masked(g, S) = [m EXCEPT ![c] = f[c] + 1] /\ m[c] = f[c]
      BY <2>2 DEF Masked
    <3> HIDE DEF m
    <3>2. SumOf([m EXCEPT ![c] = f[c] + 1]) + m[c] = SumOf(m) + (f[c] + 1)
      <4> DEFINE v == f[c] + 1
      <4>1. v \in Nat
        BY <1>0
      <4> HIDE DEF v
      <4>2. SumOf([m EXCEPT ![c] = v]) + m[c] = SumOf(m) + v
        BY <2>1, <4>1, SumChanges
      <4> QED BY <4>2 DEF v
    <3>3. [m EXCEPT ![c] = f[c] + 1] \in [Convs -> Nat]
      BY <1>0, <2>1
    <3>4. SumOf([m EXCEPT ![c] = f[c] + 1]) \in Nat
      BY <3>3, SumType
    <3> QED BY <1>0, <2>1, <2>2, <3>1, <3>2, <3>4 DEF m
  <2>3. CASE c \notin S
    <3>1. Masked(g, S) = m
      BY <2>3 DEF Masked
    <3> QED BY <2>1, <2>3, <3>1
  <2> QED BY <2>2, <2>3
<1>4. SumOf(g) = SumOf(f) + 1
  BY <1>0, <1>1, <1>2
<1> QED BY <1>3, <1>4

LEMMA MaskedWithout ==
  ASSUME NEW f \in [Convs -> Nat], NEW S, NEW c \in Convs, c \in S
  PROVE  SumOf(Masked(f, S)) = SumOf(Masked(f, S \ {c})) + f[c]
<1> DEFINE m == Masked(f, S)
<1>1. m \in [Convs -> Nat] /\ m[c] = f[c] /\ f[c] \in Nat
  BY DEF Masked
<1>2. Masked(f, S \ {c}) = [m EXCEPT ![c] = 0]
  BY DEF Masked
<1>3. SumOf(m) \in Nat
  BY <1>1, SumType
<1>4. SumOf([m EXCEPT ![c] = 0]) \in Nat
  <2>1. [m EXCEPT ![c] = 0] \in [Convs -> Nat]
    BY <1>1
  <2> QED BY <2>1, SumType
<1>5. SumOf([m EXCEPT ![c] = 0]) + m[c] = SumOf(m) + 0
  <2> HIDE DEF m
  <2> QED BY <1>1, SumChanges
<1> QED BY <1>1, <1>2, <1>3, <1>4, <1>5
-----------------------------------------------------------------------------
(* The counter: what was folded in, what is lost and what the sessions not *)
(* folded have is all that was counted.  A scrape under way has, with what *)
(* it has left to read, at most all that was counted, and, if no session   *)
(* was leaving, at least what any report before it said.                   *)
Unfolded == {s \in Convs : stage[s] # "folded"}
InMapSum == SumOf(Masked(count, InMap))
LeftSum == SumOf(Masked(count, left))
UnfoldedSum == SumOf(Masked(count, Unfolded))
Counted == SumOf(count)

CountersTypes ==
  /\ stage \in [Convs -> {"none", "live", "removed", "closed", "folded"}]
  /\ count \in [Convs -> Nat] /\ sumPc \in {"idle", "map", "sum"}
  /\ acc \in Nat /\ sum \in Nat /\ late \in Nat /\ report \in Nat /\ least \in Nat
  /\ left \subseteq Convs /\ clean \in BOOLEAN
  /\ \A s \in Convs : stage[s] = "none" => count[s] = 0

CountersLaw ==
  /\ acc + late + UnfoldedSum = Counted
  /\ report <= Counted /\ least <= Counted
  /\ sumPc = "map" =>
       /\ sum <= acc
       /\ clean => sum + late + InMapSum >= report /\ sum + late + InMapSum >= least
  /\ sumPc = "sum" =>
       /\ sum + LeftSum <= Counted
       /\ clean => sum + late + LeftSum >= report /\ sum + late + LeftSum >= least
  /\ sumPc = "idle" => (clean => report + late >= least)

CountersInv == CountersTypes /\ CountersLaw

LEMMA SumTypes ==
  ASSUME CountersTypes
  PROVE  /\ InMapSum \in Nat /\ LeftSum \in Nat /\ UnfoldedSum \in Nat /\ Counted \in Nat
         /\ InMapSum <= UnfoldedSum
<1>1. count \in [Convs -> Nat] /\ InMap \subseteq Unfolded
  BY DEF CountersTypes, InMap, Unfolded
<1> QED BY <1>1, MaskedSum DEF InMapSum, LeftSum, UnfoldedSum, Counted

LEMMA CountersTypesStep == CountersTypes /\ [CountersNext]_countersVars => CountersTypes'
<1> SUFFICES ASSUME CountersTypes, [CountersNext]_countersVars PROVE CountersTypes'
  OBVIOUS
<1> USE DEF CountersTypes
<1>1. ASSUME NEW s \in Convs, Created(s) PROVE CountersTypes'
  BY <1>1 DEF Created, scrapeVars
<1>2. ASSUME NEW s \in Convs, Counts(s) PROVE CountersTypes'
  BY <1>2 DEF Counts, scrapeVars
<1>3. ASSUME NEW s \in Convs, DeleteConv(s) PROVE CountersTypes'
  BY <1>3 DEF DeleteConv, scrapeVars
<1>4. ASSUME NEW s \in Convs, CloseConv(s) PROVE CountersTypes'
  BY <1>4 DEF CloseConv, scrapeVars
<1>5. ASSUME NEW s \in Convs, Fold(s) PROVE CountersTypes'
  BY <1>5 DEF Fold, Folded, scrapeVars
<1>6. ASSUME NEW s \in Convs, ReadCount(s) PROVE CountersTypes'
  BY <1>6 DEF ReadCount
<1>7. CASE ReadAcc
  BY <1>7 DEF ReadAcc
<1>8. CASE Snapshot
  BY <1>8 DEF Snapshot, InMap
<1>9. CASE Reports
  BY <1>9 DEF Reports
<1> QED BY <1>1, <1>2, <1>3, <1>4, <1>5, <1>6, <1>7, <1>8, <1>9
        DEF CountersNext, countersVars, scrapeVars

LEMMA SessionLaw ==
  ASSUME CountersInv, CountersTypes', NEW c \in Convs,
         Created(c) \/ Counts(c) \/ DeleteConv(c) \/ CloseConv(c) \/ Fold(c)
  PROVE  CountersLaw'
<1>0. CountersTypes /\ CountersLaw /\ count \in [Convs -> Nat]
  BY DEF CountersInv, CountersTypes
<1>n. /\ InMapSum \in Nat /\ LeftSum \in Nat /\ UnfoldedSum \in Nat /\ Counted \in Nat
      /\ InMapSum' \in Nat
  <2>1. count' \in [Convs -> Nat]
    BY DEF CountersTypes
  <2>2. InMapSum' \in Nat
    BY <2>1, MaskedSum DEF InMapSum
  <2> QED BY <1>0, <2>2, SumTypes
<1>1. CASE Created(c)
  <2>1. Masked(count', InMap') = Masked(count, InMap)
    BY <1>0, <1>1 DEF Created, Masked, InMap, CountersTypes
  <2>2. Unfolded' = Unfolded /\ count' = count /\ left' = left
    BY <1>0, <1>1 DEF Created, Unfolded, CountersTypes, scrapeVars
  <2>3. InMapSum' = InMapSum /\ UNCHANGED <<UnfoldedSum, LeftSum, Counted>>
    BY <2>1, <2>2 DEF InMapSum, UnfoldedSum, LeftSum, Counted
  <2> QED BY <1>0, <1>1, <2>3 DEF Created, CountersLaw, scrapeVars
<1>2. CASE Counts(c)
  <2>1. InMap' = InMap /\ Unfolded' = Unfolded /\ left' = left
    BY <1>2 DEF Counts, InMap, Unfolded, scrapeVars
  <2>2. /\ Counted' = Counted + 1
        /\ UnfoldedSum' = UnfoldedSum + (IF c \in Unfolded THEN 1 ELSE 0)
        /\ InMapSum' = InMapSum + (IF c \in InMap THEN 1 ELSE 0)
        /\ LeftSum' = LeftSum + (IF c \in left THEN 1 ELSE 0)
    <3>1. count' = [count EXCEPT ![c] = @ + 1]
      BY <1>2 DEF Counts
    <3>2. /\ SumOf(count') = SumOf(count) + 1
          /\ \A S : SumOf(Masked(count', S))
                     = SumOf(Masked(count, S)) + (IF c \in S THEN 1 ELSE 0)
      <4> DEFINE g == count'
      <4>1. /\ g \in [Convs -> Nat] /\ g[c] = count[c] + 1
            /\ \A s \in Convs : s # c => g[s] = count[s]
        BY <1>0, <3>1
      <4> HIDE DEF g
      <4>2. SumOf(g) = SumOf(count) + 1
        BY <1>0, <4>1, MaskedGrows
      <4>3. ASSUME NEW S
            PROVE  SumOf(Masked(g, S)) = SumOf(Masked(count, S)) + (IF c \in S THEN 1 ELSE 0)
        BY <1>0, <4>1, MaskedGrows
      <4> QED BY <4>2, <4>3 DEF g
    <3> QED BY <2>1, <3>2 DEF InMapSum, UnfoldedSum, LeftSum, Counted
  <2>3. late' = late + (IF c \in Unfolded THEN 0 ELSE 1)
    BY <1>0, <1>2 DEF Counts, Unfolded, CountersTypes
  <2>4. UNCHANGED <<acc, clean, sumPc, sum, report, least>>
    BY <1>2 DEF Counts, scrapeVars
  <2>5. /\ acc \in Nat /\ late \in Nat /\ sum \in Nat /\ report \in Nat /\ least \in Nat
    BY <1>0 DEF CountersTypes
  <2>6. /\ acc' + late' + UnfoldedSum' = Counted'
        /\ report' <= Counted' /\ least' <= Counted'
    BY <1>0, <1>n, <2>2, <2>3, <2>4, <2>5 DEF CountersLaw
  <2>7. /\ late <= late' /\ late' \in Nat /\ InMapSum <= InMapSum'
        /\ LeftSum <= LeftSum' /\ LeftSum' <= LeftSum + 1 /\ LeftSum' \in Nat
    BY <1>n, <2>2, <2>3, <2>5
  <2>8. sum + LeftSum <= Counted => sum + LeftSum' <= Counted'
    BY <1>n, <2>2, <2>5, <2>7
  <2>9. ASSUME NEW n \in {report, least}
        PROVE
          /\ sum + late + InMapSum >= n => sum + late' + InMapSum' >= n
          /\ sum + late + LeftSum >= n => sum + late' + LeftSum' >= n
          /\ report + late >= n => report + late' >= n
    <3> DEFINE a == InMapSum'  b == LeftSum'  d == late'
    <3>1. a \in Nat /\ b \in Nat /\ d \in Nat /\ n \in Nat
      BY <1>n, <2>5, <2>7
    <3>2. InMapSum <= a /\ LeftSum <= b /\ late <= d
      BY <2>7
    <3> HIDE DEF a, b, d
    <3>3. /\ sum + late + InMapSum >= n => sum + d + a >= n
          /\ sum + late + LeftSum >= n => sum + d + b >= n
          /\ report + late >= n => report + d >= n
      BY <1>n, <2>5, <3>1, <3>2
    <3> QED BY <3>3 DEF a, b, d
  <2> QED BY <1>0, <2>4, <2>6, <2>8, <2>9 DEF CountersLaw
<1>3. CASE DeleteConv(c)
  <2>1. Unfolded' = Unfolded /\ count' = count /\ left' = left
    BY <1>0, <1>3 DEF DeleteConv, Unfolded, CountersTypes, scrapeVars
  <2>2. UNCHANGED <<UnfoldedSum, LeftSum, Counted>>
    BY <2>1 DEF UnfoldedSum, LeftSum, Counted
  <2> QED BY <1>0, <1>3, <2>2 DEF DeleteConv, CountersLaw, scrapeVars
<1>4. CASE CloseConv(c)
  <2>1. Unfolded' = Unfolded /\ count' = count /\ left' = left /\ InMap' = InMap
    BY <1>0, <1>4 DEF CloseConv, Unfolded, InMap, CountersTypes, scrapeVars
  <2>2. UNCHANGED <<UnfoldedSum, LeftSum, Counted, InMapSum>>
    BY <2>1 DEF UnfoldedSum, LeftSum, Counted, InMapSum
  <2> QED BY <1>0, <1>4, <2>2 DEF CloseConv, CountersLaw, scrapeVars
<1>5. CASE Fold(c)
  <2>1. /\ Unfolded' = Unfolded \ {c} /\ c \in Unfolded
        /\ count' = count /\ left' = left /\ InMap' = InMap
    BY <1>0, <1>5 DEF Fold, Unfolded, InMap, CountersTypes, scrapeVars
  <2>2. UNCHANGED <<LeftSum, Counted, InMapSum>>
    BY <2>1 DEF LeftSum, Counted, InMapSum
  <2>3. UnfoldedSum = UnfoldedSum' + count[c]
    BY <1>0, <2>1, MaskedWithout DEF UnfoldedSum
  <2>4. UnfoldedSum' \in Nat
    BY <1>0, <2>1, MaskedSum DEF UnfoldedSum
  <2>5. acc' = acc + count[c] /\ UNCHANGED <<late, clean, sumPc, sum, report, least>>
    BY <1>5 DEF Fold, Folded, scrapeVars
  <2>6. /\ acc \in Nat /\ late \in Nat /\ sum \in Nat /\ count[c] \in Nat
    BY <1>0 DEF CountersTypes
  <2>7. acc' + late' + UnfoldedSum' = Counted' /\ acc <= acc'
    BY <1>0, <1>n, <2>2, <2>3, <2>4, <2>5, <2>6 DEF CountersLaw
  <2>8. sum <= acc => sum <= acc'
    BY <2>5, <2>6
  <2> QED BY <1>0, <2>2, <2>5, <2>7, <2>8 DEF CountersLaw
<1> QED BY <1>1, <1>2, <1>3, <1>4, <1>5

LEMMA ScrapeLaw ==
  ASSUME CountersInv, CountersTypes',
         ReadAcc \/ Snapshot \/ Reports \/ \E c \in Convs : ReadCount(c)
  PROVE  CountersLaw'
<1>0. CountersTypes /\ CountersLaw /\ count \in [Convs -> Nat]
  BY DEF CountersInv, CountersTypes
<1>t. /\ acc \in Nat /\ late \in Nat /\ sum \in Nat /\ report \in Nat /\ least \in Nat
  BY <1>0 DEF CountersTypes
<1>n. /\ InMapSum \in Nat /\ LeftSum \in Nat /\ UnfoldedSum \in Nat /\ Counted \in Nat
      /\ InMapSum <= UnfoldedSum
  BY <1>0, SumTypes
<1>s. UNCHANGED <<stage, count, acc, late>>
  BY DEF ReadAcc, Snapshot, Reports, ReadCount
<1>u. UNCHANGED <<UnfoldedSum, Counted, InMapSum>>
  BY <1>s DEF UnfoldedSum, Counted, InMapSum, Unfolded, InMap
<1>1. CASE ReadAcc
  <2>1. sumPc' = "map" /\ sum' = acc /\ clean' = (Leaving = {}) /\ UNCHANGED <<report, least>>
    BY <1>1 DEF ReadAcc
  <2>2. Leaving = {} => InMapSum = UnfoldedSum
    <3>1. Leaving = {} => Masked(count, InMap) = Masked(count, Unfolded)
      BY <1>0 DEF Leaving, InMap, Unfolded, Masked, CountersTypes
    <3> QED BY <3>1 DEF InMapSum, UnfoldedSum
  <2>3. Leaving = {} => acc + late + InMapSum >= report /\ acc + late + InMapSum >= least
    BY <1>0, <1>t, <1>n, <2>2 DEF CountersLaw
  <2>4. acc <= acc /\ acc' = acc /\ late' = late
    BY <1>t, <1>s
  <2> QED BY <1>0, <1>u, <2>1, <2>3, <2>4 DEF CountersLaw
<1>2. CASE Snapshot
  <2>1. /\ sumPc = "map" /\ sumPc' = "sum" /\ left' = InMap
        /\ UNCHANGED <<sum, clean, report, least>>
    BY <1>2 DEF Snapshot
  <2>2. LeftSum' = InMapSum
    BY <1>s, <2>1 DEF LeftSum, InMapSum
  <2>3. sum + InMapSum <= Counted
    BY <1>0, <1>t, <1>n, <2>1 DEF CountersLaw
  <2> QED BY <1>0, <1>s, <1>u, <2>1, <2>2, <2>3 DEF CountersLaw
<1>3. CASE Reports
  <2>1. /\ sumPc = "sum" /\ left = {} /\ sumPc' = "idle" /\ report' = sum
        /\ least' = (IF report > least THEN report ELSE least) /\ clean' = clean
    BY <1>3 DEF Reports
  <2>2. LeftSum = 0
    BY <1>0, <2>1, MaskedEmpty DEF LeftSum
  <2>3. sum <= Counted /\ (clean => sum + late >= report /\ sum + late >= least)
    BY <1>0, <1>t, <2>1, <2>2 DEF CountersLaw
  <2> QED BY <1>0, <1>s, <1>u, <2>1, <2>3 DEF CountersLaw
<1>4. ASSUME NEW c \in Convs, ReadCount(c) PROVE CountersLaw'
  <2>1. /\ sumPc = "sum" /\ c \in left /\ left' = left \ {c} /\ sum' = sum + count[c]
        /\ UNCHANGED <<sumPc, clean, report, least>>
    BY <1>4 DEF ReadCount
  <2>2. LeftSum = LeftSum' + count[c]
    BY <1>0, <1>s, <2>1, MaskedWithout DEF LeftSum
  <2>3. LeftSum' \in Nat /\ count[c] \in Nat
    BY <1>0, <1>s, MaskedSum DEF LeftSum
  <2>4. sum' + LeftSum' = sum + LeftSum
    BY <1>t, <2>1, <2>2, <2>3
  <2>5. sum' + late + LeftSum' = sum + late + LeftSum
    BY <1>t, <2>1, <2>2, <2>3
  <2> QED BY <1>0, <1>s, <1>u, <2>1, <2>4, <2>5 DEF CountersLaw
<1> QED BY <1>1, <1>2, <1>3, <1>4

(* The exported counter never says more than was counted, and never goes   *)
(* back across the end of a session but by what was counted after a fold   *)
(* and in a scrape that meets a session on its way from the map to acc,    *)
(* for any number of sessions, scrapes and counts (manager.go 68-70).      *)
THEOREM CountersReportIsTrue == CountersSpec => []ReportIsTrue
<1>1. CountersInit => CountersInv
  <2> SUFFICES ASSUME CountersInit PROVE CountersInv
    OBVIOUS
  <2>1. CountersTypes
    BY DEF CountersInit, CountersTypes
  <2>2. count \in [Convs -> Nat] /\ \A s \in Convs : count[s] = 0
    BY DEF CountersInit
  <2>3. Counted = 0
    BY <2>2, SumOfZeros DEF Counted
  <2>4. UnfoldedSum = 0
    <3>1. /\ Masked(count, Unfolded) \in [Convs -> Nat]
          /\ \A s \in Convs : Masked(count, Unfolded)[s] = 0
      BY <2>2 DEF Masked
    <3> QED BY <3>1, SumOfZeros DEF UnfoldedSum
  <2>5. CountersLaw
    BY <2>3, <2>4 DEF CountersInit, CountersLaw
  <2> QED BY <2>1, <2>5 DEF CountersInv
<1>2. CountersInv /\ [CountersNext]_countersVars => CountersInv'
  <2> SUFFICES ASSUME CountersInv, [CountersNext]_countersVars PROVE CountersInv'
    OBVIOUS
  <2>1. CountersTypes'
    BY CountersTypesStep DEF CountersInv
  <2>2. CASE UNCHANGED countersVars
    <3>1. UNCHANGED <<UnfoldedSum, Counted, InMapSum, LeftSum>>
      BY <2>2 DEF countersVars, scrapeVars, UnfoldedSum, Counted, InMapSum, LeftSum, Unfolded,
                  InMap
    <3> QED BY <2>1, <2>2, <3>1 DEF countersVars, scrapeVars, CountersInv, CountersLaw
  <2>3. CASE CountersNext
    BY <2>1, <2>3, SessionLaw, ScrapeLaw DEF CountersInv, CountersNext
  <2> QED BY <2>2, <2>3
<1>3. CountersInv => ReportIsTrue
  BY MadeIsSum DEF CountersInv, CountersLaw, ReportIsTrue, Counted
<1> QED BY <1>1, <1>2, <1>3, PTL DEF CountersSpec
-----------------------------------------------------------------------------
(* The wire format.  Division, and the powers of the base.                 *)
LEMMA DivisionIs ==
  ASSUME NEW n \in Int, NEW d \in Nat \ {0}
  PROVE  n \div d \in Int /\ n % d \in 0 .. d - 1 /\ n = d * (n \div d) + (n % d)
OBVIOUS

LEMMA DivisionUnique ==
  ASSUME NEW n \in Int, NEW d \in Nat \ {0}, NEW q \in Int, NEW r \in 0 .. d - 1, n = d * q + r
  PROVE  n \div d = q /\ n % d = r
OBVIOUS

LEMMA ProductMonotone ==
  ASSUME NEW a \in Nat, NEW x \in Int, NEW y \in Int, x <= y
  PROVE  a * x <= a * y /\ a * x \in Int /\ a * y \in Int
OBVIOUS

LEMMA DivisionTwice ==
  ASSUME NEW n \in Int, NEW a \in Nat \ {0}, NEW b \in Nat \ {0}
  PROVE  a * b \in Nat \ {0} /\ n \div (a * b) = (n \div a) \div b
<1> DEFINE q == n \div a  r == n % a  p == q \div b  u == q % b
<1>1. q \in Int /\ r \in 0 .. a - 1 /\ n = a * q + r
  BY DivisionIs
<1>2. p \in Int /\ u \in 0 .. b - 1 /\ q = b * p + u
  BY <1>1, DivisionIs
<1> HIDE DEF q, r, p, u
<1>3. a * u <= a * (b - 1) /\ a * u \in Nat
  BY <1>2, ProductMonotone
<1>4. a * (b - 1) = a * b - a /\ a * b \in Nat \ {0}
  OBVIOUS
<1>5. a * u + r \in 0 .. a * b - 1
  BY <1>1, <1>3, <1>4
<1>6. n = (a * b) * p + (a * u + r)
  <2>1. a * q = a * (b * p) + a * u
    BY <1>2
  <2>2. a * (b * p) = (a * b) * p
    BY <1>2
  <2> QED BY <1>1, <1>2, <2>1, <2>2, <1>3, <1>4
<1>7. n \div (a * b) = p
  BY <1>2, <1>4, <1>5, <1>6, DivisionUnique
<1> QED BY <1>4, <1>7 DEF p, q

LEMMA PowLaw ==
  Pow[0] = 1 /\ \A w \in Nat : Pow[w] \in Nat \ {0} /\ Pow[w + 1] = Base * Pow[w]
<1> DEFINE c == [i \in Nat |-> 0]
<1>0. Base \in Nat \ {0, 1}
  BY CodecAssumption
<1>1. PICK f \in [Nat -> Int] : f[0] = 1 /\ \A i \in Nat : f[i + 1] = f[i] * Base + c[i + 1]
  <2>1. c \in [Nat -> Int]
    OBVIOUS
  <2>2. Base \in Int /\ 1 \in Int
    BY <1>0
  <2> HIDE DEF c
  <2> QED BY ONLY <2>1, <2>2, RunsForever
<1>2. \A w \in Nat : f[w + 1] = Base * f[w]
  BY <1>0, <1>1
<1>3. f = [w \in Nat |-> IF w = 0 THEN 1 ELSE Base * f[w - 1]]
  <2>1. ASSUME NEW w \in Nat, w # 0 PROVE f[w] = Base * f[w - 1]
    <3>1. w - 1 \in Nat /\ (w - 1) + 1 = w
      BY <2>1
    <3> QED BY <1>2, <3>1
  <2>2. f = [w \in Nat |-> f[w]]
    OBVIOUS
  <2> QED BY <1>1, <2>1, <2>2
<1>4. Pow = [w \in Nat |-> IF w = 0 THEN 1 ELSE Base * Pow[w - 1]]
  BY <1>3 DEF Pow
<1>5. Pow[0] = 1 /\ \A w \in Nat : Pow[w + 1] = Base * Pow[w]
  <2>1. ASSUME NEW w \in Nat PROVE Pow[w + 1] = Base * Pow[w]
    <3>1. w + 1 \in Nat /\ w + 1 # 0 /\ (w + 1) - 1 = w
      OBVIOUS
    <3> QED BY <1>4, <3>1
  <2> QED BY <1>4, <2>1
<1> DEFINE T == {w \in Nat : Pow[w] \in Nat \ {0}}
<1>6. ASSUME NEW w \in Nat, w \in T PROVE w + 1 \in T
  <2>1. Pow[w] \in Nat \ {0} /\ Pow[w + 1] = Base * Pow[w]
    BY <1>5, <1>6
  <2>2. \A x \in Nat \ {0} : Base * x \in Nat \ {0}
    BY <1>0
  <2> QED BY <2>1, <2>2
<1>7. 0 \in T
  BY <1>5
<1> HIDE DEF T
<1>8. Nat \subseteq T
  BY <1>6, <1>7, NatSetInduction
<1> QED BY <1>5, <1>8 DEF T

(* A number read digit by digit.                                           *)
LEMMA DigitsAgree ==
  ASSUME NEW n \in Nat, NEW s \in [1 .. n -> Byte],
         NEW f, f[0] = 0, \A i \in 1 .. n : f[i] = f[i - 1] * Base + s[i],
         NEW g, g[0] = 0, \A i \in 1 .. n : g[i] = g[i - 1] * Base + s[i]
  PROVE  f[n] = g[n]
<1> DEFINE c == [i \in Nat |-> IF i \in 1 .. n THEN s[i] ELSE 0]
<1>0. 0 \in Int /\ Base \in Int /\ \A i \in 1 .. n : s[i] \in Int
  BY CodecAssumption DEF Byte
<1>1. c \in [Nat -> Int] /\ \A i \in 1 .. n : c[i] = s[i]
  BY <1>0
<1> HIDE DEF c
<1>2. Runs(g, 0, Base, c, n) /\ Runs(f, 0, Base, c, n)
  BY <1>1 DEF Runs
<1>3. n >= n
  OBVIOUS
<1> QED BY ONLY <1>0, <1>1, <1>2, <1>3, RunsAgree, n \in Nat

LEMMA UintIs ==
  ASSUME NEW n \in Nat, NEW s \in [1 .. n -> Byte]
  PROVE  \E g \in [0 .. n -> Int] :
           g[0] = 0 /\ (\A i \in 1 .. n : g[i] = g[i - 1] * Base + s[i]) /\ Uint(s) = g[n]
<1> DEFINE c == [i \in Nat |-> IF i \in 1 .. n THEN s[i] ELSE 0]
           Horner(g) == g = [i \in 0 .. n |-> IF i = 0 THEN 0 ELSE g[i - 1] * Base + s[i]]
<1>0. 0 \in Int /\ Base \in Int /\ \A i \in 1 .. n : s[i] \in Int
  BY CodecAssumption DEF Byte
<1>1. c \in [Nat -> Int]
  BY <1>0
<1>2. \A i \in 1 .. n : c[i] = s[i]
  OBVIOUS
<1> HIDE DEF c
<1>3. PICK f \in [0 .. n -> Int] : Runs(f, 0, Base, c, n)
  BY ONLY <1>0, <1>1, RunsUpTo, n \in Nat
<1>4. Horner(f)
  <2>1. f = [i \in 0 .. n |-> f[i]]
    OBVIOUS
  <2>2. ASSUME NEW i \in 0 .. n PROVE f[i] = IF i = 0 THEN 0 ELSE f[i - 1] * Base + s[i]
    <3>1. CASE i = 0
      BY <1>3, <3>1 DEF Runs
    <3>2. CASE i # 0
      <4>1. i \in 1 .. n
        BY <3>2
      <4>2. f[i] = f[i - 1] * Base + c[i] /\ c[i] = s[i]
        BY <1>2, <1>3, <4>1 DEF Runs
      <4> QED BY <3>2, <4>2
    <3> QED BY <3>1, <3>2
  <2> QED BY <2>1, <2>2
<1>5. PICK h : Horner(h) /\ Uint(s) = h[n]
  <2>1. Len(s) = n
    OBVIOUS
  <2> DEFINE k == CHOOSE g : Horner(g)
  <2>2. Horner(k)
    BY <1>4
  <2>3. Uint(s) = k[n]
    BY <2>1 DEF Uint
  <2> HIDE DEF k
  <2> QED BY <2>2, <2>3
<1>6. f[0] = 0 /\ \A i \in 1 .. n : f[i] = f[i - 1] * Base + s[i]
  BY <1>2, <1>3 DEF Runs
<1>7. h[0] = 0 /\ \A i \in 1 .. n : h[i] = h[i - 1] * Base + s[i]
  <2>1. 0 \in 0 .. n
    OBVIOUS
  <2>2. ASSUME NEW i \in 1 .. n PROVE h[i] = h[i - 1] * Base + s[i]
    <3>1. i \in 0 .. n /\ i # 0
      OBVIOUS
    <3> QED BY <1>5, <3>1
  <2> QED BY <1>5, <2>1, <2>2
<1>8. h[n] = f[n]
  BY <1>6, <1>7, DigitsAgree
<1> QED BY <1>5, <1>6, <1>8

LEMMA UintUnique ==
  ASSUME NEW n \in Nat, NEW s \in [1 .. n -> Byte], NEW f, f[0] = 0,
         \A i \in 1 .. n : f[i] = f[i - 1] * Base + s[i]
  PROVE  Uint(s) = f[n]
<1>1. PICK g \in [0 .. n -> Int] :
        g[0] = 0 /\ (\A i \in 1 .. n : g[i] = g[i - 1] * Base + s[i]) /\ Uint(s) = g[n]
  BY UintIs
<1> QED BY <1>1, DigitsAgree

LEMMA OneDigitMore ==
  ASSUME NEW p \in Nat \ {0}, NEW x \in 0 .. p - 1, NEW d \in Byte
  PROVE  x * Base + d \in 0 .. Base * p - 1
<1>1. Base \in Nat \ {0, 1} /\ d \in 0 .. Base - 1
  BY CodecAssumption DEF Byte
<1>2. Base * x <= Base * (p - 1)
  BY <1>1, ProductMonotone
<1>3. /\ Base * (p - 1) = Base * p - Base /\ x * Base = Base * x
      /\ Base * x \in Nat /\ Base * p \in Nat
  BY <1>1
<1> QED BY <1>1, <1>2, <1>3

LEMMA UintBound ==
  ASSUME NEW n \in Nat, NEW s \in [1 .. n -> Byte]
  PROVE  Uint(s) \in 0 .. Pow[n] - 1
<1>1. PICK g \in [0 .. n -> Int] :
        g[0] = 0 /\ (\A i \in 1 .. n : g[i] = g[i - 1] * Base + s[i]) /\ Uint(s) = g[n]
  BY UintIs
<1> DEFINE T == {i \in Nat : i <= n => g[i] \in 0 .. Pow[i] - 1}
<1>2. 0 \in T
  <2>1. g[0] = 0 /\ Pow[0] = 1
    BY <1>1, PowLaw
  <2>2. 0 \in 0 .. 1 - 1
    OBVIOUS
  <2> QED BY <2>1, <2>2
<1>3. ASSUME NEW i \in Nat, i \in T PROVE i + 1 \in T
  <2>1. CASE i + 1 <= n
    <3>1. i + 1 \in 1 .. n /\ (i + 1) - 1 = i
      BY <2>1
    <3>2. g[i + 1] = g[i] * Base + s[i + 1] /\ g[i] \in 0 .. Pow[i] - 1 /\ s[i + 1] \in Byte
      BY <1>1, <1>3, <2>1, <3>1
    <3>3. Pow[i] \in Nat \ {0} /\ Pow[i + 1] = Base * Pow[i] /\ Base \in Nat \ {0, 1}
      BY PowLaw, CodecAssumption
    <3>4. g[i] * Base + s[i + 1] \in 0 .. Base * Pow[i] - 1
      BY <3>2, <3>3, OneDigitMore
    <3>5. g[i + 1] \in 0 .. Pow[i + 1] - 1
      BY <3>2, <3>3, <3>4
    <3> QED BY <2>1, <3>5
  <2> QED BY <2>1
<1> HIDE DEF T
<1>4. n \in T
  BY <1>2, <1>3, NatSetInduction
<1> QED BY <1>1, <1>4 DEF T

(* What is left of a number without its last k digits, and one digit less. *)
LEMMA OneDigitLess ==
  ASSUME NEW n \in Int, NEW k \in Nat
  PROVE  /\ n \div Pow[k] \in Int
         /\ n \div Pow[k] = (n \div Pow[k + 1]) * Base + ((n \div Pow[k]) % Base)
         /\ n \div Pow[k + 1] = (n \div Pow[k]) \div Base
<1>1. Pow[k] \in Nat \ {0} /\ Pow[k + 1] = Base * Pow[k] /\ Base \in Nat \ {0}
  BY PowLaw, CodecAssumption
<1>2. Pow[k + 1] = Pow[k] * Base
  BY <1>1
<1>3. n \div Pow[k + 1] = (n \div Pow[k]) \div Base
  BY <1>1, <1>2, DivisionTwice
<1>4. n \div Pow[k] \in Int
  BY <1>1, DivisionIs
<1>5. n \div Pow[k] = Base * ((n \div Pow[k]) \div Base) + ((n \div Pow[k]) % Base)
  BY <1>1, <1>4, DivisionIs
<1>6. (n \div Pow[k]) \div Base \in Int
  BY <1>1, <1>4, DivisionIs
<1> QED BY <1>1, <1>3, <1>4, <1>5, <1>6

(* A number below the number of codes survives the field.                  *)
LEMMA PutThenGet ==
  ASSUME NEW w \in Nat, NEW n \in 0 .. Pow[w] - 1
  PROVE  PutUint(n, w) \in [1 .. w -> Byte] /\ Uint(PutUint(n, w)) = n
<1> DEFINE s == PutUint(n, w)  f == [i \in 0 .. w |-> n \div Pow[w - i]]
<1>0. Base \in Nat \ {0} /\ Pow[w] \in Nat \ {0} /\ Pow[0] = 1 /\ n \in Int
  BY PowLaw, CodecAssumption
<1>1. s \in [1 .. w -> Byte]
  <2>1. ASSUME NEW i \in 1 .. w PROVE (n \div Pow[w - i]) % Base \in Byte
    <3>1. w - i \in Nat
      OBVIOUS
    <3>2. n \div Pow[w - i] \in Int
      BY <1>0, <3>1, OneDigitLess
    <3> QED BY <1>0, <3>2, DivisionIs DEF Byte
  <2> QED BY <2>1 DEF PutUint
<1>2. f[0] = 0
  <2>1. n = Pow[w] * 0 + n
    BY <1>0
  <2>2. n \div Pow[w] = 0
    BY <1>0, <2>1, DivisionUnique
  <2> QED BY <2>2
<1>3. f[w] = n
  <2>1. n = 1 * n + 0
    BY <1>0
  <2>2. n \div 1 = n
    BY <1>0
  <2> QED BY <1>0, <2>2
<1>4. ASSUME NEW i \in 1 .. w PROVE f[i] = f[i - 1] * Base + s[i]
  <2>1. w - i \in Nat /\ (w - i) + 1 = w - (i - 1)
    OBVIOUS
  <2>2. n \div Pow[w - i] = (n \div Pow[w - (i - 1)]) * Base + ((n \div Pow[w - i]) % Base)
    BY <1>0, <2>1, OneDigitLess
  <2>3. s[i] = (n \div Pow[w - i]) % Base
    BY DEF PutUint
  <2>4. f[i] = n \div Pow[w - i] /\ f[i - 1] = n \div Pow[w - (i - 1)]
    OBVIOUS
  <2> QED BY <2>2, <2>3, <2>4
<1> HIDE DEF s, f
<1>5. Uint(s) = f[w]
  BY <1>1, <1>2, <1>4, UintUnique
<1> QED BY <1>1, <1>3, <1>5 DEF s

(* And a field survives being read and written again.                      *)
LEMMA GetThenPut ==
  ASSUME NEW w \in Nat, NEW s \in [1 .. w -> Byte]
  PROVE  PutUint(Uint(s), w) = s
<1> DEFINE n == Uint(s)
<1>0. Base \in Nat \ {0} /\ Pow[0] = 1
  BY PowLaw, CodecAssumption
<1>1. PICK g \in [0 .. w -> Int] :
        g[0] = 0 /\ (\A i \in 1 .. w : g[i] = g[i - 1] * Base + s[i]) /\ n = g[w]
  BY UintIs
<1> HIDE DEF n
<1>2. n \in Int
  BY <1>1
<1>3. ASSUME NEW i \in 1 .. w PROVE g[i] \div Base = g[i - 1] /\ g[i] % Base = s[i]
  <2>1. g[i] \in Int /\ g[i - 1] \in Int /\ s[i] \in 0 .. Base - 1
    BY DEF Byte
  <2>2. g[i] = Base * g[i - 1] + s[i]
    BY <1>0, <1>1, <2>1
  <2> QED BY <1>0, <2>1, <2>2, DivisionUnique
<1> DEFINE T == {k \in Nat : k <= w => g[w - k] = n \div Pow[k]}
<1>4. 0 \in T
  <2>1. n \div 1 = n
    BY <1>2
  <2> QED BY <1>0, <1>1, <2>1
<1>5. ASSUME NEW k \in Nat, k \in T PROVE k + 1 \in T
  <2>1. CASE k + 1 <= w
    <3>1. w - k \in 1 .. w /\ (w - k) - 1 = w - (k + 1)
      BY <2>1
    <3>2. g[w - (k + 1)] = g[w - k] \div Base
      BY <1>3, <3>1
    <3>3. g[w - k] = n \div Pow[k]
      BY <1>5, <2>1
    <3>4. n \div Pow[k + 1] = (n \div Pow[k]) \div Base
      BY <1>2, OneDigitLess
    <3> QED BY <3>2, <3>3, <3>4
  <2> QED BY <2>1
<1> HIDE DEF T
<1>6. Nat \subseteq T
  BY <1>4, <1>5, NatSetInduction
<1>7. ASSUME NEW i \in 1 .. w PROVE (n \div Pow[w - i]) % Base = s[i]
  <2>1. w - i \in Nat /\ w - i <= w /\ w - (w - i) = i
    OBVIOUS
  <2>2. g[i] = n \div Pow[w - i]
    BY <1>6, <2>1 DEF T
  <2> QED BY <1>3, <2>2
<1>8. PutUint(n, w) = [i \in 1 .. w |-> s[i]]
  BY <1>7 DEF PutUint
<1> QED BY <1>8 DEF n

(* Two's complement: a timestamp of either sign survives.                  *)
LEMMA SignedUnsigned ==
  ASSUME NEW w \in Nat, NEW n \in Int, 2 * n \in -Pow[w] .. Pow[w] - 1
  PROVE  Unsigned(n, w) \in 0 .. Pow[w] - 1 /\ Signed(Unsigned(n, w), w) = n
<1> DEFINE p == Pow[w]
<1>1. p \in Nat \ {0}
  BY PowLaw
<1>2. 2 * n \in -p .. p - 1
  OBVIOUS
<1> HIDE DEF p
<1>3. CASE n >= 0
  <2>1. n \in 0 .. p - 1 /\ n = p * 0 + n
    BY <1>1, <1>2, <1>3
  <2>2. n % p = n
    BY <1>1, <2>1, DivisionUnique
  <2>3. 2 * n < p
    BY <1>1, <1>2
  <2>4. Unsigned(n, w) = n
    BY <2>2 DEF Unsigned, p
  <2> QED BY <2>1, <2>3, <2>4 DEF Signed, p
<1>4. CASE n < 0
  <2>1. n + p \in 0 .. p - 1
    BY <1>1, <1>2, <1>4
  <2>2. n = p * (-1) + (n + p)
    BY <1>1
  <2>3. n % p = n + p
    <3>1. -1 \in Int
      OBVIOUS
    <3> QED BY <1>1, <2>1, <2>2, <3>1, DivisionUnique
  <2>4. ~ (2 * (n + p) < p)
    BY <1>1, <1>2
  <2>5. Unsigned(n, w) = n + p
    BY <2>3 DEF Unsigned, p
  <2>6. (n + p) - p = n
    BY <1>1
  <2> QED BY <2>1, <2>4, <2>5, <2>6 DEF Signed, p
<1> QED BY <1>3, <1>4

LEMMA UnsignedSigned ==
  ASSUME NEW w \in Nat, NEW u \in 0 .. Pow[w] - 1
  PROVE  Unsigned(Signed(u, w), w) = u /\ Signed(u, w) \in Int
<1> DEFINE p == Pow[w]
<1>1. p \in Nat \ {0} /\ u \in 0 .. p - 1
  BY PowLaw
<1> HIDE DEF p
<1>2. u = p * 0 + u /\ u - p = p * (-1) + u /\ u - p \in Int
  BY <1>1
<1>3. u % p = u /\ (u - p) % p = u
  <2>1. u % p = u
    BY <1>1, <1>2, DivisionUnique
  <2>2. (u - p) % p = u
    BY <1>1, <1>2, DivisionUnique
  <2> QED BY <2>1, <2>2
<1>4. Signed(u, w) = u \/ Signed(u, w) = u - p
  BY DEF Signed, p
<1> QED BY <1>2, <1>3, <1>4 DEF Unsigned, p

(* Where the bytes of two sequences are in the two together.               *)
LEMMA TogetherAt ==
  ASSUME NEW s \in Seq(Byte), NEW t \in Seq(Byte),
         NEW m \in Nat, m = Len(s), NEW n \in Nat, n = Len(t)
  PROVE  /\ s \o t \in Seq(Byte) /\ Len(s \o t) = m + n
         /\ \A i \in 1 .. m : (s \o t)[i] = s[i]
         /\ \A i \in 1 .. n : (s \o t)[m + i] = t[i]
OBVIOUS

LEMMA CutOut ==
  ASSUME NEW s \in Seq(Byte), NEW m \in Nat, NEW n \in Nat, m + n <= Len(s)
  PROVE  /\ SubSeq(s, m + 1, m + n) = [i \in 1 .. n |-> s[m + i]]
         /\ SubSeq(s, m + 1, m + n) \in [1 .. n -> Byte]
<1>1. Len(s) \in Nat /\ \A i \in 1 .. Len(s) : s[i] \in Byte
  OBVIOUS
<1>2. (m + n) - (m + 1) + 1 = n
  OBVIOUS
<1>3. SubSeq(s, m + 1, m + n) = [i \in 1 .. n |-> s[m + i]]
  OBVIOUS
<1>4. ASSUME NEW i \in 1 .. n PROVE s[m + i] \in Byte
  <2>1. m + i \in 1 .. Len(s)
    BY <1>1
  <2> QED BY <1>1, <2>1
<1> QED BY <1>3, <1>4

LEMMA FieldIs ==
  ASSUME NEW s \in Seq(Byte), NEW m \in Nat, NEW w \in Nat, m + w <= Len(s)
  PROVE  /\ Field(s, m, w) = Uint([i \in 1 .. w |-> s[m + i]])
         /\ [i \in 1 .. w |-> s[m + i]] \in [1 .. w -> Byte]
         /\ Field(s, m, w) \in 0 .. Pow[w] - 1
<1> DEFINE d == [i \in 1 .. w |-> s[m + i]]
<1>1. SubSeq(s, m + 1, m + w) = d /\ d \in [1 .. w -> Byte]
  BY CutOut
<1> HIDE DEF d
<1>2. Uint(d) \in 0 .. Pow[w] - 1
  BY <1>1, UintBound
<1>3. Field(s, m, w) = Uint(d)
  BY <1>1 DEF Field
<1> QED BY <1>1, <1>2, <1>3 DEF d

(* A frame as the code has it: its fields fit theirs in the header.        *)
FrameFits(f) ==
  /\ f \in [type : Byte, seq : 0 .. Pow[SeqWidth] - 1, ts : Int, payload : Seq(Byte)]
  /\ 2 * f.ts \in -Pow[TsWidth] .. Pow[TsWidth] - 1
  /\ CanEncode(f)

LEMMA FitsTypes ==
  ASSUME NEW f, FrameFits(f)
  PROVE  /\ f.type \in Byte /\ f.seq \in 0 .. Pow[SeqWidth] - 1 /\ f.ts \in Int
         /\ f.payload \in Seq(Byte) /\ Len(f.payload) \in 0 .. Pow[LenWidth] - 1
         /\ Unsigned(f.ts, TsWidth) \in 0 .. Pow[TsWidth] - 1
         /\ Signed(Unsigned(f.ts, TsWidth), TsWidth) = f.ts
         /\ f = FrameOf(f, f.payload)
<1>1. f.type \in Byte /\ f.seq \in 0 .. Pow[SeqWidth] - 1 /\ f.ts \in Int /\ f.payload \in Seq(Byte)
  BY DEF FrameFits
<1>2. Len(f.payload) \in Nat /\ Len(f.payload) <= MaxPayload
  BY <1>1 DEF FrameFits, CanEncode
<1>3. MaxPayload \in Nat /\ MaxPayload < Pow[LenWidth] /\ Pow[LenWidth] \in Nat /\ TsWidth \in Nat
  BY PowLaw, CodecAssumption
<1>4. Len(f.payload) \in 0 .. Pow[LenWidth] - 1
  BY <1>2, <1>3
<1>5. /\ Unsigned(f.ts, TsWidth) \in 0 .. Pow[TsWidth] - 1
      /\ Signed(Unsigned(f.ts, TsWidth), TsWidth) = f.ts
  BY <1>1, <1>3, SignedUnsigned DEF FrameFits
<1>6. f = FrameOf(f, f.payload)
  BY DEF FrameFits, FrameOf
<1> QED BY <1>1, <1>4, <1>5, <1>6

(* The bytes of an encoded frame, field by field.                          *)
LEMMA EncodedAt ==
  ASSUME NEW f, FrameFits(f), NEW n \in Nat, n = Len(f.payload)
  PROVE  LET m == Encode(f)
             a == 4 + SeqWidth
             b == a + TsWidth
         IN  /\ m \in Seq(Byte) /\ Len(m) = HeaderSize + n
             /\ m[1] = Magic0 /\ m[2] = Magic1 /\ m[3] = Version /\ m[4] = f.type
             /\ \A i \in 1 .. SeqWidth : m[4 + i] = PutUint(f.seq, SeqWidth)[i]
             /\ \A i \in 1 .. TsWidth : m[a + i] = PutUint(Unsigned(f.ts, TsWidth), TsWidth)[i]
             /\ \A i \in 1 .. LenWidth : m[b + i] = PutUint(n, LenWidth)[i]
             /\ \A i \in 1 .. n : m[HeaderSize + i] = f.payload[i]
<1> DEFINE h == <<Magic0, Magic1, Version, f.type>>
           s == PutUint(f.seq, SeqWidth)
           t == PutUint(Unsigned(f.ts, TsWidth), TsWidth)
           l == PutUint(n, LenWidth)
           a == 4 + SeqWidth
           b == a + TsWidth
           hs == h \o s  ht == hs \o t  hl == ht \o l  m == hl \o f.payload
<1>0. SeqWidth \in Nat /\ TsWidth \in Nat /\ LenWidth \in Nat
  BY CodecAssumption
<1>1. /\ f.type \in Byte /\ f.seq \in 0 .. Pow[SeqWidth] - 1
      /\ f.payload \in Seq(Byte) /\ n \in 0 .. Pow[LenWidth] - 1
      /\ Unsigned(f.ts, TsWidth) \in 0 .. Pow[TsWidth] - 1
  BY FitsTypes
<1>2. /\ h \in Seq(Byte) /\ 4 = Len(h)
      /\ h[1] = Magic0 /\ h[2] = Magic1 /\ h[3] = Version /\ h[4] = f.type
  <2>1. Magic0 \in Byte /\ Magic1 \in Byte /\ Version \in Byte
    BY CodecAssumption
  <2> QED BY <1>1, <2>1
<1>3. s \in Seq(Byte) /\ SeqWidth = Len(s)
  <2>1. s \in [1 .. SeqWidth -> Byte]
    BY <1>0, <1>1, PutThenGet
  <2> HIDE DEF s
  <2> QED BY <1>0, <2>1
<1>4. t \in Seq(Byte) /\ TsWidth = Len(t)
  <2>1. t \in [1 .. TsWidth -> Byte]
    BY <1>0, <1>1, PutThenGet
  <2> HIDE DEF t
  <2> QED BY <1>0, <2>1
<1>5. l \in Seq(Byte) /\ LenWidth = Len(l)
  <2>1. l \in [1 .. LenWidth -> Byte]
    BY <1>0, <1>1, PutThenGet
  <2> HIDE DEF l
  <2> QED BY <1>0, <2>1
<1>6. Encode(f) = m /\ HeaderSize = b + LenWidth /\ a \in Nat /\ b \in Nat /\ HeaderSize \in Nat
  BY <1>0 DEF Encode, EncodeHeader, HeaderSize
<1> HIDE DEF h, s, t, l
<1>7. /\ hs \in Seq(Byte) /\ a = Len(hs) /\ \A i \in 1 .. 4 : hs[i] = h[i]
      /\ \A i \in 1 .. SeqWidth : hs[4 + i] = s[i]
  <2>1. PICK k \in Nat : k = 4 /\ k = Len(h)
    BY <1>2
  <2>2. h \in Seq(Byte) /\ k = Len(h)
    BY <1>2, <2>1
  <2>3. /\ hs \in Seq(Byte) /\ Len(hs) = k + SeqWidth
        /\ \A i \in 1 .. k : hs[i] = h[i]
        /\ \A i \in 1 .. SeqWidth : hs[k + i] = s[i]
    BY ONLY <1>0, <1>3, <2>2, TogetherAt, k \in Nat
  <2> QED BY <2>1, <2>3
<1> HIDE DEF hs, a
<1>8. /\ ht \in Seq(Byte) /\ b = Len(ht) /\ \A i \in 1 .. a : ht[i] = hs[i]
      /\ \A i \in 1 .. TsWidth : ht[a + i] = t[i]
  BY <1>0, <1>4, <1>6, <1>7, TogetherAt
<1> HIDE DEF ht, b
<1>9. /\ hl \in Seq(Byte) /\ HeaderSize = Len(hl) /\ \A i \in 1 .. b : hl[i] = ht[i]
      /\ \A i \in 1 .. LenWidth : hl[b + i] = l[i]
  BY <1>0, <1>5, <1>6, <1>8, TogetherAt
<1> HIDE DEF hl
<1>10. /\ m \in Seq(Byte) /\ Len(m) = HeaderSize + n /\ \A i \in 1 .. HeaderSize : m[i] = hl[i]
       /\ \A i \in 1 .. n : m[HeaderSize + i] = f.payload[i]
  <2> DEFINE p == f.payload
  <2>1. p \in Seq(Byte) /\ n = Len(p)
    BY <1>1
  <2> HIDE DEF p
  <2>2. PICK k \in Nat : k = HeaderSize /\ k = Len(hl)
    BY <1>6, <1>9
  <2>3. /\ hl \o p \in Seq(Byte) /\ Len(hl \o p) = k + n
        /\ \A i \in 1 .. k : (hl \o p)[i] = hl[i]
        /\ \A i \in 1 .. n : (hl \o p)[k + i] = p[i]
    BY ONLY <1>9, <2>1, <2>2, TogetherAt, n \in Nat
  <2> QED BY <2>2, <2>3 DEF p
<1> HIDE DEF m
<1>11. \A i \in 1 .. 4 : m[i] = h[i]
  <2>1. \A i \in 1 .. 4 : i \in 1 .. a /\ i \in 1 .. b /\ i \in 1 .. HeaderSize
    BY <1>0, <1>6 DEF a, b
  <2> QED BY <1>7, <1>8, <1>9, <1>10, <2>1
<1>12. \A i \in 1 .. SeqWidth : m[4 + i] = s[i]
  <2>1. \A i \in 1 .. SeqWidth : 4 + i \in 1 .. a /\ 4 + i \in 1 .. b /\ 4 + i \in 1 .. HeaderSize
    BY <1>0, <1>6 DEF a, b
  <2> QED BY <1>7, <1>8, <1>9, <1>10, <2>1
<1>13. \A i \in 1 .. TsWidth : m[a + i] = t[i]
  <2>1. \A i \in 1 .. TsWidth : a + i \in 1 .. b /\ a + i \in 1 .. HeaderSize
    BY <1>0, <1>6 DEF a, b
  <2> QED BY <1>8, <1>9, <1>10, <2>1
<1>14. \A i \in 1 .. LenWidth : m[b + i] = l[i]
  <2>1. \A i \in 1 .. LenWidth : b + i \in 1 .. HeaderSize
    BY <1>0, <1>6
  <2> QED BY <1>9, <1>10, <2>1
<1>15. m[1] = Magic0 /\ m[2] = Magic1 /\ m[3] = Version /\ m[4] = f.type
  BY <1>2, <1>11
<1> QED BY <1>6, <1>10, <1>12, <1>13, <1>14, <1>15 DEF s, t, l, a, b

(* The fields of a header that is there.                                   *)
LEMMA HeaderIs ==
  ASSUME NEW m \in Seq(Byte), Len(m) >= HeaderSize
  PROVE  LET a == 4 + SeqWidth
             b == a + TsWidth
             h == DecodeHeader(m)
         IN  /\ HeaderSize = b + LenWidth /\ a \in Nat /\ b \in Nat
             /\ h.type = m[4] /\ h.seq = Uint([i \in 1 .. SeqWidth |-> m[4 + i]])
             /\ h.ts = Signed(Uint([i \in 1 .. TsWidth |-> m[a + i]]), TsWidth)
             /\ h.length = Uint([i \in 1 .. LenWidth |-> m[b + i]])
             /\ h.length \in 0 .. Pow[LenWidth] - 1
<1> DEFINE a == 4 + SeqWidth  b == a + TsWidth  h == DecodeHeader(m)
<1>0. SeqWidth \in Nat /\ TsWidth \in Nat /\ LenWidth \in Nat /\ 4 \in Nat
  BY CodecAssumption
<1>1. HeaderSize = b + LenWidth /\ a \in Nat /\ b \in Nat
  BY <1>0 DEF HeaderSize
<1>2. 4 + SeqWidth <= Len(m) /\ a + TsWidth <= Len(m) /\ b + LenWidth <= Len(m)
  <2>1. PICK k \in Nat : k = Len(m)
    OBVIOUS
  <2> QED BY <1>0, <1>1, <2>1
<1>3. /\ h.type = m[4] /\ h.seq = Field(m, 4, SeqWidth)
      /\ h.ts = Signed(Field(m, a, TsWidth), TsWidth) /\ h.length = Field(m, b, LenWidth)
  BY DEF DecodeHeader
<1> HIDE DEF a, b, h
<1>4. Field(m, 4, SeqWidth) = Uint([i \in 1 .. SeqWidth |-> m[4 + i]])
  BY <1>0, <1>2, FieldIs
<1>5. Field(m, a, TsWidth) = Uint([i \in 1 .. TsWidth |-> m[a + i]])
  BY <1>0, <1>1, <1>2, FieldIs
<1>6. /\ Field(m, b, LenWidth) = Uint([i \in 1 .. LenWidth |-> m[b + i]])
      /\ Field(m, b, LenWidth) \in 0 .. Pow[LenWidth] - 1
  BY <1>0, <1>1, <1>2, FieldIs
<1> QED BY <1>1, <1>3, <1>4, <1>5, <1>6 DEF a, b, h

(* What was encoded is decoded: every field, of either sign, and any       *)
(* payload (frame.go, AppendBinary and Decode).                            *)
THEOREM DecodeEncode == ASSUME NEW f, FrameFits(f) PROVE Decode(Encode(f)) = f
<1> DEFINE m == Encode(f)  n == Len(f.payload)
           a == 4 + SeqWidth  b == a + TsWidth  h == DecodeHeader(m)
<1>0. SeqWidth \in Nat /\ TsWidth \in Nat /\ LenWidth \in Nat
  BY CodecAssumption
<1>1. /\ f.seq \in 0 .. Pow[SeqWidth] - 1 /\ f.payload \in Seq(Byte)
      /\ n \in Nat /\ n \in 0 .. Pow[LenWidth] - 1 /\ n <= MaxPayload
      /\ Unsigned(f.ts, TsWidth) \in 0 .. Pow[TsWidth] - 1
      /\ Signed(Unsigned(f.ts, TsWidth), TsWidth) = f.ts
      /\ f = FrameOf(f, f.payload)
  BY FitsTypes DEF FrameFits, CanEncode
<1>2. /\ m \in Seq(Byte) /\ Len(m) = HeaderSize + n
      /\ m[1] = Magic0 /\ m[2] = Magic1 /\ m[3] = Version /\ m[4] = f.type
      /\ \A i \in 1 .. SeqWidth : m[4 + i] = PutUint(f.seq, SeqWidth)[i]
      /\ \A i \in 1 .. TsWidth : m[a + i] = PutUint(Unsigned(f.ts, TsWidth), TsWidth)[i]
      /\ \A i \in 1 .. LenWidth : m[b + i] = PutUint(n, LenWidth)[i]
      /\ \A i \in 1 .. n : m[HeaderSize + i] = f.payload[i]
  BY <1>1, EncodedAt
<1>3. HeaderSize \in Nat
  BY <1>0 DEF HeaderSize
<1> HIDE DEF m, n
<1>4. Len(m) >= HeaderSize
  BY <1>1, <1>2, <1>3
<1>5. /\ h.type = m[4] /\ h.seq = Uint([i \in 1 .. SeqWidth |-> m[4 + i]])
      /\ h.ts = Signed(Uint([i \in 1 .. TsWidth |-> m[a + i]]), TsWidth)
      /\ h.length = Uint([i \in 1 .. LenWidth |-> m[b + i]])
  BY <1>2, <1>4, HeaderIs
<1> HIDE DEF h, a, b
<1>6. h.seq = f.seq
  <2>1. PutUint(f.seq, SeqWidth) = [i \in 1 .. SeqWidth |-> m[4 + i]]
    BY <1>2 DEF PutUint
  <2>2. Uint(PutUint(f.seq, SeqWidth)) = f.seq
    BY <1>0, <1>1, PutThenGet
  <2> QED BY <1>5, <2>1, <2>2
<1>7. h.ts = f.ts
  <2> DEFINE u == Unsigned(f.ts, TsWidth)
  <2>1. u \in 0 .. Pow[TsWidth] - 1 /\ \A i \in 1 .. TsWidth : m[a + i] = PutUint(u, TsWidth)[i]
    BY <1>1, <1>2
  <2> HIDE DEF u
  <2>2. PutUint(u, TsWidth) = [i \in 1 .. TsWidth |-> m[a + i]]
    BY <2>1 DEF PutUint
  <2>3. Uint(PutUint(u, TsWidth)) = u
    BY <1>0, <2>1, PutThenGet
  <2>4. h.ts = Signed(u, TsWidth)
    BY <1>5, <2>2, <2>3
  <2> QED BY <1>1, <2>4 DEF u
<1>8. h.length = n
  <2>1. PutUint(n, LenWidth) = [i \in 1 .. LenWidth |-> m[b + i]]
    BY <1>2 DEF PutUint
  <2>2. Uint(PutUint(n, LenWidth)) = n
    BY <1>0, <1>1, PutThenGet
  <2> QED BY <1>5, <2>1, <2>2
<1>9. HeaderOK(m) /\ Len(m) = HeaderSize + h.length
  BY <1>1, <1>2, <1>4, <1>8 DEF HeaderOK, h
<1>10. SubSeq(m, HeaderSize + 1, Len(m)) = f.payload
  <2>1. SubSeq(m, HeaderSize + 1, HeaderSize + n) = [i \in 1 .. n |-> m[HeaderSize + i]]
    BY <1>1, <1>2, <1>3, CutOut
  <2>2. f.payload = [i \in 1 .. n |-> f.payload[i]]
    BY <1>1 DEF n
  <2> QED BY <1>2, <2>1, <2>2
<1>11. Decode(m) = FrameOf(h, f.payload)
  BY <1>9, <1>10 DEF Decode, h
<1>12. h.type = f.type
  BY <1>2, <1>5
<1> QED BY <1>1, <1>6, <1>7, <1>11, <1>12 DEF FrameOf, m

(* A place in the n bytes that follow the first a, counted from there.    *)
LEMMA AcrossField ==
  ASSUME NEW a \in Nat, NEW n \in Nat, NEW j \in a + 1 .. a + n
  PROVE  \E i \in 1 .. n : j = a + i
<1>1. j - a \in 1 .. n /\ j = a + (j - a)
  OBVIOUS
<1> QED BY <1>1

(* What is decoded was a header that fits and nothing but its payload, and *)
(* encoding it gives the same message: two messages that are accepted are  *)
(* the same when their frames are (frame.go, Decode).                      *)
THEOREM EncodeDecode ==
  ASSUME NEW m \in Seq(Byte), Decode(m) # NoFrame
  PROVE  FrameFits(Decode(m)) /\ Encode(Decode(m)) = m
<1> DEFINE f == Decode(m)  h == DecodeHeader(m)  n == Len(f.payload)
           a == 4 + SeqWidth  b == a + TsWidth
<1>0. SeqWidth \in Nat /\ TsWidth \in Nat /\ LenWidth \in Nat /\ MaxPayload \in Nat
  BY CodecAssumption
<1>1. HeaderOK(m) /\ Len(m) = HeaderSize + h.length
  BY DEF Decode
<1>2. f = FrameOf(h, SubSeq(m, HeaderSize + 1, Len(m)))
  BY <1>1 DEF Decode
<1>3. /\ HeaderSize = b + LenWidth /\ a \in Nat /\ b \in Nat
      /\ h.type = m[4] /\ h.seq = Uint([i \in 1 .. SeqWidth |-> m[4 + i]])
      /\ h.ts = Signed(Uint([i \in 1 .. TsWidth |-> m[a + i]]), TsWidth)
      /\ h.length = Uint([i \in 1 .. LenWidth |-> m[b + i]])
      /\ h.length \in 0 .. Pow[LenWidth] - 1
  BY <1>1, HeaderIs DEF HeaderOK
<1>4. HeaderSize \in Nat /\ h.length \in Nat /\ h.length <= MaxPayload
  <2>1. h.length <= MaxPayload
    BY <1>1 DEF HeaderOK
  <2>2. h.length \in Nat
    <3>1. Pow[LenWidth] \in Nat
      BY <1>0, PowLaw
    <3> QED BY <1>3, <3>1
  <2>3. HeaderSize \in Nat
    BY ONLY <1>0 DEF HeaderSize
  <2> QED BY <2>1, <2>2, <2>3
<1> HIDE DEF h, f
<1>5. PICK k \in Nat : k = h.length /\ Len(m) = HeaderSize + k
  BY <1>1, <1>4
<1>6. f.payload = [i \in 1 .. k |-> m[HeaderSize + i]] /\ f.payload \in [1 .. k -> Byte]
  <2>1. f.payload = SubSeq(m, HeaderSize + 1, HeaderSize + k)
    BY <1>2, <1>5 DEF FrameOf
  <2>2. PICK z \in Nat : z = HeaderSize /\ z + k <= Len(m)
    BY <1>4, <1>5
  <2>3. /\ SubSeq(m, z + 1, z + k) = [i \in 1 .. k |-> m[z + i]]
        /\ SubSeq(m, z + 1, z + k) \in [1 .. k -> Byte]
    BY <2>2, CutOut
  <2> QED BY <2>1, <2>2, <2>3
<1>7. f.payload \in Seq(Byte) /\ n = k
  <2> DEFINE p == f.payload
  <2> HIDE DEF p
  <2>1. p \in [1 .. k -> Byte] => p \in Seq(Byte) /\ Len(p) = k
    OBVIOUS
  <2> QED BY <1>6, <2>1 DEF p
<1>8. \A i \in 1 .. HeaderSize : m[i] \in Byte
  <2>1. \A i \in 1 .. HeaderSize : i \in 1 .. Len(m)
    BY <1>4, <1>5
  <2> QED BY <2>1
<1>9. /\ [i \in 1 .. SeqWidth |-> m[4 + i]] \in [1 .. SeqWidth -> Byte]
      /\ [i \in 1 .. TsWidth |-> m[a + i]] \in [1 .. TsWidth -> Byte]
      /\ [i \in 1 .. LenWidth |-> m[b + i]] \in [1 .. LenWidth -> Byte]
      /\ m[4] \in Byte
  <2>1. \A i \in 1 .. SeqWidth : 4 + i \in 1 .. HeaderSize
    BY <1>0, <1>3
  <2>2. \A i \in 1 .. TsWidth : a + i \in 1 .. HeaderSize
    BY <1>0, <1>3
  <2>3. \A i \in 1 .. LenWidth : b + i \in 1 .. HeaderSize
    BY <1>0, <1>3
  <2>4. 4 \in 1 .. HeaderSize
    BY <1>0, <1>3
  <2> HIDE DEF a, b
  <2> QED BY <1>8, <2>1, <2>2, <2>3, <2>4
<1>10. f.type = m[4] /\ f.seq = h.seq /\ f.ts = h.ts
  BY <1>2, <1>3 DEF FrameOf
<1> DEFINE u == Uint([i \in 1 .. TsWidth |-> m[a + i]])
<1>11. u \in 0 .. Pow[TsWidth] - 1 /\ f.ts = Signed(u, TsWidth)
  BY <1>0, <1>3, <1>9, <1>10, UintBound
<1>12. FrameFits(f)
  <2>1. f.seq \in 0 .. Pow[SeqWidth] - 1
    BY <1>0, <1>3, <1>9, <1>10, UintBound
  <2> HIDE DEF u
  <2>2. f.ts \in Int /\ 2 * f.ts \in -Pow[TsWidth] .. Pow[TsWidth] - 1
    <3>1. Pow[TsWidth] \in Nat
      BY <1>0, PowLaw
    <3> QED BY <1>11, <3>1 DEF Signed
  <2>3. f \in [type : Byte, seq : 0 .. Pow[SeqWidth] - 1, ts : Int, payload : Seq(Byte)]
    <3>1. f.type \in Byte
      BY <1>9, <1>10
    <3>2. f = [type |-> f.type, seq |-> f.seq, ts |-> f.ts, payload |-> f.payload]
      BY <1>2 DEF FrameOf
    <3> QED BY <1>7, <2>1, <2>2, <3>1, <3>2
  <2>4. CanEncode(f)
    BY <1>4, <1>5, <1>7 DEF CanEncode
  <2> QED BY <2>2, <2>3, <2>4 DEF FrameFits
<1>13. Unsigned(f.ts, TsWidth) = u
  BY <1>0, <1>11, UnsignedSigned
<1> DEFINE e == Encode(f)
<1>14. /\ e \in Seq(Byte) /\ Len(e) = HeaderSize + k
       /\ e[1] = Magic0 /\ e[2] = Magic1 /\ e[3] = Version /\ e[4] = f.type
       /\ \A i \in 1 .. SeqWidth : e[4 + i] = PutUint(f.seq, SeqWidth)[i]
       /\ \A i \in 1 .. TsWidth : e[a + i] = PutUint(u, TsWidth)[i]
       /\ \A i \in 1 .. LenWidth : e[b + i] = PutUint(k, LenWidth)[i]
       /\ \A i \in 1 .. k : e[HeaderSize + i] = f.payload[i]
  <2>1. k = Len(f.payload)
    BY <1>7
  <2> HIDE DEF u
  <2> QED BY <1>12, <1>13, <2>1, EncodedAt
<1> HIDE DEF e
<1>15. /\ PutUint(f.seq, SeqWidth) = [i \in 1 .. SeqWidth |-> m[4 + i]]
       /\ PutUint(u, TsWidth) = [i \in 1 .. TsWidth |-> m[a + i]]
       /\ PutUint(k, LenWidth) = [i \in 1 .. LenWidth |-> m[b + i]]
  <2>1. PutUint(f.seq, SeqWidth) = [i \in 1 .. SeqWidth |-> m[4 + i]]
    BY <1>0, <1>3, <1>9, <1>10, GetThenPut
  <2>2. PutUint(u, TsWidth) = [i \in 1 .. TsWidth |-> m[a + i]]
    BY <1>0, <1>9, GetThenPut
  <2>3. PutUint(k, LenWidth) = [i \in 1 .. LenWidth |-> m[b + i]]
    BY <1>0, <1>3, <1>5, <1>9, GetThenPut
  <2> QED BY <2>1, <2>2, <2>3
<1>16. ASSUME NEW j \in 1 .. HeaderSize + k PROVE e[j] = m[j]
  <2>1. CASE j \in 1 .. 4
    <3>1. j = 1 \/ j = 2 \/ j = 3 \/ j = 4
      BY <2>1
    <3> QED BY <1>1, <1>10, <1>14, <3>1 DEF HeaderOK
  <2>2. CASE j \in 5 .. a
    <3>1. PICK i \in 1 .. SeqWidth : j = 4 + i
      BY <1>0, <2>2, AcrossField
    <3> HIDE DEF a, b, u
    <3> QED BY <1>14, <1>15, <3>1
  <2>3. CASE j \in a + 1 .. b
    <3>1. PICK i \in 1 .. TsWidth : j = a + i
      <4> HIDE DEF a
      <4> QED BY <1>0, <1>3, <2>3, AcrossField DEF b
    <3> HIDE DEF a, b, u
    <3> QED BY <1>14, <1>15, <3>1
  <2>4. CASE j \in b + 1 .. HeaderSize
    <3>1. PICK i \in 1 .. LenWidth : j = b + i
      <4> HIDE DEF a, b
      <4> QED BY <1>0, <1>3, <2>4, AcrossField
    <3> HIDE DEF a, b, u
    <3> QED BY <1>14, <1>15, <3>1
  <2>5. CASE j \in HeaderSize + 1 .. HeaderSize + k
    <3>1. PICK i \in 1 .. k : j = HeaderSize + i
      BY <1>4, <2>5, AcrossField
    <3> HIDE DEF a, b, u
    <3> QED BY <1>6, <1>14, <3>1
  <2>6. j \in 1 .. 4 \/ j \in 5 .. a \/ j \in a + 1 .. b \/ j \in b + 1 .. HeaderSize
          \/ j \in HeaderSize + 1 .. HeaderSize + k
    BY <1>0, <1>3, <1>4
  <2> QED BY <2>1, <2>2, <2>3, <2>4, <2>5, <2>6
<1>17. e = m
  <2>1. Len(e) = Len(m) /\ Len(m) = HeaderSize + k
    BY <1>5, <1>14
  <2>2. e = [j \in 1 .. Len(e) |-> e[j]] /\ m = [j \in 1 .. Len(m) |-> m[j]]
    BY <1>14
  <2> QED BY <1>16, <2>1, <2>2
<1> QED BY <1>12, <1>17 DEF e, f

(* The reader: what it has seen of the message agrees with what Decode     *)
(* makes of the whole.                                                     *)
CodecInv ==
  /\ message \in Seq(Byte) /\ rpos \in {"header", "payload", "probe", "done"}
  /\ written # NoFrame => FrameFits(written) /\ message = Encode(written)
  /\ bufCap \in Nat /\ (bufCap <= MaxPayload \/ bufCap \in BufCaps)
  /\ rpos \in {"payload", "probe"} => HeaderOK(message) /\ head = DecodeHeader(message)
  /\ rpos = "probe" => Len(message) >= HeaderSize + head.length
  /\ outcome = IF rpos = "done" THEN Decode(message) ELSE NoFrame

LEMMA HeaderOKType ==
  ASSUME NEW m \in Seq(Byte), HeaderOK(m)
  PROVE  /\ HeaderSize \in Nat /\ Len(m) \in Nat /\ Len(m) >= HeaderSize
         /\ DecodeHeader(m).length \in Nat /\ DecodeHeader(m).length <= MaxPayload
         /\ MaxPayload \in Nat
<1>1. Len(m) >= HeaderSize /\ DecodeHeader(m).length <= MaxPayload /\ Len(m) \in Nat
  BY DEF HeaderOK
<1>2. DecodeHeader(m).length \in 0 .. Pow[LenWidth] - 1
  BY <1>1, HeaderIs
<1>3. HeaderSize \in Nat /\ MaxPayload \in Nat
  BY CodecAssumption DEF HeaderSize
<1> QED BY <1>1, <1>2, <1>3

LEMMA CodecInitInv == CodecInit => CodecInv
<1> SUFFICES ASSUME CodecInit PROVE CodecInv
  OBVIOUS
<1>1. PICK f \in CodecFrames :
        /\ CanEncode(f) /\ message \in Arrivals(f)
        /\ written = IF message = Encode(f) THEN f ELSE NoFrame
        /\ rpos = "header" /\ bufCap \in BufCaps /\ outcome = NoFrame
  BY DEF CodecInit
<1>2. FrameFits(f)
  BY <1>1, CodecAssumption DEF FrameFits
<1>3. bufCap \in Nat
  BY <1>1, CodecAssumption
<1>4. message \in Seq(Byte)
  <2> DEFINE m == Encode(f)
  <2>1. m \in Seq(Byte)
    <3>1. Len(f.payload) \in Nat
      BY <1>2, FitsTypes
    <3> QED BY <1>2, <3>1, EncodedAt
  <2>2. \/ message = m \/ \E k \in 0 .. Len(m) - 1 : message = SubSeq(m, 1, k)
        \/ \E c \in Byte : message = Append(m, c)
        \/ \E i \in DOMAIN m, c \in Byte : message = [m EXCEPT ![i] = c]
    BY <1>1 DEF Arrivals
  <2> HIDE DEF m
  <2>3. \A k \in 0 .. Len(m) - 1 : SubSeq(m, 1, k) \in Seq(Byte)
    BY <2>1
  <2>4. \A c \in Byte : Append(m, c) \in Seq(Byte)
    BY <2>1
  <2>5. \A i \in DOMAIN m, c \in Byte : [m EXCEPT ![i] = c] \in Seq(Byte)
    BY <2>1
  <2> QED BY <2>1, <2>2, <2>3, <2>4, <2>5
<1> QED BY <1>1, <1>2, <1>3, <1>4 DEF CodecInv

LEMMA CodecStep == CodecInv /\ [CodecNext]_codecVars => CodecInv'
<1> SUFFICES ASSUME CodecInv, [CodecNext]_codecVars PROVE CodecInv'
  OBVIOUS
<1>0. message \in Seq(Byte) /\ bufCap \in Nat
  BY DEF CodecInv
<1>1. CASE ReadHeader
  <2>1. CASE HeaderOK(message)
    BY <1>1, <2>1 DEF ReadHeader, CodecInv
  <2>2. CASE ~ HeaderOK(message)
    <3>1. Decode(message) = NoFrame
      BY <2>2 DEF Decode
    <3> QED BY <1>1, <2>2, <3>1 DEF ReadHeader, CodecInv
  <2> QED BY <2>1, <2>2
<1>2. CASE ReadPayload
  <2>1. HeaderOK(message) /\ head = DecodeHeader(message) /\ rpos = "payload" /\ outcome = NoFrame
    BY <1>2 DEF ReadPayload, CodecInv
  <2>2. PICK n \in Nat, k \in Nat, s \in Nat :
          /\ n = Len(message) /\ k = head.length /\ s = HeaderSize
          /\ n >= s /\ k <= MaxPayload /\ MaxPayload \in Nat
    BY <1>0, <2>1, HeaderOKType
  <2>3. /\ bufCap' = (IF bufCap < k THEN k ELSE bufCap)
        /\ rpos' = (IF n - s < k THEN "done" ELSE "probe")
        /\ message' = message /\ written' = written /\ head' = head /\ outcome' = NoFrame
    BY <1>2, <2>1, <2>2 DEF ReadPayload
  <2>4. bufCap' \in Nat /\ (bufCap' <= MaxPayload \/ bufCap' \in BufCaps)
    BY <2>2, <2>3 DEF CodecInv
  <2>5. CASE n - s < k
    <3>1. Len(message) # HeaderSize + DecodeHeader(message).length
      BY <2>1, <2>2, <2>5
    <3>2. Decode(message) = NoFrame
      BY <3>1 DEF Decode
    <3> QED BY <2>3, <2>4, <2>5, <3>2 DEF CodecInv
  <2>6. CASE ~ (n - s < k)
    <3>1. Len(message) >= HeaderSize + head.length
      BY <2>2, <2>6
    <3> QED BY <2>1, <2>3, <2>4, <2>6, <3>1 DEF CodecInv
  <2> QED BY <2>5, <2>6
<1>3. CASE ReadProbe
  <2>1. HeaderOK(message) /\ head = DecodeHeader(message) /\ rpos = "probe"
    BY <1>3 DEF ReadProbe, CodecInv
  <2>2. PICK n \in Nat, k \in Nat, s \in Nat :
          n = Len(message) /\ k = head.length /\ s = HeaderSize /\ n >= s + k
    BY <1>0, <2>1, HeaderOKType DEF CodecInv
  <2>3. outcome' = Decode(message)
    <3>1. CASE n > s + k
      <4>1. Decode(message) = NoFrame
        BY <2>1, <2>2, <3>1 DEF Decode
      <4> QED BY <1>3, <2>2, <3>1, <4>1 DEF ReadProbe
    <3>2. CASE n = s + k
      <4>1. Decode(message) =
              FrameOf(head, SubSeq(message, HeaderSize + 1, HeaderSize + head.length))
        BY <2>1, <2>2, <3>2 DEF Decode
      <4> QED BY <1>3, <2>2, <3>2, <4>1 DEF ReadProbe
    <3> QED BY <2>2, <3>1, <3>2
  <2> QED BY <1>3, <2>3 DEF ReadProbe, CodecInv
<1>4. CASE UNCHANGED codecVars
  BY <1>4 DEF codecVars, CodecInv
<1> QED BY <1>1, <1>2, <1>3, <1>4 DEF CodecNext

(* For every base, every width of the fields and every frame that fits     *)
(* them: reading a message piece by piece accepts what decoding it whole   *)
(* accepts, and an intact message gives the frame it was written as        *)
(* (wsconn.go, ReadFrameInto).                                             *)
THEOREM CodecReadersAgree == CodecSpec => []ReadersAgree
<1>1. CodecInv => ReadersAgree
  <2> SUFFICES ASSUME CodecInv, rpos = "done" PROVE ReadersAgree
    BY DEF ReadersAgree
  <2>1. outcome = Decode(message) /\ (bufCap <= MaxPayload \/ bufCap \in BufCaps)
    BY DEF CodecInv
  <2>2. written # NoFrame => Decode(message) = written
    BY DecodeEncode DEF CodecInv
  <2> QED BY <2>1, <2>2 DEF ReadersAgree
<1> QED BY <1>1, CodecInitInv, CodecStep, PTL DEF CodecSpec
-----------------------------------------------------------------------------
(* The histogram.  The least of a set, and the bucket of a value.          *)
LEMMA MinIs ==
  ASSUME NEW S \in SUBSET Nat, S # {}
  PROVE  Min(S) \in S /\ \A x \in S : Min(S) <= x
BY LeastNat DEF Min

LEMMA BoundsTypes ==
  /\ Inf \in Nat /\ Inf > 1 /\ Buckets = 1 .. Inf /\ Len(Bounds) = Inf - 1
  /\ \A b \in 1 .. Inf - 1 : Bounds[b] \in Nat \ {0}
  /\ \A b \in 2 .. Inf - 1 : Bounds[b - 1] < Bounds[b]
<1>1. Bounds \in Seq(Nat \ {0}) /\ Bounds # << >>
  BY HistogramAssumption
<1>2. PICK n \in Nat : n = Len(Bounds) /\ n # 0
  BY <1>1
<1>3. Inf = n + 1 /\ Buckets = 1 .. Inf
  BY <1>2 DEF Inf, Buckets
<1>4. \A b \in 1 .. n : Bounds[b] \in Nat \ {0}
  BY <1>1, <1>2
<1>5. \A b \in 2 .. n : Bounds[b - 1] < Bounds[b]
  <2>1. \A i \in 1 .. n - 1 : Bounds[i] < Bounds[i + 1]
    BY <1>2, HistogramAssumption
  <2>2. ASSUME NEW b \in 2 .. n PROVE Bounds[b - 1] < Bounds[b]
    <3>1. b - 1 \in 1 .. n - 1 /\ (b - 1) + 1 = b
      BY <1>2
    <3> QED BY <2>1, <3>1
  <2> QED BY <2>2
<1> QED BY <1>2, <1>3, <1>4, <1>5

LEMMA SearchIs ==
  ASSUME NEW v \in Nat
  PROVE  /\ Search(v) \in Buckets
         /\ Search(v) # Inf => v <= Bounds[Search(v)]
         /\ Search(v) # 1 => v > Lower(Search(v))
         /\ \A w \in Nat : w <= v => Search(w) <= Search(v)
<1> DEFINE S(w) == {i \in 1 .. Len(Bounds) : w <= Bounds[i]} \cup {Inf}
<1>1. ASSUME NEW w \in Nat PROVE Search(w) \in S(w) /\ \A x \in S(w) : Search(w) <= x
  <2>1. S(w) \in SUBSET Nat /\ S(w) # {}
    BY BoundsTypes
  <2>2. Search(w) = Min(S(w))
    BY DEF Search
  <2> HIDE DEF S
  <2> QED BY <2>1, <2>2, MinIs
<1>2. S(v) = {i \in 1 .. Inf - 1 : v <= Bounds[i]} \cup {Inf}
  BY BoundsTypes
<1>3. Search(v) \in Buckets
  BY <1>1, <1>2, BoundsTypes
<1>4. Search(v) # Inf => v <= Bounds[Search(v)]
  BY <1>1, <1>2
<1>5. ASSUME Search(v) # 1 PROVE v > Lower(Search(v))
  <2>1. Search(v) - 1 \in 1 .. Inf - 1 /\ Search(v) \in Nat
    BY <1>3, <1>5, BoundsTypes
  <2>2. Search(v) - 1 \notin S(v)
    BY <1>1, <2>1
  <2>3. ~ (v <= Bounds[Search(v) - 1])
    BY <1>2, <2>1, <2>2
  <2>4. Bounds[Search(v) - 1] \in Nat
    BY <2>1, BoundsTypes
  <2> QED BY <1>5, <2>3, <2>4 DEF Lower
<1>6. ASSUME NEW w \in Nat, w <= v PROVE Search(w) <= Search(v)
  <2>1. S(v) \subseteq S(w)
    <3>1. \A i \in 1 .. Inf - 1 : v <= Bounds[i] => w <= Bounds[i]
      BY <1>6, BoundsTypes
    <3> QED BY <3>1, BoundsTypes
  <2> HIDE DEF S
  <2> QED BY <1>1, <2>1
<1> QED BY <1>3, <1>4, <1>5, <1>6

(* How many values of a sequence are in a bucket, and in none above it.    *)
InBucket(s, b) == {i \in DOMAIN s : Search(s[i]) = b}
UpToBucket(s, b) == {i \in DOMAIN s : Search(s[i]) <= b}

LEMMA IndicesFinite ==
  ASSUME NEW s \in Seq(Nat)
  PROVE  /\ IsFiniteSet(DOMAIN s) /\ Cardinality(DOMAIN s) = Len(s)
         /\ \A S \in SUBSET DOMAIN s :
              IsFiniteSet(S) /\ Cardinality(S) \in Nat /\ Cardinality(S) <= Len(s)
<1>1. Len(s) \in Nat /\ DOMAIN s = 1 .. Len(s)
  OBVIOUS
<1>2. IsFiniteSet(DOMAIN s) /\ Cardinality(DOMAIN s) = Len(s)
  <2>1. \A n \in Nat : IsFiniteSet(1 .. n) /\ Cardinality(1 .. n) = n
    BY FS_Interval
  <2> QED BY <1>1, <2>1
<1>3. ASSUME NEW S \in SUBSET DOMAIN s
      PROVE  IsFiniteSet(S) /\ Cardinality(S) \in Nat /\ Cardinality(S) <= Len(s)
  BY <1>2, FS_Subset, FS_CardinalityType
<1> QED BY <1>2, <1>3

LEMMA BucketGrows ==
  ASSUME NEW s \in Seq(Nat), NEW v \in Nat, NEW b
  PROVE  Cardinality(InBucket(Append(s, v), b))
           = Cardinality(InBucket(s, b)) + (IF Search(v) = b THEN 1 ELSE 0)
<1> DEFINE t == Append(s, v)
<1>1. PICK n \in Nat : n = Len(s) /\ DOMAIN s = 1 .. n /\ DOMAIN t = 1 .. n + 1
  OBVIOUS
<1>2. t[n + 1] = v /\ \A i \in 1 .. n : t[i] = s[i]
  BY <1>1
<1> HIDE DEF t
<1>3. InBucket(t, b) = IF Search(v) = b THEN InBucket(s, b) \cup {n + 1} ELSE InBucket(s, b)
  BY <1>1, <1>2 DEF InBucket
<1>4. /\ IsFiniteSet(InBucket(s, b)) /\ Cardinality(InBucket(s, b)) \in Nat
      /\ n + 1 \notin InBucket(s, b)
  BY <1>1, IndicesFinite DEF InBucket
<1>5. Cardinality(InBucket(s, b) \cup {n + 1}) = Cardinality(InBucket(s, b)) + 1
  BY <1>4, FS_AddElement
<1> QED BY <1>3, <1>4, <1>5 DEF t

LEMMA UpToGrows ==
  ASSUME NEW s \in Seq(Nat), NEW b \in Buckets
  PROVE  /\ Cardinality(UpToBucket(s, b))
              = Cardinality(UpToBucket(s, b - 1)) + Cardinality(InBucket(s, b))
         /\ Cardinality(UpToBucket(s, 0)) = 0
         /\ UpToBucket(s, Inf) = DOMAIN s
<1>1. \A i \in DOMAIN s : s[i] \in Nat
  OBVIOUS
<1>2. \A i \in DOMAIN s : Search(s[i]) \in 1 .. Inf
  BY <1>1, SearchIs, BoundsTypes
<1>3. b \in 1 .. Inf /\ Inf \in Nat
  BY BoundsTypes
<1>4. UpToBucket(s, b) = UpToBucket(s, b - 1) \cup InBucket(s, b)
  BY <1>2, <1>3 DEF UpToBucket, InBucket
<1>5. UpToBucket(s, b - 1) \cap InBucket(s, b) = {}
  BY <1>2, <1>3 DEF UpToBucket, InBucket
<1>6. UpToBucket(s, 0) = {} /\ UpToBucket(s, Inf) = DOMAIN s
  <2>1. \A i \in DOMAIN s : ~ (Search(s[i]) <= 0) /\ Search(s[i]) <= Inf
    BY <1>2, <1>3
  <2>2. UpToBucket(s, 0) = {}
    BY <2>1 DEF UpToBucket
  <2>3. UpToBucket(s, Inf) = DOMAIN s
    BY <2>1 DEF UpToBucket
  <2> QED BY <2>2, <2>3
<1>7. IsFiniteSet(UpToBucket(s, b - 1)) /\ IsFiniteSet(InBucket(s, b))
  BY IndicesFinite DEF UpToBucket, InBucket
<1>8. Cardinality(UpToBucket(s, b))
        = Cardinality(UpToBucket(s, b - 1)) + Cardinality(InBucket(s, b))
  <2> DEFINE S == UpToBucket(s, b - 1)  T == InBucket(s, b)
  <2>1. IsFiniteSet(S) /\ IsFiniteSet(T) /\ S \cap T = {}
    BY <1>5, <1>7
  <2> HIDE DEF S, T
  <2>2. Cardinality(S \cup T) = Cardinality(S) + Cardinality(T) - Cardinality(S \cap T)
    BY <2>1, FS_Union
  <2>3. Cardinality(S \cup T) = Cardinality(S) + Cardinality(T)
    <3>1. Cardinality(S \cap T) = 0
      BY <2>1, FS_EmptySet
    <3>2. Cardinality(S) \in Nat /\ Cardinality(T) \in Nat
      BY <2>1, FS_CardinalityType
    <3> QED BY <2>2, <3>1, <3>2
  <2> QED BY <1>4, <2>3 DEF S, T
<1> QED BY <1>6, <1>8, FS_EmptySet

(* What a cumulative count grows by in a bucket.                           *)
Gain(snap, b) == snap[b] - (IF b = 1 THEN 0 ELSE snap[b - 1])

HistTypes ==
  /\ counts \in [Buckets -> Nat] /\ observed \in Nat /\ window \in Seq(Nat)
  /\ scraper \in {"first", "between", "second", "done"}
  /\ nextRead \in Buckets /\ (scraper \in {"between", "done"} => nextRead = 1)
  /\ snap0 \in Seq(Int) /\ snap1 \in Seq(Int) /\ quantile \in Quantiles
  /\ Len(snap0) = IF scraper = "first" THEN nextRead - 1 ELSE Inf
  /\ Len(snap1) = IF scraper \in {"first", "between"} THEN 0
                  ELSE IF scraper = "second" THEN nextRead - 1 ELSE Inf

(* Bucket by bucket: before the first reading of it nothing of it is in    *)
(* the window; between the two, what the count has grown by; after the     *)
(* second, what the two readings differ by.                                *)
WindowHolds(b) ==
  LET n == Cardinality(InBucket(window, b))
  IN  /\ b > Len(snap0) => n = 0
      /\ b <= Len(snap0) /\ b > Len(snap1) => counts[b] = Gain(snap0, b) + n
      /\ b <= Len(snap1) => Gain(snap1, b) = Gain(snap0, b) + n

HistInv == HistTypes /\ \A b \in Buckets : WindowHolds(b)

LEMMA GainType ==
  ASSUME NEW s \in Seq(Int), NEW b \in Nat \ {0}, b <= Len(s)
  PROVE  Gain(s, b) \in Int
<1>1. s[b] \in Int
  OBVIOUS
<1>2. b # 1 => s[b - 1] \in Int
  <2> SUFFICES ASSUME b # 1 PROVE s[b - 1] \in Int
    OBVIOUS
  <2>1. b - 1 \in 1 .. Len(s)
    OBVIOUS
  <2> QED BY <2>1
<1> QED BY <1>1, <1>2 DEF Gain

(* A reading adds the count of the next bucket to the cumulative ones.     *)
LEMMA GainNext ==
  ASSUME NEW s \in Seq(Int), NEW k \in Nat, k = Len(s), NEW c \in Int,
         NEW t \in Seq(Int), Len(t) = k + 1, \A b \in 1 .. k : t[b] = s[b],
         k = 0 => t[k + 1] = c, k # 0 => t[k + 1] = s[k] + c
  PROVE  Gain(t, k + 1) = c
<1>1. CASE k = 0
  BY <1>1 DEF Gain
<1>2. CASE k # 0
  <2>1. t[k] = s[k] /\ s[k] \in Int /\ (k + 1) - 1 = k /\ k + 1 # 1
    BY <1>2
  <2> QED BY <1>2, <2>1 DEF Gain
<1> QED BY <1>1, <1>2

LEMMA GainKept ==
  ASSUME NEW s, NEW t, NEW k \in Nat, \A b \in 1 .. k : t[b] = s[b], NEW b \in 1 .. k
  PROVE  Gain(t, b) = Gain(s, b)
<1>1. t[b] = s[b]
  OBVIOUS
<1>2. CASE b = 1
  BY <1>1, <1>2 DEF Gain
<1>3. CASE b # 1
  <2>1. b - 1 \in 1 .. k
    BY <1>3
  <2>2. t[b - 1] = s[b - 1]
    BY <2>1
  <2> QED BY <1>1, <1>3, <2>2 DEF Gain
<1> QED BY <1>2, <1>3

LEMMA CumulativeIs ==
  ASSUME NEW s \in Seq(Int), NEW k \in Nat, k = Len(s), NEW c \in Int,
         NEW t, t = Append(s, (IF s = << >> THEN 0 ELSE Last(s)) + c)
  PROVE  /\ t \in Seq(Int) /\ Len(t) = k + 1 /\ \A b \in 1 .. k : t[b] = s[b]
         /\ k = 0 => t[k + 1] = c
         /\ k # 0 => t[k + 1] = s[k] + c
<1>1. PICK x : x = (IF s = << >> THEN 0 ELSE Last(s)) + c
  OBVIOUS
<1>2. (s = << >> <=> k = 0) /\ (k # 0 => Last(s) = s[k] /\ s[k] \in Int)
  BY DEF Last
<1>3. x \in Int /\ (k = 0 => x = c) /\ (k # 0 => x = s[k] + c)
  BY <1>1, <1>2
<1>4. t = Append(s, x)
  BY <1>1
<1>5. t \in Seq(Int) /\ Len(t) = k + 1 /\ t[k + 1] = x /\ \A b \in 1 .. k : t[b] = s[b]
  BY <1>3, <1>4
<1> QED BY <1>3, <1>5

(* The bucket read last adds its own.                                      *)
LEMMA LastGain ==
  ASSUME NEW s \in Seq(Int), NEW c \in Int,
         NEW t, t = Append(s, (IF s = << >> THEN 0 ELSE Last(s)) + c)
  PROVE  Gain(t, Len(s) + 1) = c
<1>1. PICK k \in Nat : k = Len(s)
  OBVIOUS
<1>2. /\ t \in Seq(Int) /\ Len(t) = k + 1 /\ \A b \in 1 .. k : t[b] = s[b]
      /\ k = 0 => t[k + 1] = c
      /\ k # 0 => t[k + 1] = s[k] + c
  BY <1>1, CumulativeIs
<1>3. Gain(t, k + 1) = c
  <2>1. CASE k = 0
    BY ONLY <1>2, <2>1 DEF Gain
  <2>2. CASE k # 0
    <3>1. t[k] = s[k] /\ s[k] \in Int /\ (k + 1) - 1 = k /\ k + 1 # 1
      BY ONLY <1>1, <1>2, <2>2, k \in Nat, s \in Seq(Int)
    <3> QED BY ONLY <1>2, <2>2, <3>1, c \in Int DEF Gain
  <2> QED BY <2>1, <2>2
<1> QED BY <1>1, <1>3

(* The buckets read before it keep theirs.                                 *)
LEMMA LastKeeps ==
  ASSUME NEW s \in Seq(Int), NEW c \in Int,
         NEW t, t = Append(s, (IF s = << >> THEN 0 ELSE Last(s)) + c)
  PROVE  t \in Seq(Int) /\ Len(t) = Len(s) + 1 /\ \A b \in 1 .. Len(s) : t[b] = s[b]
<1>1. PICK k \in Nat : k = Len(s)
  OBVIOUS
<1>2. t \in Seq(Int) /\ Len(t) = k + 1 /\ \A b \in 1 .. k : t[b] = s[b]
  BY <1>1, CumulativeIs
<1> QED BY <1>1, <1>2

LEMMA HistInitInv == HistInit => HistInv
<1> SUFFICES ASSUME HistInit PROVE HistInv
  OBVIOUS
<1>1. Len(snap0) = 0 /\ Len(snap1) = 0 /\ window = << >> /\ DOMAIN window = {}
  BY DEF HistInit
<1>2. HistTypes
  BY <1>1, BoundsTypes DEF HistInit, HistTypes
<1>3. ASSUME NEW b \in Buckets PROVE WindowHolds(b)
  <2>1. InBucket(window, b) = {}
    BY <1>1 DEF InBucket
  <2>2. Cardinality(InBucket(window, b)) = 0
    BY <2>1, FS_EmptySet
  <2>3. b \in Nat /\ b > 0
    BY BoundsTypes
  <2> QED BY <1>1, <2>2, <2>3 DEF WindowHolds
<1> QED BY <1>2, <1>3 DEF HistInv

LEMMA ObserveInv == ASSUME HistInv, NEW v \in Values, Observe(v) PROVE HistInv'
<1>0. v \in Nat /\ window \in Seq(Nat)
  BY HistogramAssumption DEF HistInv, HistTypes
<1> DEFINE u == Search(v)
           inFirst == u <= Len(snap0)
           inSecond == u <= Len(snap1)
<1>1. u \in Buckets /\ Buckets = 1 .. Inf /\ Inf \in Nat
  BY <1>0, SearchIs, BoundsTypes
<1>2. /\ observed' = observed + 1 /\ counts' = [counts EXCEPT ![u] = @ + 1]
      /\ window' = IF inFirst /\ ~inSecond THEN Append(window, v) ELSE window
      /\ scraper' = scraper /\ nextRead' = nextRead /\ snap0' = snap0 /\ snap1' = snap1
      /\ quantile' = quantile
  <2>1. /\ scraper \in {"first", "between", "second", "done"} /\ nextRead \in 1 .. Inf
        /\ Len(snap0) = IF scraper = "first" THEN nextRead - 1 ELSE Inf
        /\ Len(snap1) = IF scraper \in {"first", "between"} THEN 0
                        ELSE IF scraper = "second" THEN nextRead - 1 ELSE Inf
    BY <1>1 DEF HistInv, HistTypes
  <2>2. inFirst <=> (scraper # "first" \/ u < nextRead)
    BY ONLY <1>1, <2>1
  <2>3. inSecond <=> (scraper = "done" \/ (scraper = "second" /\ u < nextRead))
    BY ONLY <1>1, <2>1
  <2> HIDE DEF inFirst, inSecond
  <2> QED BY <2>2, <2>3 DEF Observe
<1> HIDE DEF u
<1>3. HistTypes'
  <2>1. counts' \in [Buckets -> Nat] /\ observed' \in Nat
    <3>1. counts \in [Buckets -> Nat] /\ observed \in Nat
      BY DEF HistInv, HistTypes
    <3> QED BY ONLY <1>1, <1>2, <3>1
  <2>2. window' \in Seq(Nat)
    BY <1>0, <1>2
  <2> QED BY <1>2, <2>1, <2>2 DEF HistInv, HistTypes
<1>4. ASSUME NEW b \in Buckets PROVE WindowHolds(b)'
  <2> DEFINE n == Cardinality(InBucket(window, b))  n1 == Cardinality(InBucket(window', b))
  <2>1. n1 = n + (IF inFirst /\ ~inSecond /\ u = b THEN 1 ELSE 0)
    <3>1. n \in Nat
      BY <1>0, IndicesFinite DEF InBucket
    <3>2. Cardinality(InBucket(Append(window, v), b)) = n + (IF u = b THEN 1 ELSE 0)
      BY <1>0, BucketGrows DEF u
    <3> HIDE DEF inFirst, inSecond
    <3>3. CASE inFirst /\ ~inSecond
      BY <1>2, <3>2, <3>3
    <3>4. CASE ~ (inFirst /\ ~inSecond)
      BY <1>2, <3>1, <3>4
    <3> QED BY <3>3, <3>4
  <2>2. counts'[b] = counts[b] + (IF u = b THEN 1 ELSE 0) /\ counts[b] \in Nat
    BY <1>2 DEF HistInv, HistTypes
  <2>3. n \in Nat /\ b \in Nat \ {0}
    BY <1>0, <1>1, IndicesFinite DEF InBucket
  <2>4. PICK k0 \in Nat, k1 \in Nat : k0 = Len(snap0) /\ k1 = Len(snap1)
    BY DEF HistInv, HistTypes
  <2>5. b <= k0 => Gain(snap0, b) \in Int
    BY <2>3, <2>4, GainType DEF HistInv, HistTypes
  <2>6. b <= k1 => Gain(snap1, b) \in Int
    BY <2>3, <2>4, GainType DEF HistInv, HistTypes
  <2>7. /\ b > k0 => n = 0
        /\ b <= k0 /\ b > k1 => counts[b] = Gain(snap0, b) + n
        /\ b <= k1 => Gain(snap1, b) = Gain(snap0, b) + n
    BY <2>4 DEF HistInv, WindowHolds
  <2>8. k1 <= k0
    BY <1>1, <2>4 DEF HistInv, HistTypes
  <2>9. Gain(snap0, b)' = Gain(snap0, b) /\ Gain(snap1, b)' = Gain(snap1, b)
    BY <1>2 DEF Gain
  <2> HIDE DEF n, n1
  <2>10. /\ b > k0 => n1 = 0
         /\ b <= k0 /\ b > k1 => counts'[b] = Gain(snap0, b) + n1
         /\ b <= k1 => Gain(snap1, b) = Gain(snap0, b) + n1
    <3>1. CASE u = b
      BY <2>1, <2>2, <2>3, <2>4, <2>5, <2>6, <2>7, <2>8, <3>1
    <3>2. CASE u # b
      BY <2>1, <2>2, <2>3, <2>4, <2>5, <2>6, <2>7, <2>8, <3>2
    <3> QED BY <3>1, <3>2
  <2> QED BY <1>2, <2>4, <2>9, <2>10 DEF WindowHolds, n1
<1>5. Buckets' = Buckets
  BY DEF Buckets
<1> QED BY <1>3, <1>4, <1>5 DEF HistInv

LEMMA ReadBucketInv == ASSUME HistInv, ReadBucket PROVE HistInv'
<1>0. /\ window \in Seq(Nat) /\ snap0 \in Seq(Int) /\ snap1 \in Seq(Int)
      /\ nextRead \in 1 .. Inf /\ Inf \in Nat /\ Buckets = 1 .. Inf /\ counts \in [Buckets -> Nat]
  BY BoundsTypes DEF HistInv, HistTypes
<1>1. /\ counts' = counts /\ observed' = observed /\ quantile' = quantile /\ window' = window
      /\ nextRead' = IF nextRead = Inf THEN 1 ELSE nextRead + 1
      /\ scraper' = IF nextRead # Inf THEN scraper
                    ELSE IF scraper = "first" THEN "between" ELSE "done"
  BY DEF ReadBucket
<1>2. PICK k0 \in Nat, k1 \in Nat : k0 = Len(snap0) /\ k1 = Len(snap1)
  BY <1>0
<1>3. ASSUME NEW b \in Buckets
      PROVE  LET n == Cardinality(InBucket(window, b))
             IN  /\ n \in Nat
                 /\ b > k0 => n = 0
                 /\ b <= k0 /\ b > k1 => counts[b] = Gain(snap0, b) + n
                 /\ b <= k1 => Gain(snap1, b) = Gain(snap0, b) + n
  <2>1. Cardinality(InBucket(window, b)) \in Nat
    BY <1>0, IndicesFinite DEF InBucket
  <2> QED BY <1>2, <2>1 DEF HistInv, WindowHolds
<1>4. counts[nextRead] \in Int
  BY <1>0
<1>5. CASE scraper = "first"
  <2>1. /\ snap0' = Append(snap0, (IF snap0 = << >> THEN 0 ELSE Last(snap0)) + counts[nextRead])
        /\ snap1' = snap1
    BY <1>5 DEF ReadBucket, Cumulative
  <2>2. k0 = nextRead - 1 /\ k1 = 0
    BY <1>2, <1>5 DEF HistInv, HistTypes
  <2>3. /\ snap0' \in Seq(Int) /\ Len(snap0') = k0 + 1
        /\ \A b \in 1 .. k0 : Gain(snap0', b) = Gain(snap0, b)
        /\ Gain(snap0', k0 + 1) = counts[nextRead]
    <3>1. PICK s \in Seq(Int), c \in Int : s = snap0 /\ c = counts[nextRead] /\ k0 = Len(s)
      BY <1>0, <1>2, <1>4
    <3>2. PICK t : t = snap0' /\ t = Append(s, (IF s = << >> THEN 0 ELSE Last(s)) + c)
      BY <2>1, <3>1
    <3>3. t \in Seq(Int) /\ Len(t) = k0 + 1 /\ \A b \in 1 .. k0 : t[b] = s[b]
      <4>1. t = Append(s, (IF s = << >> THEN 0 ELSE Last(s)) + c)
        BY <3>2
      <4>2. t \in Seq(Int) /\ Len(t) = Len(s) + 1 /\ \A b \in 1 .. Len(s) : t[b] = s[b]
        BY ONLY <4>1, LastKeeps, s \in Seq(Int), c \in Int
      <4> QED BY <3>1, <4>2
    <3>4. \A b \in 1 .. k0 : Gain(t, b) = Gain(s, b)
      BY <3>3, GainKept
    <3>5. Gain(t, k0 + 1) = c
      <4>1. t = Append(s, (IF s = << >> THEN 0 ELSE Last(s)) + c)
        BY <3>2
      <4>2. Gain(t, Len(s) + 1) = c
        BY ONLY <4>1, LastGain, s \in Seq(Int), c \in Int
      <4> QED BY <3>1, <4>2
    <3> QED BY <3>1, <3>2, <3>3, <3>4, <3>5
  <2>4. HistTypes'
    <3>1. scraper' \in {"first", "between"} /\ nextRead' \in 1 .. Inf
      BY <1>0, <1>1, <1>5
    <3>2. Len(snap0)' = IF scraper' = "first" THEN nextRead' - 1 ELSE Inf
      BY <1>0, <1>1, <1>5, <2>2, <2>3
    <3>3. Len(snap1)' = 0
      BY <1>2, <2>1, <2>2
    <3>4. scraper' = "between" => nextRead' = 1
      BY <1>0, <1>1, <1>5
    <3> QED BY <1>0, <1>1, <2>1, <2>3, <3>1, <3>2, <3>3, <3>4 DEF HistInv, HistTypes
  <2>5. ASSUME NEW b \in Buckets PROVE WindowHolds(b)'
    <3> DEFINE n == Cardinality(InBucket(window, b))
    <3>1. b \in Nat \ {0} /\ counts[b] \in Nat
      BY <1>0
    <3>2. /\ n \in Nat /\ (b > k0 => n = 0)
          /\ b <= k0 /\ b > k1 => counts[b] = Gain(snap0, b) + n
      BY <1>3
    <3> HIDE DEF n
    <3>3. b > k0 + 1 => n = 0
      BY <3>1, <3>2
    <3>4. b <= k0 + 1 => counts[b] = Gain(snap0', b) + n
      <4>1. CASE b <= k0
        <5>1. b \in 1 .. k0
          BY <3>1, <4>1
        <5> QED BY <2>2, <2>3, <3>1, <3>2, <4>1, <5>1
      <4>2. CASE b = k0 + 1
        <5>1. b = nextRead /\ n = 0
          BY <2>2, <3>1, <3>2, <4>2, <1>0
        <5> QED BY <2>3, <3>1, <4>2, <5>1
      <4> QED BY <3>1, <4>1, <4>2
    <3>5. /\ Gain(snap0, b)' = Gain(snap0', b) /\ counts' = counts
          /\ n = Cardinality(InBucket(window, b))'
      BY <1>1 DEF Gain, n, InBucket
    <3>6. Len(snap0)' = k0 + 1 /\ Len(snap1)' = 0
      BY <1>2, <2>1, <2>2, <2>3
    <3> QED BY <3>1, <3>3, <3>4, <3>5, <3>6 DEF WindowHolds
  <2> QED BY <2>4, <2>5 DEF HistInv, Buckets
<1>6. CASE scraper = "second"
  <2>1. /\ snap1' = Append(snap1, (IF snap1 = << >> THEN 0 ELSE Last(snap1)) + counts[nextRead])
        /\ snap0' = snap0
    BY <1>6 DEF ReadBucket, Cumulative
  <2>2. k0 = Inf /\ k1 = nextRead - 1
    BY <1>2, <1>6 DEF HistInv, HistTypes
  <2>3. /\ snap1' \in Seq(Int) /\ Len(snap1') = k1 + 1
        /\ \A b \in 1 .. k1 : Gain(snap1', b) = Gain(snap1, b)
        /\ Gain(snap1', k1 + 1) = counts[nextRead]
    <3>1. PICK s \in Seq(Int), c \in Int : s = snap1 /\ c = counts[nextRead] /\ k1 = Len(s)
      BY <1>0, <1>2, <1>4
    <3>2. PICK t : t = snap1' /\ t = Append(s, (IF s = << >> THEN 0 ELSE Last(s)) + c)
      BY <2>1, <3>1
    <3>3. t \in Seq(Int) /\ Len(t) = k1 + 1 /\ \A b \in 1 .. k1 : t[b] = s[b]
      <4>1. t = Append(s, (IF s = << >> THEN 0 ELSE Last(s)) + c)
        BY <3>2
      <4>2. t \in Seq(Int) /\ Len(t) = Len(s) + 1 /\ \A b \in 1 .. Len(s) : t[b] = s[b]
        BY ONLY <4>1, LastKeeps, s \in Seq(Int), c \in Int
      <4> QED BY <3>1, <4>2
    <3>4. \A b \in 1 .. k1 : Gain(t, b) = Gain(s, b)
      BY <3>3, GainKept
    <3>5. Gain(t, k1 + 1) = c
      <4>1. t = Append(s, (IF s = << >> THEN 0 ELSE Last(s)) + c)
        BY <3>2
      <4>2. Gain(t, Len(s) + 1) = c
        BY ONLY <4>1, LastGain, s \in Seq(Int), c \in Int
      <4> QED BY <3>1, <4>2
    <3> QED BY <3>1, <3>2, <3>3, <3>4, <3>5
  <2>4. HistTypes'
    <3>1. scraper' \in {"second", "done"} /\ nextRead' \in 1 .. Inf
      BY <1>0, <1>1, <1>6
    <3>2. Len(snap1)' = IF scraper' = "second" THEN nextRead' - 1 ELSE Inf
      BY <1>0, <1>1, <1>6, <2>2, <2>3
    <3>3. Len(snap0)' = Inf
      BY <1>2, <2>1, <2>2
    <3>4. scraper' = "done" => nextRead' = 1
      BY <1>0, <1>1, <1>6
    <3> QED BY <1>0, <1>1, <2>1, <2>3, <3>1, <3>2, <3>3, <3>4 DEF HistInv, HistTypes
  <2>5. ASSUME NEW b \in Buckets PROVE WindowHolds(b)'
    <3> DEFINE n == Cardinality(InBucket(window, b))
    <3>1. b \in Nat \ {0} /\ counts[b] \in Nat /\ b <= k0
      BY <1>0, <2>2
    <3>2. /\ n \in Nat /\ (b > k1 => counts[b] = Gain(snap0, b) + n)
          /\ b <= k1 => Gain(snap1, b) = Gain(snap0, b) + n
      BY <1>3, <3>1
    <3> HIDE DEF n
    <3>4. b <= k1 + 1 => Gain(snap1', b) = Gain(snap0, b) + n
      <4>1. CASE b <= k1
        <5>1. b \in 1 .. k1
          BY <3>1, <4>1
        <5> QED BY <2>3, <3>2, <4>1, <5>1
      <4>2. CASE b = k1 + 1
        <5>1. b = nextRead
          BY <1>0, <2>2, <4>2
        <5> QED BY <2>3, <3>2, <4>2, <5>1
      <4> QED BY <3>1, <4>1, <4>2
    <3>5. /\ Gain(snap0, b)' = Gain(snap0, b) /\ Gain(snap1, b)' = Gain(snap1', b)
          /\ counts' = counts /\ n = Cardinality(InBucket(window, b))'
      BY <1>1, <2>1 DEF Gain, n, InBucket
    <3>6. Len(snap0)' = k0 /\ Len(snap1)' = k1 + 1
      BY <1>2, <2>1, <2>3
    <3> QED BY <3>1, <3>2, <3>4, <3>5, <3>6 DEF WindowHolds
  <2> QED BY <2>4, <2>5 DEF HistInv, Buckets
<1> QED BY <1>5, <1>6 DEF ReadBucket

LEMMA HistStep == HistInv /\ [HistNext]_histVars => HistInv'
<1> SUFFICES ASSUME HistInv, [HistNext]_histVars PROVE HistInv'
  OBVIOUS
<1>1. CASE ScrapeAgain
  <2>1. HistTypes'
    BY <1>1 DEF ScrapeAgain, HistInv, HistTypes
  <2>2. ASSUME NEW b \in Buckets PROVE WindowHolds(b)'
    BY <1>1 DEF ScrapeAgain, HistInv, WindowHolds, Gain, InBucket
  <2> QED BY <2>1, <2>2 DEF HistInv, Buckets
<1>2. CASE UNCHANGED histVars
  <2>1. HistTypes'
    BY <1>2 DEF histVars, HistInv, HistTypes
  <2>2. ASSUME NEW b \in Buckets PROVE WindowHolds(b)'
    BY <1>2 DEF histVars, HistInv, WindowHolds, Gain, InBucket
  <2> QED BY <2>1, <2>2 DEF HistInv, Buckets
<1> QED BY <1>1, <1>2, ObserveInv, ReadBucketInv DEF HistNext
-----------------------------------------------------------------------------
(* The quantile.  A sequence of naturals has an upper bound, and for every *)
(* rank one value that is of that rank.                                    *)
LEMMA HasBound ==
  ASSUME NEW s \in Seq(Nat)
  PROVE  \E m \in Nat : \A i \in DOMAIN s : s[i] <= m
<1> DEFINE n == Len(s)
           Bounded(k) == \E m \in Nat : \A i \in 1 .. k : s[i] <= m
           T == {k \in Nat : k <= n => Bounded(k)}
<1>0. n \in Nat /\ DOMAIN s = 1 .. n /\ \A i \in 1 .. n : s[i] \in Nat
  OBVIOUS
<1> HIDE DEF n
<1>1. 0 \in T
  <2>1. \A i \in 1 .. 0 : s[i] <= 0
    OBVIOUS
  <2> QED BY <2>1
<1>2. ASSUME NEW k \in Nat, k \in T PROVE k + 1 \in T
  <2>1. CASE k + 1 <= n
    <3>1. PICK m \in Nat : \A i \in 1 .. k : s[i] <= m
      BY <1>0, <1>2, <2>1
    <3>2. s[k + 1] \in Nat
      BY <1>0, <2>1
    <3> DEFINE x == IF s[k + 1] > m THEN s[k + 1] ELSE m
    <3>3. x \in Nat /\ s[k + 1] <= x /\ m <= x
      BY <3>2
    <3> HIDE DEF x
    <3>4. \A i \in 1 .. k + 1 : s[i] <= x
      <4> SUFFICES ASSUME NEW i \in 1 .. k + 1 PROVE s[i] <= x
        OBVIOUS
      <4>1. CASE i = k + 1
        BY <3>3, <4>1
      <4>2. CASE i # k + 1
        <5>1. i \in 1 .. k /\ i \in 1 .. n
          BY <1>0, <2>1, <4>2
        <5> QED BY <1>0, <3>1, <3>3, <5>1
      <4> QED BY <4>1, <4>2
    <3>5. Bounded(k + 1)
      BY <3>3, <3>4
    <3> HIDE DEF Bounded
    <3> QED BY <3>5
  <2> QED BY <1>0, <2>1
<1> HIDE DEF T
<1>3. n \in T
  BY <1>0, <1>1, <1>2, NatSetInduction
<1> QED BY <1>0, <1>3 DEF T

LEMMA UpToType ==
  ASSUME window \in Seq(Nat), NEW x \in Int
  PROVE  /\ UpTo(x) \in Nat /\ UpTo(x) <= Len(window)
         /\ \A S \in SUBSET {i \in DOMAIN window : window[i] <= x} : Cardinality(S) <= UpTo(x)
<1> DEFINE U == {i \in DOMAIN window : window[i] <= x}
<1>1. IsFiniteSet(U) /\ Cardinality(U) \in Nat /\ Cardinality(U) <= Len(window)
  BY IndicesFinite
<1>2. \A S \in SUBSET U : Cardinality(S) <= Cardinality(U)
  <2> HIDE DEF U
  <2> QED BY <1>1, FS_Subset
<1> QED BY <1>1, <1>2 DEF UpTo

LEMMA OfRank ==
  ASSUME window \in Seq(Nat), NEW r \in 1 .. Len(window)
  PROVE  \E i \in DOMAIN window : UpTo(window[i] - 1) < r /\ r <= UpTo(window[i])
<1> DEFINE P == {x \in Nat : r <= UpTo(x)}
<1>0. \A i \in DOMAIN window : window[i] \in Nat
  OBVIOUS
<1>1. \A x \in Int : UpTo(x) \in Nat
  BY UpToType
<1>2. P # {}
  <2>1. PICK m \in Nat : \A i \in DOMAIN window : window[i] <= m
    BY HasBound
  <2>2. {i \in DOMAIN window : window[i] <= m} = DOMAIN window
    BY <2>1
  <2>3. UpTo(m) = Len(window)
    BY <2>2, IndicesFinite DEF UpTo
  <2>4. m \in P
    BY <2>3
  <2> QED BY <2>4
<1>3. PICK x \in Nat : x \in P /\ \A y \in P : x <= y
  <2>1. P \in SUBSET Nat
    OBVIOUS
  <2> HIDE DEF P
  <2> QED BY <1>2, <2>1, LeastNat
<1>4. PICK z \in Int : z = x - 1 /\ UpTo(z) \in Nat
  <2>1. \E z \in Int : z = x - 1
    OBVIOUS
  <2> QED BY <1>1, <2>1
<1>5. UpTo(x - 1) < r
  <2>1. CASE x = 0
    <3>1. \A i \in DOMAIN window : ~ (window[i] <= x - 1)
      BY <1>0, <2>1
    <3>2. {i \in DOMAIN window : window[i] <= x - 1} = {}
      BY <3>1
    <3>3. UpTo(x - 1) = 0
      BY <3>2, FS_EmptySet DEF UpTo
    <3> QED BY <3>3
  <2>2. CASE x # 0
    <3>1. x - 1 \in Nat /\ ~ (x <= x - 1)
      BY <2>2
    <3>2. x - 1 \notin P
      BY <1>3, <3>1
    <3>3. UpTo(x - 1) \in Nat
      BY <1>4
    <3> QED BY <3>1, <3>2, <3>3
  <2> QED BY <2>1, <2>2
<1>6. \E i \in DOMAIN window : window[i] = x
  <2> SUFFICES ASSUME \A i \in DOMAIN window : window[i] # x PROVE FALSE
    OBVIOUS
  <2>1. \A i \in DOMAIN window : window[i] <= x <=> window[i] <= x - 1
    BY <1>0
  <2>2. {i \in DOMAIN window : window[i] <= x} = {i \in DOMAIN window : window[i] <= x - 1}
    BY <2>1
  <2>3. UpTo(x) = UpTo(x - 1)
    BY <2>2 DEF UpTo
  <2>4. UpTo(x - 1) \in Nat /\ r \in Nat /\ r <= UpTo(x)
    BY <1>3, <1>4
  <2> QED BY <1>5, <2>3, <2>4
<1>7. r <= UpTo(x)
  BY <1>3
<1>8. PICK i \in DOMAIN window : window[i] = x
  BY <1>6
<1>9. UpTo(window[i] - 1) < r /\ r <= UpTo(window[i])
  BY <1>5, <1>7, <1>8
<1> QED BY <1>9

(* When both scrapes are done, the sums of the window's counts are the     *)
(* numbers of its values in the buckets so far.                            *)
LEMMA WindowCounted ==
  ASSUME HistInv, scraper = "done", NEW b \in Buckets
  PROVE  Delta(b) = Cardinality(InBucket(window, b))
<1>0. /\ Inf \in Nat /\ Inf > 1 /\ Buckets = 1 .. Inf /\ b \in Nat /\ b >= 1 /\ b <= Inf
      /\ Len(snap0) = Inf /\ Len(snap1) = Inf /\ snap0 \in Seq(Int) /\ snap1 \in Seq(Int)
      /\ window \in Seq(Nat)
  BY BoundsTypes DEF HistInv, HistTypes
<1>1. Gain(snap1, b) = Gain(snap0, b) + Cardinality(InBucket(window, b))
  BY <1>0 DEF HistInv, WindowHolds
<1>2. \A i \in 1 .. Inf : snap0[i] \in Int /\ snap1[i] \in Int
  BY <1>0
<1>3. Cardinality(InBucket(window, b)) \in Nat
  BY <1>0, IndicesFinite DEF InBucket
<1>4. CASE b = 1
  <2>1. /\ Delta(b) = snap1[b] - snap0[b] - 0
        /\ Gain(snap1, b) = snap1[b] - 0 /\ Gain(snap0, b) = snap0[b] - 0
    BY <1>4 DEF Delta, Cum, Gain
  <2> QED BY <1>0, <1>1, <1>2, <1>3, <2>1
<1>5. CASE b # 1
  <2>1. b - 1 \in 1 .. Inf /\ b \in 1 .. Inf
    BY <1>0, <1>5
  <2>2. /\ Delta(b) = (snap1[b] - snap0[b]) - (snap1[b - 1] - snap0[b - 1])
        /\ Gain(snap1, b) = snap1[b] - snap1[b - 1] /\ Gain(snap0, b) = snap0[b] - snap0[b - 1]
    BY <1>5 DEF Delta, Cum, Gain
  <2>3. snap1[b] \in Int /\ snap0[b] \in Int /\ snap1[b - 1] \in Int /\ snap0[b - 1] \in Int
    BY <1>2, <2>1
  <2> QED BY <1>1, <1>3, <2>2, <2>3
<1> QED BY <1>4, <1>5

LEMMA SumToIs ==
  ASSUME HistInv, scraper = "done", NEW b \in 0 .. Inf
  PROVE  SumTo[b] = Cardinality(UpToBucket(window, b))
<1> DEFINE c == [i \in Nat |-> IF i \in 1 .. Inf THEN Delta(i) ELSE 0]
           Adds(f) == f = [i \in 0 .. Inf |-> IF i = 0 THEN 0 ELSE f[i - 1] + Delta(i)]
<1>0. Inf \in Nat /\ Buckets = 1 .. Inf /\ window \in Seq(Nat)
  BY BoundsTypes DEF HistInv, HistTypes
<1>1. \A i \in 1 .. Inf : Delta(i) = Cardinality(InBucket(window, i)) /\ Delta(i) \in Int
  <2>1. \A i \in 1 .. Inf : Cardinality(InBucket(window, i)) \in Nat
    BY <1>0, IndicesFinite DEF InBucket
  <2> QED BY <1>0, <2>1, WindowCounted
<1>2. c \in [Nat -> Int] /\ \A i \in 1 .. Inf : c[i] = Delta(i)
  BY <1>1
<1> HIDE DEF c
<1>3. PICK f \in [0 .. Inf -> Int] : Runs(f, 0, 1, c, Inf)
  <2>1. 0 \in Int /\ 1 \in Int
    OBVIOUS
  <2> QED BY ONLY <1>0, <1>2, <2>1, RunsUpTo
<1>4. Adds(f)
  <2>1. ASSUME NEW i \in 0 .. Inf PROVE f[i] = IF i = 0 THEN 0 ELSE f[i - 1] + Delta(i)
    <3>1. CASE i = 0
      BY <1>3, <3>1 DEF Runs
    <3>2. CASE i # 0
      <4>1. i \in 1 .. Inf /\ i - 1 \in 0 .. Inf
        BY <1>0, <3>2
      <4>2. f[i] = f[i - 1] * 1 + c[i] /\ c[i] = Delta(i) /\ f[i - 1] \in Int
        BY <1>2, <1>3, <4>1 DEF Runs
      <4> QED BY <3>2, <4>2
    <3> QED BY <3>1, <3>2
  <2>2. f = [i \in 0 .. Inf |-> f[i]]
    OBVIOUS
  <2> QED BY <2>1, <2>2
<1>5. Adds(SumTo)
  BY <1>4 DEF SumTo
<1> DEFINE T == {i \in Nat : i <= Inf => SumTo[i] = Cardinality(UpToBucket(window, i))}
<1>6. 0 \in T
  <2>1. SumTo[0] = 0
    BY <1>0, <1>5
  <2>2. 1 \in Buckets
    BY BoundsTypes
  <2>3. Cardinality(UpToBucket(window, 0)) = 0
    BY <1>0, <2>2, UpToGrows
  <2> QED BY <2>1, <2>3
<1>7. ASSUME NEW i \in Nat, i \in T PROVE i + 1 \in T
  <2>1. CASE i + 1 <= Inf
    <3>1. i + 1 \in 1 .. Inf /\ i + 1 \in 0 .. Inf /\ (i + 1) - 1 = i /\ i + 1 # 0 /\ i <= Inf
      BY <1>0, <2>1
    <3>2. SumTo[i + 1] = SumTo[i] + Delta(i + 1)
      BY <1>5, <3>1
    <3>3. Cardinality(UpToBucket(window, i + 1))
            = Cardinality(UpToBucket(window, i)) + Cardinality(InBucket(window, i + 1))
      BY <1>0, <3>1, UpToGrows
    <3> QED BY <1>1, <1>7, <3>1, <3>2, <3>3
  <2> QED BY <2>1
<1> HIDE DEF T
<1>8. b \in T
  <2>1. b \in Nat
    BY <1>0
  <2> QED BY <1>6, <1>7, <2>1, NatSetInduction
<1> QED BY <1>0, <1>8 DEF T

(* The rank of the quantile: between one and the number of values, and a   *)
(* count reaches the target when it reaches the rank.                      *)
LEMMA RankIs ==
  ASSUME window \in Seq(Nat), quantile \in Quantiles, NEW n \in Nat, n = Len(window), n # 0
  PROVE  /\ Rank \in 1 .. n
         /\ \A k \in Nat : k * quantile[2] >= quantile[1] * n <=> Rank <= k
<1> DEFINE p == quantile[1]  q == quantile[2]  t == p * n
<1>1. q \in Nat \ {0} /\ p \in 1 .. q
  <2>1. quantile[1] \in Nat /\ quantile[2] \in Nat /\ 0 < quantile[1] /\ quantile[1] <= quantile[2]
    BY HistogramAssumption
  <2> QED BY <2>1
<1>2. Rank = (t + q - 1) \div q
  BY DEF Rank
<1> HIDE DEF p, q
<1>3. t \in Nat /\ t >= 1
  BY <1>1
<1>4. t <= q * n
  <2>1. n * p <= n * q
    BY <1>1, ProductMonotone
  <2> QED BY <1>1, <2>1
<1> HIDE DEF t
<1> DEFINE r == Rank  z == (t + q - 1) % q
<1>5. r \in Int /\ z \in 0 .. q - 1 /\ t + q - 1 = q * r + z
  <2>1. t + q - 1 \in Int
    BY <1>1, <1>3
  <2> QED BY <1>1, <1>2, <2>1, DivisionIs
<1> HIDE DEF r, z
<1>6. q * r >= t /\ q * (r - 1) < t
  <2>1. q * (r - 1) = q * r - q /\ q * r \in Int
    BY <1>1, <1>5
  <2> QED BY <1>1, <1>3, <1>5, <2>1
<1>7. ASSUME NEW k \in Nat PROVE k * q >= t <=> r <= k
  <2>1. k * q = q * k /\ q * k \in Int /\ q * r \in Int
    BY <1>1, <1>5
  <2>2. CASE r <= k
    <3>1. q * r <= q * k
      BY <1>1, <1>5, <2>2, ProductMonotone
    <3> QED BY <1>3, <1>6, <2>1, <2>2, <3>1
  <2>3. CASE ~ (r <= k)
    <3>1. k <= r - 1 /\ r - 1 \in Int
      BY <1>5, <2>3
    <3>2. q * k <= q * (r - 1) /\ q * (r - 1) \in Int
      BY <1>1, <3>1, ProductMonotone
    <3> QED BY <1>3, <1>6, <2>1, <2>3, <3>2
  <2> QED BY <2>2, <2>3
<1>8. r >= 1
  <2>1. ~ (0 * q >= t)
    BY <1>1, <1>3
  <2>2. ~ (r <= 0)
    BY <1>7, <2>1
  <2> QED BY <1>5, <2>2
<1>9. r <= n
  <2>1. n * q >= t
    BY <1>1, <1>3, <1>4
  <2> QED BY <1>7, <2>1
<1> QED BY <1>5, <1>7, <1>8, <1>9 DEF r, t, p, q

(* Interpolating in a bucket that holds the target stays in it.            *)
LEMMA Interpolates ==
  ASSUME NEW lo \in Nat, NEW hi \in Nat, lo < hi, NEW q \in Nat \ {0}, NEW d \in Nat,
         NEW x \in Int, 0 < x, x <= q * d
  PROVE  LET e1 == lo * q * d + (hi - lo) * x
         IN  lo * (q * d) < e1 /\ e1 <= hi * (q * d)
<1> DEFINE y == q * d  w == hi - lo
<1>1. y \in Nat /\ w \in Nat \ {0} /\ hi = lo + w
  OBVIOUS
<1>2. lo * q * d = lo * y
  OBVIOUS
<1> HIDE DEF y, w
<1>3. w * x <= w * y /\ w * x \in Int /\ w * y \in Int
  <2>1. x <= y
    BY DEF y
  <2> QED BY <1>1, <2>1, ProductMonotone
<1>4. w * x > 0
  <2>1. w * 1 <= w * x
    BY <1>1, ProductMonotone
  <2> QED BY <1>1, <1>3, <2>1
<1>5. hi * y = lo * y + w * y /\ lo * y \in Nat
  BY <1>1
<1>6. lo * y < lo * y + w * x /\ lo * y + w * x <= hi * y
  BY <1>3, <1>4, <1>5
<1> QED BY <1>2, <1>6 DEF y, w

LEMMA QuantileFound == ASSUME HistInv PROVE QuantileInBucket
<1> SUFFICES ASSUME scraper = "done" PROVE
      IF window = << >> THEN Estimate = <<-1, 1>>
      ELSE \E i \in DOMAIN window, b \in Buckets :
             LET v == window[i]
                 e == Estimate
             IN  /\ UpTo(v - 1) < Rank /\ Rank <= UpTo(v)
                 /\ v > Lower(b) \/ b = 1
                 /\ b # Inf => /\ v <= Bounds[b]
                               /\ Lower(b) * e[2] < e[1] /\ e[1] <= Bounds[b] * e[2]
                 /\ b = Inf => e = <<Lower(b), 1>>
  BY DEF QuantileInBucket
<1>0. window \in Seq(Nat) /\ quantile \in Quantiles /\ Inf \in Nat /\ Inf > 1 /\ Buckets = 1 .. Inf
  BY BoundsTypes DEF HistInv, HistTypes
<1> DEFINE U(b) == Cardinality(UpToBucket(window, b))
<1>1. \A b \in 0 .. Inf : SumTo[b] = U(b) /\ U(b) \in Nat
  <2>1. \A b \in 0 .. Inf : U(b) \in Nat
    BY <1>0, IndicesFinite DEF UpToBucket
  <2> QED BY <2>1, SumToIs
<1>2. PICK n \in Nat : n = Len(window) /\ (window = << >> <=> n = 0)
  BY <1>0
<1>3. Total = n
  <2>1. U(Inf) = n
    <3>1. UpToBucket(window, Inf) = DOMAIN window
      <4>1. 1 \in Buckets
        BY <1>0
      <4> QED BY <1>0, <4>1, UpToGrows
    <3> QED BY <1>0, <1>2, <3>1, IndicesFinite
  <2> HIDE DEF U
  <2> QED BY <1>0, <1>1, <2>1 DEF Total
<1>4. CASE n = 0
  <2>1. Estimate = <<-1, 1>>
    BY <1>3, <1>4 DEF Estimate
  <2> QED BY <1>2, <1>4, <2>1
<1>5. CASE n # 0
  <2> DEFINE B == {b \in Buckets : SumTo[b] * quantile[2] >= quantile[1] * Total}
             b == TargetBucket
             r == Rank
  <2>1. r \in 1 .. n /\ \A k \in Nat : k * quantile[2] >= quantile[1] * n <=> r <= k
    BY <1>0, <1>2, <1>5, RankIs
  <2> HIDE DEF U, r
  <2>2. B = {k \in Buckets : r <= U(k)}
    <3>1. \A k \in Buckets : SumTo[k] * quantile[2] >= quantile[1] * Total <=> r <= U(k)
      <4>1. \A k \in Buckets : k \in 0 .. Inf /\ SumTo[k] = U(k) /\ U(k) \in Nat
        BY <1>0, <1>1
      <4> QED BY <1>3, <2>1, <4>1
    <3> QED BY <3>1
  <2>3. b = Min(B)
    BY DEF TargetBucket
  <2> HIDE DEF b, B
  <2>4. U(Inf) = n /\ Inf \in B
    <3>1. U(Inf) = n
      BY <1>0, <1>1, <1>3 DEF Total
    <3> QED BY <1>0, <2>1, <2>2, <3>1
  <2>5. b \in 1 .. Inf /\ r <= U(b) /\ \A k \in B : b <= k
    <3>1. B \in SUBSET Nat /\ B # {}
      BY <1>0, <2>2, <2>4
    <3>2. b \in B /\ \A k \in B : b <= k
      BY <2>3, <3>1, MinIs
    <3> QED BY <1>0, <2>2, <3>2
  <2>6. U(b - 1) < r
    <3>1. CASE b = 1
      <4>1. U(0) = 0
        <5>1. 1 \in Buckets
          BY <1>0
        <5> QED BY <1>0, <5>1, UpToGrows DEF U
      <4> QED BY <2>1, <3>1, <4>1
    <3>2. CASE b # 1
      <4>1. b - 1 \in Buckets /\ b - 1 \in 0 .. Inf /\ ~ (b <= b - 1)
        BY <1>0, <2>5, <3>2
      <4>2. ~ (r <= U(b - 1))
        BY <2>2, <2>5, <4>1
      <4>3. U(b - 1) \in Nat
        BY <1>1, <4>1
      <4> QED BY <2>1, <4>2, <4>3
    <3> QED BY <3>1, <3>2
  <2>7. PICK i \in DOMAIN window : UpTo(window[i] - 1) < r /\ r <= UpTo(window[i])
    BY <1>0, <1>2, <2>1, OfRank
  <2> DEFINE v == window[i]
  <2>8. v \in Nat /\ \A j \in DOMAIN window : window[j] \in Nat
    BY <1>0
  <2>9. PICK z \in Int : z = v - 1
    BY <2>8
  <2> HIDE DEF v
  <2>10. Search(v) \in Buckets
    BY <2>8, SearchIs
  <2>11. ~ (Search(v) > b)
    <3> SUFFICES ASSUME Search(v) > b PROVE FALSE
      OBVIOUS
    <3>1. ASSUME NEW j \in DOMAIN window, Search(window[j]) <= b PROVE window[j] <= z
      <4>1. ~ (v <= window[j])
        <5>1. v <= window[j] => Search(v) <= Search(window[j])
          BY <2>8, SearchIs
        <5>2. Search(window[j]) \in Buckets
          BY <2>8, SearchIs
        <5> QED BY <1>0, <2>5, <2>10, <3>1, <5>1, <5>2
      <4> QED BY <2>8, <2>9, <4>1
    <3>2. UpToBucket(window, b) \in SUBSET {j \in DOMAIN window : window[j] <= z}
      BY <3>1 DEF UpToBucket
    <3>3. U(b) <= UpTo(z) /\ UpTo(z) \in Nat
      BY <1>0, <3>2, UpToType DEF U
    <3>4. UpTo(z) < r
      BY <2>7, <2>9 DEF v
    <3>5. U(b) \in Nat
      BY <1>1, <2>5
    <3> QED BY <2>1, <2>5, <3>3, <3>4, <3>5
  <2>12. ~ (Search(v) < b)
    <3> SUFFICES ASSUME Search(v) < b PROVE FALSE
      OBVIOUS
    <3>1. ASSUME NEW j \in DOMAIN window, window[j] <= v PROVE Search(window[j]) <= b - 1
      <4>1. Search(window[j]) <= Search(v)
        BY <2>8, <3>1, SearchIs
      <4>2. Search(window[j]) \in Buckets
        BY <2>8, SearchIs
      <4> QED BY <1>0, <2>5, <2>10, <4>1, <4>2
    <3>2. {j \in DOMAIN window : window[j] <= v} \in SUBSET UpToBucket(window, b - 1)
      BY <3>1 DEF UpToBucket
    <3>3. IsFiniteSet(UpToBucket(window, b - 1))
      BY <1>0, IndicesFinite DEF UpToBucket
    <3>4. UpTo(v) <= U(b - 1)
      BY <3>2, <3>3, FS_Subset DEF UpTo, U
    <3>5. r <= UpTo(v) /\ UpTo(v) \in Nat
      <4>1. r <= UpTo(v)
        BY <2>7 DEF v
      <4> QED BY <1>0, <2>8, <4>1, UpToType
    <3>6. U(b - 1) \in Nat
      <4>1. b - 1 \in 0 .. Inf
        BY <2>5, <1>0
      <4> QED BY <1>1, <4>1
    <3> QED BY <2>1, <2>6, <3>4, <3>5, <3>6
  <2>13. Search(v) = b
    BY <1>0, <2>5, <2>10, <2>11, <2>12
  <2>14. (v > Lower(b) \/ b = 1) /\ (b # Inf => v <= Bounds[b])
    BY <2>8, <2>13, SearchIs
  <2>15. Total = n /\ ~ (Total <= 0)
    BY <1>3, <1>5
  <2>16. CASE b = Inf
    <3>1. Estimate = <<Lower(b), 1>>
      BY <2>15, <2>16 DEF Estimate, b
    <3> QED BY <1>2, <1>5, <2>5, <2>7, <2>14, <2>16, <3>1, <1>0 DEF v, r
  <2>17. CASE b # Inf
    <3> DEFINE q == quantile[2]  d == Delta(b)  u == SumTo[b] - d
               x == quantile[1] * Total - q * u
               lo == Lower(b)  hi == Bounds[b]
    <3>1. Estimate = <<lo * q * d + (hi - lo) * x, q * d>>
      BY <2>15, <2>17 DEF Estimate, b
    <3>2. lo \in Nat /\ hi \in Nat /\ lo < hi
      <4>1. b \in 1 .. Inf - 1
        BY <1>0, <2>5, <2>17
      <4>2. CASE b = 1
        BY <4>1, <4>2, BoundsTypes DEF Lower
      <4>3. CASE b # 1
        <5>1. b \in 2 .. Inf - 1 /\ b - 1 \in 1 .. Inf - 1
          BY <1>0, <4>1, <4>3
        <5> QED BY <4>1, <4>3, <5>1, BoundsTypes DEF Lower
      <4> QED BY <4>2, <4>3
    <3>3. quantile[1] \in Nat /\ q \in Nat \ {0}
      <4>1. /\ quantile[1] \in Nat /\ quantile[2] \in Nat
            /\ 0 < quantile[1] /\ quantile[1] <= quantile[2]
        BY <1>0, HistogramAssumption
      <4> QED BY <4>1 DEF q
    <3>4. d \in Nat /\ U(b) = U(b - 1) + d /\ SumTo[b] = U(b) /\ U(b) \in Nat /\ U(b - 1) \in Nat
      <4>1. b \in Buckets /\ b \in 0 .. Inf /\ b - 1 \in 0 .. Inf
        BY <1>0, <2>5
      <4>2. d = Cardinality(InBucket(window, b)) /\ d \in Nat
        BY <1>0, <4>1, WindowCounted, IndicesFinite DEF InBucket
      <4>3. U(b) = U(b - 1) + Cardinality(InBucket(window, b))
        BY <1>0, <4>1, UpToGrows DEF U
      <4> QED BY <1>1, <4>1, <4>2, <4>3
    <3>5. u = U(b - 1)
      BY <3>4
    <3>6. U(b) * q >= quantile[1] * n /\ ~ (U(b - 1) * q >= quantile[1] * n)
      <4>1. ~ (r <= U(b - 1))
        BY <2>1, <2>6, <3>4
      <4> QED BY <2>1, <2>5, <3>4, <4>1
    <3> HIDE DEF q, d, u, lo, hi
    <3>7. x \in Int /\ 0 < x /\ x <= q * d
      <4> DEFINE t == quantile[1] * n
      <4>1. t \in Int /\ x = t - q * u
        BY <2>15, <3>3
      <4> HIDE DEF t, x
      <4>2. PICK y \in Nat : y = U(b - 1) /\ u = y /\ U(b) = y + d
        BY <3>4, <3>5
      <4>3. (y + d) * q >= t /\ ~ (y * q >= t)
        BY <3>6, <4>2 DEF t
      <4>4. (y + d) * q = q * y + q * d /\ y * q = q * y /\ q * y \in Nat /\ q * d \in Nat
        BY <3>3, <3>4
      <4>5. x = t - q * y
        BY <4>1, <4>2
      <4> QED BY <4>1, <4>3, <4>4, <4>5
    <3> HIDE DEF x
    <3>8. lo * (q * d) < lo * q * d + (hi - lo) * x /\ lo * q * d + (hi - lo) * x <= hi * (q * d)
      BY <3>2, <3>3, <3>4, <3>7, Interpolates
    <3>9. Lower(b) * Estimate[2] < Estimate[1] /\ Estimate[1] <= Bounds[b] * Estimate[2]
      BY <3>1, <3>8 DEF lo, hi
    <3> QED BY <1>0, <1>2, <1>5, <2>5, <2>7, <2>14, <2>17, <3>9 DEF v, r
  <2> QED BY <2>16, <2>17
<1> QED BY <1>4, <1>5

(* For every ascending list of bounds, every observation and every         *)
(* interleaving of sessions with the two scrapes: the window holds what    *)
(* was observed in it, and the estimate of a quantile lies in the bucket   *)
(* of the value of that rank (metrics.go, Observe and the exposition;      *)
(* scrape.go, histDelta and histQuantile).                                 *)
THEOREM HistogramQuantileInBucket == HistSpec => []QuantileInBucket
<1> QED BY QuantileFound, HistInitInv, HistStep, PTL DEF HistSpec
=============================================================================
