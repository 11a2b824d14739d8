--------------------------- MODULE SessionProofs ---------------------------
(***************************************************************************)
(* Proofs about Session, for any connections, session ids, epochs and      *)
(* sequence numbers: one reader per session across every takeover, frames  *)
(* ingested once and in order, exact resume points, and the manager's map  *)
(* in agreement with the sessions however many goroutines reclaim one.     *)
(***************************************************************************)
EXTENDS Session, FiniteSetTheorems, TLAPS

(* Where a connection's handler, reader and writer can be together.        *)
LoopsInv ==
  \A c \in Conns :
    /\ hpc[c] = "start" => sess[c] = None
    /\ hpc[c] \in {"start", "attach", "waitOld"} => rd[c] = "none" /\ wr[c] = "none"
    /\ hpc[c] \in {"attach", "waitOld"} => sess[c] \in created
    /\ hpc[c] = "attached" => rd[c] # "none" /\ wr[c] # "none" /\ sess[c] \in created
    /\ hpc[c] = "over" => rd[c] \in {"none", "exited"} /\ wr[c] \in {"none", "exited"}
    /\ rd[c] = "none" <=> wr[c] = "none"
    /\ rd[c] # "none" => sess[c] \in created

(* A session's mutex is held across steps exactly by an attach that waits  *)
(* for the reader of the attachment in place, whose epoch it supersedes.   *)
LockInv ==
  /\ \A s \in Sessions : mu[s] # None => hpc[mu[s]] = "waitOld" /\ sess[mu[s]] = s
  /\ \A c \in Conns : hpc[c] = "waitOld" =>
       mu[sess[c]] = c /\ att[sess[c]] # None /\ claim[c] > epoch[sess[c]]

(* The attachment in place has the session's epoch, and whoever has not    *)
(* finished reading is the attachment in place.                            *)
AttachInv ==
  /\ \A s \in Sessions : att[s] # None =>
       sess[att[s]] = s /\ hpc[att[s]] = "attached" /\ claim[att[s]] = epoch[s]
  /\ \A c \in Conns : Alive(c) => att[sess[c]] = c
  /\ \A c \in Conns : Attached(c) => claim[c] <= epoch[sess[c]]

(* What was ingested is covered by the floor, and the frame about to be is *)
(* the floor and beyond what was.                                          *)
FloorInv ==
  /\ \A s \in Sessions : \A i \in DOMAIN ingested[s] : ingested[s][i].seq <= floor[s]
  /\ \A c \in Conns : rd[c] = "ingest" =>
       /\ rseq[c] = floor[sess[c]]
       /\ \A i \in DOMAIN ingested[sess[c]] : ingested[sess[c]][i].seq < rseq[c]

Busy(r) == step[r] \in {"close", "shut", "fold"}

(* Who runs Manager.reclaim, and of which session.                         *)
StepInv ==
  /\ \A c \in Conns : step[c] # "none" => rd[c] = "stop"
  /\ \A s \in Sessions :
       /\ step[s] # "none" => pipe[s] = "failed"
       /\ pipe[s] # "none" => s \in created
  /\ step[Reaper] # "none" => target \in created

(* A session that left the map is in the hands of exactly one goroutine,   *)
(* until that one has counted it.                                          *)
ReclaimInv ==
  /\ \A s \in Sessions : reclaimed[s] \in {0, 1}
  /\ \A s \in Sessions \ (created \ inMap) : reclaimed[s] = 0 /\ s \notin closed
  /\ \A r \in Reclaimers : Busy(r) =>
       Target(r) \in created \ inMap /\ reclaimed[Target(r)] = 0
  /\ \A r \in Reclaimers : step[r] = "shut" => Target(r) \in closed
  /\ \A r, q \in Reclaimers : Busy(r) /\ Busy(q) /\ Target(r) = Target(q) => r = q
  /\ \A s \in created \ inMap :
       reclaimed[s] = 1 \/ \E r \in Reclaimers : Busy(r) /\ Target(r) = s

SessionInv ==
  TypeOK /\ LoopsInv /\ LockInv /\ AttachInv /\ FloorInv /\ StepInv /\ ReclaimInv

LEMMA SessionInit == Init => SessionInv
<1> SUFFICES ASSUME Init PROVE SessionInv
  OBVIOUS
<1> USE SessionAssumption DEF Init
<1>1. TypeOK
  BY DEF TypeOK, Reclaimers
<1>2. LoopsInv /\ LockInv /\ StepInv
  BY DEF LoopsInv, LockInv, StepInv, Reclaimers
<1>3. AttachInv /\ FloorInv
  BY DEF AttachInv, FloorInv, Attached, Alive
<1>4. ReclaimInv
  BY DEF ReclaimInv, Busy, Reclaimers
<1> QED BY <1>1, <1>2, <1>3, <1>4 DEF SessionInv

(* A goroutine that reclaims works on a session that was created, and goes *)
(* on doing so on the same one.                                            *)
LEMMA TargetCreated ==
  ASSUME SessionInv, NEW r \in Reclaimers, step[r] # "none"
  PROVE  Target(r) \in created /\ Target(r) \in Sessions
<1> USE SessionAssumption DEF SessionInv, TypeOK, StepInv, Target, Reclaimers
<1>1. CASE r \in Conns
  BY <1>1 DEF LoopsInv
<1>2. CASE r \in Sessions
  BY <1>2
<1>3. CASE r = Reaper
  BY <1>3
<1> QED BY <1>1, <1>2, <1>3

(* What reclaim does to the goroutine that runs it, in terms of the types. *)
LEMMA FinishTypes ==
  ASSUME SessionInv, NEW r \in Reclaimers, Finish(r)
  PROVE  /\ step' \in [Reclaimers -> {"none", "delete", "close", "shut", "fold"}]
         /\ rd' \in [Conns -> {"none", "read", "got", "admit", "ingest", "stop", "exited"}]
         /\ cancelled' \subseteq Conns
         /\ pipe' \in [Sessions -> {"none", "running", "failed", "returned"}]
BY SessionAssumption DEF SessionInv, TypeOK, Finish, Reclaimers

LEMMA TypeStep == SessionInv /\ [Next]_vars => TypeOK'
<1> SUFFICES ASSUME SessionInv, [Next]_vars PROVE TypeOK'
  OBVIOUS
<1> USE SessionAssumption DEF TypeOK, sessVars, connVars, loopVars
<1>0. TypeOK
  BY DEF SessionInv
<1>1. ASSUME NEW c \in Conns, HandshakeFails(c) \/ AttachRefused(c) \/ Disconnect(c)
      PROVE  TypeOK'
  <2>1. CASE HandshakeFails(c) \/ AttachRefused(c)
    <3>1. /\ hpc' = [hpc EXCEPT ![c] = "over"]
          /\ UNCHANGED <<inMap, created, mu, sessVars, pipe, sess, claim, stale, cancelled,
                         gone, loopVars, step, target, reclaimed>>
      BY <2>1 DEF HandshakeFails, AttachRefused
    <3>2. hpc' \in [Conns -> {"start", "attach", "waitOld", "attached", "over"}]
      BY <1>0, <3>1
    <3> QED BY <1>0, <3>1, <3>2
  <2>2. CASE Disconnect(c)
    BY <1>0, <2>2 DEF Disconnect
  <2> QED BY <1>1, <2>1, <2>2
<1>2. ASSUME NEW c \in Conns, NEW s \in Sessions, NEW e \in 0 .. MaxEpoch,
             ResolveKnown(c, s, e)
      PROVE  TypeOK'
  <2>1. e \in Nat
    OBVIOUS
  <2>2. claim' \in [Conns -> Nat] /\ sess' \in [Conns -> Sessions \cup {None}]
    BY <1>0, <1>2, <2>1 DEF ResolveKnown
  <2>3. hpc' \in [Conns -> {"start", "attach", "waitOld", "attached", "over"}]
    BY <1>0, <1>2 DEF ResolveKnown
  <2> QED BY <1>0, <1>2, <2>2, <2>3 DEF ResolveKnown
<1>3. ASSUME NEW c \in Conns, NEW s \in Sessions, NEW e \in 0 .. MaxEpoch,
             NEW expired \in BOOLEAN, ResolveNew(c, s, expired, e)
      PROVE  TypeOK'
  <2>1. claim' \in [Conns -> Nat] /\ sess' \in [Conns -> Sessions \cup {None}]
    BY <1>0, <1>3 DEF ResolveNew
  <2>2. hpc' \in [Conns -> {"start", "attach", "waitOld", "attached", "over"}]
    BY <1>0, <1>3 DEF ResolveNew
  <2>3. /\ inMap' \subseteq Sessions /\ created' \subseteq Sessions
        /\ pipe' \in [Sessions -> {"none", "running", "failed", "returned"}]
    BY <1>0, <1>3 DEF ResolveNew
  <2> QED BY <1>0, <1>3, <2>1, <2>2, <2>3 DEF ResolveNew
<1>4. ASSUME NEW c \in Conns, Supersede(c) PROVE TypeOK'
  <2>1. sess[c] \in Sessions
    BY <1>0, <1>4 DEF Supersede, SessionInv, LoopsInv
  <2>2. att[sess[c]] \in Conns
    BY <1>0, <1>4, <2>1 DEF Supersede
  <2> QED BY <1>0, <1>4, <2>1, <2>2 DEF Supersede
<1>5. ASSUME NEW c \in Conns, Bind(c) PROVE TypeOK'
  <2>1. sess[c] \in Sessions
    BY <1>0, <1>5 DEF Bind, MayBind, SessionInv, LoopsInv
  <2> QED BY <1>0, <1>5, <2>1 DEF Bind
<1>6. ASSUME NEW c \in Conns, Detach(c) PROVE TypeOK'
  <2>1. sess[c] \in Sessions
    BY <1>0, <1>6 DEF Detach, SessionInv, LoopsInv
  <2>2. att' = [att EXCEPT ![sess[c]] = IF att[sess[c]] = c THEN None ELSE att[sess[c]]]
    BY <1>0, <1>6, <2>1 DEF Detach
  <2>3. att' \in [Sessions -> Conns \cup {None}]
    BY <1>0, <2>1, <2>2
  <2> QED BY <1>0, <1>6, <2>3 DEF Detach
<1>7. ASSUME NEW c \in Conns, NEW q \in 0 .. MaxSeq, ReadFrame(c, q) PROVE TypeOK'
  BY <1>0, <1>7 DEF ReadFrame
<1>8. ASSUME NEW c \in Conns, ReadFails(c) PROVE TypeOK'
  BY <1>0, <1>8 DEF ReadFails, GotoRd
<1>9. ASSUME NEW c \in Conns, CheckStale(c) PROVE TypeOK'
  <2>1. rd' \in [Conns -> {"none", "read", "got", "admit", "ingest", "stop", "exited"}]
        /\ rseq' \in [Conns -> Nat]
    <3>1. \E l \in {"read", "admit", "stop"} : GotoRd(c, l)
      BY <1>9 DEF CheckStale
    <3> QED BY <1>0, <3>1 DEF GotoRd
  <2>2. step' \in [Reclaimers -> {"none", "delete", "close", "shut", "fold"}]
    BY <1>0, <1>9 DEF CheckStale, Reclaimers
  <2> QED BY <1>0, <1>9, <2>1, <2>2 DEF CheckStale
<1>10. ASSUME NEW c \in Conns, Admit(c) PROVE TypeOK'
  <2>1. sess[c] \in Sessions
    BY <1>0, <1>10 DEF Admit, SessionInv, LoopsInv
  <2>2. floor' \in [Sessions -> Nat]
    <3>1. floor' = floor \/ floor' = [floor EXCEPT ![sess[c]] = rseq[c]]
      BY <1>10 DEF Admit
    <3>2. rseq[c] \in Nat /\ floor \in [Sessions -> Nat]
      BY <1>0
    <3> QED BY <2>1, <3>1, <3>2
  <2>3. rd' \in [Conns -> {"none", "read", "got", "admit", "ingest", "stop", "exited"}]
        /\ rseq' \in [Conns -> Nat]
    <3>1. \E l \in {"read", "ingest"} : GotoRd(c, l)
      BY <1>10 DEF Admit
    <3> QED BY <1>0, <3>1 DEF GotoRd
  <2> QED BY <1>0, <1>10, <2>2, <2>3 DEF Admit
<1>11. ASSUME NEW c \in Conns, Ingest(c) PROVE TypeOK'
  <2>1. sess[c] \in Sessions
    BY <1>0, <1>11 DEF Ingest, SessionInv, LoopsInv
  <2> DEFINE f == [seq |-> rseq[c], conn |-> c]
  <2>2. f \in [seq : Nat, conn : Conns]
    BY <1>0
  <2>6. ingested[sess[c]] \in Seq([seq : Nat, conn : Conns])
    BY <1>0, <2>1
  <2>3. Append(ingested[sess[c]], f) \in Seq([seq : Nat, conn : Conns])
    <3> HIDE DEF f
    <3> QED BY <2>6, <2>2
  <2>4. ingested' \in [Sessions -> Seq([seq : Nat, conn : Conns])]
    BY <1>0, <1>11, <2>1, <2>3 DEF Ingest
  <2>5. rd' \in [Conns -> {"none", "read", "got", "admit", "ingest", "stop", "exited"}]
        /\ rseq' \in [Conns -> Nat]
    BY <1>0, <1>11 DEF Ingest, GotoRd
  <2> QED BY <1>0, <1>11, <2>4, <2>5 DEF Ingest
<1>12. ASSUME NEW c \in Conns, SendAck(c) PROVE TypeOK'
  <2>1. sess[c] \in Sessions
    BY <1>0, <1>12 DEF SendAck, SessionInv, LoopsInv
  <2> QED BY <1>0, <1>12, <2>1 DEF SendAck
<1>13. ASSUME NEW c \in Conns, WriterExits(c) PROVE TypeOK'
  BY <1>0, <1>13 DEF WriterExits
<1>14. ASSUME NEW s \in Sessions, PipeFails(s) \/ PipeStops(s) \/ Reap(s) PROVE TypeOK'
  <2>1. s \in Reclaimers /\ Reaper \in Reclaimers
    BY DEF Reclaimers
  <2>2. CASE PipeFails(s)
    BY <1>0, <2>1, <2>2 DEF PipeFails
  <2>3. CASE PipeStops(s)
    BY <1>0, <2>3 DEF PipeStops
  <2>4. CASE Reap(s)
    BY <1>0, <2>1, <2>4 DEF Reap
  <2> QED BY <1>14, <2>2, <2>3, <2>4
<1>15. ASSUME NEW r \in Reclaimers, Delete(r) PROVE TypeOK'
  <2>1. CASE Finish(r) /\ inMap' = inMap
    BY <1>0, <1>15, <2>1, FinishTypes DEF Delete
  <2>2. CASE inMap' = inMap \ {Target(r)} /\ step' = [step EXCEPT ![r] = "close"]
             /\ UNCHANGED <<rd, cancelled, pipe>>
    BY <1>0, <1>15, <2>2 DEF Delete
  <2> QED BY <1>15, <2>1, <2>2 DEF Delete
<1>16. ASSUME NEW r \in Reclaimers, Close(r) PROVE TypeOK'
  <2>1. Target(r) \in created
    BY <1>16, TargetCreated DEF Close
  <2> QED BY <1>0, <1>16, <2>1 DEF Close
<1>17. ASSUME NEW r \in Reclaimers, Shut(r) PROVE TypeOK'
  <2>1. Target(r) \in Sessions /\ Target(r) \in closed
    BY <1>17, TargetCreated DEF Shut, SessionInv, ReclaimInv
  <2>2. gone' \subseteq Conns
    BY <1>0, <1>17, <2>1 DEF Shut
  <2> QED BY <1>0, <1>17, <2>1, <2>2 DEF Shut
<1>18. ASSUME NEW r \in Reclaimers, Fold(r) PROVE TypeOK'
  <2>1. Target(r) \in Sessions
    BY <1>18, TargetCreated DEF Fold
  <2>2. reclaimed' \in [Sessions -> Nat]
    BY <1>0, <1>18, <2>1 DEF Fold
  <2>3. Finish(r)
    BY <1>18 DEF Fold
  <2> QED BY <1>0, <1>18, <2>2, <2>3, FinishTypes DEF Fold
<1>19. CASE UNCHANGED vars
  BY <1>0, <1>19 DEF vars
<1> QED BY <1>1, <1>2, <1>3, <1>4, <1>5, <1>6, <1>7, <1>8, <1>9, <1>10, <1>11, <1>12,
           <1>13, <1>14, <1>15, <1>16, <1>17, <1>18, <1>19
        DEF Next, Handler, Reader, Reclaim

LEMMA LoopsStep == SessionInv /\ [Next]_vars => LoopsInv'
<1> SUFFICES ASSUME SessionInv, [Next]_vars PROVE LoopsInv'
  OBVIOUS
<1> USE SessionAssumption DEF LoopsInv, sessVars, connVars, loopVars
<1>0. LoopsInv /\ TypeOK /\ StepInv
  BY DEF SessionInv
<1>1. ASSUME NEW c \in Conns, HandshakeFails(c) \/ AttachRefused(c) PROVE LoopsInv'
  BY <1>0, <1>1 DEF HandshakeFails, AttachRefused, TypeOK
<1>2. ASSUME NEW c \in Conns, NEW s \in Sessions, NEW e \in 0 .. MaxEpoch,
             ResolveKnown(c, s, e)
      PROVE  LoopsInv'
  BY <1>0, <1>2 DEF ResolveKnown, TypeOK
<1>3. ASSUME NEW c \in Conns, NEW s \in Sessions, NEW e \in 0 .. MaxEpoch,
             NEW expired \in BOOLEAN, ResolveNew(c, s, expired, e)
      PROVE  LoopsInv'
  BY <1>0, <1>3 DEF ResolveNew, TypeOK
<1>4. ASSUME NEW c \in Conns, Supersede(c) PROVE LoopsInv'
  BY <1>0, <1>4 DEF Supersede, TypeOK
<1>5. ASSUME NEW c \in Conns, Bind(c) PROVE LoopsInv'
  BY <1>0, <1>5 DEF Bind, MayBind, TypeOK
<1>6. ASSUME NEW c \in Conns, Detach(c) PROVE LoopsInv'
  BY <1>0, <1>6 DEF Detach, TypeOK
<1>7. ASSUME NEW c \in Conns, NEW q \in 0 .. MaxSeq, ReadFrame(c, q) PROVE LoopsInv'
  BY <1>0, <1>7 DEF ReadFrame, TypeOK
<1>8. ASSUME NEW c \in Conns, Reader(c) PROVE LoopsInv'
  <2>1. rd[c] \in {"read", "got", "admit", "ingest"}
        /\ \E l \in {"read", "admit", "stop", "ingest", "exited"} : rd' = [rd EXCEPT ![c] = l]
    BY <1>8 DEF Reader, ReadFails, CheckStale, Admit, Ingest, GotoRd
  <2>2. UNCHANGED <<created, hpc, sess, wr>>
    BY <1>8 DEF Reader, ReadFails, CheckStale, Admit, Ingest
  <2> QED BY <1>0, <2>1, <2>2 DEF TypeOK
<1>9. ASSUME NEW c \in Conns, SendAck(c) \/ WriterExits(c) PROVE LoopsInv'
  <2>1. wr[c] \in {"ack", "loop"} /\ \E l \in {"loop", "exited"} : wr' = [wr EXCEPT ![c] = l]
    BY <1>9 DEF SendAck, WriterExits
  <2>2. UNCHANGED <<created, hpc, sess, rd>>
    BY <1>9 DEF SendAck, WriterExits
  <2> QED BY <1>0, <2>1, <2>2 DEF TypeOK
<1>10. ASSUME NEW r \in Reclaimers, Delete(r) \/ Fold(r) PROVE LoopsInv'
  <2>1. UNCHANGED <<created, hpc, sess, wr>>
    BY <1>10 DEF Delete, Fold
  <2>2. CASE r \in Conns /\ Finish(r)
    <3>1. rd[r] = "stop" /\ rd' = [rd EXCEPT ![r] = "exited"]
      BY <1>0, <1>10, <2>2 DEF StepInv, Delete, Fold, Finish
    <3> QED BY <1>0, <2>1, <2>2, <3>1 DEF TypeOK
  <2>3. CASE UNCHANGED rd
    BY <1>0, <2>1, <2>3
  <2> QED BY <1>10, <2>2, <2>3 DEF Delete, Fold, Finish
<1>11. CASE UNCHANGED <<created, hpc, sess, rd, wr>>
  BY <1>0, <1>11
<1> QED BY <1>1, <1>2, <1>3, <1>4, <1>5, <1>6, <1>7, <1>8, <1>9, <1>10, <1>11
        DEF Next, Handler, Reclaim, Disconnect, PipeFails, PipeStops, Reap, Close, Shut, vars

(* The types the takeover is about.                                        *)
ConnTypes ==
  /\ mu \in [Sessions -> Conns \cup {None}] /\ att \in [Sessions -> Conns \cup {None}]
  /\ epoch \in [Sessions -> Nat] /\ claim \in [Conns -> Nat]
  /\ hpc \in [Conns -> {"start", "attach", "waitOld", "attached", "over"}]
  /\ rd \in [Conns -> {"none", "read", "got", "admit", "ingest", "stop", "exited"}]
  /\ sess \in [Conns -> Sessions \cup {None}] /\ created \subseteq Sessions
  /\ inMap \subseteq created

LEMMA ConnTypesHold == SessionInv => ConnTypes
BY DEF SessionInv, TypeOK, ConnTypes

LEMMA LockStep == SessionInv /\ [Next]_vars => LockInv'
<1> SUFFICES ASSUME SessionInv, [Next]_vars PROVE LockInv'
  OBVIOUS
<1> USE SessionAssumption DEF LockInv, ConnTypes, sessVars, connVars, loopVars
<1>0. LockInv /\ LoopsInv
  BY DEF SessionInv
<1>t. ConnTypes
  BY ConnTypesHold
<1>1. ASSUME NEW c \in Conns, HandshakeFails(c) \/ AttachRefused(c) PROVE LockInv'
  BY <1>0, <1>t, <1>1 DEF HandshakeFails, AttachRefused
<1>2. ASSUME NEW c \in Conns, NEW s \in Sessions, NEW e \in 0 .. MaxEpoch,
             ResolveKnown(c, s, e)
      PROVE  LockInv'
  BY <1>0, <1>t, <1>2 DEF ResolveKnown
<1>3. ASSUME NEW c \in Conns, NEW s \in Sessions, NEW e \in 0 .. MaxEpoch,
             NEW expired \in BOOLEAN, ResolveNew(c, s, expired, e)
      PROVE  LockInv'
  BY <1>0, <1>t, <1>3 DEF ResolveNew
<1>4. ASSUME NEW c \in Conns, Supersede(c) PROVE LockInv'
  <2>1. sess[c] \in Sessions /\ claim[c] > epoch[sess[c]]
    BY <1>0, <1>t, <1>4 DEF Supersede, Refused, LoopsInv
  <2>2. \A d \in Conns : hpc[d] = "waitOld" => sess[d] # sess[c]
    BY <1>0, <1>t, <1>4 DEF Supersede
  <2>3. /\ mu' = [mu EXCEPT ![sess[c]] = c] /\ hpc' = [hpc EXCEPT ![c] = "waitOld"]
        /\ UNCHANGED <<att, sess, claim, epoch>> /\ mu[sess[c]] = None /\ att[sess[c]] # None
    BY <1>4 DEF Supersede
  <2>4. \A s \in Sessions : mu'[s] # None => hpc'[mu'[s]] = "waitOld" /\ sess'[mu'[s]] = s
    BY <1>0, <1>t, <2>1, <2>3
  <2>5. \A d \in Conns : hpc'[d] = "waitOld" =>
          mu'[sess'[d]] = d /\ att'[sess'[d]] # None /\ claim'[d] > epoch'[sess'[d]]
    BY <1>0, <1>t, <2>1, <2>2, <2>3
  <2> QED BY <2>4, <2>5
<1>5. ASSUME NEW c \in Conns, Bind(c) PROVE LockInv'
  <2>1. sess[c] \in Sessions
    BY <1>0, <1>t, <1>5 DEF Bind, MayBind, LoopsInv
  <2>2. \A d \in Conns \ {c} : hpc[d] = "waitOld" => sess[d] # sess[c]
    BY <1>0, <1>t, <1>5 DEF Bind, MayBind
  <2>3. mu[sess[c]] \in {c, None}
    BY <1>0, <1>t, <1>5 DEF Bind, MayBind
  <2>4. \A s \in Sessions : mu[s] = c => s = sess[c]
    BY <1>0
  <2>5. /\ mu' = [mu EXCEPT ![sess[c]] = None] /\ hpc' = [hpc EXCEPT ![c] = "attached"]
        /\ att' = [att EXCEPT ![sess[c]] = c] /\ epoch' = [epoch EXCEPT ![sess[c]] = claim[c]]
        /\ UNCHANGED <<sess, claim>>
    BY <1>5 DEF Bind
  <2>6. \A s \in Sessions : mu'[s] # None => hpc'[mu'[s]] = "waitOld" /\ sess'[mu'[s]] = s
    BY <1>0, <1>t, <2>1, <2>3, <2>4, <2>5
  <2>7. \A d \in Conns : hpc'[d] = "waitOld" =>
          mu'[sess'[d]] = d /\ att'[sess'[d]] # None /\ claim'[d] > epoch'[sess'[d]]
    BY <1>0, <1>t, <2>1, <2>2, <2>5
  <2> QED BY <2>6, <2>7
<1>6. ASSUME NEW c \in Conns, Detach(c) PROVE LockInv'
  <2>1. sess[c] \in Sessions
    BY <1>0, <1>t, <1>6 DEF Detach, LoopsInv
  <2>2. \A d \in Conns : hpc[d] = "waitOld" => sess[d] # sess[c] /\ d # c
    BY <1>0, <1>t, <1>6 DEF Detach
  <2> QED BY <1>0, <1>t, <1>6, <2>1, <2>2 DEF Detach
<1>7. CASE UNCHANGED <<mu, epoch, att, hpc, sess, claim>>
  BY <1>0, <1>t, <1>7
<1>8. ASSUME NEW c \in Conns, Reader(c) PROVE LockInv'
  BY <1>7, <1>8 DEF Reader, ReadFails, CheckStale, Admit, Ingest
<1>9. ASSUME NEW r \in Reclaimers, Reclaim(r) PROVE LockInv'
  BY <1>7, <1>9 DEF Reclaim, Delete, Close, Shut, Fold
<1>10. ASSUME NEW c \in Conns, NEW q \in 0 .. MaxSeq,
              ReadFrame(c, q) \/ Disconnect(c) \/ SendAck(c) \/ WriterExits(c)
       PROVE  LockInv'
  BY <1>7, <1>10 DEF ReadFrame, Disconnect, SendAck, WriterExits
<1>11. ASSUME NEW s \in Sessions, PipeFails(s) \/ PipeStops(s) \/ Reap(s) PROVE LockInv'
  BY <1>7, <1>11 DEF PipeFails, PipeStops, Reap
<1>12. CASE UNCHANGED vars
  BY <1>7, <1>12 DEF vars
<1>13. 0 \in 0 .. MaxSeq
  OBVIOUS
<1> QED BY <1>1, <1>2, <1>3, <1>4, <1>5, <1>6, <1>8, <1>9, <1>10, <1>11, <1>12, <1>13
        DEF Next, Handler

(* What a reader's own step does to it.                                    *)
LEMMA ReaderMoves ==
  ASSUME SessionInv, NEW c \in Conns, Reader(c)
  PROVE  /\ rd[c] \in {"read", "got", "admit", "ingest"}
         /\ \E l \in {"read", "admit", "stop", "ingest", "exited"} :
              rd' = [rd EXCEPT ![c] = l]
         /\ UNCHANGED <<inMap, created, mu, epoch, att, hpc, sess, claim, wr, ack>>
BY DEF Reader, ReadFails, CheckStale, Admit, Ingest, GotoRd, connVars, sessVars

(* What a step of reclaim does to the loops: a reader that ran it is over. *)
LEMMA ReclaimMoves ==
  ASSUME NEW r \in Reclaimers, Reclaim(r)
  PROVE  /\ UNCHANGED <<created, mu, epoch, att, floor, ingested, hpc, sess, claim, rseq,
                       wr, ack, target>>
         /\ \/ rd' = rd
            \/ r \in Conns /\ step[r] # "none" /\ rd' = [rd EXCEPT ![r] = "exited"]
<1> USE DEF sessVars, connVars, loopVars
<1>1. CASE Delete(r)
  BY <1>1 DEF Delete, Finish
<1>2. CASE Close(r) \/ Shut(r)
  BY <1>2 DEF Close, Shut
<1>3. CASE Fold(r)
  BY <1>3 DEF Fold, Finish
<1> QED BY <1>1, <1>2, <1>3 DEF Reclaim

LEMMA AttachStep == SessionInv /\ [Next]_vars => AttachInv'
<1> SUFFICES ASSUME SessionInv, [Next]_vars PROVE AttachInv'
  OBVIOUS
<1> USE SessionAssumption DEF AttachInv, ConnTypes, Alive, Attached, sessVars, connVars, loopVars
<1>0. AttachInv /\ LockInv /\ LoopsInv
  BY DEF SessionInv
<1>t. ConnTypes
  BY ConnTypesHold
<1>1. ASSUME NEW c \in Conns, HandshakeFails(c) \/ AttachRefused(c) PROVE AttachInv'
  BY <1>0, <1>t, <1>1 DEF HandshakeFails, AttachRefused
<1>2. ASSUME NEW c \in Conns, NEW s \in Sessions, NEW e \in 0 .. MaxEpoch,
             ResolveKnown(c, s, e)
      PROVE  AttachInv'
  BY <1>0, <1>t, <1>2 DEF ResolveKnown, LoopsInv
<1>3. ASSUME NEW c \in Conns, NEW s \in Sessions, NEW e \in 0 .. MaxEpoch,
             NEW expired \in BOOLEAN, ResolveNew(c, s, expired, e)
      PROVE  AttachInv'
  BY <1>0, <1>t, <1>3 DEF ResolveNew, LoopsInv
<1>4. ASSUME NEW c \in Conns, Supersede(c) PROVE AttachInv'
  BY <1>0, <1>t, <1>4 DEF Supersede
<1>5. ASSUME NEW c \in Conns, Bind(c) PROVE AttachInv'
  <2>1. sess[c] \in Sessions /\ claim[c] > epoch[sess[c]]
    BY <1>0, <1>t, <1>5 DEF Bind, MayBind, Refused, LockInv, LoopsInv
  <2>2. \A d \in Conns : sess[d] = sess[c] => ~Alive(d)
    BY <1>0, <1>t, <1>5 DEF Bind, MayBind, ReaderGone, LockInv
  <2>3. \A d \in Conns : d # c /\ Attached(d)' => Attached(d) /\ sess[d] \in Sessions
    BY <1>0, <1>t, <1>5 DEF Bind, LoopsInv
  <2>4. \A s \in Sessions : epoch[s] \in Nat /\ epoch'[s] \in Nat /\ epoch[s] <= epoch'[s]
    BY <1>0, <1>t, <1>5, <2>1 DEF Bind
  <2>5. \A d \in Conns : Attached(d)' => claim'[d] <= epoch'[sess'[d]]
    BY <1>0, <1>t, <1>5, <2>1, <2>3, <2>4 DEF Bind
  <2>6. \A d \in Conns : Alive(d)' => att'[sess'[d]] = d
    BY <1>0, <1>t, <1>5, <2>1, <2>2, <2>3 DEF Bind
  <2>7. \A s \in Sessions : att'[s] # None =>
          sess'[att'[s]] = s /\ hpc'[att'[s]] = "attached" /\ claim'[att'[s]] = epoch'[s]
    BY <1>0, <1>t, <1>5, <2>1 DEF Bind
  <2> QED BY <2>5, <2>6, <2>7
<1>6. ASSUME NEW c \in Conns, Detach(c) PROVE AttachInv'
  <2>1. sess[c] \in Sessions /\ ~Alive(c)
    BY <1>0, <1>t, <1>6 DEF Detach, LoopsInv
  <2>2. att' = [att EXCEPT ![sess[c]] = IF att[sess[c]] = c THEN None ELSE att[sess[c]]]
    BY <1>0, <1>t, <1>6, <2>1 DEF Detach
  <2>3. \A s \in Sessions : att'[s] # None => att'[s] = att[s] /\ att[s] # c
    BY <1>0, <1>t, <2>1, <2>2 
  <2>4. \A d \in Conns : d # c /\ att[sess[d]] = d /\ sess[d] \in Sessions => att'[sess[d]] = d
    BY <1>0, <1>t, <2>1, <2>2 
  <2>5. \A d \in Conns : Alive(d) => d # c /\ sess[d] \in Sessions
    BY <1>0, <1>t, <2>1 DEF LoopsInv
  <2> QED BY <1>0, <1>t, <1>6, <2>3, <2>4, <2>5 DEF Detach
<1>7. CASE /\ UNCHANGED <<epoch, att, hpc, sess, claim>>
           /\ \A d \in Conns : (Alive(d)' => Alive(d)) /\ (Attached(d)' => Attached(d))
  BY <1>0, <1>t, <1>7
<1>8. ASSUME NEW c \in Conns, Reader(c) PROVE AttachInv'
  BY <1>0, <1>t, <1>7, <1>8, ReaderMoves 
<1>9. ASSUME NEW r \in Reclaimers, Reclaim(r) PROVE AttachInv'
  <2>1. UNCHANGED <<epoch, att, hpc, sess, claim>>
    BY <1>9 DEF Reclaim, Delete, Close, Shut, Fold
  <2>2. rd' = rd \/ (r \in Conns /\ step[r] # "none" /\ rd' = [rd EXCEPT ![r] = "exited"])
    BY <1>9, ReclaimMoves
  <2>3. r \in Conns /\ step[r] # "none" => rd[r] = "stop"
    BY DEF SessionInv, StepInv
  <2> QED BY <1>0, <1>t, <1>7, <2>1, <2>2, <2>3 
<1>10. ASSUME NEW c \in Conns, NEW q \in 0 .. MaxSeq, ReadFrame(c, q) PROVE AttachInv'
  BY <1>0, <1>t, <1>7, <1>10 DEF ReadFrame
<1>11. ASSUME NEW c \in Conns, Disconnect(c) \/ SendAck(c) \/ WriterExits(c) PROVE AttachInv'
  BY <1>7, <1>11 DEF Disconnect, SendAck, WriterExits
<1>12. ASSUME NEW s \in Sessions, PipeFails(s) \/ PipeStops(s) \/ Reap(s) PROVE AttachInv'
  BY <1>7, <1>12 DEF PipeFails, PipeStops, Reap
<1>13. CASE UNCHANGED vars
  BY <1>7, <1>13 DEF vars
<1> QED BY <1>1, <1>2, <1>3, <1>4, <1>5, <1>6, <1>8, <1>9, <1>10, <1>11, <1>12, <1>13
        DEF Next, Handler

Frame == [seq : Nat, conn : Conns]

(* The types the frames are about.                                         *)
FrameTypes ==
  /\ ingested \in [Sessions -> Seq(Frame)] /\ floor \in [Sessions -> Nat]
  /\ rd \in [Conns -> {"none", "read", "got", "admit", "ingest", "stop", "exited"}]
  /\ wr \in [Conns -> {"none", "ack", "loop", "exited"}]
  /\ rseq \in [Conns -> Nat] /\ ack \in [Conns -> Nat] /\ claim \in [Conns -> Nat]
  /\ sess \in [Conns -> Sessions \cup {None}]

LEMMA FrameTypesHold == SessionInv => FrameTypes
BY DEF SessionInv, TypeOK, FrameTypes, Frame

(* A reader at work has a session, and no other reader is at work on it.   *)
LEMMA ReaderAlone ==
  ASSUME SessionInv, NEW c \in Conns, Alive(c)
  PROVE  /\ sess[c] \in Sessions
         /\ \A d \in Conns : Alive(d) /\ sess[d] = sess[c] => d = c
BY DEF SessionInv, TypeOK, LoopsInv, AttachInv, Alive, Attached

(* What Ingest does to the frames of the session.                          *)
LEMMA IngestAppends ==
  ASSUME SessionInv, NEW c \in Conns, Ingest(c)
  PROVE  LET s == sess[c]
             n == Len(ingested[s])
         IN  /\ s \in Sessions /\ n \in Nat /\ DOMAIN ingested[s] = 1 .. n
             /\ DOMAIN ingested'[s] = 1 .. n + 1
             /\ ingested'[s][n + 1].seq = rseq[c] /\ ingested'[s][n + 1].conn = c
             /\ \A i \in 1 .. n : ingested'[s][i] = ingested[s][i]
             /\ \A t \in Sessions \ {s} : ingested'[t] = ingested[t]
<1> DEFINE s == sess[c]
           f == [seq |-> rseq[c], conn |-> c]
           q == ingested[s]
<1>1. s \in Sessions
  BY ReaderAlone DEF Ingest, Alive, Attached
<1>2. f \in Frame /\ q \in Seq(Frame) /\ f.seq = rseq[c] /\ f.conn = c
  BY <1>1, FrameTypesHold DEF FrameTypes, Frame
<1>3. ingested'[s] = Append(q, f) /\ \A t \in Sessions \ {s} : ingested'[t] = ingested[t]
  BY <1>1, FrameTypesHold DEF Ingest, FrameTypes
<1> HIDE DEF f, q
<1>4. Len(q) \in Nat /\ DOMAIN q = 1 .. Len(q)
  BY <1>2
<1>5. Append(q, f) \in Seq(Frame) /\ Len(Append(q, f)) = Len(q) + 1
  BY <1>2
<1>6. DOMAIN Append(q, f) = 1 .. Len(q) + 1
  BY <1>4, <1>5
<1>7. Append(q, f)[Len(q) + 1] = f /\ \A i \in 1 .. Len(q) : Append(q, f)[i] = q[i]
  BY <1>2
<1>8. /\ DOMAIN ingested'[s] = 1 .. Len(q) + 1 /\ ingested'[s][Len(q) + 1] = f
      /\ \A i \in 1 .. Len(q) : ingested'[s][i] = q[i]
  BY <1>3, <1>6, <1>7
<1> QED BY <1>1, <1>2, <1>3, <1>4, <1>8 DEF q

LEMMA FloorStep == SessionInv /\ [Next]_vars => FloorInv'
<1> SUFFICES ASSUME SessionInv, [Next]_vars PROVE FloorInv'
  OBVIOUS
<1> USE DEF FloorInv, sessVars, connVars, loopVars
<1>0. FloorInv /\ FrameTypes /\ LoopsInv
  BY FrameTypesHold DEF SessionInv
<1>1. CASE /\ UNCHANGED <<ingested, floor>>
           /\ \A c \in Conns : rd'[c] = "ingest" =>
                rd[c] = "ingest" /\ rseq'[c] = rseq[c] /\ sess'[c] = sess[c]
  BY <1>0, <1>1
<1>2. ASSUME NEW c \in Conns, NEW s \in Sessions, NEW e \in 0 .. MaxEpoch,
             ResolveKnown(c, s, e) \/ \E expired \in BOOLEAN : ResolveNew(c, s, expired, e)
      PROVE  FloorInv'
  BY <1>0, <1>1, <1>2 DEF ResolveKnown, ResolveNew, LoopsInv, FrameTypes
<1>3. ASSUME NEW c \in Conns, Bind(c) PROVE FloorInv'
  BY <1>0, <1>1, <1>3 DEF Bind, FrameTypes
<1>4. ASSUME NEW c \in Conns, NEW q \in 0 .. MaxSeq, ReadFrame(c, q) PROVE FloorInv'
  BY <1>0, <1>1, <1>4 DEF ReadFrame, FrameTypes
<1>5. ASSUME NEW c \in Conns, ReadFails(c) \/ CheckStale(c) PROVE FloorInv'
  <2>1. /\ UNCHANGED <<ingested, floor, sess>>
        /\ \E l \in {"read", "admit", "stop", "exited"} : GotoRd(c, l)
    BY <1>5 DEF ReadFails, CheckStale
  <2> QED BY <1>0, <1>1, <2>1 DEF GotoRd, FrameTypes
<1>6. ASSUME NEW c \in Conns, Admit(c) PROVE FloorInv'
  <2>1. /\ sess[c] \in Sessions
        /\ \A d \in Conns : rd[d] = "ingest" => sess[d] # sess[c] /\ sess[d] \in Sessions
    <3>1. Alive(c) /\ rd[c] # "ingest"
      BY <1>6 DEF Admit, Alive, Attached
    <3>2. \A d \in Conns : rd[d] = "ingest" => Alive(d)
      BY DEF Alive, Attached
    <3> QED BY <3>1, <3>2, ReaderAlone
  <2>2. CASE /\ rseq[c] > floor[sess[c]] /\ GotoRd(c, "ingest")
             /\ floor' = [floor EXCEPT ![sess[c]] = rseq[c]]
    <3>1. /\ UNCHANGED <<ingested, sess, rseq>> /\ rd' = [rd EXCEPT ![c] = "ingest"]
      BY <1>6, <2>2 DEF Admit, GotoRd
    <3>2. \A s \in Sessions : \A i \in DOMAIN ingested[s] : ingested[s][i].seq \in Nat
      <4>1. ASSUME NEW s \in Sessions, NEW i \in DOMAIN ingested[s]
            PROVE  ingested[s][i].seq \in Nat
        <5>1. ingested[s] \in Seq(Frame)
          BY <1>0 DEF FrameTypes
        <5>2. ingested[s][i] \in Frame
          BY <5>1
        <5> QED BY <5>2 DEF Frame
      <4> QED BY <4>1
    <3>3. \A s \in Sessions : floor[s] <= floor'[s] /\ floor[s] \in Nat /\ floor'[s] \in Nat
      BY <1>0, <2>1, <2>2 DEF FrameTypes
    <3>4. \A s \in Sessions : \A i \in DOMAIN ingested[s] : ingested[s][i].seq <= floor'[s]
      BY <1>0, <3>2, <3>3
    <3>5. \A i \in DOMAIN ingested[sess[c]] : ingested[sess[c]][i].seq < rseq[c]
      BY <1>0, <2>1, <2>2, <3>2 DEF FrameTypes
    <3>6. \A d \in Conns : rd'[d] = "ingest" =>
            /\ rseq'[d] = floor'[sess'[d]]
            /\ \A i \in DOMAIN ingested'[sess'[d]] : ingested'[sess'[d]][i].seq < rseq'[d]
      BY <1>0, <2>1, <2>2, <3>1, <3>5 DEF FrameTypes
    <3> QED BY <3>1, <3>4, <3>6
  <2>3. CASE floor' = floor /\ GotoRd(c, "read")
    BY <1>0, <1>1, <1>6, <2>3 DEF Admit, GotoRd, FrameTypes
  <2> QED BY <1>6, <2>2, <2>3 DEF Admit
<1>7. ASSUME NEW c \in Conns, Ingest(c) PROVE FloorInv'
  <2> DEFINE s == sess[c]
             n == Len(ingested[s])
  <2>1. /\ s \in Sessions
        /\ \A d \in Conns : rd[d] = "ingest" /\ d # c => sess[d] # s /\ sess[d] \in Sessions
    <3>1. \A d \in Conns : rd[d] = "ingest" => Alive(d)
      BY DEF Alive, Attached
    <3> QED BY <1>7, <3>1, ReaderAlone DEF Ingest
  <2>2. /\ rd[c] = "ingest" /\ rd' = [rd EXCEPT ![c] = "read"]
        /\ rseq' = [rseq EXCEPT ![c] = 0] /\ UNCHANGED <<floor, sess>>
    BY <1>7 DEF Ingest, GotoRd
  <2>3. \A t \in Sessions \ {s} : ingested'[t] = ingested[t]
    BY <1>7, IngestAppends
  <2>4. \A i \in DOMAIN ingested'[s] : ingested'[s][i].seq <= floor[s]
    <3>1. rseq[c] = floor[s] /\ floor[s] \in Nat
      BY <1>0, <2>1, <2>2 DEF FrameTypes
    <3>2. /\ n \in Nat /\ DOMAIN ingested[s] = 1 .. n /\ DOMAIN ingested'[s] = 1 .. n + 1
          /\ ingested'[s][n + 1].seq = rseq[c]
          /\ \A i \in 1 .. n : ingested'[s][i] = ingested[s][i]
      BY <1>7, IngestAppends
    <3>3. \A i \in 1 .. n : ingested'[s][i].seq <= floor[s]
      BY <1>0, <2>1, <3>2
    <3>4. \A i \in 1 .. n + 1 : i \in 1 .. n \/ i = n + 1
      BY <3>2
    <3> HIDE DEF n, s
    <3> QED BY <3>1, <3>2, <3>3, <3>4
  <2>5. \A d \in Conns : rd'[d] = "ingest" =>
          d # c /\ rd[d] = "ingest" /\ rseq'[d] = rseq[d] /\ sess[d] \in Sessions \ {s}
    BY <1>0, <2>1, <2>2 DEF FrameTypes
  <2> QED BY <1>0, <2>1, <2>2, <2>3, <2>4, <2>5
<1>8. ASSUME NEW r \in Reclaimers, Reclaim(r) PROVE FloorInv'
  <2>1. UNCHANGED <<ingested, floor, sess, rseq>>
        /\ (rd' = rd \/ (r \in Conns /\ rd' = [rd EXCEPT ![r] = "exited"]))
    BY <1>8, ReclaimMoves
  <2> QED BY <1>0, <1>1, <2>1 DEF FrameTypes
<1>9. CASE UNCHANGED <<ingested, floor, sess, rd, rseq>>
  BY <1>1, <1>9
<1>10. ASSUME NEW c \in Conns,
              \/ HandshakeFails(c) \/ AttachRefused(c) \/ Supersede(c)
              \/ Detach(c) \/ Disconnect(c) \/ SendAck(c) \/ WriterExits(c)
       PROVE  FloorInv'
  BY <1>9, <1>10 DEF HandshakeFails, AttachRefused, Supersede, Detach, Disconnect,
                     SendAck, WriterExits
<1>11. ASSUME NEW s \in Sessions, PipeFails(s) \/ PipeStops(s) \/ Reap(s) PROVE FloorInv'
  BY <1>9, <1>11 DEF PipeFails, PipeStops, Reap
<1>12. CASE UNCHANGED vars
  BY <1>9, <1>12 DEF vars
<1> QED BY <1>2, <1>3, <1>4, <1>5, <1>6, <1>7, <1>8, <1>10, <1>11, <1>12
        DEF Next, Handler, Reader

(* What Delete, Close, Shut and Fold do to the goroutine's own place.      *)
LEMMA ReclaimSteps ==
  ASSUME NEW r \in Reclaimers, Reclaim(r)
  PROVE  /\ step[r] # "none"
         /\ \E l \in {"none", "close", "shut", "fold"} : step' = [step EXCEPT ![r] = l]
         /\ \/ UNCHANGED pipe
            \/ r \in Sessions /\ pipe' = [pipe EXCEPT ![r] = "returned"]
               /\ step' = [step EXCEPT ![r] = "none"]
         /\ \/ UNCHANGED rd
            \/ r \in Conns /\ rd' = [rd EXCEPT ![r] = "exited"]
               /\ step' = [step EXCEPT ![r] = "none"]
<1> USE DEF sessVars, connVars, loopVars
<1>1. CASE Delete(r)
  BY <1>1 DEF Delete, Finish
<1>2. CASE Close(r) \/ Shut(r)
  BY <1>2 DEF Close, Shut
<1>3. CASE Fold(r)
  BY <1>3 DEF Fold, Finish
<1> QED BY <1>1, <1>2, <1>3 DEF Reclaim

(* The types reclaim is about.                                             *)
ReclaimTypes ==
  /\ created \subseteq Sessions /\ inMap \subseteq created /\ closed \subseteq created
  /\ pipe \in [Sessions -> {"none", "running", "failed", "returned"}]
  /\ rd \in [Conns -> {"none", "read", "got", "admit", "ingest", "stop", "exited"}]
  /\ sess \in [Conns -> Sessions \cup {None}]
  /\ step \in [Reclaimers -> {"none", "delete", "close", "shut", "fold"}]
  /\ target \in Sessions \cup {None} /\ reclaimed \in [Sessions -> Nat]

LEMMA ReclaimTypesHold == SessionInv => ReclaimTypes
BY DEF SessionInv, TypeOK, ReclaimTypes

LEMMA StepStep == SessionInv /\ [Next]_vars => StepInv'
<1> SUFFICES ASSUME SessionInv, [Next]_vars PROVE StepInv'
  OBVIOUS
<1> USE SessionAssumption DEF StepInv, Reclaimers, sessVars, connVars, loopVars
<1>0. StepInv /\ ReclaimTypes /\ LoopsInv
  BY ReclaimTypesHold DEF SessionInv
<1>1. ASSUME NEW c \in Conns, NEW s \in Sessions, NEW e \in 0 .. MaxEpoch,
             NEW expired \in BOOLEAN, ResolveNew(c, s, expired, e)
      PROVE  StepInv'
  BY <1>0, <1>1 DEF ResolveNew, ReclaimTypes
<1>2. ASSUME NEW c \in Conns, Bind(c) PROVE StepInv'
  BY <1>0, <1>2 DEF Bind, MayBind, LoopsInv, ReclaimTypes
<1>3. ASSUME NEW c \in Conns, NEW q \in 0 .. MaxSeq, ReadFrame(c, q) PROVE StepInv'
  BY <1>0, <1>3 DEF ReadFrame, ReclaimTypes
<1>4. ASSUME NEW c \in Conns, Reader(c) PROVE StepInv'
  <2>1. /\ rd[c] # "stop" /\ UNCHANGED <<created, pipe, target>>
        /\ \E l \in {"read", "admit", "stop", "ingest", "exited"} : rd' = [rd EXCEPT ![c] = l]
    BY <1>4 DEF Reader, ReadFails, CheckStale, Admit, Ingest, GotoRd
  <2>2. UNCHANGED step \/ (step' = [step EXCEPT ![c] = "delete"] /\ rd' = [rd EXCEPT ![c] = "stop"])
    BY <1>4 DEF Reader, ReadFails, CheckStale, Admit, Ingest, GotoRd
  <2> QED BY <1>0, <2>1, <2>2 DEF ReclaimTypes
<1>5. ASSUME NEW s \in Sessions, PipeFails(s) \/ PipeStops(s) PROVE StepInv'
  BY <1>0, <1>5 DEF PipeFails, PipeStops, ReclaimTypes
<1>6. ASSUME NEW s \in Sessions, Reap(s) PROVE StepInv'
  BY <1>0, <1>6 DEF Reap, ReclaimTypes
<1>7. ASSUME NEW r \in Reclaimers, Reclaim(r) PROVE StepInv'
  <2>1. UNCHANGED <<created, target>>
    BY <1>7, ReclaimMoves
  <2>2. \A c \in Conns : step'[c] # "none" => rd'[c] = "stop"
    BY <1>0, <1>7, ReclaimSteps DEF ReclaimTypes
  <2>3. \A s \in Sessions : /\ step'[s] # "none" => pipe'[s] = "failed"
                            /\ pipe'[s] # "none" => s \in created
    BY <1>0, <1>7, ReclaimSteps DEF ReclaimTypes
  <2>4. step'[Reaper] # "none" => target \in created
    BY <1>0, <1>7, ReclaimSteps DEF ReclaimTypes
  <2> QED BY <2>1, <2>2, <2>3, <2>4
<1>8. CASE UNCHANGED <<created, step, rd, pipe, target>>
  BY <1>0, <1>8
<1>9. ASSUME NEW c \in Conns,
             \/ HandshakeFails(c) \/ AttachRefused(c) \/ Supersede(c)
             \/ Detach(c) \/ Disconnect(c) \/ SendAck(c) \/ WriterExits(c)
             \/ \E s \in Sessions, e \in 0 .. MaxEpoch : ResolveKnown(c, s, e)
      PROVE  StepInv'
  BY <1>8, <1>9 DEF HandshakeFails, AttachRefused, Supersede, Detach, Disconnect,
                    SendAck, WriterExits, ResolveKnown
<1>10. CASE UNCHANGED vars
  BY <1>8, <1>10 DEF vars
<1> QED BY <1>1, <1>2, <1>3, <1>4, <1>5, <1>6, <1>7, <1>9, <1>10 DEF Next, Handler

(* Steps that move no goroutine into, through or out of the part of        *)
(* reclaim after the deletion, nor touch what it counts.                   *)
LEMMA ReclaimKept ==
  ASSUME SessionInv, UNCHANGED <<inMap, created, closed, reclaimed>>,
         \A r \in Reclaimers : Busy(r)' <=> Busy(r),
         \A r \in Reclaimers : Busy(r) => step'[r] = step[r] /\ Target(r)' = Target(r)
  PROVE  ReclaimInv'
BY DEF SessionInv, ReclaimInv, Busy

(* Where a goroutine's step cannot be told to lead, its session stays.     *)
LEMMA TargetKept ==
  ASSUME UNCHANGED <<sess, target>>
  PROVE  \A r \in Reclaimers : Target(r)' = Target(r)
BY DEF Target

LEMMA ReclaimStep == SessionInv /\ [Next]_vars => ReclaimInv'
<1> SUFFICES ASSUME SessionInv, [Next]_vars PROVE ReclaimInv'
  OBVIOUS
<1> USE SessionAssumption DEF sessVars, connVars, loopVars
<1>0. ReclaimInv /\ ReclaimTypes /\ LoopsInv /\ StepInv
  BY ReclaimTypesHold DEF SessionInv
<1>1. ASSUME NEW c \in Conns, UNCHANGED step, UNCHANGED target, rd[c] = "none",
             \A d \in Conns \ {c} : sess'[d] = sess[d]
      PROVE  /\ \A r \in Reclaimers : Busy(r)' <=> Busy(r)
             /\ \A r \in Reclaimers : Busy(r) => step'[r] = step[r] /\ Target(r)' = Target(r)
  <2>1. \A r \in Reclaimers : (Busy(r)' <=> Busy(r)) /\ step'[r] = step[r]
    BY <1>1 DEF Busy
  <2>2. ASSUME NEW r \in Reclaimers, Busy(r) PROVE Target(r)' = Target(r)
    <3>1. r # c
      BY <1>0, <1>1, <2>2 DEF Busy, StepInv
    <3> QED BY <1>1, <3>1 DEF Target, Reclaimers
  <2> QED BY <2>1, <2>2
<1>2. ASSUME NEW c \in Conns, NEW s \in Sessions, NEW e \in 0 .. MaxEpoch,
             ResolveKnown(c, s, e)
      PROVE  ReclaimInv'
  <2>1. /\ UNCHANGED <<step, target, inMap, created, closed, reclaimed>> /\ rd[c] = "none"
        /\ \A d \in Conns \ {c} : sess'[d] = sess[d]
    BY <1>0, <1>2 DEF ResolveKnown, ReclaimTypes, LoopsInv
  <2> QED BY <1>1, <2>1, ReclaimKept
<1>3. ASSUME NEW c \in Conns, NEW s \in Sessions, NEW e \in 0 .. MaxEpoch,
             NEW expired \in BOOLEAN, ResolveNew(c, s, expired, e)
      PROVE  ReclaimInv'
  <2>1. /\ UNCHANGED <<step, target, closed, reclaimed>> /\ rd[c] = "none"
        /\ \A d \in Conns \ {c} : sess'[d] = sess[d]
        /\ inMap' = inMap \cup {s} /\ created' = created \cup {s} /\ s \notin created
    BY <1>0, <1>3 DEF ResolveNew, ReclaimTypes, LoopsInv
  <2>2. created' \ inMap' = created \ inMap
    BY <1>0, <2>1 DEF ReclaimTypes
  <2>3. /\ \A r \in Reclaimers : Busy(r)' <=> Busy(r)
        /\ \A r \in Reclaimers : Busy(r) => step'[r] = step[r] /\ Target(r)' = Target(r)
    BY <1>1, <2>1
  <2>4. \A r \in Reclaimers : step[r] = "shut" => Busy(r)
    BY DEF Busy
  <2> QED BY <1>0, <2>1, <2>2, <2>3, <2>4 DEF ReclaimInv
<1>4. ASSUME NEW r \in Reclaimers, step[r] = "none", step' = [step EXCEPT ![r] = "delete"],
             UNCHANGED <<inMap, created, closed, reclaimed, sess>>,
             r = Reaper \/ UNCHANGED target
      PROVE  ReclaimInv'
  <2>1. \A q \in Reclaimers : /\ Busy(q)' <=> Busy(q)
                              /\ Busy(q) => q # r /\ step'[q] = step[q]
    BY <1>0, <1>4 DEF Busy, ReclaimTypes
  <2>2. \A q \in Reclaimers : q # r => Target(q)' = Target(q)
    BY <1>4 DEF Target, Reclaimers
  <2> QED BY <2>1, <2>2, <1>4, ReclaimKept
<1>5. CASE UNCHANGED <<inMap, created, closed, reclaimed, step, sess, target>>
  <2>1. \A r \in Reclaimers : (Busy(r)' <=> Busy(r)) /\ Target(r)' = Target(r)
    BY <1>5, TargetKept DEF Busy
  <2> QED BY <1>5, <2>1, ReclaimKept
<1>6. ASSUME NEW c \in Conns, Reader(c) PROVE ReclaimInv'
  <2>1. UNCHANGED <<inMap, created, closed, reclaimed, sess, target>>
    BY <1>6 DEF Reader, ReadFails, CheckStale, Admit, Ingest
  <2>2. step[c] = "none" /\ c \in Reclaimers
    BY <1>0, <1>6, ReaderMoves DEF StepInv, Reclaimers
  <2>3. UNCHANGED step \/ step' = [step EXCEPT ![c] = "delete"]
    BY <1>6 DEF Reader, ReadFails, CheckStale, Admit, Ingest
  <2> QED BY <1>4, <1>5, <2>1, <2>2, <2>3
<1>7. ASSUME NEW s \in Sessions, PipeFails(s) PROVE ReclaimInv'
  <2>1. step[s] = "none" /\ s \in Reclaimers
    BY <1>0, <1>7 DEF PipeFails, StepInv, Reclaimers
  <2> QED BY <1>4, <1>7, <2>1 DEF PipeFails
<1>8. ASSUME NEW s \in Sessions, Reap(s) PROVE ReclaimInv'
  <2>1. step[Reaper] = "none" /\ Reaper \in Reclaimers
    BY <1>8 DEF Reap, Reclaimers
  <2> QED BY <1>4, <1>8, <2>1 DEF Reap
<1>9. ASSUME NEW r \in Reclaimers, Reclaim(r) PROVE ReclaimInv'
  <2> DEFINE t == Target(r)
  <2>1. t \in created /\ t \in Sessions /\ step[r] # "none"
    BY <1>9, ReclaimSteps, TargetCreated
  <2>2. \A q \in Reclaimers : Target(q)' = Target(q)
    BY <1>9, ReclaimMoves, TargetKept
  <2>3. UNCHANGED created
    BY <1>9, ReclaimMoves
  <2>4. \A q \in Reclaimers : q # r => step'[q] = step[q] /\ (Busy(q)' <=> Busy(q))
    BY <1>0, <1>9, ReclaimSteps DEF Busy, ReclaimTypes
  <2> HIDE DEF t
  <2>5. CASE Delete(r) /\ t \in inMap
    <3>1. /\ inMap' = inMap \ {t} /\ step' = [step EXCEPT ![r] = "close"]
          /\ UNCHANGED <<closed, reclaimed>> /\ step[r] = "delete"
      BY <2>5 DEF Delete, t
    <3>2. Busy(r)' /\ step'[r] = "close" /\ ~Busy(r)
      BY <1>0, <3>1 DEF Busy, ReclaimTypes
    <3>3. reclaimed[t] = 0 /\ \A q \in Reclaimers : Busy(q) => Target(q) # t
      BY <1>0, <2>1, <2>5 DEF ReclaimInv
    <3>4. created' \ inMap' = (created \ inMap) \cup {t}
      BY <2>1, <2>3, <2>5, <3>1
    <3>5. \A q \in Reclaimers : Busy(q)' => q = r \/ Busy(q)
      BY <2>4
    <3>6. Target(r) = t
      BY DEF t
    <3>7. \A q \in Reclaimers : Busy(q)' =>
            Target(q)' \in created' \ inMap' /\ reclaimed'[Target(q)'] = 0
      BY <1>0, <2>2, <3>1, <3>3, <3>4, <3>5, <3>6 DEF ReclaimInv
    <3>8. \A q, p \in Reclaimers : Busy(q)' /\ Busy(p)' /\ Target(q)' = Target(p)' => q = p
      BY <1>0, <2>2, <3>3, <3>5, <3>6 DEF ReclaimInv
    <3>9. \A q \in Reclaimers : step'[q] = "shut" => Target(q)' \in closed'
      BY <1>0, <2>2, <2>4, <3>1, <3>2 DEF ReclaimInv
    <3>10. \A s \in created' \ inMap' :
             reclaimed'[s] = 1 \/ \E q \in Reclaimers : Busy(q)' /\ Target(q)' = s
      <4>1. ASSUME NEW s \in created \ inMap, reclaimed[s] # 1
            PROVE  \E q \in Reclaimers : Busy(q)' /\ Target(q)' = s
        <5>1. PICK q \in Reclaimers : Busy(q) /\ Target(q) = s
          BY <1>0, <4>1 DEF ReclaimInv
        <5> QED BY <2>2, <2>4, <3>2, <5>1
      <4> QED BY <2>2, <3>1, <3>2, <3>4, <3>6, <4>1
    <3>11. \A s \in Sessions \ (created' \ inMap') : reclaimed'[s] = 0 /\ s \notin closed'
      BY <1>0, <3>1, <3>4 DEF ReclaimInv
    <3> QED BY <1>0, <3>1, <3>7, <3>8, <3>9, <3>10, <3>11 DEF ReclaimInv
  <2>6. CASE Delete(r) /\ t \notin inMap
    <3>1. /\ UNCHANGED <<inMap, closed, reclaimed>> /\ step[r] = "delete"
          /\ step' = [step EXCEPT ![r] = "none"]
      BY <2>6 DEF Delete, Finish, t
    <3>2. ~Busy(r)' /\ ~Busy(r)
      BY <1>0, <3>1 DEF Busy, ReclaimTypes
    <3> QED BY <2>2, <2>3, <2>4, <3>1, <3>2, ReclaimKept
  <2>7. CASE Close(r) \/ Shut(r)
    <3>1. /\ UNCHANGED <<inMap, reclaimed>> /\ closed \subseteq closed'
          /\ closed' \subseteq closed \cup {t} /\ Busy(r)
          /\ \E l \in {"shut", "fold"} : step' = [step EXCEPT ![r] = l]
      BY <2>7 DEF Close, Shut, Busy, t
    <3>2. Busy(r)' /\ \A q \in Reclaimers : Busy(q)' <=> Busy(q)
      BY <1>0, <2>4, <3>1 DEF Busy, ReclaimTypes
    <3>3. step'[r] = "shut" => t \in closed'
      BY <1>0, <2>7 DEF Close, Shut, ReclaimTypes, t
    <3>4. \A q \in Reclaimers : step'[q] = "shut" => Target(q)' \in closed'
      BY <1>0, <2>2, <2>4, <3>1, <3>3 DEF ReclaimInv, t
    <3>5. t \in created \ inMap
      BY <1>0, <3>1 DEF ReclaimInv, t
    <3>6. \A s \in Sessions \ (created' \ inMap') : reclaimed'[s] = 0 /\ s \notin closed'
      BY <1>0, <2>3, <3>1, <3>5 DEF ReclaimInv
    <3>7. \A s \in created' \ inMap' :
            reclaimed'[s] = 1 \/ \E q \in Reclaimers : Busy(q)' /\ Target(q)' = s
      BY <1>0, <2>2, <2>3, <3>1, <3>2 DEF ReclaimInv
    <3> QED BY <1>0, <2>2, <2>3, <3>1, <3>2, <3>4, <3>6, <3>7 DEF ReclaimInv
  <2>8. CASE Fold(r)
    <3>1. /\ UNCHANGED <<inMap, closed>> /\ step[r] = "fold"
          /\ step' = [step EXCEPT ![r] = "none"]
          /\ reclaimed' = [reclaimed EXCEPT ![t] = reclaimed[t] + 1]
      BY <2>8 DEF Fold, Finish, t
    <3>2. ~Busy(r)' /\ Busy(r) /\ step'[r] = "none"
      BY <1>0, <3>1 DEF Busy, ReclaimTypes
    <3>3. t \in created \ inMap /\ reclaimed[t] = 0
      BY <1>0, <3>2 DEF ReclaimInv, t
    <3>4. reclaimed'[t] = 1 /\ \A s \in Sessions \ {t} : reclaimed'[s] = reclaimed[s]
      BY <1>0, <2>1, <3>1, <3>3 DEF ReclaimTypes
    <3>5. \A q \in Reclaimers : Busy(q)' => Busy(q) /\ Target(q) # t /\ Target(q) \in Sessions
      BY <1>0, <2>4, <3>2 DEF ReclaimInv, t, ReclaimTypes
    <3>6. \A q \in Reclaimers : Busy(q)' =>
            Target(q)' \in created' \ inMap' /\ reclaimed'[Target(q)'] = 0
      BY <1>0, <2>2, <2>3, <3>1, <3>4, <3>5 DEF ReclaimInv
    <3>7. \A q, p \in Reclaimers : Busy(q)' /\ Busy(p)' /\ Target(q)' = Target(p)' => q = p
      BY <1>0, <2>2, <3>5 DEF ReclaimInv
    <3>8. \A q \in Reclaimers : step'[q] = "shut" => Target(q)' \in closed'
      BY <1>0, <2>2, <2>4, <3>1, <3>2 DEF ReclaimInv
    <3>9. \A s \in created' \ inMap' :
            reclaimed'[s] = 1 \/ \E q \in Reclaimers : Busy(q)' /\ Target(q)' = s
      <4>1. ASSUME NEW s \in (created \ inMap) \ {t}, reclaimed[s] # 1
            PROVE  \E q \in Reclaimers : Busy(q)' /\ Target(q)' = s
        <5>1. PICK q \in Reclaimers : Busy(q) /\ Target(q) = s
          BY <1>0, <4>1 DEF ReclaimInv
        <5>2. q # r
          BY <4>1, <5>1 DEF t
        <5> QED BY <2>2, <2>4, <5>1, <5>2
      <4>2. \A s \in (created \ inMap) \ {t} : reclaimed'[s] = reclaimed[s]
        BY <1>0, <3>4 DEF ReclaimTypes
      <4> QED BY <2>3, <3>1, <3>4, <4>1, <4>2
    <3>10. \A s \in Sessions \ (created' \ inMap') : reclaimed'[s] = 0 /\ s \notin closed'
      BY <1>0, <2>3, <3>1, <3>3, <3>4 DEF ReclaimInv
    <3>11. \A s \in Sessions : reclaimed'[s] \in {0, 1}
      BY <1>0, <3>4 DEF ReclaimInv
    <3> QED BY <3>6, <3>7, <3>8, <3>9, <3>10, <3>11 DEF ReclaimInv
  <2> QED BY <1>9, <2>5, <2>6, <2>7, <2>8 DEF Reclaim
<1>10. ASSUME NEW c \in Conns,
             \/ HandshakeFails(c) \/ AttachRefused(c) \/ Supersede(c) \/ Bind(c)
             \/ Detach(c) \/ Disconnect(c) \/ SendAck(c) \/ WriterExits(c)
             \/ \E q \in 0 .. MaxSeq : ReadFrame(c, q)
      PROVE  ReclaimInv'
  BY <1>5, <1>10 DEF HandshakeFails, AttachRefused, Supersede, Bind, Detach, Disconnect,
                     SendAck, WriterExits, ReadFrame
<1>11. ASSUME NEW s \in Sessions, PipeStops(s) PROVE ReclaimInv'
  BY <1>5, <1>11 DEF PipeStops
<1>12. CASE UNCHANGED vars
  BY <1>5, <1>12 DEF vars
<1> QED BY <1>2, <1>3, <1>6, <1>7, <1>8, <1>9, <1>10, <1>11, <1>12 DEF Next, Handler

LEMMA SessionStep == SessionInv /\ [Next]_vars => SessionInv'
BY TypeStep, LoopsStep, LockStep, AttachStep, FloorStep, StepStep, ReclaimStep
   DEF SessionInv

LEMMA SessionInvariant == Spec => []SessionInv
<1> QED BY SessionInit, SessionStep, PTL DEF Spec

(* Every variable keeps its type: a mutex and an attachment slot hold a    *)
(* connection or nothing, only handed-out sessions are in the map, only    *)
(* closed ones have their context cancelled.                               *)
THEOREM SessionTypes == Spec => []TypeOK
<1>1. SessionInv => TypeOK
  BY DEF SessionInv
<1> QED BY SessionInvariant, <1>1, PTL

(* A session never has two readers, whatever number of connections claim   *)
(* it: attach keeps the mutex until the reader it supersedes has exited.   *)
THEOREM OneReader == Spec => []SingleReader
<1>1. SessionInv => SingleReader
  BY DEF SessionInv, AttachInv, SingleReader
<1> QED BY SessionInvariant, <1>1, PTL
-----------------------------------------------------------------------------
(* Only Ingest hands a frame to the controller.                            *)
LEMMA OnlyIngest ==
  ASSUME [Next]_vars, \A c \in Conns : ~Ingest(c)
  PROVE  UNCHANGED ingested
<1> USE DEF sessVars, connVars, loopVars
<1>1. ASSUME NEW c \in Conns, Handler(c) \/ Detach(c) \/ Disconnect(c) PROVE UNCHANGED ingested
  BY <1>1 DEF Handler, HandshakeFails, ResolveKnown, ResolveNew, AttachRefused, Supersede,
              Bind, Detach, Disconnect
<1>2. ASSUME NEW c \in Conns,
             ReadFails(c) \/ CheckStale(c) \/ Admit(c) \/ SendAck(c) \/ WriterExits(c)
      PROVE  UNCHANGED ingested
  BY <1>2 DEF ReadFails, CheckStale, Admit, SendAck, WriterExits
<1>3. ASSUME NEW c \in Conns, NEW q \in 0 .. MaxSeq, ReadFrame(c, q) PROVE UNCHANGED ingested
  BY <1>3 DEF ReadFrame
<1>4. ASSUME NEW s \in Sessions, PipeFails(s) \/ PipeStops(s) \/ Reap(s)
      PROVE  UNCHANGED ingested
  BY <1>4 DEF PipeFails, PipeStops, Reap
<1>5. ASSUME NEW r \in Reclaimers, Reclaim(r) PROVE UNCHANGED ingested
  BY <1>5, ReclaimMoves
<1>6. CASE UNCHANGED vars
  BY <1>6 DEF vars
<1> QED BY <1>1, <1>2, <1>3, <1>4, <1>5, <1>6 DEF Next, Reader

LEMMA OrderStep == SessionInv /\ IngestedInOrder /\ [Next]_vars => IngestedInOrder'
<1> SUFFICES ASSUME SessionInv, IngestedInOrder, [Next]_vars PROVE IngestedInOrder'
  OBVIOUS
<1>1. ASSUME NEW c \in Conns, Ingest(c) PROVE IngestedInOrder'
  <2> DEFINE s == sess[c]
             n == Len(ingested[s])
  <2>1. /\ s \in Sessions /\ n \in Nat /\ DOMAIN ingested[s] = 1 .. n
        /\ DOMAIN ingested'[s] = 1 .. n + 1
        /\ ingested'[s][n + 1].seq = rseq[c]
        /\ \A i \in 1 .. n : ingested'[s][i] = ingested[s][i]
        /\ \A t \in Sessions \ {s} : ingested'[t] = ingested[t]
    BY <1>1, IngestAppends
  <2>2. \A i \in 1 .. n : ingested[s][i].seq < rseq[c]
    BY <1>1, <2>1 DEF Ingest, SessionInv, FloorInv
  <2>3. \A i, j \in 1 .. n : i < j => ingested[s][i].seq < ingested[s][j].seq
    BY <2>1 DEF IngestedInOrder
  <2> HIDE DEF s, n
  <2>4. ASSUME NEW i \in 1 .. n + 1, NEW j \in 1 .. n + 1, i < j
        PROVE  ingested'[s][i].seq < ingested'[s][j].seq
    <3>1. i \in 1 .. n
      BY <2>1, <2>4
    <3>2. CASE j \in 1 .. n
      BY <2>1, <2>3, <2>4, <3>1, <3>2
    <3>3. CASE j = n + 1
      BY <2>1, <2>2, <3>1, <3>3
    <3> QED BY <2>1, <3>2, <3>3
  <2>5. \A t \in Sessions : \A i, j \in DOMAIN ingested'[t] :
          i < j => ingested'[t][i].seq < ingested'[t][j].seq
    <3>1. ASSUME NEW t \in Sessions \ {s}
          PROVE  \A i, j \in DOMAIN ingested'[t] :
                   i < j => ingested'[t][i].seq < ingested'[t][j].seq
      BY <2>1, <3>1 DEF IngestedInOrder
    <3> QED BY <2>1, <2>4, <3>1
  <2> QED BY <2>5 DEF IngestedInOrder
<1>2. CASE UNCHANGED ingested
  BY <1>2 DEF IngestedInOrder
<1> QED BY <1>1, <1>2, OnlyIngest

(* The frames of a session reach the controller with strictly increasing   *)
(* numbers, through any number of reconnections, replays and takeovers.    *)
THEOREM FramesInOrder == Spec => []IngestedInOrder
<1>1. Init => IngestedInOrder
  BY DEF Init, IngestedInOrder
<1> QED BY <1>1, OrderStep, SessionInvariant, PTL DEF Spec
-----------------------------------------------------------------------------
(* A frame came from a connection that is, or was, attached, so the epoch  *)
(* it came under is settled.                                               *)
FramesInv ==
  \A s \in Sessions : \A i \in DOMAIN ingested[s] :
    ingested[s][i].conn \in Conns /\ Attached(ingested[s][i].conn)

AckInv == AckCoversTheOld /\ FramesInv

(* Once attached, a connection keeps its session and its epoch.            *)
LEMMA AttachedStays ==
  ASSUME SessionInv, [Next]_vars, NEW c \in Conns, Attached(c)
  PROVE  Attached(c)' /\ sess'[c] = sess[c] /\ claim'[c] = claim[c]
<1> USE DEF sessVars, connVars, loopVars, Attached
<1>0. FrameTypes /\ LoopsInv
  BY FrameTypesHold DEF SessionInv
<1>1. ASSUME NEW d \in Conns, NEW s \in Sessions, NEW e \in 0 .. MaxEpoch,
             ResolveKnown(d, s, e) \/ \E expired \in BOOLEAN : ResolveNew(d, s, expired, e)
      PROVE  rd' = rd /\ sess'[c] = sess[c] /\ claim'[c] = claim[c]
  <2>1. c # d
    BY <1>0, <1>1 DEF ResolveKnown, ResolveNew, LoopsInv
  <2> QED BY <1>0, <1>1, <2>1 DEF ResolveKnown, ResolveNew, FrameTypes
<1>2. ASSUME NEW d \in Conns,
             \/ HandshakeFails(d) \/ AttachRefused(d) \/ Supersede(d)
             \/ Detach(d) \/ Disconnect(d) \/ SendAck(d) \/ WriterExits(d)
      PROVE  UNCHANGED <<rd, sess, claim>>
  BY <1>2 DEF HandshakeFails, AttachRefused, Supersede, Detach, Disconnect, SendAck, WriterExits
<1>3. ASSUME NEW d \in Conns, NEW q \in 0 .. MaxSeq,
             Bind(d) \/ Reader(d) \/ ReadFrame(d, q)
      PROVE  /\ UNCHANGED <<sess, claim>>
             /\ \E l \in {"read", "got", "admit", "ingest", "stop", "exited"} :
                  rd' = [rd EXCEPT ![d] = l]
  BY <1>3, ReaderMoves DEF Bind, ReadFrame
<1>4. ASSUME NEW s \in Sessions, PipeFails(s) \/ PipeStops(s) \/ Reap(s)
      PROVE  UNCHANGED <<rd, sess, claim>>
  BY <1>4 DEF PipeFails, PipeStops, Reap
<1>5. ASSUME NEW r \in Reclaimers, Reclaim(r)
      PROVE  /\ UNCHANGED <<sess, claim>>
             /\ rd' = rd \/ (r \in Conns /\ rd' = [rd EXCEPT ![r] = "exited"])
  BY <1>5, ReclaimMoves
<1>6. CASE UNCHANGED vars
  BY <1>6 DEF vars
<1>7. ASSUME NEW d \in Conns, NEW q \in 0 .. MaxSeq,
             Bind(d) \/ Reader(d) \/ ReadFrame(d, q)
      PROVE  rd'[c] # "none" /\ sess'[c] = sess[c] /\ claim'[c] = claim[c]
  BY <1>0, <1>3, <1>7 DEF FrameTypes
<1>8. ASSUME NEW r \in Reclaimers, Reclaim(r)
      PROVE  rd'[c] # "none" /\ sess'[c] = sess[c] /\ claim'[c] = claim[c]
  BY <1>0, <1>5, <1>8 DEF FrameTypes
<1>9. 0 \in 0 .. MaxSeq
  BY SessionAssumption
<1> QED BY <1>1, <1>2, <1>4, <1>6, <1>7, <1>8, <1>9 DEF Next, Handler

(* Only SendAck sends an ack.                                              *)
LEMMA OnlySendAck ==
  ASSUME SessionInv, [Next]_vars, \A c \in Conns : ~SendAck(c)
  PROVE  /\ UNCHANGED ack
         /\ \A c \in Conns : wr'[c] \in {"loop", "exited"} => wr[c] \in {"loop", "exited"}
<1> USE DEF sessVars, connVars, loopVars
<1>0. FrameTypes
  BY FrameTypesHold
<1> DEFINE Goal == /\ UNCHANGED ack
                   /\ \A c \in Conns : wr'[c] \in {"loop", "exited"} => wr[c] \in {"loop", "exited"}
<1>1. CASE UNCHANGED <<ack, wr>>
  BY <1>1
<1>2. ASSUME NEW c \in Conns,
             \/ HandshakeFails(c) \/ AttachRefused(c) \/ Supersede(c)
             \/ \E s \in Sessions, e \in 0 .. MaxEpoch :
                  ResolveKnown(c, s, e) \/ \E expired \in BOOLEAN : ResolveNew(c, s, expired, e)
      PROVE  Goal
  BY <1>1, <1>2 DEF HandshakeFails, AttachRefused, Supersede, ResolveKnown, ResolveNew
<1>3. ASSUME NEW c \in Conns, NEW q \in 0 .. MaxSeq,
             Detach(c) \/ Disconnect(c) \/ Reader(c) \/ ReadFrame(c, q)
      PROVE  Goal
  BY <1>1, <1>3, ReaderMoves DEF Detach, Disconnect, ReadFrame
<1>4. ASSUME NEW c \in Conns, Bind(c) PROVE Goal
  BY <1>0, <1>4 DEF Bind, FrameTypes
<1>5. ASSUME NEW c \in Conns, WriterExits(c) PROVE Goal
  BY <1>0, <1>5 DEF WriterExits, FrameTypes
<1>6. ASSUME NEW s \in Sessions, PipeFails(s) \/ PipeStops(s) \/ Reap(s) PROVE Goal
  BY <1>1, <1>6 DEF PipeFails, PipeStops, Reap
<1>7. ASSUME NEW r \in Reclaimers, Reclaim(r) PROVE Goal
  BY <1>1, <1>7, ReclaimMoves
<1>8. CASE UNCHANGED vars
  BY <1>1, <1>8 DEF vars
<1>9. 0 \in 0 .. MaxSeq
  BY SessionAssumption
<1> QED BY <1>2, <1>3, <1>4, <1>5, <1>6, <1>7, <1>8, <1>9 DEF Next, Handler

LEMMA FramesStep == SessionInv /\ FramesInv /\ [Next]_vars => FramesInv'
<1> SUFFICES ASSUME SessionInv, FramesInv, [Next]_vars PROVE FramesInv'
  OBVIOUS
<1>1. ASSUME NEW s \in Sessions, NEW i \in DOMAIN ingested[s]
      PROVE  ingested[s][i].conn \in Conns /\ rd'[ingested[s][i].conn] # "none"
  <2>1. ingested[s][i].conn \in Conns /\ Attached(ingested[s][i].conn)
    BY DEF FramesInv
  <2>2. \A c \in Conns : Attached(c) => rd'[c] # "none"
    BY AttachedStays DEF Attached
  <2> QED BY <2>1, <2>2
<1>2. CASE UNCHANGED ingested
  BY <1>1, <1>2 DEF FramesInv, Attached
<1>3. ASSUME NEW c \in Conns, Ingest(c) PROVE FramesInv'
  <2> DEFINE s == sess[c]
             n == Len(ingested[s])
  <2>1. /\ s \in Sessions /\ n \in Nat /\ DOMAIN ingested[s] = 1 .. n
        /\ DOMAIN ingested'[s] = 1 .. n + 1
        /\ ingested'[s][n + 1].conn = c
        /\ \A i \in 1 .. n : ingested'[s][i] = ingested[s][i]
        /\ \A t \in Sessions \ {s} : ingested'[t] = ingested[t]
    BY <1>3, IngestAppends
  <2>2. rd'[c] # "none"
    BY <1>3, AttachedStays DEF Ingest, Attached
  <2> HIDE DEF s, n
  <2>3. ASSUME NEW i \in 1 .. n + 1
        PROVE  ingested'[s][i].conn \in Conns /\ rd'[ingested'[s][i].conn] # "none"
    <3>1. CASE i \in 1 .. n
      BY <1>1, <2>1, <3>1
    <3>2. CASE i = n + 1
      BY <2>1, <2>2, <3>2
    <3> QED BY <2>1, <3>1, <3>2
  <2>4. ASSUME NEW t \in Sessions, NEW i \in DOMAIN ingested'[t]
        PROVE  ingested'[t][i].conn \in Conns /\ rd'[ingested'[t][i].conn] # "none"
    BY <1>1, <2>1, <2>3, <2>4
  <2> QED BY <2>4 DEF FramesInv, Attached
<1> QED BY <1>2, <1>3, OnlyIngest

LEMMA AckStep == SessionInv /\ AckInv /\ [Next]_vars => AckCoversTheOld'
<1> SUFFICES ASSUME SessionInv, AckInv, [Next]_vars,
                    NEW c \in Conns, wr'[c] \in {"loop", "exited"},
                    NEW i \in DOMAIN ingested'[sess'[c]],
                    claim'[ingested'[sess'[c]][i].conn] < claim'[c]
             PROVE  ingested'[sess'[c]][i].seq <= ack'[c]
  BY DEF AckCoversTheOld
<1> DEFINE s == sess[c]
<1>1. FrameTypes /\ FloorInv /\ FramesInv
  BY FrameTypesHold DEF SessionInv, AckInv
<1>2. CASE \E d \in Conns : SendAck(d)
  <2>1. PICK d \in Conns : SendAck(d)
    BY <1>2
  <2>2. /\ UNCHANGED <<ingested, floor, sess, claim>> /\ ack'[d] = floor[sess[d]]
        /\ \A e \in Conns \ {d} : ack'[e] = ack[e] /\ wr'[e] = wr[e]
        /\ wr[d] # "none"
    BY <1>1, <2>1 DEF SendAck, FrameTypes, sessVars, connVars
  <2>3. sess[d] \in Sessions
    BY <2>2 DEF SessionInv, TypeOK, LoopsInv
  <2>4. CASE c = d
    BY <1>1, <2>2, <2>3, <2>4 DEF FloorInv
  <2>5. CASE c # d
    BY <1>1, <2>2, <2>5 DEF AckInv, AckCoversTheOld
  <2> QED BY <2>4, <2>5
<1>3. CASE \A d \in Conns : ~SendAck(d)
  <2>1. wr[c] \in {"loop", "exited"} /\ ack'[c] = ack[c]
    BY <1>3, OnlySendAck
  <2>2. Attached(c) /\ s \in Sessions
    BY <2>1 DEF SessionInv, LoopsInv, Attached, TypeOK
  <2>3. sess'[c] = s /\ claim'[c] = claim[c]
    BY <2>2, AttachedStays
  <2>4. \A j \in DOMAIN ingested[s] :
          /\ claim'[ingested[s][j].conn] = claim[ingested[s][j].conn]
          /\ claim[ingested[s][j].conn] < claim[c] => ingested[s][j].seq <= ack[c]
    <3>1. ASSUME NEW j \in DOMAIN ingested[s]
          PROVE  claim'[ingested[s][j].conn] = claim[ingested[s][j].conn]
      <4>1. ingested[s][j].conn \in Conns /\ Attached(ingested[s][j].conn)
        BY <1>1, <2>2 DEF FramesInv
      <4> QED BY <4>1, AttachedStays
    <3>2. \A j \in DOMAIN ingested[s] :
            claim[ingested[s][j].conn] < claim[c] => ingested[s][j].seq <= ack[c]
      BY <2>1 DEF AckInv, AckCoversTheOld
    <3> QED BY <3>1, <3>2
  <2> HIDE DEF s
  <2>5. CASE UNCHANGED ingested
    BY <2>1, <2>3, <2>4, <2>5
  <2>6. ASSUME NEW d \in Conns, Ingest(d) PROVE ingested'[sess'[c]][i].seq <= ack'[c]
    <3>1. UNCHANGED claim /\ Alive(d)
      BY <2>6 DEF Ingest, connVars, Alive, Attached
    <3>2. CASE sess[d] # s
      BY <2>1, <2>2, <2>3, <2>4, <2>6, <3>2, IngestAppends
    <3>3. CASE sess[d] = s
      <4>1. claim[d] = epoch[s] /\ claim[c] <= epoch[s]
        <5>1. AttachInv /\ s \in Sessions /\ d # None
          BY <2>2, SessionAssumption DEF SessionInv
        <5>2. att[s] = d
          BY <3>1, <3>3, <5>1 DEF AttachInv
        <5> QED BY <2>2, <5>1, <5>2 DEF AttachInv, s
      <4>2. ~(claim[d] < claim[c])
        BY <2>2, <4>1 DEF SessionInv, TypeOK
      <4> DEFINE n == Len(ingested[s])
      <4>3. /\ n \in Nat /\ DOMAIN ingested[s] = 1 .. n /\ DOMAIN ingested'[s] = 1 .. n + 1
            /\ ingested'[s][n + 1].conn = d
            /\ \A j \in 1 .. n : ingested'[s][j] = ingested[s][j]
        BY <2>6, <3>3, IngestAppends
      <4> HIDE DEF n
      <4>4. i # n + 1
        BY <2>3, <3>1, <4>2, <4>3
      <4>5. i \in 1 .. n
        BY <2>3, <4>3, <4>4
      <4> QED BY <2>1, <2>3, <2>4, <4>3, <4>5
    <3> QED BY <3>2, <3>3
  <2> QED BY <2>5, <2>6, OnlyIngest
<1> QED BY <1>2, <1>3

(* The resume point a client is told is exact: whatever a superseded       *)
(* connection still had in hand was ingested before, and is counted in it. *)
THEOREM ResumeExact == Spec => []AckCoversTheOld
<1>1. Init => AckInv
  BY DEF Init, AckInv, AckCoversTheOld, FramesInv
<1>2. AckInv => FramesInv /\ AckCoversTheOld
  BY DEF AckInv
<1>3. SessionInv /\ AckInv /\ [Next]_vars => AckInv'
  BY FramesStep, AckStep DEF AckInv
<1> QED BY <1>1, <1>2, <1>3, SessionInvariant, PTL DEF Spec
-----------------------------------------------------------------------------
(* However many goroutines reclaim a session at once, it is in the map and *)
(* open, or exactly one of them took it out and will count it, or it has   *)
(* been counted, once.                                                     *)
THEOREM MapInAgreement == Spec => []MapAgrees
<1>1. ASSUME SessionInv, NEW s \in created
      PROVE  LET at(l) == {r \in Reclaimers : step[r] = l /\ Target(r) = s}
                 busy == Cardinality(at("close") \cup at("shut") \cup at("fold"))
             IN  /\ s \in inMap => s \notin closed /\ reclaimed[s] = 0 /\ busy = 0
                 /\ s \notin inMap => busy + reclaimed[s] = 1
  <2> DEFINE at(l) == {r \in Reclaimers : step[r] = l /\ Target(r) = s}
             B == at("close") \cup at("shut") \cup at("fold")
  <2>1. s \in Sessions /\ reclaimed[s] \in {0, 1}
    BY <1>1 DEF SessionInv, TypeOK, ReclaimInv
  <2>2. B = {r \in Reclaimers : Busy(r) /\ Target(r) = s}
    BY DEF Busy
  <2> HIDE DEF B
  <2>3. CASE s \in inMap
    <3>1. B = {}
      BY <1>1, <2>2, <2>3 DEF SessionInv, ReclaimInv
    <3>2. Cardinality(B) = 0
      BY <3>1, FS_EmptySet
    <3>3. s \notin closed /\ reclaimed[s] = 0
      BY <1>1, <2>1, <2>3 DEF SessionInv, ReclaimInv
    <3> QED BY <1>1, <2>3, <3>2, <3>3 DEF B
  <2>4. CASE s \notin inMap /\ reclaimed[s] = 1
    <3>1. B = {}
      BY <1>1, <2>2, <2>4 DEF SessionInv, ReclaimInv
    <3>2. Cardinality(B) = 0
      BY <3>1, FS_EmptySet
    <3> QED BY <1>1, <2>4, <3>2 DEF B
  <2>5. CASE s \notin inMap /\ reclaimed[s] = 0
    <3>1. PICK r \in Reclaimers : Busy(r) /\ Target(r) = s
      BY <1>1, <2>5 DEF SessionInv, ReclaimInv
    <3>2. B = {r}
      BY <1>1, <2>2, <3>1 DEF SessionInv, ReclaimInv
    <3>3. Cardinality(B) = 1
      BY <3>2, FS_Singleton
    <3> QED BY <1>1, <2>5, <3>3 DEF B
  <2> QED BY <1>1, <2>1, <2>3, <2>4, <2>5
<1>2. SessionInv => MapAgrees
  BY <1>1 DEF MapAgrees
<1> QED BY SessionInvariant, <1>2, PTL
-----------------------------------------------------------------------------
(* How a takeover goes through, or does not: the safety half of            *)
(* TakeoverCompletes, for a waiter c and the attachment it supersedes.     *)
Waiting(c) == hpc[c] = "waitOld"
Old(c) == att[sess[c]]

(* The steps a reader that is told to end has before it, by where it is.   *)
ReaderAhead(l) ==
  CASE l = "got" -> 4 [] l = "admit" -> 3 [] l = "ingest" -> 2
    [] l \in {"read", "stop"} -> 1 [] OTHER -> 0

(* The attachment waited for was told to end in every way attach has; and  *)
(* only the client's STOP takes a reader into reclaim.                     *)
TakeoverInv ==
  /\ \A c \in Conns : Waiting(c) => Old(c) \in stale \cap cancelled \cap gone
  /\ \A c \in Conns : rd[c] = "stop" \/ (rd[c] = "got" /\ rseq[c] = 0) => c \in Stoppers

(* A waiter waits, for the same attachment, until it binds.                *)
LEMMA WaitKept ==
  ASSUME SessionInv, [Next]_vars, NEW c \in Conns, Waiting(c)
  PROVE  /\ sess'[c] = sess[c]
         /\ Bind(c) \/ (/\ Waiting(c)' /\ Old(c)' = Old(c)
                        /\ mu[sess[c]] = c /\ UNCHANGED mu[sess[c]])
<1> USE SessionAssumption DEF Waiting, Old, ConnTypes, sessVars, connVars, loopVars
<1>0. LockInv /\ LoopsInv /\ sess[c] \in Sessions /\ mu[sess[c]] = c
  BY DEF SessionInv, LockInv, LoopsInv, TypeOK
<1>t. ConnTypes
  BY ConnTypesHold
<1> DEFINE Same == hpc'[c] = hpc[c] /\ sess'[c] = sess[c] /\ att'[sess[c]] = att[sess[c]]
                   /\ mu'[sess[c]] = mu[sess[c]]
<1>1. CASE UNCHANGED <<hpc, sess, att, mu>>
  BY <1>0, <1>1
<1>2. ASSUME NEW d \in Conns, HandshakeFails(d) \/ AttachRefused(d) PROVE Same
  BY <1>0, <1>t, <1>2 DEF HandshakeFails, AttachRefused
<1>3. ASSUME NEW d \in Conns, NEW s \in Sessions, NEW e \in 0 .. MaxEpoch,
             ResolveKnown(d, s, e) \/ \E expired \in BOOLEAN : ResolveNew(d, s, expired, e)
      PROVE  Same
  BY <1>0, <1>t, <1>3 DEF ResolveKnown, ResolveNew
<1>4. ASSUME NEW d \in Conns, Supersede(d) PROVE Same
  <2>1. d # c /\ sess[d] # sess[c]
    BY <1>0, <1>t, <1>4 DEF Supersede
  <2> QED BY <1>0, <1>t, <1>4, <2>1 DEF Supersede
<1>5. ASSUME NEW d \in Conns \ {c}, Bind(d) PROVE Same
  <2>1. sess[d] # sess[c]
    BY <1>0, <1>t, <1>5 DEF Bind, MayBind, LockInv
  <2> QED BY <1>0, <1>t, <1>5, <2>1 DEF Bind
<1>6. ASSUME NEW d \in Conns, Detach(d) PROVE Same
  <2>1. d # c /\ sess[d] # sess[c]
    BY <1>0, <1>t, <1>6 DEF Detach
  <2> QED BY <1>0, <1>t, <1>6, <2>1 DEF Detach
<1>7. ASSUME NEW d \in Conns, NEW q \in 0 .. MaxSeq,
             \/ Disconnect(d) \/ Reader(d) \/ ReadFrame(d, q)
             \/ SendAck(d) \/ WriterExits(d)
      PROVE  UNCHANGED <<hpc, sess, att, mu>>
  BY <1>7, ReaderMoves DEF Disconnect, ReadFrame, SendAck, WriterExits
<1>8. ASSUME NEW s \in Sessions, PipeFails(s) \/ PipeStops(s) \/ Reap(s)
      PROVE  UNCHANGED <<hpc, sess, att, mu>>
  BY <1>8 DEF PipeFails, PipeStops, Reap
<1>9. ASSUME NEW r \in Reclaimers, Reclaim(r) PROVE UNCHANGED <<hpc, sess, att, mu>>
  BY <1>9, ReclaimMoves
<1>10. CASE UNCHANGED vars
  BY <1>1, <1>10 DEF vars
<1>11. CASE Same
  BY <1>0, <1>11
<1>12. CASE Bind(c)
  BY <1>12 DEF Bind
<1>13. 0 \in 0 .. MaxSeq
  OBVIOUS
<1> QED BY <1>1, <1>2, <1>3, <1>4, <1>5, <1>6, <1>7, <1>8, <1>9, <1>10, <1>11, <1>12, <1>13
        DEF Next, Handler

(* A waiter that did not wait before supersedes in this step.              *)
LEMMA WaitStarts ==
  ASSUME SessionInv, [Next]_vars, NEW c \in Conns, ~Waiting(c), Waiting(c)'
  PROVE  Supersede(c)
<1> USE DEF Waiting, ConnTypes, sessVars, connVars, loopVars
<1>t. ConnTypes
  BY ConnTypesHold
<1>1. ASSUME NEW d \in Conns,
             \/ HandshakeFails(d) \/ AttachRefused(d)
             \/ \E s \in Sessions, e \in 0 .. MaxEpoch :
                  ResolveKnown(d, s, e) \/ \E expired \in BOOLEAN : ResolveNew(d, s, expired, e)
      PROVE  FALSE
  BY <1>t, <1>1 DEF HandshakeFails, AttachRefused, ResolveKnown, ResolveNew
<1>2. ASSUME NEW d \in Conns, Bind(d) \/ Detach(d) PROVE FALSE
  BY <1>t, <1>2 DEF Bind, Detach
<1>3. ASSUME NEW d \in Conns, Supersede(d) PROVE Supersede(c)
  BY <1>t, <1>3 DEF Supersede
<1>4. ASSUME NEW d \in Conns, NEW q \in 0 .. MaxSeq,
             \/ Disconnect(d) \/ Reader(d) \/ ReadFrame(d, q)
             \/ SendAck(d) \/ WriterExits(d)
      PROVE  FALSE
  BY <1>4, ReaderMoves DEF Disconnect, ReadFrame, SendAck, WriterExits
<1>5. ASSUME NEW s \in Sessions, PipeFails(s) \/ PipeStops(s) \/ Reap(s) PROVE FALSE
  BY <1>5 DEF PipeFails, PipeStops, Reap
<1>6. ASSUME NEW r \in Reclaimers, Reclaim(r) PROVE FALSE
  BY <1>6, ReclaimMoves
<1>7. ~UNCHANGED vars
  BY DEF vars
<1>8. 0 \in 0 .. MaxSeq
  BY SessionAssumption
<1> QED BY <1>1, <1>2, <1>3, <1>4, <1>5, <1>6, <1>7, <1>8 DEF Next, Handler

(* No step takes back what a connection was told.                          *)
LEMMA ToldForGood ==
  ASSUME [Next]_vars
  PROVE  stale \subseteq stale' /\ cancelled \subseteq cancelled' /\ gone \subseteq gone'
<1> USE DEF sessVars, connVars, loopVars
<1> DEFINE Goal == stale \subseteq stale' /\ cancelled \subseteq cancelled' /\ gone \subseteq gone'
<1>1. ASSUME NEW d \in Conns,
             \/ HandshakeFails(d) \/ AttachRefused(d) \/ Supersede(d) \/ Bind(d)
             \/ \E s \in Sessions, e \in 0 .. MaxEpoch :
                  ResolveKnown(d, s, e) \/ \E expired \in BOOLEAN : ResolveNew(d, s, expired, e)
      PROVE  Goal
  BY <1>1 DEF HandshakeFails, AttachRefused, Supersede, Bind, ResolveKnown, ResolveNew
<1>2. ASSUME NEW d \in Conns, NEW q \in 0 .. MaxSeq,
             \/ Detach(d) \/ Disconnect(d) \/ ReadFrame(d, q)
             \/ SendAck(d) \/ WriterExits(d)
      PROVE  Goal
  BY <1>2 DEF Detach, Disconnect, ReadFrame, SendAck, WriterExits
<1>3. ASSUME NEW d \in Conns, Reader(d) PROVE Goal
  BY <1>3 DEF Reader, ReadFails, CheckStale, Admit, Ingest
<1>4. ASSUME NEW s \in Sessions, PipeFails(s) \/ PipeStops(s) \/ Reap(s) PROVE Goal
  BY <1>4 DEF PipeFails, PipeStops, Reap
<1>5. ASSUME NEW r \in Reclaimers, Delete(r) \/ Fold(r) PROVE Goal
  BY <1>5 DEF Delete, Fold, Finish
<1>6. ASSUME NEW r \in Reclaimers, Close(r) \/ Shut(r) PROVE Goal
  BY <1>6 DEF Close, Shut
<1>7. CASE UNCHANGED vars
  BY <1>7 DEF vars
<1>8. 0 \in 0 .. MaxSeq
  BY SessionAssumption
<1> QED BY <1>1, <1>2, <1>3, <1>4, <1>5, <1>6, <1>7, <1>8 DEF Next, Handler, Reclaim

LEMMA TakeoverInit == Init => TakeoverInv
BY DEF Init, TakeoverInv, Waiting

(* What happens to a reader in a step, other than ending or going on.      *)
LEMMA ReaderMayDo ==
  ASSUME SessionInv, [Next]_vars, NEW c \in Conns
  PROVE  \/ rd'[c] = rd[c] /\ (rseq'[c] = rseq[c] \/ rd[c] = "none")
         \/ rd'[c] = "exited"
         \/ rd'[c] = "read" /\ rd[c] \in {"none", "ingest"}
         \/ \E q \in 0 .. MaxSeq : ReadFrame(c, q)
         \/ CheckStale(c) \/ Admit(c)
<1> USE DEF sessVars, connVars, loopVars
<1>0. rd \in [Conns -> {"none", "read", "got", "admit", "ingest", "stop", "exited"}]
      /\ rseq \in [Conns -> Nat]
  BY DEF SessionInv, TypeOK
<1>1. ASSUME NEW d \in Conns,
             \/ HandshakeFails(d) \/ AttachRefused(d) \/ Supersede(d)
             \/ \E s \in Sessions, e \in 0 .. MaxEpoch :
                  ResolveKnown(d, s, e) \/ \E expired \in BOOLEAN : ResolveNew(d, s, expired, e)
             \/ Detach(d) \/ Disconnect(d) \/ SendAck(d) \/ WriterExits(d)
      PROVE  UNCHANGED <<rd, rseq>>
  BY <1>1 DEF HandshakeFails, AttachRefused, Supersede, ResolveKnown, ResolveNew,
              Detach, Disconnect, SendAck, WriterExits
<1>2. ASSUME NEW d \in Conns, Bind(d)
      PROVE  \/ rd'[c] = "read" /\ rd[c] = "none"
             \/ rd'[c] = rd[c] /\ rseq'[c] = rseq[c]
  <2>1. rd[d] = "none"
    BY <1>2 DEF Bind, MayBind, SessionInv, LoopsInv
  <2> QED BY <1>0, <1>2, <2>1 DEF Bind
<1>3. ASSUME NEW d \in Conns, NEW q \in 0 .. MaxSeq,
             ReadFrame(d, q) \/ ReadFails(d) \/ CheckStale(d) \/ Admit(d) \/ Ingest(d)
      PROVE  c = d \/ (rd'[c] = rd[c] /\ rseq'[c] = rseq[c])
  BY <1>0, <1>3 DEF ReadFrame, ReadFails, CheckStale, Admit, Ingest, GotoRd
<1>4. ASSUME ReadFails(c) \/ Ingest(c)
      PROVE  rd'[c] = "exited" \/ (rd'[c] = "read" /\ rd[c] = "ingest")
  BY <1>0, <1>4 DEF ReadFails, Ingest, GotoRd
<1>5. ASSUME NEW s \in Sessions, PipeFails(s) \/ PipeStops(s) \/ Reap(s)
      PROVE  UNCHANGED <<rd, rseq>>
  BY <1>5 DEF PipeFails, PipeStops, Reap
<1>6. ASSUME NEW r \in Reclaimers, Reclaim(r)
      PROVE  rd'[c] = "exited" \/ (rd'[c] = rd[c] /\ rseq'[c] = rseq[c])
  BY <1>0, <1>6, ReclaimMoves
<1>7. CASE UNCHANGED vars
  BY <1>7 DEF vars
<1>8. 0 \in 0 .. MaxSeq
  BY SessionAssumption
<1> QED BY <1>1, <1>2, <1>3, <1>4, <1>5, <1>6, <1>7, <1>8 DEF Next, Handler, Reader

LEMMA TakeoverStep == SessionInv /\ TakeoverInv /\ [Next]_vars => TakeoverInv'
<1> SUFFICES ASSUME SessionInv, TakeoverInv, [Next]_vars, NEW c \in Conns
             PROVE  /\ Waiting(c)' => Old(c)' \in stale' \cap cancelled' \cap gone'
                    /\ rd'[c] = "stop" \/ (rd'[c] = "got" /\ rseq'[c] = 0) => c \in Stoppers
  BY DEF TakeoverInv
<1>1. ASSUME Waiting(c)', ~Waiting(c) PROVE Old(c)' \in stale' \cap cancelled' \cap gone'
  BY <1>1, WaitStarts DEF Supersede, Old, sessVars
<1>2. ASSUME Waiting(c)', Waiting(c) PROVE Old(c)' \in stale' \cap cancelled' \cap gone'
  <2>1. ~Bind(c)
    BY <1>2 DEF Bind, Waiting, SessionInv, TypeOK
  <2>2. Old(c)' = Old(c)
    BY <1>2, <2>1, WaitKept
  <2> QED BY <1>2, <2>2, ToldForGood DEF TakeoverInv
<1>3. ASSUME rd'[c] = "stop" \/ (rd'[c] = "got" /\ rseq'[c] = 0) PROVE c \in Stoppers
  <2>0. /\ rd \in [Conns -> {"none", "read", "got", "admit", "ingest", "stop", "exited"}]
        /\ rseq \in [Conns -> Nat]
    BY DEF SessionInv, TypeOK
  <2>1. CASE rd'[c] = rd[c] /\ (rseq'[c] = rseq[c] \/ rd[c] = "none")
    BY <1>3, <2>1 DEF TakeoverInv
  <2>2. CASE \E q \in 0 .. MaxSeq : ReadFrame(c, q)
    BY <1>3, <2>0, <2>2 DEF ReadFrame
  <2>3. CASE CheckStale(c)
    BY <1>3, <2>0, <2>3 DEF CheckStale, GotoRd, TakeoverInv
  <2>4. CASE Admit(c)
    BY <1>3, <2>0, <2>4 DEF Admit, GotoRd
  <2> QED BY <1>3, <2>1, <2>2, <2>3, <2>4, ReaderMayDo
<1> QED BY <1>1, <1>2, <1>3

LEMMA TakeoverInvariant == Spec => [](SessionInv /\ TakeoverInv)
BY SessionInvariant, TakeoverInit, TakeoverStep, PTL DEF Spec

(* Nothing but its client's STOP can keep a superseded reader from ending: *)
(* whatever it does next is its own to do, and c binds once it has ended.  *)
ReaderEnds(c) ==
  LET o == Old(c)
  IN  \/ MayBind(c)
      \/ rd[o] = "read" /\ CtxDone(o) /\ o \in gone
      \/ rd[o] = "got" /\ o \in stale
      \/ rd[o] \in {"admit", "ingest"}
      \/ rd[o] = "stop" /\ o \in Stoppers

(* The safety half of TakeoverCompletes, for any connections and sessions: *)
(* a waiter waits for one attachment, whose reader is never kept from      *)
(* ending but by a STOP, and only ever gets nearer to its end.             *)
THEOREM TakeoverUnwinds ==
  Spec => /\ [](\A c \in Conns : Waiting(c) => ReaderEnds(c))
          /\ [][\A c \in Conns : Waiting(c) /\ Waiting(c)' =>
                 /\ Old(c)' = Old(c)
                 /\ \/ rd'[Old(c)] = rd[Old(c)]
                    \/ ReaderAhead(rd'[Old(c)]) < ReaderAhead(rd[Old(c)])]_vars
<1>1. ASSUME SessionInv, TakeoverInv, NEW c \in Conns, Waiting(c) PROVE ReaderEnds(c)
  <2>1. LockInv /\ AttachInv /\ LoopsInv /\ sess[c] \in Sessions
    BY <1>1 DEF SessionInv, LoopsInv, Waiting, TypeOK
  <2>2. Old(c) \in Conns /\ hpc[Old(c)] = "attached"
    BY <1>1, <2>1 DEF SessionInv, LockInv, AttachInv, Waiting, Old, TypeOK
  <2>3. rd[Old(c)] \in {"read", "got", "admit", "ingest", "stop", "exited"}
    BY <1>1, <2>1, <2>2 DEF SessionInv, TypeOK, LoopsInv
  <2>4. /\ Old(c) \in stale /\ Old(c) \in gone /\ CtxDone(Old(c))
        /\ rd[Old(c)] = "stop" => Old(c) \in Stoppers
    BY <1>1, <2>2 DEF TakeoverInv, CtxDone
  <2>5. rd[Old(c)] = "exited" => MayBind(c)
    BY <1>1 DEF MayBind, ReaderGone, Waiting, Old
  <2> QED BY <2>3, <2>4, <2>5 DEF ReaderEnds
<1>2. ASSUME SessionInv, TakeoverInv, [Next]_vars,
             NEW c \in Conns, Waiting(c), Waiting(c)'
      PROVE  /\ Old(c)' = Old(c)
             /\ \/ rd'[Old(c)] = rd[Old(c)]
                \/ ReaderAhead(rd'[Old(c)]) < ReaderAhead(rd[Old(c)])
  <2>0. /\ rd \in [Conns -> {"none", "read", "got", "admit", "ingest", "stop", "exited"}]
        /\ LockInv /\ AttachInv /\ LoopsInv /\ sess[c] \in Sessions
    BY <1>2 DEF SessionInv, LoopsInv, Waiting, TypeOK
  <2>1. Old(c)' = Old(c)
    <3>1. ~Bind(c)
      BY <1>2 DEF Bind, Waiting, SessionInv, TypeOK
    <3> QED BY <1>2, <3>1, WaitKept
  <2>2. Old(c) \in Conns /\ Old(c) \in stale /\ Old(c) \in gone /\ rd[Old(c)] # "none"
    BY <1>2, <2>0 DEF TakeoverInv, LockInv, AttachInv, LoopsInv, Waiting, Old,
                      SessionInv, TypeOK
  <2> DEFINE o == Old(c)
  <2> HIDE DEF o
  <2>3. o \in Conns /\ o \in stale /\ o \in gone /\ rd[o] # "none"
    BY <2>2 DEF o
  <2>4. rd'[o] = rd[o] \/ ReaderAhead(rd'[o]) < ReaderAhead(rd[o])
    <3>1. rd'[o] = "exited" => rd[o] = "exited" \/ rd'[o] = rd[o]
                               \/ ReaderAhead(rd'[o]) < ReaderAhead(rd[o])
      <4>1. ReaderAhead("exited") = 0
        BY DEF ReaderAhead
      <4>2. rd[o] # "exited" => ReaderAhead(rd[o]) \in 1 .. 4
        BY <2>0, <2>3 DEF ReaderAhead
      <4> QED BY <4>1, <4>2
    <3>2. ~\E q \in 0 .. MaxSeq : ReadFrame(o, q)
      BY <2>3 DEF ReadFrame
    <3>3. CheckStale(o) => ReaderAhead(rd'[o]) < ReaderAhead(rd[o])
      BY <2>0, <2>3 DEF CheckStale, GotoRd, ReaderAhead
    <3>4. Admit(o) => ReaderAhead(rd'[o]) < ReaderAhead(rd[o])
      BY <2>0, <2>3 DEF Admit, GotoRd, ReaderAhead
    <3>5. rd'[o] = "read" /\ rd[o] = "ingest" => ReaderAhead(rd'[o]) < ReaderAhead(rd[o])
      BY <2>0, <2>3 DEF ReaderAhead
    <3> QED BY <1>2, <2>3, <3>1, <3>2, <3>3, <3>4, <3>5, ReaderMayDo
  <2> QED BY <2>1, <2>4 DEF o
<1>3. SessionInv /\ TakeoverInv => \A c \in Conns : Waiting(c) => ReaderEnds(c)
  BY <1>1
<1>4. SessionInv /\ TakeoverInv /\ [Next]_vars =>
        [\A c \in Conns : Waiting(c) /\ Waiting(c)' =>
           /\ Old(c)' = Old(c)
           /\ \/ rd'[Old(c)] = rd[Old(c)]
              \/ ReaderAhead(rd'[Old(c)]) < ReaderAhead(rd[Old(c)])]_vars
  BY <1>2
<1> QED BY <1>3, <1>4, TakeoverInvariant, PTL DEF Spec

(* The attach that waits and the reader that waits for the mutex it holds. *)
WaitForEachOther(c) == Waiting(c) /\ step[Old(c)] = "close"

(* The other side of it: when a STOP has taken the superseded reader into  *)
(* Session.close, the two wait for each other and no step of anybody ever  *)
(* ends that, so c is never attached and the session never closed.         *)
THEOREM StopDeadlocks ==
  Spec => [][\A c \in Conns : WaitForEachOther(c) => WaitForEachOther(c)']_vars
<1>1. ASSUME SessionInv, [Next]_vars, NEW c \in Conns, WaitForEachOther(c)
      PROVE  WaitForEachOther(c)'
  <2> DEFINE o == Old(c)
  <2>0. /\ Waiting(c) /\ step[o] = "close"
        /\ LockInv /\ AttachInv /\ LoopsInv /\ StepInv /\ sess[c] \in Sessions
    BY <1>1 DEF SessionInv, LoopsInv, Waiting, TypeOK, WaitForEachOther
  <2>1. o \in Conns /\ sess[o] = sess[c] /\ mu[sess[c]] = c /\ c # None
    BY <1>1, <2>0, SessionAssumption
       DEF LockInv, AttachInv, Waiting, Old, SessionInv, TypeOK
  <2>2. rd[o] = "stop"
    BY <2>0, <2>1 DEF StepInv
  <2>3. ~Bind(c)
    BY <2>0, <2>2 DEF Bind, MayBind, ReaderGone, Waiting, Old
  <2>4. Waiting(c)' /\ Old(c)' = o
    BY <1>1, <2>0, <2>3, WaitKept
  <2>5. step'[o] = "close"
    <3> HIDE DEF o
    <3> USE DEF sessVars, connVars, loopVars
    <3>0. step \in [Reclaimers -> {"none", "delete", "close", "shut", "fold"}]
          /\ o \in Reclaimers /\ o \notin Sessions /\ o # Reaper
      BY <1>1, <2>1, SessionAssumption DEF SessionInv, TypeOK, Reclaimers
    <3>1. ASSUME NEW d \in Conns, NEW q \in 0 .. MaxSeq,
                 \/ HandshakeFails(d) \/ AttachRefused(d) \/ Supersede(d) \/ Bind(d)
                 \/ \E s \in Sessions, e \in 0 .. MaxEpoch :
                      \/ ResolveKnown(d, s, e)
                      \/ \E expired \in BOOLEAN : ResolveNew(d, s, expired, e)
                 \/ Detach(d) \/ Disconnect(d) \/ ReadFrame(d, q)
                 \/ SendAck(d) \/ WriterExits(d)
          PROVE  step' = step
      BY <3>1 DEF HandshakeFails, AttachRefused, Supersede, Bind, ResolveKnown, ResolveNew,
                  Detach, Disconnect, ReadFrame, SendAck, WriterExits
    <3>2. ASSUME NEW d \in Conns, Reader(d) PROVE step'[o] = step[o]
      <4>1. step' = step \/ (rd[d] = "got" /\ step' = [step EXCEPT ![d] = "delete"])
        BY <3>2 DEF Reader, ReadFails, CheckStale, Admit, Ingest
      <4>2. rd[d] = "got" => d # o
        BY <2>2
      <4> QED BY <3>0, <4>1, <4>2
    <3>3. ASSUME NEW s \in Sessions, PipeFails(s) \/ PipeStops(s) \/ Reap(s)
          PROVE  step'[o] = step[o]
      BY <3>0, <3>3 DEF PipeFails, PipeStops, Reap
    <3>4. ASSUME NEW r \in Reclaimers, Reclaim(r) PROVE step'[o] = step[o]
      <4>1. r # o
        BY <2>0, <2>1, <3>4 DEF Reclaim, Delete, Close, Shut, Fold, Target, o
      <4>2. \E l : step' = [step EXCEPT ![r] = l]
        BY <3>4 DEF Reclaim, Delete, Close, Shut, Fold, Finish
      <4> QED BY <3>0, <4>1, <4>2
    <3>5. CASE UNCHANGED vars
      BY <2>0, <3>5 DEF vars, o
    <3>6. 0 \in 0 .. MaxSeq
      BY SessionAssumption
    <3> QED BY <1>1, <2>0, <3>1, <3>2, <3>3, <3>4, <3>5, <3>6 DEF Next, Handler, o
  <2> QED BY <2>4, <2>5 DEF WaitForEachOther
<1>2. SessionInv /\ [Next]_vars =>
        [\A c \in Conns : WaitForEachOther(c) => WaitForEachOther(c)']_vars
  BY <1>1
<1> QED BY <1>2, SessionInvariant, PTL DEF Spec
-----------------------------------------------------------------------------
(* How a closed session unwinds: the safety half of ReclaimReleases.       *)

(* A session is closed once, with its mutex free; whoever goes on to count *)
(* it has cancelled its context; and a reader that got a STOP reclaims.    *)
ReleaseInv ==
  /\ \A r \in Reclaimers : step[r] = "close" => Target(r) \notin closed
  /\ \A r \in Reclaimers : step[r] = "fold" => Target(r) \in runDone
  /\ \A s \in Sessions : reclaimed[s] = 1 => s \in runDone
  /\ \A c \in Conns : Waiting(c) => sess[c] \notin closed
  /\ \A c \in Conns : rd[c] = "stop" => step[c] # "none"

(* A step that is not reclaim's takes nobody into reclaim but to its first *)
(* line, leaves whom it reclaims, and closes, ends and counts nothing.     *)
LEMMA OutsideReclaim ==
  ASSUME SessionInv, [Next]_vars, ~\E r \in Reclaimers : Reclaim(r)
  PROVE  /\ UNCHANGED <<closed, runDone, reclaimed>>
         /\ \A r \in Reclaimers : \/ step'[r] = step[r] /\ (step[r] # "none" =>
                                       Target(r)' = Target(r))
                                 \/ step'[r] = "delete"
<1> USE SessionAssumption DEF sessVars, connVars, loopVars
<1> DEFINE Goal == /\ UNCHANGED <<closed, runDone, reclaimed>>
                   /\ \A r \in Reclaimers :
                        \/ step'[r] = step[r] /\ (step[r] # "none" => Target(r)' = Target(r))
                        \/ step'[r] = "delete"
<1>0. /\ step \in [Reclaimers -> {"none", "delete", "close", "shut", "fold"}]
      /\ StepInv /\ LoopsInv /\ ConnTypes
  BY ConnTypesHold DEF SessionInv, TypeOK
<1>1. ASSUME UNCHANGED <<step, sess, target>> PROVE \A r \in Reclaimers :
               step'[r] = step[r] /\ Target(r)' = Target(r)
  BY <1>1 DEF Target
<1>2. ASSUME NEW d \in Conns,
             \/ HandshakeFails(d) \/ AttachRefused(d) \/ Supersede(d) \/ Bind(d)
             \/ Detach(d) \/ Disconnect(d) \/ SendAck(d) \/ WriterExits(d)
      PROVE  Goal
  BY <1>1, <1>2 DEF HandshakeFails, AttachRefused, Supersede, Bind, Detach, Disconnect,
                    SendAck, WriterExits
<1>3. ASSUME NEW d \in Conns, NEW s \in Sessions, NEW e \in 0 .. MaxEpoch,
             ResolveKnown(d, s, e) \/ \E expired \in BOOLEAN : ResolveNew(d, s, expired, e)
      PROVE  Goal
  <2>1. /\ UNCHANGED <<closed, runDone, reclaimed, step, target>> /\ hpc[d] = "start"
        /\ \A c \in Conns \ {d} : sess'[c] = sess[c]
    BY <1>0, <1>3 DEF ResolveKnown, ResolveNew, ConnTypes
  <2>2. step[d] = "none"
    BY <1>0, <2>1 DEF StepInv, LoopsInv
  <2>3. ASSUME NEW r \in Reclaimers, step[r] # "none" PROVE Target(r)' = Target(r)
    BY <2>1, <2>2, <2>3 DEF Target
  <2> QED BY <2>1, <2>3
<1>4. ASSUME NEW d \in Conns, Reader(d) PROVE Goal
  <2>1. /\ UNCHANGED <<closed, runDone, reclaimed, sess, target>>
        /\ step' = step \/ step' = [step EXCEPT ![d] = "delete"]
    BY <1>4 DEF Reader, ReadFails, CheckStale, Admit, Ingest
  <2>2. \A r \in Reclaimers : step'[r] = step[r] \/ step'[r] = "delete"
    BY <1>0, <2>1
  <2> QED BY <2>1, <2>2, TargetKept
<1>5. ASSUME NEW d \in Conns, NEW q \in 0 .. MaxSeq, ReadFrame(d, q) PROVE Goal
  BY <1>1, <1>5 DEF ReadFrame
<1>6. ASSUME NEW s \in Sessions, PipeFails(s) \/ PipeStops(s) PROVE Goal
  <2>1. /\ UNCHANGED <<closed, runDone, reclaimed, sess, target>>
        /\ step' = step \/ step' = [step EXCEPT ![s] = "delete"]
    BY <1>6 DEF PipeFails, PipeStops
  <2>2. \A r \in Reclaimers : step'[r] = step[r] \/ step'[r] = "delete"
    BY <1>0, <2>1
  <2> QED BY <2>1, <2>2, TargetKept
<1>7. ASSUME NEW s \in Sessions, Reap(s) PROVE Goal
  <2>1. /\ UNCHANGED <<closed, runDone, reclaimed, sess>>
        /\ step' = [step EXCEPT ![Reaper] = "delete"]
    BY <1>7 DEF Reap
  <2>2. \A r \in Reclaimers \ {Reaper} : Target(r)' = Target(r) /\ step'[r] = step[r]
    BY <1>0, <2>1 DEF Target, Reclaimers
  <2>3. step'[Reaper] = "delete"
    BY <1>0, <2>1 DEF Reclaimers
  <2> QED BY <2>1, <2>2, <2>3
<1>8. CASE UNCHANGED vars
  BY <1>1, <1>8 DEF vars
<1>9. 0 \in 0 .. MaxSeq
  OBVIOUS
<1> QED BY <1>2, <1>3, <1>4, <1>5, <1>6, <1>7, <1>8, <1>9 DEF Next, Handler

LEMMA ReleaseInit == Init => ReleaseInv
BY SessionAssumption DEF Init, ReleaseInv, Waiting

(* What one goroutine's step of reclaim does, for it and for the others.   *)
LEMMA ReclaimCases ==
  ASSUME SessionInv, NEW r \in Reclaimers, Reclaim(r)
  PROVE  /\ UNCHANGED <<sess, target, hpc, mu>> /\ closed \subseteq closed'
         /\ runDone \subseteq runDone'
         /\ \A q \in Reclaimers \ {r} : step'[q] = step[q]
         /\ closed' = closed \/ (step[r] = "close" /\ mu[Target(r)] = None
                                 /\ closed' = closed \cup {Target(r)})
         /\ reclaimed' = reclaimed \/ (step[r] = "fold"
                /\ reclaimed' = [reclaimed EXCEPT ![Target(r)] = @ + 1])
         /\ step'[r] = "close" => step[r] = "delete" /\ Target(r) \in inMap
         /\ step'[r] = "fold" => \/ step[r] = "close" /\ Target(r) \in closed
                                 \/ Target(r) \in runDone'
<1> USE DEF sessVars, connVars, loopVars
<1>0. step \in [Reclaimers -> {"none", "delete", "close", "shut", "fold"}]
  BY DEF SessionInv, TypeOK
<1>1. CASE Delete(r)
  BY <1>0, <1>1 DEF Delete, Finish
<1>2. CASE Close(r)
  BY <1>0, <1>2 DEF Close
<1>3. CASE Shut(r)
  BY <1>0, <1>3 DEF Shut
<1>4. CASE Fold(r)
  BY <1>0, <1>4 DEF Fold, Finish
<1> QED BY <1>1, <1>2, <1>3, <1>4 DEF Reclaim

LEMMA ReleaseStep == SessionInv /\ ReleaseInv /\ [Next]_vars => ReleaseInv'
<1> SUFFICES ASSUME SessionInv, ReleaseInv, [Next]_vars PROVE ReleaseInv'
  OBVIOUS
<1> USE SessionAssumption
<1>0. /\ ReclaimInv /\ StepInv /\ LockInv /\ LoopsInv
      /\ step \in [Reclaimers -> {"none", "delete", "close", "shut", "fold"}]
      /\ reclaimed \in [Sessions -> Nat] /\ created \subseteq Sessions
      /\ inMap \subseteq created /\ sess \in [Conns -> Sessions \cup {None}]
  BY DEF SessionInv, TypeOK
<1>1. closed \subseteq closed' /\ runDone \subseteq runDone'
  BY OutsideReclaim, ReclaimCases
<1>2. ASSUME NEW q \in Reclaimers, step'[q] = "close" PROVE Target(q)' \notin closed'
  <2>1. CASE ~\E r \in Reclaimers : Reclaim(r)
    BY <1>2, <2>1, OutsideReclaim DEF ReleaseInv
  <2>2. ASSUME NEW r \in Reclaimers, Reclaim(r) PROVE Target(q)' \notin closed'
    <3>1. Target(q)' = Target(q)
      BY <2>2, ReclaimCases, TargetKept
    <3>2. CASE q = r
      <4>1. Target(q) \in inMap /\ closed' = closed
        BY <1>2, <2>2, <3>2, ReclaimCases
      <4> QED BY <1>0, <3>1, <4>1 DEF ReclaimInv
    <3>3. CASE q # r
      <4>1. step[q] = "close"
        BY <1>2, <2>2, <3>3, ReclaimCases
      <4>2. step[r] = "close" => Target(r) # Target(q)
        BY <1>0, <3>3, <4>1 DEF ReclaimInv, Busy
      <4> QED BY <2>2, <3>1, <4>1, <4>2, ReclaimCases DEF ReleaseInv
    <3> QED BY <3>2, <3>3
  <2> QED BY <2>1, <2>2
<1>3. ASSUME NEW q \in Reclaimers, step'[q] = "fold" PROVE Target(q)' \in runDone'
  <2>1. CASE ~\E r \in Reclaimers : Reclaim(r)
    BY <1>3, <2>1, OutsideReclaim DEF ReleaseInv
  <2>2. ASSUME NEW r \in Reclaimers, Reclaim(r) PROVE Target(q)' \in runDone'
    <3>1. Target(q)' = Target(q)
      BY <2>2, ReclaimCases, TargetKept
    <3>2. CASE q = r
      BY <1>3, <2>2, <3>1, <3>2, ReclaimCases DEF ReleaseInv
    <3>3. CASE q # r
      BY <1>1, <1>3, <2>2, <3>1, <3>3, ReclaimCases DEF ReleaseInv
    <3> QED BY <3>2, <3>3
  <2> QED BY <2>1, <2>2
<1>4. ASSUME NEW s \in Sessions, reclaimed'[s] = 1 PROVE s \in runDone'
  <2>1. CASE reclaimed' = reclaimed
    BY <1>1, <1>4, <2>1 DEF ReleaseInv
  <2>2. ASSUME NEW r \in Reclaimers, step[r] = "fold",
               reclaimed' = [reclaimed EXCEPT ![Target(r)] = @ + 1]
        PROVE  s \in runDone'
    <3>1. CASE s = Target(r)
      BY <1>1, <2>2, <3>1 DEF ReleaseInv
    <3>2. CASE s # Target(r)
      BY <1>0, <1>1, <1>4, <2>2, <3>2 DEF ReleaseInv
    <3> QED BY <3>1, <3>2
  <2> QED BY <2>1, <2>2, OutsideReclaim, ReclaimCases
<1>5. ASSUME NEW c \in Conns, Waiting(c)' PROVE sess'[c] \notin closed'
  <2>1. CASE ~Waiting(c)
    BY <1>5, <2>1, WaitStarts DEF Supersede, Refused, sessVars
  <2>2. CASE Waiting(c)
    <3>1. ~Bind(c)
      BY <1>5 DEF Bind, Waiting, SessionInv, TypeOK
    <3>2. sess'[c] = sess[c] /\ mu[sess[c]] = c /\ c # None
      BY <2>2, <3>1, WaitKept
    <3>3. closed' = closed \/ \E s : mu[s] = None /\ closed' = closed \cup {s}
      BY OutsideReclaim, ReclaimCases
    <3> QED BY <2>2, <3>2, <3>3 DEF ReleaseInv
  <2> QED BY <2>1, <2>2
<1>6. ASSUME NEW c \in Conns, rd'[c] = "stop" PROVE step'[c] # "none"
  <2>0. /\ rd \in [Conns -> {"none", "read", "got", "admit", "ingest", "stop", "exited"}]
        /\ c \in Reclaimers
    BY DEF SessionInv, TypeOK, Reclaimers
  <2>1. CASE rd[c] # "stop"
    <3>1. CheckStale(c)
      BY <1>6, <2>0, <2>1, ReaderMayDo DEF ReadFrame, Admit, GotoRd
    <3>2. step' = [step EXCEPT ![c] = "delete"]
      BY <1>6, <2>0, <3>1 DEF CheckStale, GotoRd
    <3> QED BY <1>0, <2>0, <3>2
  <2>2. CASE rd[c] = "stop"
    <3>1. step[c] # "none"
      BY <2>2 DEF ReleaseInv
    <3>2. CASE ~\E r \in Reclaimers : Reclaim(r)
      BY <2>0, <3>1, <3>2, OutsideReclaim
    <3>3. ASSUME NEW r \in Reclaimers, Reclaim(r) PROVE step'[c] # "none"
      <4>1. CASE r = c
        <5>1. ~Delete(c) \/ step'[c] = "close"
          BY <1>0, <1>6, <2>0 DEF Delete, Finish
        <5>2. Close(c) \/ Shut(c) => step'[c] # "none"
          BY <1>0, <2>0 DEF Close, Shut
        <5>3. ~Fold(c)
          BY <1>6, <2>0 DEF Fold, Finish
        <5> QED BY <3>3, <4>1, <5>1, <5>2, <5>3 DEF Reclaim
      <4>2. CASE r # c
        BY <2>0, <3>1, <3>3, <4>2, ReclaimCases
      <4> QED BY <4>1, <4>2
    <3> QED BY <3>2, <3>3
  <2> QED BY <2>1, <2>2
<1> QED BY <1>2, <1>3, <1>4, <1>5, <1>6 DEF ReleaseInv, Waiting

LEMMA ReleaseInvariant == Spec => [](SessionInv /\ ReleaseInv)
BY SessionInvariant, ReleaseInit, ReleaseStep, PTL DEF Spec

(* A goroutine of c's that can take a step: its handler is refused or      *)
(* detaches, its reader or writer goes on or ends, or its reclaim does.    *)
MayLeave(c) ==
  \/ hpc[c] = "attach" /\ mu[sess[c]] = None /\ Refused(c)
  \/ rd[c] = "read" /\ CtxDone(c)
  \/ rd[c] \in {"got", "admit", "ingest"}
  \/ rd[c] = "stop" /\ step[c] \in {"delete", "shut", "fold"}
  \/ wr[c] = "ack" \/ (wr[c] = "loop" /\ CtxDone(c))
  \/ /\ hpc[c] = "attached" /\ rd[c] = "exited" /\ wr[c] = "exited"
     /\ mu[sess[c]] = None

(* What a closed session was once attached to is only ever let go.         *)
LEMMA NotRevived ==
  ASSUME SessionInv, ReleaseInv, [Next]_vars, NEW s \in closed
  PROVE  epoch'[s] = epoch[s] /\ att'[s] \in {att[s], None}
<1> USE SessionAssumption DEF sessVars, connVars, loopVars
<1>0. /\ epoch \in [Sessions -> Nat] /\ att \in [Sessions -> Conns \cup {None}]
      /\ s \in Sessions /\ sess \in [Conns -> Sessions \cup {None}]
  BY DEF SessionInv, TypeOK
<1>1. CASE UNCHANGED <<epoch, att>>
  BY <1>1
<1>2. ASSUME NEW d \in Conns,
             \/ HandshakeFails(d) \/ AttachRefused(d) \/ Supersede(d)
             \/ \E z \in Sessions, e \in 0 .. MaxEpoch :
                  ResolveKnown(d, z, e) \/ \E expired \in BOOLEAN : ResolveNew(d, z, expired, e)
      PROVE  UNCHANGED <<epoch, att>>
  BY <1>2 DEF HandshakeFails, AttachRefused, Supersede, ResolveKnown, ResolveNew
<1>3. ASSUME NEW d \in Conns, Bind(d)
      PROVE  epoch'[s] = epoch[s] /\ att'[s] = att[s]
  <2>1. sess[d] # s
    BY <1>3 DEF Bind, MayBind, Refused, ReleaseInv, Waiting
  <2> QED BY <1>0, <1>3, <2>1 DEF Bind
<1>4. ASSUME NEW d \in Conns, Detach(d)
      PROVE  epoch'[s] = epoch[s] /\ att'[s] \in {att[s], None}
  BY <1>0, <1>4 DEF Detach
<1>5. ASSUME NEW d \in Conns, NEW q \in 0 .. MaxSeq,
             \/ Disconnect(d) \/ Reader(d) \/ ReadFrame(d, q)
             \/ SendAck(d) \/ WriterExits(d)
      PROVE  UNCHANGED <<epoch, att>>
  BY <1>5, ReaderMoves DEF Disconnect, ReadFrame, SendAck, WriterExits
<1>6. ASSUME NEW z \in Sessions, PipeFails(z) \/ PipeStops(z) \/ Reap(z)
      PROVE  UNCHANGED <<epoch, att>>
  BY <1>6 DEF PipeFails, PipeStops, Reap
<1>7. ASSUME NEW r \in Reclaimers, Reclaim(r) PROVE UNCHANGED <<epoch, att>>
  BY <1>7, ReclaimMoves
<1>8. CASE UNCHANGED vars
  BY <1>1, <1>8 DEF vars
<1>9. 0 \in 0 .. MaxSeq
  OBVIOUS
<1> QED BY <1>1, <1>2, <1>3, <1>4, <1>5, <1>6, <1>7, <1>8, <1>9 DEF Next, Handler

(* A reader starts when its connection is attached.                        *)
LEMMA StartsAttached ==
  ASSUME SessionInv, [Next]_vars, NEW c \in Conns, rd[c] = "none", rd'[c] # "none"
  PROVE  Bind(c)
<1> USE DEF sessVars, connVars, loopVars
<1>0. /\ rd \in [Conns -> {"none", "read", "got", "admit", "ingest", "stop", "exited"}]
      /\ StepInv
  BY DEF SessionInv, TypeOK
<1>1. ASSUME NEW d \in Conns,
             \/ HandshakeFails(d) \/ AttachRefused(d) \/ Supersede(d)
             \/ \E s \in Sessions, e \in 0 .. MaxEpoch :
                  ResolveKnown(d, s, e) \/ \E expired \in BOOLEAN : ResolveNew(d, s, expired, e)
             \/ Detach(d) \/ Disconnect(d) \/ SendAck(d) \/ WriterExits(d)
      PROVE  rd' = rd
  BY <1>1 DEF HandshakeFails, AttachRefused, Supersede, ResolveKnown, ResolveNew,
              Detach, Disconnect, SendAck, WriterExits
<1>2. ASSUME NEW d \in Conns \ {c}, Bind(d) PROVE rd'[c] = rd[c]
  BY <1>0, <1>2 DEF Bind
<1>3. ASSUME NEW d \in Conns, NEW q \in 0 .. MaxSeq, ReadFrame(d, q)
      PROVE  rd'[c] = rd[c]
  BY <1>0, <1>3 DEF ReadFrame
<1>4. ASSUME NEW d \in Conns, Reader(d) PROVE rd'[c] = rd[c]
  BY <1>0, <1>4, ReaderMoves
<1>5. ASSUME NEW s \in Sessions, PipeFails(s) \/ PipeStops(s) \/ Reap(s) PROVE rd' = rd
  BY <1>5 DEF PipeFails, PipeStops, Reap
<1>6. ASSUME NEW r \in Reclaimers, Reclaim(r) PROVE rd'[c] = rd[c]
  BY <1>0, <1>6, ReclaimMoves DEF StepInv
<1>7. CASE UNCHANGED vars
  BY <1>7 DEF vars
<1>8. 0 \in 0 .. MaxSeq
  BY SessionAssumption
<1> QED BY <1>1, <1>2, <1>3, <1>4, <1>5, <1>6, <1>7, <1>8 DEF Next, Handler

(* A reader whose session's context is done never starts, nor reads again. *)
LEMMA ReaderRunsDown ==
  ASSUME SessionInv, ReleaseInv, [Next]_vars, NEW c \in Conns, sess[c] \in runDone
  PROVE  rd'[c] = rd[c] \/ ReaderAhead(rd'[c]) < ReaderAhead(rd[c])
<1>0. /\ rd \in [Conns -> {"none", "read", "got", "admit", "ingest", "stop", "exited"}]
      /\ sess[c] \in closed /\ LoopsInv
  BY DEF SessionInv, TypeOK
<1>1. /\ ReaderAhead("none") = 0 /\ ReaderAhead("exited") = 0 /\ ReaderAhead("read") = 1
      /\ ReaderAhead("stop") = 1 /\ ReaderAhead("ingest") = 2 /\ ReaderAhead("admit") = 3
      /\ ReaderAhead("got") = 4
  BY DEF ReaderAhead
<1>2. ~\E q \in 0 .. MaxSeq : ReadFrame(c, q)
  BY DEF ReadFrame, CtxDone
<1>3. CASE CheckStale(c)
  BY <1>0, <1>1, <1>3 DEF CheckStale, GotoRd
<1>4. CASE Admit(c)
  BY <1>0, <1>1, <1>4 DEF Admit, GotoRd
<1>5. CASE rd'[c] = "exited" /\ rd[c] # "none"
  BY <1>0, <1>1, <1>5
<1>6. CASE rd'[c] = "read" /\ rd[c] = "ingest"
  BY <1>1, <1>6
<1>7. CASE rd[c] = "none"
  <2>1. ~Bind(c)
    BY <1>0 DEF Bind, MayBind, Refused, ReleaseInv, Waiting
  <2> QED BY <1>7, <2>1, StartsAttached
<1> QED BY <1>2, <1>3, <1>4, <1>5, <1>6, <1>7, ReaderMayDo

(* The safety half of ReclaimReleases, for any connections and sessions: a *)
(* closed session has left the map, nobody holds or waits for its mutex,   *)
(* and its context is done or about to be; then every connection it still  *)
(* has can take a step.  It is never attached again, and its readers only  *)
(* get nearer to their ends.                                               *)
THEOREM ReclaimUnwinds ==
  Spec => /\ [](\A s \in closed :
                  /\ s \notin inMap /\ mu[s] = None
                  /\ \/ s \in runDone
                     \/ \E r \in Reclaimers : step[r] = "shut" /\ Target(r) = s)
          /\ [](\A c \in Conns : sess[c] \in runDone => hpc[c] = "over" \/ MayLeave(c))
          /\ [][\A s \in closed : epoch'[s] = epoch[s] /\ att'[s] \in {att[s], None}]_vars
          /\ [][\A c \in Conns : sess[c] \in runDone =>
                 \/ rd'[c] = rd[c]
                 \/ ReaderAhead(rd'[c]) < ReaderAhead(rd[c])]_vars
<1>1. ASSUME SessionInv, ReleaseInv, NEW s \in closed
      PROVE  /\ s \notin inMap /\ mu[s] = None
             /\ \/ s \in runDone
                \/ \E r \in Reclaimers : step[r] = "shut" /\ Target(r) = s
  <2>0. /\ s \in created /\ s \in Sessions /\ inMap \subseteq created /\ ReclaimInv /\ LockInv
        /\ mu \in [Sessions -> Conns \cup {None}]
    BY <1>1 DEF SessionInv, TypeOK
  <2>1. s \notin inMap
    BY <1>1, <2>0 DEF ReclaimInv
  <2>2. mu[s] = None
    BY <1>1, <2>0 DEF LockInv, ReleaseInv, Waiting
  <2>3. reclaimed[s] = 1 \/ \E r \in Reclaimers : Busy(r) /\ Target(r) = s
    BY <2>0, <2>1 DEF ReclaimInv
  <2> QED BY <1>1, <2>0, <2>1, <2>2, <2>3 DEF ReleaseInv, Busy
<1>2. ASSUME SessionInv, ReleaseInv, NEW c \in Conns, sess[c] \in runDone, hpc[c] # "over"
      PROVE  MayLeave(c)
  <2>0. /\ sess[c] \in closed /\ sess[c] \in Sessions /\ None \notin Sessions /\ LoopsInv
        /\ rd \in [Conns -> {"none", "read", "got", "admit", "ingest", "stop", "exited"}]
        /\ wr \in [Conns -> {"none", "ack", "loop", "exited"}]
        /\ hpc \in [Conns -> {"start", "attach", "waitOld", "attached", "over"}]
        /\ step[c] \in {"none", "delete", "close", "shut", "fold"}
    BY <1>2, SessionAssumption DEF SessionInv, TypeOK, Reclaimers
  <2>1. mu[sess[c]] = None /\ CtxDone(c) /\ Refused(c)
    BY <1>1, <1>2, <2>0 DEF CtxDone, Refused
  <2>2. hpc[c] \in {"attach", "attached"}
    BY <1>2, <2>0 DEF LoopsInv, ReleaseInv, Waiting
  <2>3. rd[c] = "stop" => step[c] \in {"delete", "shut", "fold"}
    <3>1. c \in Reclaimers /\ Target(c) = sess[c]
      BY DEF Reclaimers, Target
    <3> QED BY <1>2, <2>0, <3>1 DEF ReleaseInv
  <2>4. CASE hpc[c] = "attach"
    BY <2>1, <2>4 DEF MayLeave
  <2>5. CASE hpc[c] = "attached"
    <3>1. rd[c] # "none" /\ wr[c] # "none"
      BY <2>0, <2>5 DEF LoopsInv
    <3> QED BY <2>0, <2>1, <2>3, <2>5, <3>1 DEF MayLeave
  <2> QED BY <2>2, <2>4, <2>5
<1>3. SessionInv /\ ReleaseInv =>
        /\ \A s \in closed :
             /\ s \notin inMap /\ mu[s] = None
             /\ \/ s \in runDone
                \/ \E r \in Reclaimers : step[r] = "shut" /\ Target(r) = s
        /\ \A c \in Conns : sess[c] \in runDone => hpc[c] = "over" \/ MayLeave(c)
  BY <1>1, <1>2
<1>4. SessionInv /\ ReleaseInv /\ [Next]_vars =>
        /\ [\A s \in closed : epoch'[s] = epoch[s] /\ att'[s] \in {att[s], None}]_vars
        /\ [\A c \in Conns : sess[c] \in runDone =>
              \/ rd'[c] = rd[c]
              \/ ReaderAhead(rd'[c]) < ReaderAhead(rd[c])]_vars
  BY NotRevived, ReaderRunsDown
<1> QED BY <1>3, <1>4, ReleaseInvariant, PTL DEF Spec
=============================================================================
