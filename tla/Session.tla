------------------------------ MODULE Session ------------------------------
(***************************************************************************)
(* internal/session: the manager's map of sessions, and the connections    *)
(* that come and go as attachments of a session.  A connection runs its    *)
(* handler; once attached, a reader and a writer; the goroutine that waits *)
(* for both detaches it.  A session is reclaimed by the reader that gets a *)
(* STOP, by its pipeline when that fails, or by the manager, for idleness  *)
(* or at shutdown.                                                         *)
(*                                                                         *)
(* The manager's mutex is held for one action at a time.  A session's      *)
(* mutex is too, except by attach, which keeps it while it waits for the   *)
(* reader it supersedes: mu records that holder.  A frame is its sequence  *)
(* number, 0 for a STOP; downlink contents are not modelled here.          *)
(***************************************************************************)
EXTENDS Naturals, Sequences, FiniteSets

CONSTANTS Conns,     \* connections; each is used once
          Sessions,  \* session ids newSessionID may draw
          Reaper,    \* the goroutine of Manager.Run
          None,
          MaxEpoch,  \* bound: the largest epoch a client claims
          MaxSeq,    \* bound: the largest uplink sequence number
          Stoppers   \* the connections whose client may send STOP

ASSUME SessionAssumption ==
  /\ None \notin Conns /\ None \notin Sessions
  /\ Conns \cap Sessions = {} /\ Reaper \notin Conns \cup Sessions
  /\ MaxEpoch \in Nat \ {0} /\ MaxSeq \in Nat /\ Stoppers \subseteq Conns

VARIABLES inMap,     \* Manager.sessions
          created,   \* history: the ids handed out
          mu,        \* session -> the connection whose attach waits with mu held
          epoch, att, closed,  \* Session.epoch, .att, .closed
          runDone,   \* sessions whose runCtx is cancelled
          floor,     \* Session.uplinkFloor
          ingested,  \* history: the frames handed to the controller
          pipe,      \* the goroutine that runs the session's pipeline
          hpc,       \* connection -> where its handler is
          sess, claim, \* connection -> its session, and the epoch it claims
          stale,     \* attachments marked stale
          cancelled, \* attachments whose own context is cancelled
          gone,      \* connections that are closed
          rd, rseq,  \* connection -> its reader, and the frame it has read
          wr, ack,   \* connection -> its writer, and the LastSeq of its ack
          step,      \* goroutine -> where it is in Manager.reclaim
          target,    \* the session the reaper reclaims
          reclaimed  \* session -> how often it was counted as reclaimed

sessVars == <<epoch, att, closed, runDone, floor, ingested>>
connVars == <<hpc, sess, claim, stale, gone>>
loopVars == <<rd, rseq, wr, ack>>
vars == <<inMap, created, mu, epoch, att, closed, runDone, floor, ingested,
          pipe, hpc, sess, claim, stale, cancelled, gone, rd, rseq, wr, ack, step,
          target, reclaimed>>

Reclaimers == Conns \cup Sessions \cup {Reaper}

Init ==
  /\ inMap = {} /\ created = {} /\ closed = {} /\ runDone = {}
  /\ mu = [s \in Sessions |-> None] /\ att = [s \in Sessions |-> None]
  /\ epoch = [s \in Sessions |-> 0] /\ floor = [s \in Sessions |-> 0]
  /\ ingested = [s \in Sessions |-> << >>]
  /\ pipe = [s \in Sessions |-> "none"]
  /\ hpc = [c \in Conns |-> "start"] /\ sess = [c \in Conns |-> None]
  /\ claim = [c \in Conns |-> 0]
  /\ stale = {} /\ cancelled = {} /\ gone = {}
  /\ rd = [c \in Conns |-> "none"] /\ rseq = [c \in Conns |-> 0]
  /\ wr = [c \in Conns |-> "none"] /\ ack = [c \in Conns |-> 0]
  /\ step = [r \in Reclaimers |-> "none"]
  /\ target = None
  /\ reclaimed = [s \in Sessions |-> 0]

(* The attachment's context: its own, or the session's runCtx above it.    *)
CtxDone(c) == c \in cancelled \/ sess[c] \in runDone
-----------------------------------------------------------------------------
(* The handler: handshake, resolve, attach, and wait for done.             *)

HandshakeFails(c) ==
  /\ hpc[c] = "start"
  /\ hpc' = [hpc EXCEPT ![c] = "over"]
  /\ UNCHANGED <<inMap, created, mu, sessVars, pipe, sess, claim, stale, cancelled,
                 gone, loopVars, step, target, reclaimed>>

ResolveKnown(c, s, e) ==
  /\ hpc[c] = "start" /\ s \in inMap
  /\ sess' = [sess EXCEPT ![c] = s] /\ claim' = [claim EXCEPT ![c] = e]
  /\ hpc' = [hpc EXCEPT ![c] = "attach"]
  /\ UNCHANGED <<inMap, created, mu, sessVars, pipe, stale, cancelled, gone,
                 loopVars, step, target, reclaimed>>

(* An empty id, or one that has expired, opens a session under a new id;   *)
(* the epoch claimed with an expired id, and epoch 0, count as 1.          *)
ResolveNew(c, s, expired, e) ==
  /\ hpc[c] = "start" /\ s \in Sessions \ created
  /\ inMap' = inMap \cup {s} /\ created' = created \cup {s}
  /\ pipe' = [pipe EXCEPT ![s] = "running"]
  /\ sess' = [sess EXCEPT ![c] = s]
  /\ claim' = [claim EXCEPT ![c] = IF expired \/ e = 0 THEN 1 ELSE e]
  /\ hpc' = [hpc EXCEPT ![c] = "attach"]
  /\ UNCHANGED <<mu, sessVars, stale, cancelled, gone, loopVars, step, target,
                 reclaimed>>

(* A closed session, or an epoch that is not beyond the current one.       *)
Refused(c) == sess[c] \in closed \/ claim[c] <= epoch[sess[c]]

AttachRefused(c) ==
  /\ hpc[c] = "attach" /\ mu[sess[c]] = None /\ Refused(c)
  /\ hpc' = [hpc EXCEPT ![c] = "over"]
  /\ UNCHANGED <<inMap, created, mu, sessVars, pipe, sess, claim, stale, cancelled,
                 gone, loopVars, step, target, reclaimed>>

(* A mutant: the old attachment is marked, but its connection is left open. *)
SupersedeSilently(c) ==
  LET s == sess[c]
      old == att[s]
  IN  /\ hpc[c] = "attach" /\ mu[s] = None /\ ~Refused(c) /\ old # None
      /\ mu' = [mu EXCEPT ![s] = c] /\ stale' = stale \cup {old}
      /\ hpc' = [hpc EXCEPT ![c] = "waitOld"]
      /\ UNCHANGED <<inMap, created, sessVars, pipe, sess, claim, cancelled, gone,
                     loopVars, step, target, reclaimed>>

(* attach, its first half: the old attachment is told to end; mu is kept.  *)
Supersede(c) ==
  LET s == sess[c]
      old == att[s]
  IN  /\ hpc[c] = "attach" /\ mu[s] = None /\ ~Refused(c) /\ old # None
      /\ mu' = [mu EXCEPT ![s] = c]
      /\ stale' = stale \cup {old} /\ cancelled' = cancelled \cup {old}
      /\ gone' = gone \cup {old}
      /\ hpc' = [hpc EXCEPT ![c] = "waitOld"]
      /\ UNCHANGED <<inMap, created, sessVars, pipe, sess, claim, loopVars, step,
                     target, reclaimed>>

ReaderGone(c) == rd[c] = "exited"

(* A mutant: attach does not wait for the reader it supersedes.            *)
MayBindAtOnce(c) ==
  LET s == sess[c]
  IN  \/ hpc[c] = "attach" /\ mu[s] = None /\ ~Refused(c) /\ att[s] = None
      \/ hpc[c] = "waitOld"

(* There is nobody to supersede, or the reader superseded has exited.      *)
MayBind(c) ==
  LET s == sess[c]
  IN  \/ hpc[c] = "attach" /\ mu[s] = None /\ ~Refused(c) /\ att[s] = None
      \/ hpc[c] = "waitOld" /\ ReaderGone(att[s])

(* attach, its second half.                                                *)
Bind(c) ==
  LET s == sess[c]
  IN  /\ MayBind(c)
      /\ mu' = [mu EXCEPT ![s] = None]
      /\ epoch' = [epoch EXCEPT ![s] = claim[c]]
      /\ att' = [att EXCEPT ![s] = c]
      /\ rd' = [rd EXCEPT ![c] = "read"] /\ wr' = [wr EXCEPT ![c] = "ack"]
      /\ hpc' = [hpc EXCEPT ![c] = "attached"]
      /\ UNCHANGED <<inMap, created, closed, runDone, floor, ingested, pipe, sess, claim,
                     stale, cancelled, gone, rseq, ack, step, target, reclaimed>>

(* A mutant: whoever is attached is taken off.                             *)
DetachAnyone(c) ==
  /\ hpc[c] = "attached" /\ rd[c] = "exited" /\ wr[c] = "exited"
  /\ mu[sess[c]] = None
  /\ att' = [att EXCEPT ![sess[c]] = None]
  /\ hpc' = [hpc EXCEPT ![c] = "over"]
  /\ UNCHANGED <<inMap, created, mu, epoch, closed, runDone, floor, ingested, pipe,
                 sess, claim, stale, cancelled, gone, loopVars, step, target, reclaimed>>

(* Both loops are over: detach, close done, and the handler returns.       *)
Detach(c) ==
  /\ hpc[c] = "attached" /\ rd[c] = "exited" /\ wr[c] = "exited"
  /\ mu[sess[c]] = None
  /\ att' = [att EXCEPT ![sess[c]] = IF @ = c THEN None ELSE @]
  /\ hpc' = [hpc EXCEPT ![c] = "over"]
  /\ UNCHANGED <<inMap, created, mu, epoch, closed, runDone, floor, ingested, pipe,
                 sess, claim, stale, cancelled, gone, loopVars, step, target, reclaimed>>

(* The client goes away, or the network does.                              *)
Disconnect(c) ==
  /\ hpc[c] = "attached" /\ c \notin gone
  /\ gone' = gone \cup {c}
  /\ UNCHANGED <<inMap, created, mu, sessVars, pipe, hpc, sess, claim, stale,
                 cancelled, loopVars, step, target, reclaimed>>
-----------------------------------------------------------------------------
(* The reader.                                                             *)

GotoRd(c, l) ==
  /\ rd' = [rd EXCEPT ![c] = l]
  /\ rseq' = IF l = "read" THEN [rseq EXCEPT ![c] = 0] ELSE rseq

ReadFrame(c, q) ==
  /\ rd[c] = "read" /\ ~CtxDone(c) /\ c \notin gone
  /\ q = 0 => c \in Stoppers
  /\ rd' = [rd EXCEPT ![c] = "got"] /\ rseq' = [rseq EXCEPT ![c] = q]
  /\ UNCHANGED <<inMap, created, mu, sessVars, pipe, connVars, cancelled, wr, ack, step,
                 target, reclaimed>>

ReadFails(c) ==
  /\ rd[c] = "read" /\ (CtxDone(c) \/ c \in gone)
  /\ GotoRd(c, "exited") /\ cancelled' = cancelled \cup {c}
  /\ UNCHANGED <<inMap, created, mu, sessVars, pipe, connVars, wr, ack, step, target,
                 reclaimed>>

(* The stale flag is looked at once per frame; a STOP starts a reclaim.    *)
CheckStale(c) ==
  /\ rd[c] = "got"
  /\ \/ c \in stale /\ GotoRd(c, "read") /\ UNCHANGED step
     \/ c \notin stale /\ rseq[c] # 0 /\ GotoRd(c, "admit") /\ UNCHANGED step
     \/ /\ c \notin stale /\ rseq[c] = 0 /\ GotoRd(c, "stop")
        /\ step' = [step EXCEPT ![c] = "delete"]
  /\ UNCHANGED <<inMap, created, mu, sessVars, pipe, connVars, cancelled, wr, ack, target,
                 reclaimed>>

(* A mutant: a frame with the number of the last one is not a duplicate.   *)
AdmitEqual(c) ==
  LET s == sess[c]
  IN  /\ rd[c] = "admit"
      /\ \/ /\ rseq[c] >= floor[s] /\ Len(ingested[s]) < MaxSeq + 1
            /\ floor' = [floor EXCEPT ![s] = rseq[c]] /\ GotoRd(c, "ingest")
         \/ rseq[c] < floor[s] /\ floor' = floor /\ GotoRd(c, "read")
      /\ UNCHANGED <<inMap, created, mu, epoch, att, closed, runDone, ingested, pipe,
                     connVars, cancelled, wr, ack, step, target, reclaimed>>

(* advanceFloor: the frame's number is claimed, or it is a duplicate.      *)
Admit(c) ==
  LET s == sess[c]
  IN  /\ rd[c] = "admit"
      /\ \/ /\ rseq[c] > floor[s]
            /\ floor' = [floor EXCEPT ![s] = rseq[c]] /\ GotoRd(c, "ingest")
         \/ rseq[c] <= floor[s] /\ floor' = floor /\ GotoRd(c, "read")
      /\ UNCHANGED <<inMap, created, mu, epoch, att, closed, runDone, ingested, pipe,
                     connVars, cancelled, wr, ack, step, target, reclaimed>>

Ingest(c) ==
  /\ rd[c] = "ingest"
  /\ ingested' = [ingested EXCEPT ![sess[c]] = Append(@, [seq |-> rseq[c], conn |-> c])]
  /\ GotoRd(c, "read")
  /\ UNCHANGED <<inMap, created, mu, epoch, att, closed, runDone, floor, pipe, connVars,
                 cancelled, wr, ack, step, target, reclaimed>>
-----------------------------------------------------------------------------
(* The writer.                                                             *)

(* The ack carries the uplink floor, from which the client resumes.        *)
SendAck(c) ==
  /\ wr[c] = "ack"
  /\ ack' = [ack EXCEPT ![c] = floor[sess[c]]] /\ wr' = [wr EXCEPT ![c] = "loop"]
  /\ UNCHANGED <<inMap, created, mu, sessVars, pipe, connVars, cancelled, rd, rseq,
                 step, target, reclaimed>>

(* The context is done, a write fails, or a ping is not answered in time.  *)
WriterExits(c) ==
  /\ wr[c] = "loop"
  /\ wr' = [wr EXCEPT ![c] = "exited"] /\ cancelled' = cancelled \cup {c}
  /\ UNCHANGED <<inMap, created, mu, sessVars, pipe, connVars, rd, rseq, ack, step,
                 target, reclaimed>>
-----------------------------------------------------------------------------
(* The pipeline's goroutine.                                               *)

PipeFails(s) ==
  /\ pipe[s] = "running"
  /\ pipe' = [pipe EXCEPT ![s] = "failed"] /\ step' = [step EXCEPT ![s] = "delete"]
  /\ UNCHANGED <<inMap, created, mu, sessVars, connVars, cancelled, loopVars,
                 target, reclaimed>>

PipeStops(s) ==
  /\ pipe[s] = "running" /\ s \in runDone
  /\ pipe' = [pipe EXCEPT ![s] = "returned"]
  /\ UNCHANGED <<inMap, created, mu, sessVars, connVars, cancelled, loopVars, step,
                 target, reclaimed>>
-----------------------------------------------------------------------------
(* The manager's goroutine.                                                *)

(* Manager.Run: an idle session, or at shutdown any session, is reclaimed. *)
(* The clock is abstracted: at any time a session may have been untouched  *)
(* for the idle timeout.                                                   *)
Reap(s) ==
  /\ step[Reaper] = "none" /\ s \in inMap
  /\ target' = s /\ step' = [step EXCEPT ![Reaper] = "delete"]
  /\ UNCHANGED <<inMap, created, mu, sessVars, pipe, connVars, cancelled, loopVars,
                 reclaimed>>
-----------------------------------------------------------------------------
(* Manager.reclaim, run by a reader, a pipeline goroutine or the reaper.   *)

Target(r) ==
  IF r \in Conns THEN sess[r] ELSE IF r \in Sessions THEN r ELSE target

(* What r does once reclaim returns: the reader and the pipeline goroutine *)
(* are over, the reaper goes on.                                           *)
Finish(r) ==
  /\ step' = [step EXCEPT ![r] = "none"]
  /\ rd' = IF r \in Conns THEN [rd EXCEPT ![r] = "exited"] ELSE rd
  /\ cancelled' = IF r \in Conns THEN cancelled \cup {r} ELSE cancelled
  /\ pipe' = IF r \in Sessions THEN [pipe EXCEPT ![r] = "returned"] ELSE pipe

(* A mutant: whether the session was still in the map is not looked at.    *)
DeleteAnyway(r) ==
  /\ step[r] = "delete"
  /\ inMap' = inMap \ {Target(r)} /\ step' = [step EXCEPT ![r] = "close"]
  /\ UNCHANGED <<created, mu, sessVars, pipe, connVars, cancelled, loopVars, target,
                 reclaimed>>

Delete(r) ==
  /\ step[r] = "delete"
  /\ \/ /\ Target(r) \in inMap
        /\ inMap' = inMap \ {Target(r)} /\ step' = [step EXCEPT ![r] = "close"]
        /\ UNCHANGED <<rd, cancelled, pipe>>
     \/ /\ Target(r) \notin inMap /\ inMap' = inMap
        /\ Finish(r)
  /\ UNCHANGED <<created, mu, sessVars, connVars, rseq, wr, ack, target, reclaimed>>

(* Session.close up to its unlock.                                         *)
Close(r) ==
  /\ step[r] = "close" /\ mu[Target(r)] = None
  /\ closed' = closed \cup {Target(r)}
  /\ step' = [step EXCEPT ![r] = IF Target(r) \in closed THEN "fold" ELSE "shut"]
  /\ UNCHANGED <<inMap, created, mu, epoch, att, runDone, floor, ingested, pipe,
                 connVars, cancelled, loopVars, target, reclaimed>>

(* A mutant: the connection is closed, the session's context is not.       *)
ShutConnOnly(r) ==
  /\ step[r] = "shut"
  /\ gone' = gone \cup ({att[Target(r)]} \ {None})
  /\ step' = [step EXCEPT ![r] = "fold"]
  /\ UNCHANGED <<inMap, created, mu, sessVars, pipe, hpc, sess, claim, stale, cancelled,
                 loopVars, target, reclaimed>>

(* The rest of it: runCancel, and the connection attached then is closed   *)
(* (one detached since has no loop left to notice).                        *)
Shut(r) ==
  /\ step[r] = "shut"
  /\ runDone' = runDone \cup {Target(r)}
  /\ gone' = gone \cup ({att[Target(r)]} \ {None})
  /\ step' = [step EXCEPT ![r] = "fold"]
  /\ UNCHANGED <<inMap, created, mu, epoch, att, closed, floor, ingested, pipe, hpc,
                 sess, claim, stale, cancelled, loopVars, target, reclaimed>>

(* The session is counted, its counters folded into the totals.            *)
Fold(r) ==
  /\ step[r] = "fold"
  /\ reclaimed' = [reclaimed EXCEPT ![Target(r)] = @ + 1]
  /\ Finish(r)
  /\ UNCHANGED <<inMap, created, mu, sessVars, connVars, rseq, wr, ack, target>>
-----------------------------------------------------------------------------
Handler(c) ==
  \/ HandshakeFails(c)
  \/ \E s \in Sessions, e \in 0 .. MaxEpoch :
       ResolveKnown(c, s, e) \/ \E expired \in BOOLEAN : ResolveNew(c, s, expired, e)
  \/ AttachRefused(c) \/ Supersede(c) \/ Bind(c)
Reader(c) == ReadFails(c) \/ CheckStale(c) \/ Admit(c) \/ Ingest(c)
Writer(c) == SendAck(c) \/ (CtxDone(c) /\ WriterExits(c))
Reclaim(r) == Delete(r) \/ Close(r) \/ Shut(r) \/ Fold(r)

Next ==
  \/ \E c \in Conns :
       \/ Handler(c) \/ Detach(c) \/ Disconnect(c)
       \/ Reader(c) \/ \E q \in 0 .. MaxSeq : ReadFrame(c, q)
       \/ SendAck(c) \/ WriterExits(c)
  \/ \E s \in Sessions : PipeFails(s) \/ PipeStops(s) \/ Reap(s)
  \/ \E r \in Reclaimers : Reclaim(r)

Spec == Init /\ [][Next]_vars

(* Goroutines that can run are scheduled, and a read or write returns once *)
(* its context is done or its connection closed.  Nothing makes a client   *)
(* connect, send, leave or stop, nor a session fall idle.                  *)
Fairness ==
  /\ \A c \in Conns :
       /\ WF_vars(AttachRefused(c) \/ Supersede(c) \/ Bind(c))
       /\ WF_vars(Reader(c)) /\ WF_vars(Writer(c)) /\ WF_vars(Detach(c))
  /\ \A s \in Sessions : WF_vars(PipeStops(s))
  /\ \A r \in Reclaimers : WF_vars(Reclaim(r))

FairSpec == Spec /\ Fairness
-----------------------------------------------------------------------------
Attached(c) == rd[c] # "none"
Alive(c) == Attached(c) /\ rd[c] # "exited"

TypeOK ==
  /\ created \subseteq Sessions /\ inMap \subseteq created
  /\ closed \subseteq created /\ runDone \subseteq closed
  /\ mu \in [Sessions -> Conns \cup {None}] /\ att \in [Sessions -> Conns \cup {None}]
  /\ epoch \in [Sessions -> Nat] /\ floor \in [Sessions -> Nat]
  /\ ingested \in [Sessions -> Seq([seq : Nat, conn : Conns])]
  /\ pipe \in [Sessions -> {"none", "running", "failed", "returned"}]
  /\ hpc \in [Conns -> {"start", "attach", "waitOld", "attached", "over"}]
  /\ sess \in [Conns -> Sessions \cup {None}] /\ claim \in [Conns -> Nat]
  /\ stale \subseteq Conns /\ cancelled \subseteq Conns /\ gone \subseteq Conns
  /\ rd \in [Conns -> {"none", "read", "got", "admit", "ingest", "stop", "exited"}]
  /\ rseq \in [Conns -> Nat] /\ ack \in [Conns -> Nat]
  /\ wr \in [Conns -> {"none", "ack", "loop", "exited"}]
  /\ step \in [Reclaimers -> {"none", "delete", "close", "shut", "fold"}]
  /\ target \in Sessions \cup {None}
  /\ reclaimed \in [Sessions -> Nat]

(* A session never has two readers: the ingress pool has a single Getter,  *)
(* and the ingress ring a single producer, across every takeover.          *)
SingleReader ==
  \A c, d \in Conns : Alive(c) /\ Alive(d) /\ sess[c] = sess[d] => c = d

(* The pipeline gets every uplink frame at most once and in order, whoever *)
(* reconnects, replays or is superseded half way through a frame.          *)
IngestedInOrder ==
  \A s \in Sessions : \A i, j \in DOMAIN ingested[s] :
    i < j => ingested[s][i].seq < ingested[s][j].seq

(* The LastSeq a client gets on resuming is exact: no frame of an earlier  *)
(* connection beyond it is still delivered afterwards.                     *)
AckCoversTheOld ==
  \A c \in Conns : wr[c] \in {"loop", "exited"} =>
    \A i \in DOMAIN ingested[sess[c]] :
      LET f == ingested[sess[c]][i]
      IN  claim[f.conn] < claim[c] => f.seq <= ack[c]

(* The manager's map and the sessions agree: a closed session cannot be    *)
(* resolved, one that left the map is closed or about to be by the one     *)
(* goroutine that took it out, and it is counted as reclaimed once.        *)
MapAgrees ==
  \A s \in created :
    LET at(l) == {r \in Reclaimers : step[r] = l /\ Target(r) = s}
        busy == Cardinality(at("close") \cup at("shut") \cup at("fold"))
    IN  /\ s \in inMap => s \notin closed /\ reclaimed[s] = 0 /\ busy = 0
        /\ s \notin inMap => busy + reclaimed[s] = 1

(* Everything a closed session owns ends: its readers, writers, handlers   *)
(* and pipeline (the leak gate of milestone 8.4).                          *)
ReclaimReleases ==
  \A s \in Sessions :
    s \in closed ~> /\ pipe[s] = "returned"
                    /\ \A c \in Conns : sess[c] = s => hpc[c] = "over"

(* A superseded reader ends by itself, so the takeover goes through and    *)
(* attach gives back the mutex it has kept, without which nobody attaches  *)
(* to the session or closes it: what session.go 148-150 says of attach     *)
(* waiting with s.mu held.                                                 *)
TakeoverCompletes == \A s \in Sessions : (mu[s] # None) ~> (mu[s] = None)
=============================================================================
