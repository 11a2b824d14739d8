-------------------------------- MODULE Hub ---------------------------------
(***************************************************************************)
(* The feed of the dashboards (metrics/hub.go): each record published goes *)
(* into a bounded history and to every subscriber's channel, unless that   *)
(* is full; a new subscriber is sent the history first.  Publish and       *)
(* subscribe hold the hub's mutex throughout, so that each is one action,  *)
(* but a subscribe whose channel cannot hold the history never comes back  *)
(* and keeps the mutex.  A record is its number.                           *)
(***************************************************************************)
EXTENDS Naturals, Sequences

CONSTANTS Boards,   \* connections of dashboards
          HistCap,  \* hubHistory
          ChanCap,  \* capacity of a subscriber's channel
          MaxRecords \* bound: records published

ASSUME HubAssumption ==
  HistCap \in Nat /\ ChanCap \in Nat /\ HistCap <= ChanCap /\ MaxRecords \in Nat

VARIABLES hist,      \* the last records
          published, \* how many there have been
          board,     \* dashboard -> "away", "subscribed", "left"
          feed,      \* dashboard -> its channel
          shown,     \* dashboard -> what was written to it
          since,     \* history: the records before its first one
          missed,    \* history: dashboard -> records that found its channel full
          held       \* a subscribe is stuck and holds the mutex

hubVars == <<hist, published, board, feed, shown, since, missed, held>>

HubInit ==
  /\ hist = << >> /\ published = 0 /\ held = FALSE
  /\ board = [b \in Boards |-> "away"]
  /\ feed = [b \in Boards |-> << >>] /\ shown = [b \in Boards |-> << >>]
  /\ since = [b \in Boards |-> 0] /\ missed = [b \in Boards |-> {}]

(* A mutant: the history keeps its oldest records.                         *)
Oldest(s) == IF Len(s) > HistCap THEN SubSeq(s, 1, HistCap) ELSE s

Newest(s) == IF Len(s) > HistCap THEN SubSeq(s, Len(s) - HistCap + 1, Len(s)) ELSE s

ChanFull(b) == Len(feed[b]) >= ChanCap

Publish ==
  LET r == published + 1 IN
  /\ ~held /\ published < MaxRecords
  /\ published' = r /\ hist' = Newest(Append(hist, r))
  /\ feed' = [b \in Boards |-> IF board[b] = "subscribed" /\ ~ChanFull(b)
                               THEN Append(feed[b], r) ELSE feed[b]]
  /\ missed' = [b \in Boards |-> IF board[b] = "subscribed" /\ ChanFull(b)
                                 THEN missed[b] \cup {r} ELSE missed[b]]
  /\ UNCHANGED <<board, shown, since, held>>

Fits == Len(hist) <= ChanCap

Subscribe(b) ==
  /\ ~held /\ board[b] = "away"
  /\ held' = ~Fits
  /\ board' = [board EXCEPT ![b] = IF Fits THEN "subscribed" ELSE @]
  /\ feed' = [feed EXCEPT ![b] = IF Fits THEN hist ELSE @]
  /\ since' = [since EXCEPT ![b] = published - Len(hist)]
  /\ UNCHANGED <<hist, published, shown, missed>>

(* ServeHTTP: the next record; the request ends, or a write fails.         *)
Show(b) ==
  /\ board[b] = "subscribed" /\ feed[b] # << >>
  /\ shown' = [shown EXCEPT ![b] = Append(@, Head(feed[b]))]
  /\ feed' = [feed EXCEPT ![b] = Tail(@)]
  /\ UNCHANGED <<hist, published, board, since, missed, held>>

Unsubscribe(b) ==
  /\ board[b] = "subscribed" /\ ~held
  /\ board' = [board EXCEPT ![b] = "left"]
  /\ UNCHANGED <<hist, published, feed, shown, since, missed, held>>

HubNext == Publish \/ \E b \in Boards : Subscribe(b) \/ Show(b) \/ Unsubscribe(b)

HubSpec == HubInit /\ [][HubNext]_hubVars

HubTypeOK ==
  /\ hist \in Seq(Nat) /\ published \in Nat /\ held \in BOOLEAN
  /\ board \in [Boards -> {"away", "subscribed", "left"}]
  /\ feed \in [Boards -> Seq(Nat)] /\ shown \in [Boards -> Seq(Nat)]
  /\ since \in [Boards -> Nat] /\ missed \in [Boards -> SUBSET Nat]

Feed(b) == shown[b] \o feed[b]

(* The records f are those of from + 1 .. last, in order and each once,    *)
(* but for the ones in m.                                                  *)
Follows(f, from, m, last) ==
  /\ \A i, j \in 1 .. Len(f) : i < j => f[i] < f[j]
  /\ \A i \in 1 .. Len(f) : from < f[i] /\ f[i] <= last
  /\ m \subseteq from + 1 .. last
  /\ \A r \in from + 1 .. last :
       (r \in m <=> ~ \E i \in 1 .. Len(f) : f[i] = r)

(* What a dashboard shows and will be shown are the records in their       *)
(* order, none twice, from the oldest there was when it subscribed, and    *)
(* without a gap but for those that found its channel full (hub.go 12-14,  *)
(* 39-50); and no subscribe is stuck with the mutex, which Publish needs   *)
(* on the orchestrator's goroutine.                                        *)
FeedInOrder ==
  /\ ~held
  /\ \A b \in Boards : board[b] = "subscribed" => Follows(Feed(b), since[b], missed[b], published)
-----------------------------------------------------------------------------
(* The inductive invariant: the history is the last records and fits into  *)
(* a channel, and nothing is there for a dashboard that is away.           *)

HistIsLast ==
  /\ Len(hist) <= HistCap /\ Len(hist) <= published
  /\ \A i \in 1 .. Len(hist) : hist[i] = published - Len(hist) + i

SinceBounded == \A b \in Boards : since[b] <= published

AwayIsEmpty == \A b \in Boards : board[b] = "away" => shown[b] = << >> /\ missed[b] = {}

HubInv == HubTypeOK /\ HistIsLast /\ SinceBounded /\ AwayIsEmpty /\ FeedInOrder
=============================================================================
