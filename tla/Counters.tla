------------------------------ MODULE Counters ------------------------------
(***************************************************************************)
(* One counter a manager exports (session/manager.go): the live sessions'  *)
(* own counts, summed when a scrape asks for them, and what reclaimed ones *)
(* have left behind.  A reclaimer takes its session out of the map, closes *)
(* it and folds its count in, in three steps; a scrape reads the folded    *)
(* sum, the map and the counts one after the other.  A goroutine of a      *)
(* session may still count for a while after the fold.                     *)
(***************************************************************************)
EXTENDS Naturals, FiniteSets, FiniteSetsExt

CONSTANTS Convs,      \* the sessions there ever are
          MaxCounts,  \* bound: what a session counts
          MaxScrapes  \* bound

ASSUME CountersAssumption == IsFiniteSet(Convs) /\ MaxCounts \in Nat /\ MaxScrapes \in Nat

VARIABLES stage,    \* session -> "none", "live", "removed", "closed", "folded"
          count,    \* session -> its counter
          acc,      \* what was folded in
          sumPc,  \* where the scrape is: "idle", "map", "sum"
          sum,    \* its sum so far
          left,     \* sessions of its snapshot it has not read
          clean,    \* history: no session was on its way from the map to acc meanwhile
          late,     \* history: what was counted after the folds, and is lost
          report, least, \* history: the last report, and the largest before it
          scrapes   \* history

countersVars == <<stage, count, acc, sumPc, sum, left, clean, late, report, least,
                  scrapes>>

CountersInit ==
  /\ stage = [s \in Convs |-> "none"] /\ count = [s \in Convs |-> 0] /\ acc = 0
  /\ sumPc = "idle" /\ sum = 0 /\ left = {} /\ clean = TRUE /\ late = 0
  /\ report = 0 /\ least = 0 /\ scrapes = 0

scrapeVars == <<sumPc, sum, left, report, least, scrapes>>

InMap == {s \in Convs : stage[s] = "live"}
Leaving == {s \in Convs : stage[s] \in {"removed", "closed"}}

Created(s) ==
  /\ stage[s] = "none" /\ stage' = [stage EXCEPT ![s] = "live"]
  /\ UNCHANGED <<count, acc, clean, late, scrapeVars>>

Counts(s) ==
  /\ stage[s] # "none" /\ count[s] < MaxCounts
  /\ count' = [count EXCEPT ![s] = @ + 1]
  /\ late' = IF stage[s] = "folded" THEN late + 1 ELSE late
  /\ UNCHANGED <<stage, acc, clean, scrapeVars>>

(* reclaim: out of the map, close, fold.                                   *)
DeleteConv(s) ==
  /\ stage[s] = "live" /\ stage' = [stage EXCEPT ![s] = "removed"]
  /\ clean' = (clean /\ sumPc # "map")
  /\ UNCHANGED <<count, acc, late, scrapeVars>>

CloseConv(s) ==
  /\ stage[s] = "removed" /\ stage' = [stage EXCEPT ![s] = "closed"]
  /\ UNCHANGED <<count, acc, clean, late, scrapeVars>>

(* A mutant: a reclaimed session leaves nothing behind.                    *)
FoldedNothing(s) == acc

Folded(s) == acc + count[s]

Fold(s) ==
  /\ stage[s] = "closed" /\ stage' = [stage EXCEPT ![s] = "folded"]
  /\ acc' = Folded(s)
  /\ UNCHANGED <<count, clean, late, scrapeVars>>

(* A scrape: acc, then the sessions in the map, then their counts.         *)
ReadAcc ==
  /\ sumPc = "idle" /\ scrapes < MaxScrapes /\ scrapes' = scrapes + 1
  /\ sumPc' = "map" /\ sum' = acc /\ clean' = (Leaving = {})
  /\ UNCHANGED <<stage, count, acc, left, late, report, least>>

Snapshot ==
  /\ sumPc = "map" /\ sumPc' = "sum" /\ left' = InMap
  /\ UNCHANGED <<stage, count, acc, sum, clean, late, report, least, scrapes>>

ReadCount(s) ==
  /\ sumPc = "sum" /\ s \in left
  /\ sum' = sum + count[s] /\ left' = left \ {s}
  /\ UNCHANGED <<stage, count, acc, sumPc, clean, late, report, least, scrapes>>

Reports ==
  /\ sumPc = "sum" /\ left = {} /\ sumPc' = "idle"
  /\ report' = sum /\ least' = IF report > least THEN report ELSE least
  /\ UNCHANGED <<stage, count, acc, sum, left, clean, late, scrapes>>

CountersNext ==
  \/ \E s \in Convs : Created(s) \/ Counts(s) \/ DeleteConv(s) \/ CloseConv(s) \/ Fold(s)
                      \/ ReadCount(s)
  \/ ReadAcc \/ Snapshot \/ Reports

CountersSpec == CountersInit /\ [][CountersNext]_countersVars

Made == MapThenSumSet(LAMBDA s : count[s], Convs)

(* What the exported counter says (manager.go 68-70): never more than was  *)
(* counted, whoever is reclaimed while it is read; and it never goes back  *)
(* across the end of sessions, but by what was counted after a fold, and   *)
(* in a scrape that meets a session on its way from the map to acc.        *)
ReportIsTrue ==
  sumPc = "idle" =>
    /\ report <= Made
    /\ clean => report + late >= least
=============================================================================
