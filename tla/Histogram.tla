----------------------------- MODULE Histogram -----------------------------
(***************************************************************************)
(* internal/metrics/metrics.go, Histogram, and what the load generator     *)
(* makes of it (internal/loadgen/scrape.go): the session goroutines count  *)
(* observations in buckets while a scrape reads the buckets one after the  *)
(* other; two scrapes make a window, and a quantile of the window is       *)
(* estimated from its buckets.                                             *)
(*                                                                         *)
(* Abstracted: values and bounds are integers, the estimate is an exact    *)
(* fraction, and the sum and count of a histogram are left out.            *)
(***************************************************************************)
EXTENDS Integers, Sequences, FiniteSets, SequencesExt, FiniteSetsExt

CONSTANTS Bounds,     \* the upper bounds, ascending
          Values,     \* what is observed
          Quantiles,  \* fractions, as <<numerator, denominator>>
          MaxObs      \* bound: observations

ASSUME HistogramAssumption ==
  /\ Bounds \in Seq(Nat \ {0}) /\ Bounds # << >>
  /\ \A i \in 1 .. Len(Bounds) - 1 : Bounds[i] < Bounds[i + 1]
  /\ Values \subseteq Nat /\ MaxObs \in Nat
  /\ Quantiles \subseteq Nat \X Nat /\ \A q \in Quantiles : 0 < q[1] /\ q[1] <= q[2]

VARIABLES counts,   \* bucket -> count; the last bucket is inf
          observed, \* observations so far
          scraper,  \* "first", "between", "second" or "done"
          nextRead, \* the bucket it reads next
          snap0, snap1, \* the cumulative counts it read
          quantile,
          window    \* history: the values counted between the two readings

histVars == <<counts, observed, scraper, nextRead, snap0, snap1, quantile, window>>

Buckets == 1 .. Len(Bounds) + 1
Inf == Len(Bounds) + 1

HistInit ==
  /\ counts = [b \in Buckets |-> 0] /\ observed = 0
  /\ scraper = "first" /\ nextRead = 1 /\ snap0 = << >> /\ snap1 = << >>
  /\ quantile \in Quantiles /\ window = << >>

(* sort.SearchFloat64s: the first bound that is not below the value.       *)
Search(v) == Min({i \in 1 .. Len(Bounds) : v <= Bounds[i]} \cup {Inf})

Observe(v) ==
  LET b == Search(v)
      inFirst == scraper # "first" \/ b < nextRead
      inSecond == scraper = "done" \/ (scraper = "second" /\ b < nextRead)
  IN  /\ observed < MaxObs /\ observed' = observed + 1
      /\ counts' = [counts EXCEPT ![b] = @ + 1]
      /\ window' = IF inFirst /\ ~inSecond THEN Append(window, v) ELSE window
      /\ UNCHANGED <<scraper, nextRead, snap0, snap1, quantile>>

Cumulative(snap) == (IF snap = << >> THEN 0 ELSE Last(snap)) + counts[nextRead]

ReadBucket ==
  /\ \/ scraper = "first" /\ snap0' = Append(snap0, Cumulative(snap0)) /\ UNCHANGED snap1
     \/ scraper = "second" /\ snap1' = Append(snap1, Cumulative(snap1)) /\ UNCHANGED snap0
  /\ nextRead' = IF nextRead = Inf THEN 1 ELSE nextRead + 1
  /\ scraper' = IF nextRead # Inf THEN scraper
                ELSE IF scraper = "first" THEN "between" ELSE "done"
  /\ UNCHANGED <<counts, observed, quantile, window>>

ScrapeAgain ==
  /\ scraper = "between" /\ scraper' = "second"
  /\ UNCHANGED <<counts, observed, nextRead, snap0, snap1, quantile, window>>

HistNext == (\E v \in Values : Observe(v)) \/ ReadBucket \/ ScrapeAgain

HistSpec == HistInit /\ [][HistNext]_histVars
-----------------------------------------------------------------------------
(* histDelta: the cumulative counts of the window, and the counts.         *)
Cum(b) == snap1[b] - snap0[b]
Delta(b) == Cum(b) - (IF b = 1 THEN 0 ELSE Cum(b - 1))

(* histQuantile: what the first buckets add up to, the bucket in which the *)
(* target falls, ...                                                       *)
SumTo[b \in 0 .. Inf] == IF b = 0 THEN 0 ELSE SumTo[b - 1] + Delta(b)
Total == SumTo[Inf]
TargetBucketAbove ==
  Min({b \in Buckets : SumTo[b] * quantile[2] > quantile[1] * Total} \cup {Inf})
TargetBucket == Min({b \in Buckets : SumTo[b] * quantile[2] >= quantile[1] * Total})

Lower(b) == IF b = 1 THEN 0 ELSE Bounds[b - 1]

(* ... and the interpolation in it, as <<numerator, denominator>>.         *)
Estimate ==
  LET b == TargetBucket
  IN  IF Total <= 0 THEN <<-1, 1>>
      ELSE IF b = Inf THEN <<Lower(b), 1>>
      ELSE <<Lower(b) * quantile[2] * Delta(b)
               + (Bounds[b] - Lower(b))
                 * (quantile[1] * Total - quantile[2] * (SumTo[b] - Delta(b))),
             quantile[2] * Delta(b)>>
-----------------------------------------------------------------------------
(* How many values of the window are no larger; the rank of the quantile.  *)
UpTo(x) == Cardinality({i \in DOMAIN window : window[i] <= x})
Rank == (quantile[1] * Len(window) + quantile[2] - 1) \div quantile[2]

(* The window holds what was observed in it and nothing else although the  *)
(* scrapes are not atomic, and the estimate lies in the same bucket as the *)
(* quantile of these values, the one of rank q * n rounded up; beyond the  *)
(* last bound it is that bound, "at least that much" (scrape.go 123).      *)
QuantileInBucket ==
  scraper = "done" =>
    IF window = << >> THEN Estimate = <<-1, 1>>
    ELSE \E i \in DOMAIN window, b \in Buckets :
           LET v == window[i]
               e == Estimate
           IN  /\ UpTo(v - 1) < Rank /\ Rank <= UpTo(v)
               /\ v > Lower(b) \/ b = 1
               /\ b # Inf => /\ v <= Bounds[b]
                             /\ Lower(b) * e[2] < e[1] /\ e[1] <= Bounds[b] * e[2]
               /\ b = Inf => e = <<Lower(b), 1>>
=============================================================================
