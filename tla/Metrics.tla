------------------------------ MODULE Metrics ------------------------------
(***************************************************************************)
(* The numbers the server and the benchmark report: histograms and their   *)
(* quantiles, percentiles, the window of engine snapshots, and aggregate() *)
(* over the records of a run.  Times are integers; a percentile is scaled  *)
(* by 100, a mean or a rate is a pair to be divided.                       *)
(***************************************************************************)
EXTENDS Integers, Sequences, FiniteSets, SequencesExt, FiniteSetsExt, Functions

CONSTANTS
  Values,       \* latencies that are observed
  Bounds,       \* bucket bounds of the histogram, ascending
  Window,       \* window of the tracker
  Gaps,         \* times between two steps of the engine
  BatchSizes,   \* sizes of its batches
  RecordKinds,  \* request records a run may append
  TTFTSlo, ITLSlo,
  MaxObserved   \* bound on observations, snapshots and records

ASSUME MetricsAssumption ==
  /\ Values \subseteq Nat /\ Gaps \subseteq Nat /\ BatchSizes \subseteq Nat
  /\ Bounds \in Seq(Nat) /\ Bounds # <<>>
  /\ \A i, j \in DOMAIN Bounds : i <= j => Bounds[i] <= Bounds[j]
  /\ Window \in Nat \ {0} /\ MaxObserved \in Nat

VARIABLES
  counts,   \* Histogram._counts: one cell per bound and one for +Inf
  total,    \* Histogram._sums
  seen,     \* the values observed
  window,   \* EngineStatsTracker._snapshots: time and batch size
  steps,    \* total_steps and total_batched_tokens
  past,     \* all snapshots recorded
  records   \* request records of a benchmark

metricsVars == <<counts, total, seen, window, steps, past, records>>

-----------------------------------------------------------------------------
(* metrics/math.py *)

\* Cumulative `le` counts over a list of samples, the last for +Inf.
CumulativeBucketCounts(samples, bounds) ==
  [b \in 1..Len(bounds) + 1 |->
     Cardinality({i \in DOMAIN samples : b > Len(bounds) \/ samples[i] <= bounds[b]})]

\* sorted(), indexed from 0: at most k samples are less than the one at k, and more
\* than k are not greater.
Ordered(samples) ==
  [k \in 0..(Cardinality(DOMAIN samples) - 1) |->
     CHOOSE v \in Range(samples) : /\ Cardinality({i \in DOMAIN samples : samples[i] < v}) <= k
                                   /\ Cardinality({i \in DOMAIN samples : samples[i] <= v}) > k]

Mean(samples) ==
  IF DOMAIN samples = {} THEN <<0, 1>>
  ELSE <<SumFunction(samples), Cardinality(DOMAIN samples)>>

\* percentile(), times 100: linear between the two closest ranks.
Percentile(samples, q) ==
  LET pos == (Cardinality(DOMAIN samples) - 1) * q
      at(k) == Ordered(samples)[k]
  IN IF pos % 100 = 0 THEN 100 * at(pos \div 100)
     ELSE at(pos \div 100) * (100 - (pos % 100)) + at(pos \div 100 + 1) * (pos % 100)

\* histogram_quantile(), q in percent: the bounds of the bucket it interpolates
\* in and the fraction of it, as <<from, to, numerator, denominator>>.
HistogramQuantile(c, bounds, q) ==
  LET n     == c[Len(c)]
      b     == CHOOSE i \in DOMAIN c : /\ 100 * c[i] >= q * n
                                       /\ \A j \in 1..(i - 1) : 100 * c[j] < q * n
      below == IF b = 1 THEN 0 ELSE bounds[b - 1]
      prev  == IF b = 1 THEN 0 ELSE c[b - 1]
  IN CASE b > Len(bounds) -> <<below, below, 0, 1>>
       [] b <= Len(bounds) /\ c[b] = prev -> <<bounds[b], bounds[b], 0, 1>>
       [] OTHER -> <<below, bounds[b], q * n - 100 * prev, 100 * (c[b] - prev)>>

-----------------------------------------------------------------------------
(* metrics/registry.py and engine/stats.py *)

MetricsInit ==
  /\ counts = [b \in 1..Len(Bounds) + 1 |-> 0] /\ total = 0 /\ seen = <<>>
  /\ window = <<>> /\ steps = [n |-> 0, tokens |-> 0] /\ past = <<>>
  /\ records = <<>>

\* Mutant: a value on a bound belongs to the next bucket.
IntoStrict(v, b) == b > Len(Bounds) \/ v < Bounds[b]

Into(v, b) == b > Len(Bounds) \/ v <= Bounds[b]

Observe(v) ==
  /\ Len(seen) < MaxObserved
  /\ counts' = [b \in DOMAIN counts |-> counts[b] + (IF Into(v, b) THEN 1 ELSE 0)]
  /\ total' = total + v
  /\ seen' = Append(seen, v)
  /\ UNCHANGED <<window, steps, past, records>>

\* deque(maxlen): the oldest snapshot falls out.
Push(d, snap) == IF Len(d) = Window THEN Append(Tail(d), snap) ELSE Append(d, snap)

RecordStep(gap, batch) ==
  /\ Len(past) < MaxObserved
  /\ LET snap == [t |-> gap + (IF past = <<>> THEN 0 ELSE Last(past).t), batch |-> batch]
     IN window' = Push(window, snap) /\ past' = Append(past, snap)
  /\ steps' = [n |-> steps.n + 1, tokens |-> steps.tokens + batch]
  /\ UNCHANGED <<counts, total, seen, records>>

Batches == [i \in DOMAIN window |-> window[i].batch]

BatchSizeHistogram == [size \in Range(Batches) |-> Cardinality({i \in DOMAIN Batches : Batches[i] = size})]

-----------------------------------------------------------------------------
(* bench/aggregate.py *)

OK(rec) == ~rec.failed /\ rec.tokens > 0

\* Both budgets; a request of one token has no gap to judge.
MeetsSLO(rec) ==
  /\ rec.ttft <= TTFTSlo
  /\ rec.itls # <<>> => Mean(rec.itls)[1] <= ITLSlo * Mean(rec.itls)[2]

LatencyStats(samples) ==
  IF DOMAIN samples = {} THEN [mean |-> Mean(samples), p50 |-> 0, p99 |-> 0]
  ELSE [mean |-> Mean(samples),
        p50  |-> Percentile(samples, 50), p99 |-> Percentile(samples, 99)]

\* Mutant: failed requests are in the latencies.
AggregateAll(recs) ==
  LET good == {k \in DOMAIN recs : OK(recs[k])}
      met  == Cardinality({k \in good : MeetsSLO(recs[k])})
  IN [completed |-> Cardinality(good), failed |-> Len(recs) - Cardinality(good),
      tokens    |-> SumFunction([k \in good |-> recs[k].tokens]),
      ttft      |-> LatencyStats([k \in good |-> recs[k].ttft]),
      e2e       |-> LatencyStats([k \in DOMAIN recs |-> recs[k].latency]),
      met       |-> met,
      attained  |-> IF recs = <<>> THEN <<0, 1>> ELSE <<met, Len(recs)>>]

Aggregate(recs) ==
  LET good == {k \in DOMAIN recs : OK(recs[k])}
      met  == Cardinality({k \in good : MeetsSLO(recs[k])})
  IN [completed |-> Cardinality(good), failed |-> Len(recs) - Cardinality(good),
      tokens    |-> SumFunction([k \in good |-> recs[k].tokens]),
      ttft      |-> LatencyStats([k \in good |-> recs[k].ttft]),
      e2e       |-> LatencyStats([k \in good |-> recs[k].latency]),
      met       |-> met,
      attained  |-> IF recs = <<>> THEN <<0, 1>> ELSE <<met, Len(recs)>>]

AppendRecord(rec) ==
  /\ Len(records) < MaxObserved
  /\ records' = Append(records, rec)
  /\ UNCHANGED <<counts, total, seen, window, steps, past>>

ObserveAny == \E v \in Values : Observe(v)

RecordAny == \E gap \in Gaps, batch \in BatchSizes : RecordStep(gap, batch)

AppendAny == \E rec \in RecordKinds : AppendRecord(rec)

-----------------------------------------------------------------------------
(* Properties *)

Quantiles == {0, 25, 50, 90, 99, 100}

\* The value of rank ceil(q * n) among the samples.
Exact(q) ==
  LET rank == Max({1, (q * Len(seen) + 99) \div 100}) IN Ordered(seen)[rank - 1]

\* The incremental histogram is the batch one over everything observed; a
\* quantile is estimated inside the bucket that holds the exact one, as long as
\* that is a finite bucket; a percentile has its rank among the samples and grows
\* with q; the tracker's window and totals are those of the last snapshots.
SeriesMatchHistory ==
  /\ counts = CumulativeBucketCounts(seen, Bounds) /\ total = SumFunction(seen)
  /\ seen # <<>> =>
       /\ \A q \in Quantiles \ {0} :
            LET e == HistogramQuantile(counts, Bounds, q)
            IN /\ 0 <= e[3] /\ e[3] <= e[4]
               /\ IF Exact(q) > Last(Bounds) THEN e[2] = Last(Bounds)
                  ELSE e[1] <= Exact(q) /\ Exact(q) <= e[2]
       /\ \A q \in Quantiles :
            LET p == Percentile(seen, q)
                n == Len(seen) - 1
            IN /\ 100 * Cardinality({i \in DOMAIN seen : 100 * seen[i] <= p}) > n * q
               /\ 100 * Cardinality({i \in DOMAIN seen : 100 * seen[i] >= p}) > n * (100 - q)
               /\ 100 * Min(Range(seen)) <= p /\ p <= 100 * Max(Range(seen))
               /\ \A r \in Quantiles : q <= r => p <= Percentile(seen, r)
  /\ window = SubSeq(past, Max({1, Len(past) - Window + 1}), Len(past))
  /\ steps = [n |-> Len(past), tokens |-> SumFunction([i \in DOMAIN past |-> past[i].batch])]
  /\ SumFunction(BatchSizeHistogram) = Len(window)

\* A request that fails leaves every latency figure as it was and lowers or keeps
\* the share that met the SLO; every record counts once, completed or failed.
FailuresDoNotFlatter ==
  [][LET old == Aggregate(records)
         new == Aggregate(records')
     IN /\ new.completed + new.failed = Len(records')
        /\ new.met <= new.completed
        /\ records' # records /\ ~OK(Last(records')) =>
             /\ new.ttft = old.ttft /\ new.e2e = old.e2e /\ new.tokens = old.tokens
             /\ new.attained[1] * old.attained[2] <= old.attained[1] * new.attained[2]
    ]_records
=============================================================================
