------------------------------- MODULE Stats --------------------------------
(***************************************************************************)
(* The numbers dashboard/server.py derives from its samples: the latency   *)
(* percentiles and average of a window (percentiles_from_bucket_delta,     *)
(* hist_sum_count) and the points of the chart (downsample).               *)
(*                                                                         *)
(* vLLM serves a histogram: for every bound, how many latencies were at    *)
(* most that, their sum and their number, all cumulative since it started. *)
(* Each sample keeps what it saw.  "seen", which the dashboard never gets  *)
(* to know, is how often the engine has measured each latency.             *)
(***************************************************************************)
EXTENDS Integers, Sequences, FiniteSets, FiniteSetsExt

CONSTANTS
    Latencies,   \* what a request may take
    Bounds,      \* the finite bucket bounds
    Quantiles,   \* in percent
    MaxSeen, MaxScrapes,  \* bounds of the model: requests of one life, samples
    Nil          \* Python's None

ASSUME StatsAssumption ==
    /\ Latencies \subseteq Nat \ {0} /\ Bounds \subseteq Nat \ {0}
    /\ Latencies # {} /\ IsFiniteSet(Latencies) /\ IsFiniteSet(Bounds)
    /\ Quantiles \subseteq 1..100 /\ MaxSeen \in Nat /\ MaxScrapes \in Nat \ {0}
    /\ Nil \notin Int \X Int

VARIABLES
    seen,   \* the engine's latencies, in this life
    life,   \* of the engine, 0 or 1: one restart is enough to compare lives
    base,   \* the histogram of the sample a window begins with, Nil before
    points  \* what the chart takes from each sample

statsVars == <<seen, life, base, points>>

Inf == Max(Latencies \cup Bounds) + 1
Les == Bounds \cup {Inf}
Total(f, S) == MapThenSumSet(LAMBDA v : f[v], S)

\* What /metrics answers: cumulative buckets, _sum and _count.
Buckets == [b \in Les |-> Total(seen, {v \in Latencies : v <= b})]
HSum == Total([v \in Latencies |-> v * seen[v]], Latencies)
HCount == Total(seen, Latencies)

Observe(v) ==
    /\ HCount < MaxSeen
    /\ seen' = [seen EXCEPT ![v] = @ + 1]
    /\ UNCHANGED <<life, base, points>>

\* A restart that some scrape saw as an outage: the history survives it.
Restart ==
    /\ life = 0
    /\ life' = 1
    /\ seen' = [v \in Latencies |-> 0]
    /\ UNCHANGED <<base, points>>

\* What a scrape keeps of the histogram, the "+Inf" bucket with it, which
\* _to_float would drop (server.py:207).
Snapshot_InfLost == [buckets |-> [b \in Bounds |-> Buckets[b]], hsum |-> HSum,
                     hcount |-> HCount, seen |-> seen, life |-> life]
Snapshot == [buckets |-> Buckets, hsum |-> HSum, hcount |-> HCount,
             seen |-> seen, life |-> life]

\* A request rate is Nil without a baseline.  The window may move on to begin
\* with this sample.
Scrape(waiting, rate) ==
    /\ Len(points) < MaxScrapes
    /\ points' = Append(points, [waiting |-> waiting, rate |-> rate])
    /\ base' \in {Snapshot} \cup IF base = Nil THEN {} ELSE {base}
    /\ UNCHANGED <<seen, life>>

-----------------------------------------------------------------------------
(* percentiles_from_bucket_delta and hist_sum_count.  A fraction is a pair *)
(* of numerator and denominator.                                           *)

Delta(prev, cur) == [b \in Les |-> cur[b] - prev[b]]

\* Cumulative again, should the difference of two lives not be.
Monotone(d) == [b \in Les |-> Max({0} \cup {d[a] : a \in {a \in Les : a <= b}})]

\* The largest bound below this one, 0 for the first.
Lower(b) == Max({0} \cup {a \in Les : a < b})

\* The first bucket that reaches the rank q * total.
Reached_Past(cum, want) == Min({Inf} \cup {b \in Les : 100 * cum[b] > want})
Reached(cum, want) == Min({b \in Les : 100 * cum[b] >= want})

\* The value at rank "want" of a bucket, interpolated between its bounds.  It
\* holds more than the one below it: no division by zero.
Between_Backwards(lower, bound, want, count, span) ==
    <<lower * 100 * span + (bound - lower) * (100 * (count + span) - want), 100 * span>>
Between(lower, bound, want, count, span) ==
    <<lower * 100 * span + (bound - lower) * (want - 100 * count), 100 * span>>

PercentileOf(cum, q) ==
    LET want  == q * cum[Inf]
        bound == Reached(cum, want)
        lower == Lower(bound)
        count == IF lower \in Les THEN cum[lower] ELSE 0
    IN  IF bound = Inf THEN <<lower, 1>>
        ELSE Between(lower, bound, want, count, cum[bound] - count)

Percentile(prev, cur, q) ==
    LET d == Delta(prev, cur)
    IN  IF (\E b \in Les : d[b] < 0) \/ \A b \in Les : d[b] = 0 THEN Nil
        ELSE PercentileOf(Monotone(d), q)

\* prod_stats.py has one of its own, for the whole life of the engine.
HistPercentile(buckets, q) ==
    IF buckets[Inf] <= 0 THEN Nil ELSE PercentileOf(buckets, q)

MeanOf(prev, cur) ==
    IF cur.hcount - prev.hcount <= 0 \/ cur.hsum - prev.hsum < 0 THEN Nil
    ELSE <<cur.hsum - prev.hsum, cur.hcount - prev.hcount>>

-----------------------------------------------------------------------------
(* downsample.                                                             *)

\* The slice points[lo:hi], as positions counted from 1.
Slice_EndLost(i, n, limit) ==
    (((i - 1) * n) \div limit + 1)..Max({1, (i * n) \div limit - 1})
Slice(i, n, limit) ==
    LET lo == ((i - 1) * n) \div limit
    IN  (lo + 1)..Max({lo + 1, (i * n) \div limit})

\* A rate becomes its mean over the slice, a queue depth its maximum.
Downsample(limit) ==
    IF Len(points) <= limit
    THEN [i \in 1..Len(points) |->
             [at |-> i, waiting |-> points[i].waiting,
              rate |-> IF points[i].rate = Nil THEN Nil ELSE <<points[i].rate, 1>>]]
    ELSE [i \in 1..limit |->
            LET chunk == Slice(i, Len(points), limit)
                rated == {j \in chunk : points[j].rate # Nil}
            IN  [at |-> Max(chunk),
                 waiting |-> Max({points[j].waiting : j \in chunk}),
                 rate |-> IF rated = {} THEN Nil
                          ELSE <<Total([j \in rated |-> points[j].rate], rated),
                                 Cardinality(rated)>>]]

-----------------------------------------------------------------------------
StatsInit ==
    /\ seen = [v \in Latencies |-> 0]
    /\ life = 0
    /\ base = Nil
    /\ points = <<>>

StatsNext ==
    \/ \E v \in Latencies : Observe(v)
    \/ Restart
    \/ \E waiting \in {0, 1}, rate \in {Nil, 1} : Scrape(waiting, rate)

StatsSpec == StatsInit /\ [][StatsNext]_statsVars

-----------------------------------------------------------------------------
(* What is checked, at any moment a scrape may end the window.             *)

Percentiles(q) == Percentile(base.buckets, Snapshot.buckets, q)

\* The window lies in one life, and its requests.
OneLife == base # Nil /\ base.life = life
Since == [v \in Latencies |-> seen[v] - base.seen[v]]

\* Every variable has its type, and what a sample keeps of a histogram is
\* cumulative and ends with the count.
StatsTypeOK ==
    /\ seen \in [Latencies -> 0..MaxSeen] /\ life \in {0, 1}
    /\ points \in Seq([waiting : {0, 1}, rate : {Nil, 1}])
    /\ base # Nil =>
          /\ base.buckets \in [Les -> 0..MaxSeen] /\ base.buckets[Inf] = base.hcount
          /\ \A a, b \in Les : a <= b => base.buckets[a] <= base.buckets[b]

\* The latency p falls into the bucket of the true percentile of what was
\* counted, or is the last finite bound when that lies beyond it.
InBucket(p, counted, q) ==
    LET n == Total(counted, Latencies) IN
    IF n = 0 THEN p = Nil
    ELSE LET true == Min({v \in Latencies :
                     100 * Total(counted, {w \in Latencies : w <= v}) >= q * n})
             up  == Min({b \in Les : true <= b})
             low == Max({0} \cup {b \in Les : b < true})
         IN  IF up = Inf THEN p = <<low, 1>>
             ELSE low * p[2] < p[1] /\ p[1] <= up * p[2]

\* The average m is that of the requests counted, and there is one if any is.
ExactMean(m, counted) ==
    LET n == Total(counted, Latencies) IN
    IF n = 0 THEN m = Nil
    ELSE m[1] * n
            = m[2] * Total([v \in Latencies |-> v * counted[v]], Latencies)

\* Within one life of the engine a percentile of the dashboard falls into the
\* bucket of the true one, the least latency that q percent of the window's
\* requests did not exceed, and the average beside it is exact; and over
\* everything the engine has measured so does the percentile of the
\* evaluation's report (server.py:227-281, prod_stats.py:182-206).
LatenciesHonest ==
    /\ OneLife => ExactMean(MeanOf(base, Snapshot), Since)
    /\ \A q \in Quantiles :
          /\ OneLife => InBucket(Percentiles(q), Since, q)
          /\ InBucket(HistPercentile(Buckets, q), seen, q)

\* Whatever lives the two ends of the window belong to, a higher quantile is
\* never served with a lower latency.
QuantilesOrdered ==
    base # Nil => \A q, r \in Quantiles :
        LET a == Percentiles(q)
            b == Percentiles(r)
        IN  /\ a = Nil <=> b = Nil
            /\ q < r /\ a # Nil => a[1] * b[2] <= b[1] * a[2]

\* However many samples become however many points, every sample is in exactly
\* one: a point stands for those after the point before it, with the highest
\* queue and the mean rate among them, and the last one is the newest sample
\* (server.py:146-149).
ChartComplete ==
    \A limit \in 1..MaxScrapes :
        LET chart == Downsample(limit)
            from(i) == IF i = 1 THEN 1 ELSE chart[i - 1].at + 1
        IN  points # <<>> =>
            /\ Len(chart) = Min({limit, Len(points)})
            /\ chart[Len(chart)].at = Len(points)
            /\ \A i \in 1..Len(chart) :
                  LET part  == from(i)..chart[i].at
                      rated == {j \in part : points[j].rate # Nil}
                  IN  /\ part # {}
                      /\ chart[i].waiting = Max({points[j].waiting : j \in part})
                      /\ chart[i].rate =
                            IF rated = {} THEN Nil
                            ELSE <<Total([j \in rated |-> points[j].rate], rated),
                                   Cardinality(rated)>>
=============================================================================
