--------------------------- MODULE MonitorProofs ---------------------------
(***************************************************************************)
(* Proofs about Monitor, for any number of requests, counters, restarts    *)
(* and any history length.                                                 *)
(***************************************************************************)
EXTENDS Monitor, FiniteSetTheorems, TLAPS

(***************************************************************************)
(* The inductive invariant.  The thread holds up to two scrapes: the one   *)
(* in hand (cur) and the baseline (prev).  Whatever it still holds is      *)
(* "known": no scrape has failed since the engine last died, every life    *)
(* that began after it is a quick one, and in its own life the counters    *)
(* have only grown.  A failed scrape drops the baseline, which is why a    *)
(* held one stays known; and a counter that fell between two known scrapes *)
(* of one life would contradict growth, so each reset is a real restart.   *)
(***************************************************************************)
Holding == pc \in {"fetched", "cleared"}

Before(s, t) ==
    /\ s.epoch <= t.epoch
    /\ (s.epoch + 1)..t.epoch \subseteq engine.quick
    /\ s.epoch = t.epoch => \A k \in Counters : s.c[k] <= t.c[k]

Known(s) == Before(s, engine) /\ ~engine.missed

HeldInv ==
    /\ engine.up => ~engine.missed
    /\ Holding => cur \in Scrape /\ Known(cur)
    /\ prev # None \/ pc = "attach" => prev \in Scrape /\ Known(prev)
    /\ Holding /\ prev # None => Before(prev, cur)

BaselineInv ==
    /\ prev # None => /\ Len(rows) > 0
                      /\ prev.ts = rows[Len(rows)].ts
                      /\ prev.epoch = rows[Len(rows)].epoch
                      /\ prev.c = rows[Len(rows)].c
    /\ pc = "attach" => Len(rows) > 0

ResetsInv ==
    /\ resets <= engine.epoch
    /\ Holding => resets <= cur.epoch
    /\ prev # None /\ pc # "cleared" => resets <= prev.epoch

IInv == HistoryTypeOK /\ HeldInv /\ BaselineInv /\ ResetsInv

\* A history without rows has it.
LEMMA InitIInv == Init => IInv
BY BoundsAssumption, NoneAssumption
   DEF Init, IInv, HistoryTypeOK, HeldInv, BaselineInv, ResetsInv, Known,
       Before, Holding, Count, Scrape, Row, States

\* What each part of the invariant reads, unfolded once for the steps below.
LEMMA StepIInv == IInv /\ [Next]_vars => IInv'
<1> SUFFICES ASSUME IInv, [Next]_vars PROVE IInv'
  OBVIOUS
<1> USE BoundsAssumption, NoneAssumption DEF IInv
<1>1. CASE Serve
  <2>1. /\ engine' \in [up : BOOLEAN, epoch : 0..MaxEpoch,
                        c : [Counters -> Count], h : Count, missed : BOOLEAN,
                        quick : SUBSET (0..MaxEpoch)]
        /\ engine'.epoch = engine.epoch /\ engine'.quick = engine.quick
        /\ engine'.missed = engine.missed /\ engine'.up = engine.up
        /\ \A k \in Counters : engine'.c[k] >= engine.c[k]
    <3>1. CASE /\ engine.h < MaxCount
               /\ engine' = [engine EXCEPT !.h = @ + 1]
      <4>1. engine.h \in Count /\ engine.h + 1 \in Count
        BY <3>1, BoundsAssumption DEF HistoryTypeOK, Count
      <4>2. engine'.c = engine.c /\ engine.c \in [Counters -> Count]
        BY <3>1 DEF HistoryTypeOK
      <4>3. \A k \in Counters : engine'.c[k] >= engine.c[k]
        BY <4>2 DEF Count
      <4> QED BY <3>1, <4>1, <4>2, <4>3 DEF HistoryTypeOK
    <3>2. CASE \E k \in Counters : /\ engine.c[k] < MaxCount
                                   /\ engine' = [engine EXCEPT !.c[k] = @ + 1]
      <4>1. PICK k \in Counters : /\ engine.c[k] < MaxCount
                                  /\ engine' = [engine EXCEPT !.c[k] = @ + 1]
        BY <3>2
      <4>2. engine'.c = [engine.c EXCEPT ![k] = engine.c[k] + 1]
        BY <4>1 DEF HistoryTypeOK
      <4>3. engine'.c \in [Counters -> Count]
        BY <4>1, <4>2 DEF HistoryTypeOK, Count
      <4>4. \A j \in Counters : engine'.c[j] >= engine.c[j]
        BY <4>2 DEF HistoryTypeOK, Count
      <4> QED BY <4>1, <4>3, <4>4 DEF HistoryTypeOK
    <3> QED BY <1>1, <3>1, <3>2 DEF Serve
  <2>2. HistoryTypeOK'
    BY <1>1, <2>1 DEF Serve, HistoryTypeOK
  <2>3. \A s \in Scrape : Known(s) => Known(s)'
    BY <1>1, <2>1 DEF Known, Before, HistoryTypeOK, Scrape, Count
  <2>4. HeldInv'
    BY <1>1, <2>1, <2>3 DEF Serve, HeldInv, Before, Holding
  <2>5. BaselineInv' /\ ResetsInv'
    BY <1>1, <2>1 DEF Serve, BaselineInv, ResetsInv, Holding
  <2> QED BY <2>2, <2>4, <2>5
<1>2. CASE Crash
  <2>1. HistoryTypeOK'
    BY <1>2 DEF Crash, HistoryTypeOK
  <2>2. HeldInv'
    BY <1>2 DEF Crash, HeldInv, Known, Before, Holding, HistoryTypeOK
  <2>3. BaselineInv' /\ ResetsInv'
    BY <1>2 DEF Crash, BaselineInv, ResetsInv, Holding, HistoryTypeOK
  <2> QED BY <2>1, <2>2, <2>3
<1>3. CASE Boot
  <2>1. HistoryTypeOK'
    BY <1>3 DEF Boot, HistoryTypeOK, Count
  <2>2. ASSUME NEW s \in Scrape, Known(s) PROVE Known(s)'
    BY <1>3, <2>2 DEF Boot, Known, Before, HistoryTypeOK, Count, Scrape
  <2>3. ASSUME NEW s \in Scrape, NEW t \in Scrape, Before(s, t) PROVE Before(s, t)'
    BY <1>3, <2>3 DEF Boot, Before, HistoryTypeOK
  <2>4. HeldInv'
    BY <1>3, <2>2, <2>3 DEF Boot, HeldInv, Holding, HistoryTypeOK
  <2>5. BaselineInv' /\ ResetsInv'
    BY <1>3 DEF Boot, BaselineInv, ResetsInv, Holding, HistoryTypeOK
  <2> QED BY <2>1, <2>4, <2>5
<1>4. CASE Wake
  <2>1. HistoryTypeOK'
    BY <1>4 DEF Wake, HistoryTypeOK
  <2>2. HeldInv' /\ BaselineInv' /\ ResetsInv'
    BY <1>4 DEF Wake, HeldInv, Known, Before, Holding, BaselineInv, ResetsInv
  <2> QED BY <2>1, <2>2
<1>5. CASE FetchOk
  <2>1. cur' \in Scrape
    BY <1>5 DEF FetchOk, HistoryTypeOK, Scrape
  <2>2. HistoryTypeOK'
    BY <1>5, <2>1 DEF FetchOk, HistoryTypeOK
  <2>3. Known(cur)'
    BY <1>5, <2>1 DEF FetchOk, Known, Before, HeldInv, HistoryTypeOK, Scrape, Count
  <2>4. prev # None => Before(prev, cur)'
    BY <1>5 DEF FetchOk, HeldInv, Known, Before
  <2>5. HeldInv'
    BY <1>5, <2>1, <2>3, <2>4 DEF FetchOk, HeldInv, Known, Before, Holding
  <2>6. BaselineInv' /\ ResetsInv'
    BY <1>5 DEF FetchOk, BaselineInv, ResetsInv, Holding
  <2> QED BY <2>2, <2>5, <2>6
<1>6. CASE Degrade
  <2>1. HistoryTypeOK'
    BY <1>6 DEF Degrade, DegradedBaseline, HistoryTypeOK, States
  <2>2. HeldInv' /\ BaselineInv' /\ ResetsInv'
    BY <1>6 DEF Degrade, DegradedBaseline, HeldInv, Known, Before, Holding,
                BaselineInv, ResetsInv, HistoryTypeOK
  <2> QED BY <2>1, <2>2
<1>7. CASE ClearOnReset
  <2>1. prev.epoch < cur.epoch
    BY <1>7 DEF ClearOnReset, CounterReset, HeldInv, Holding, Before, Scrape, Count
  <2>2. HistoryTypeOK'
    BY <1>7 DEF ClearOnReset, HistoryTypeOK
  <2>3. HeldInv' /\ BaselineInv'
    BY <1>7 DEF ClearOnReset, HeldInv, Known, Before, Holding, BaselineInv
  <2>4. resets' <= cur.epoch /\ cur.epoch <= engine.epoch
    BY <1>7, <2>1 DEF ClearOnReset, CounterReset, ResetsInv, HeldInv, Holding,
                      Known, Before, HistoryTypeOK, Scrape
  <2>5. ResetsInv'
    BY <1>7, <2>4 DEF ClearOnReset, ResetsInv, Holding, HistoryTypeOK, HeldInv, Scrape
  <2> QED BY <2>2, <2>3, <2>5
<1>8. CASE AppendRow
  <2> DEFINE row == [ts |-> cur.ts, epoch |-> cur.epoch, c |-> cur.c,
                     rate |-> Rates, snap |-> None]
  <2>1. Holding /\ cur \in Scrape /\ Known(cur)
    BY <1>8 DEF AppendRow, HeldInv, Holding
  <2>2. Rates \in [Counters -> Int] \cup {None}
    BY <2>1 DEF Rates, HeldInv, Scrape, Count
  <2>3. row \in Row
    BY <2>1, <2>2 DEF Row, Scrape
  <2>4. /\ rows' \in Seq(Row) /\ Len(rows') = Len(rows) + 1
        /\ rows'[Len(rows')] = row
        /\ row.ts = cur.ts /\ row.epoch = cur.epoch /\ row.c = cur.c
    BY <1>8, <2>3 DEF AppendRow, HistoryTypeOK
  <2>5. first' \in 1..(Len(rows') + 1)
    BY <1>8, <2>4, HistoryAssumption DEF AppendRow, OldestKept, HistoryTypeOK
  <2>6. HistoryTypeOK'
    BY <1>8, <2>1, <2>4, <2>5 DEF AppendRow, AppendedBaseline, HistoryTypeOK, States
  <2>7. HeldInv'
    <3>1. prev' = cur /\ engine' = engine /\ pc' = "attach"
      BY <1>8 DEF AppendRow, AppendedBaseline
    <3>2. Known(prev)'
      BY <2>1, <3>1 DEF Known, Before
    <3> QED BY <2>1, <3>1, <3>2 DEF HeldInv, Holding
  <2>8. BaselineInv'
    <3>1. prev' = cur /\ Len(rows) \in Nat
      BY <1>8 DEF AppendRow, AppendedBaseline, HistoryTypeOK
    <3>2. Len(rows') > 0
      BY <2>4, <3>1
    <3> HIDE DEF row
    <3> QED BY <2>4, <3>1, <3>2 DEF BaselineInv
  <2>9. ResetsInv'
    BY <1>8, <2>1 DEF AppendRow, AppendedBaseline, ResetsInv, Holding
  <2> QED BY <2>6, <2>7, <2>8, <2>9
<1>9. CASE Attach
  <2>1. prev \in Scrape /\ Len(rows) > 0
    BY <1>9 DEF Attach, HeldInv, BaselineInv
  <2>2. /\ rows' \in Seq(Row) /\ Len(rows') = Len(rows)
        /\ \A i \in 1..Len(rows) : /\ rows'[i].ts = rows[i].ts
                                   /\ rows'[i].epoch = rows[i].epoch
                                   /\ rows'[i].c = rows[i].c
    <3> DEFINE last == Len(rows)
               row == [rows[last] EXCEPT !.snap = prev.h]
    <3>1. last \in 1..Len(rows) /\ rows[last] \in Row
      BY <2>1 DEF HistoryTypeOK
    <3>2. /\ row \in Row /\ row.ts = rows[last].ts
          /\ row.epoch = rows[last].epoch /\ row.c = rows[last].c
      BY <2>1, <3>1 DEF Row, Scrape
    <3>3. rows' = [rows EXCEPT ![last] = row]
      BY <1>9 DEF Attach, AttachedRow
    <3> HIDE DEF last, row
    <3> QED BY <3>1, <3>2, <3>3 DEF HistoryTypeOK
  <2>3. HistoryTypeOK'
    BY <1>9, <2>2 DEF Attach, HistoryTypeOK
  <2>4. HeldInv' /\ ResetsInv'
    BY <1>9 DEF Attach, HeldInv, Known, Before, Holding, ResetsInv
  <2>5. BaselineInv'
    BY <1>9, <2>1, <2>2 DEF Attach, BaselineInv, HistoryTypeOK
  <2> QED BY <2>3, <2>4, <2>5
<1>10. ASSUME NEW r \in Readers, Snapshot(r) PROVE IInv'
  <2>1. UNCHANGED <<engine, now, pc, cur, rows, first, prev, state, resets>>
    BY <1>10 DEF Snapshot, Copy, BeginLatest, EndLatest, Derive
  <2> QED BY <2>1 DEF HistoryTypeOK, HeldInv, BaselineInv, ResetsInv, Known, Before, Holding
<1>11. CASE UNCHANGED vars
  BY <1>11 DEF vars, HistoryTypeOK, HeldInv, BaselineInv, ResetsInv, Known, Before, Holding
<1> QED
  BY <1>1, <1>2, <1>3, <1>4, <1>5, <1>6, <1>7, <1>8, <1>9, <1>10, <1>11
     DEF Next, Metrics

\* The thread's state has its type, whatever the readers do.
THEOREM HistoryTypeCorrect == Spec => []HistoryTypeOK
<1>1. IInv => HistoryTypeOK
  BY DEF IInv
<1> QED BY InitIInv, StepIInv, <1>1, PTL DEF Spec

\* counter_resets counts restarts and nothing else.
THEOREM ResetsRealCorrect == Spec => []ResetsReal
<1>1. IInv => ResetsReal
  BY DEF IInv, ResetsInv, ResetsReal
<1> QED BY InitIInv, StepIInv, <1>1, PTL DEF Spec

-----------------------------------------------------------------------------
(* The rows.  A rate is computed against the baseline, which BaselineInv    *)
(* makes the row before; HeldInv says how the two scrapes are related.      *)

RowsInv == RatesNonNegative /\ RateOneLife /\ OnlyNewestBare

\* Only the metrics thread's last two steps touch the rows, and the set of
\* quick lives only grows.
LEMMA StepRowsInv == IInv /\ IInv' /\ RowsInv /\ [Next]_vars => RowsInv'
<1> SUFFICES ASSUME IInv, IInv', RowsInv, [Next]_vars PROVE RowsInv'
  OBVIOUS
<1> USE DEF IInv
<1> DEFINE lives(i) == (rows[i - 1].epoch + 1)..rows[i].epoch
<1>1. CASE AppendRow
  <2> DEFINE n == Len(rows)
             row == [ts |-> cur.ts, epoch |-> cur.epoch, c |-> cur.c,
                     rate |-> Rates, snap |-> None]
  <2>1. n \in Nat /\ rows' = Append(rows, row) /\ rows \in Seq(Row)
    BY <1>1 DEF AppendRow, HistoryTypeOK
  <2>2. /\ Len(rows') = n + 1 /\ rows'[n + 1] = row
        /\ \A i \in 1..n : rows'[i] = rows[i]
    <3> HIDE DEF row
    <3> QED BY <2>1
  <2>3. cur \in Scrape /\ Holding /\ engine' = engine
    BY <1>1 DEF AppendRow, HeldInv, Holding
  <2>4. row.rate # None =>
          /\ n > 0
          /\ \A k \in Counters : /\ row.rate[k] = row.c[k] - rows[n].c[k]
                                 /\ row.rate[k] >= 0
          /\ (rows[n].epoch + 1)..row.epoch \subseteq engine.quick
    <3> SUFFICES ASSUME Rates # None
                 PROVE  /\ n > 0
                        /\ \A k \in Counters : /\ Rates[k] = cur.c[k] - rows[n].c[k]
                                               /\ Rates[k] >= 0
                        /\ (rows[n].epoch + 1)..cur.epoch \subseteq engine.quick
      OBVIOUS
    <3>1. pc = "fetched" /\ prev # None /\ Rates = [k \in Counters |-> cur.c[k] - prev.c[k]]
      BY DEF Rates
    <3>2. prev \in Scrape /\ Before(prev, cur)
      BY <2>3, <3>1 DEF HeldInv
    <3>3. \A k \in Counters : cur.c[k] >= prev.c[k]
      BY <1>1, <2>3, <3>1, <3>2 DEF AppendRow, CounterReset, Scrape, Count
    <3>4. n > 0 /\ prev.c = rows[n].c /\ prev.epoch = rows[n].epoch
      BY <3>1 DEF BaselineInv
    <3>5. \A k \in Counters : cur.c[k] \in Int /\ prev.c[k] \in Int
      BY <2>3, <3>2 DEF Scrape, Count
    <3> QED BY <3>1, <3>2, <3>3, <3>4, <3>5 DEF Before
  <2> HIDE DEF row
  <2>5. RatesNonNegative'
    BY <2>1, <2>2, <2>4 DEF RowsInv, RatesNonNegative
  <2>6. RateOneLife'
    <3> SUFFICES ASSUME NEW i \in 1..(n + 1), rows'[i].rate # None
                 PROVE  /\ i > 1
                        /\ \A k \in Counters : rows'[i].rate[k] = rows'[i].c[k] - rows'[i - 1].c[k]
                        /\ (rows'[i - 1].epoch + 1)..rows'[i].epoch \subseteq engine.quick
      BY <2>2, <2>3 DEF RateOneLife
    <3>1. CASE i = n + 1
      BY <2>1, <2>2, <2>4, <3>1
    <3>2. CASE i \in 1..n
      <4>1. /\ i > 1
            /\ \A k \in Counters : rows[i].rate[k] = rows[i].c[k] - rows[i - 1].c[k]
            /\ lives(i) \subseteq engine.quick
        BY <2>2, <3>2 DEF RowsInv, RateOneLife
      <4>2. i - 1 \in 1..n
        BY <2>1, <3>2, <4>1
      <4> QED BY <2>2, <3>2, <4>1, <4>2
    <3> QED BY <2>1, <3>1, <3>2
  <2>7. OnlyNewestBare'
    <3>1. \A i \in 1..n : rows[i].snap # None
      BY <2>3 DEF RowsInv, OnlyNewestBare, Holding
    <3>2. pc' = "attach"
      BY <1>1 DEF AppendRow
    <3> QED BY <2>1, <2>2, <3>1, <3>2 DEF OnlyNewestBare
  <2> QED BY <2>5, <2>6, <2>7 DEF RowsInv
<1>2. CASE Attach
  <2>1. prev \in Scrape /\ Len(rows) > 0 /\ rows \in Seq(Row) /\ Len(rows) \in Nat
    BY <1>2 DEF Attach, HeldInv, BaselineInv, HistoryTypeOK
  <2> DEFINE last == Len(rows)
             row == [rows[last] EXCEPT !.snap = prev.h]
  <2>2. last \in 1..Len(rows) /\ rows[last] \in Row
    BY <2>1
  <2>3. /\ row.rate = rows[last].rate /\ row.c = rows[last].c
        /\ row.epoch = rows[last].epoch /\ row.snap = prev.h /\ prev.h # None
    BY <2>1, <2>2, NoneAssumption DEF Row, Scrape, Count
  <2>4. rows' = [rows EXCEPT ![last] = row] /\ engine' = engine
    BY <1>2 DEF Attach, AttachedRow
  <2> HIDE DEF row, last
  <2>5. /\ Len(rows') = Len(rows)
        /\ rows'[last] = row
        /\ \A i \in 1..Len(rows) : i # last => rows'[i] = rows[i]
    BY <2>1, <2>2, <2>4
  <2>9. \A i \in 1..Len(rows) : /\ rows'[i].rate = rows[i].rate
                                /\ rows'[i].c = rows[i].c
                                /\ rows'[i].epoch = rows[i].epoch
    BY <2>3, <2>5
  <2>10. rows'[last].snap # None
    BY <2>3, <2>5
  <2>6. RatesNonNegative'
    BY <2>1, <2>5, <2>9 DEF RowsInv, RatesNonNegative
  <2>7. RateOneLife'
    <3> SUFFICES ASSUME NEW i \in 1..Len(rows), rows'[i].rate # None
                 PROVE  /\ i > 1
                        /\ \A k \in Counters : rows'[i].rate[k] = rows'[i].c[k] - rows'[i - 1].c[k]
                        /\ (rows'[i - 1].epoch + 1)..rows'[i].epoch \subseteq engine.quick
      BY <2>4, <2>5 DEF RateOneLife
    <3>1. /\ i > 1
          /\ \A k \in Counters : rows[i].rate[k] = rows[i].c[k] - rows[i - 1].c[k]
          /\ lives(i) \subseteq engine.quick
      BY <2>9 DEF RowsInv, RateOneLife
    <3>2. i - 1 \in 1..Len(rows)
      BY <2>1, <3>1
    <3> QED BY <2>9, <3>1, <3>2
  <2>8. OnlyNewestBare'
    <3> SUFFICES ASSUME NEW i \in 1..Len(rows), rows'[i].snap = None PROVE FALSE
      BY <2>5 DEF OnlyNewestBare
    <3>1. i # last /\ rows[i].snap = None
      BY <2>5, <2>10
    <3> QED BY <3>1 DEF RowsInv, OnlyNewestBare, last
  <2> QED BY <2>6, <2>7, <2>8 DEF RowsInv
<1>3. CASE rows' = rows /\ pc' # pc /\ pc' # "attach" /\ pc # "attach"
           /\ engine'.quick = engine.quick
  BY <1>3 DEF RowsInv, RatesNonNegative, RateOneLife, OnlyNewestBare
<1>4. CASE rows' = rows /\ pc' = pc /\ engine.quick \subseteq engine'.quick
  BY <1>4 DEF RowsInv, RatesNonNegative, RateOneLife, OnlyNewestBare
<1>5. CASE Wake \/ FetchOk \/ Degrade \/ ClearOnReset
  <2>1. /\ rows' = rows /\ pc' # pc /\ pc' # "attach" /\ pc # "attach"
        /\ engine'.quick = engine.quick
    BY <1>5 DEF Wake, FetchOk, Degrade, ClearOnReset, HistoryTypeOK
  <2> QED BY <2>1, <1>3
<1>6. CASE Serve \/ Crash \/ Boot
  <2>1. rows' = rows /\ pc' = pc
    BY <1>6 DEF Serve, Crash, Boot
  <2>2. engine.quick \subseteq engine'.quick
    <3>1. CASE Serve
      <4>1. CASE engine' = [engine EXCEPT !.h = @ + 1]
        BY <4>1 DEF HistoryTypeOK
      <4>2. ASSUME NEW k \in Counters, engine' = [engine EXCEPT !.c[k] = @ + 1]
            PROVE  engine.quick \subseteq engine'.quick
        BY <4>2 DEF HistoryTypeOK
      <4> QED BY <3>1, <4>1, <4>2 DEF Serve
    <3>2. CASE Crash
      BY <3>2 DEF Crash, HistoryTypeOK
    <3>3. CASE Boot
      BY <3>3 DEF Boot, HistoryTypeOK
    <3> QED BY <1>6, <3>1, <3>2, <3>3
  <2> QED BY <2>1, <2>2, <1>4
<1>7. ASSUME NEW r \in Readers, Snapshot(r) PROVE RowsInv'
  <2>1. rows' = rows /\ pc' = pc /\ engine' = engine
    BY <1>7 DEF Snapshot, Copy, BeginLatest, EndLatest, Derive
  <2> QED BY <2>1, <1>4
<1>8. CASE UNCHANGED vars
  BY <1>4, <1>8 DEF vars
<1> QED BY <1>1, <1>2, <1>5, <1>6, <1>7, <1>8 DEF Next, Metrics

\* Both hold throughout.
LEMMA RowsInvCorrect == Spec => [](IInv /\ RowsInv)
<1>1. Init => RowsInv
  BY DEF Init, RowsInv, RatesNonNegative, RateOneLife, OnlyNewestBare
<1>2. IInv /\ RowsInv /\ [Next]_vars => (IInv /\ RowsInv)'
  BY StepIInv, StepRowsInv
<1> QED BY InitIInv, <1>1, <1>2, PTL DEF Spec

\* No throughput the page plots is ever negative.
THEOREM RatesNonNegativeCorrect == Spec => []RatesNonNegative
<1>1. RowsInv => RatesNonNegative
  BY DEF RowsInv
<1> QED BY RowsInvCorrect, <1>1, PTL

\* A plotted rate joins two lives of the engine only across restarts that no
\* scrape saw.
THEOREM RateOneLifeCorrect == Spec => []RateOneLife
<1>1. RowsInv => RateOneLife
  BY DEF RowsInv
<1> QED BY RowsInvCorrect, <1>1, PTL

\* Only the newest row can lack its histogram snapshot.
THEOREM OnlyNewestBareCorrect == Spec => []OnlyNewestBare
<1>1. RowsInv => OnlyNewestBare
  BY DEF RowsInv
<1> QED BY RowsInvCorrect, <1>1, PTL

-----------------------------------------------------------------------------
(* What a request holds.  Its copy refers to rows of the log, and nothing   *)
(* but the snapshot of a row ever changes.                                  *)

\* What a row was appended with stays, and so does its place.
LEMMA RowsKept ==
    IInv /\ [Next]_vars =>
        /\ Len(rows) \in Nat /\ Len(rows') \in Nat /\ Len(rows) <= Len(rows')
        /\ \A i \in 1..Len(rows) : rows'[i].ts = rows[i].ts /\ rows'[i].c = rows[i].c
<1> SUFFICES ASSUME IInv, [Next]_vars
             PROVE  /\ Len(rows) \in Nat /\ Len(rows') \in Nat /\ Len(rows) <= Len(rows')
                    /\ \A i \in 1..Len(rows) :
                           rows'[i].ts = rows[i].ts /\ rows'[i].c = rows[i].c
  OBVIOUS
<1> USE DEF IInv
<1>1. CASE AppendRow
  <2> DEFINE row == [ts |-> cur.ts, epoch |-> cur.epoch, c |-> cur.c,
                     rate |-> Rates, snap |-> None]
  <2>1. rows' = Append(rows, row) /\ rows \in Seq(Row)
    BY <1>1 DEF AppendRow, HistoryTypeOK
  <2> HIDE DEF row
  <2> QED BY <2>1
<1>2. CASE Attach
  <2>1. Len(rows) > 0 /\ rows \in Seq(Row)
    BY <1>2 DEF Attach, BaselineInv, HistoryTypeOK
  <2> DEFINE last == Len(rows)
             row == [rows[last] EXCEPT !.snap = prev.h]
  <2>2. last \in 1..Len(rows) /\ rows[last] \in Row
    BY <2>1
  <2>3. row.ts = rows[last].ts /\ row.c = rows[last].c
    BY <2>2 DEF Row
  <2>4. rows' = [rows EXCEPT ![last] = row]
    BY <1>2 DEF Attach, AttachedRow
  <2> HIDE DEF row, last
  <2> QED BY <2>1, <2>2, <2>3, <2>4
<1>3. CASE rows' = rows
  BY <1>3 DEF HistoryTypeOK
<1>4. CASE Serve \/ Crash \/ Boot \/ Wake \/ FetchOk \/ Degrade \/ ClearOnReset
  BY <1>3, <1>4 DEF Serve, Crash, Boot, Wake, FetchOk, Degrade, ClearOnReset
<1>5. ASSUME NEW r \in Readers, Snapshot(r) PROVE rows' = rows
  BY <1>5 DEF Snapshot, Copy, BeginLatest, EndLatest, Derive
<1> QED BY <1>1, <1>2, <1>3, <1>4, <1>5 DEF Next, Metrics, vars

ViewInv ==
    /\ state = "up" <=> prev # None
    /\ DOMAIN reader = Readers
    /\ \A r \in Readers :
         LET v == reader[r] IN
         /\ v.to \in 0..Len(rows) /\ v.from \in 1..(Len(rows) + 1)
         /\ v.state = "up" <=> v.prev # None
         /\ v.prev # None /\ v.from <= v.to =>
                v.prev.ts = rows[v.to].ts /\ v.prev.c = rows[v.to].c

\* No step breaks a request's view: rows are appended, dropped at the old end
\* or attached to, and the view looks at none of that.
LEMMA StepViewInv == IInv /\ IInv' /\ ViewInv /\ [Next]_vars => ViewInv'
<1> SUFFICES ASSUME IInv, IInv', ViewInv, [Next]_vars PROVE ViewInv'
  OBVIOUS
<1>1. /\ Len(rows) \in Nat /\ Len(rows') \in Nat /\ Len(rows) <= Len(rows')
      /\ \A i \in 1..Len(rows) : rows'[i].ts = rows[i].ts /\ rows'[i].c = rows[i].c
  BY RowsKept
<1>2. CASE /\ reader' = reader
           /\ state' = "up" <=> prev' # None
  BY <1>1, <1>2 DEF ViewInv
<1>3. CASE AppendRow
  <2>1. cur \in Scrape
    BY <1>3 DEF AppendRow, IInv, HeldInv, Holding
  <2>2. prev' = cur /\ cur # None /\ state' = "up" /\ reader' = reader
    BY <1>3, <2>1, NoneAssumption DEF AppendRow, AppendedBaseline
  <2> QED BY <1>2, <2>2
<1>4. CASE Serve \/ Crash \/ Boot \/ Wake \/ FetchOk \/ ClearOnReset \/ Attach
  <2>1. reader' = reader /\ state' = state /\ prev' = prev
    BY <1>4 DEF Serve, Crash, Boot, Wake, FetchOk, ClearOnReset, Attach
  <2> QED BY <1>2, <2>1 DEF ViewInv
<1>5. CASE Degrade
  BY <1>2, <1>5 DEF Degrade, DegradedBaseline, ViewInv
<1>6. ASSUME NEW r \in Readers, Snapshot(r) PROVE ViewInv'
  <2>1. UNCHANGED <<rows, state, prev>>
    BY <1>6 DEF Snapshot, Copy, BeginLatest, EndLatest, Derive
  <2>2. CASE Copy(r)
    <3>1. /\ first \in 1..(Len(rows) + 1)
          /\ prev # None => prev.ts = rows[Len(rows)].ts /\ prev.c = rows[Len(rows)].c
      BY DEF IInv, HistoryTypeOK, BaselineInv
    <3>2. /\ DOMAIN reader' = Readers
          /\ \A q \in Readers \ {r} : reader'[q] = reader[q]
          /\ reader'[r] = [pc |-> "copied", from |-> first, to |-> Len(rows),
                           prev |-> prev, state |-> state, bare |-> FALSE,
                           resp |-> None]
      BY <2>2 DEF Copy, ViewInv
    <3> QED BY <1>1, <2>1, <3>1, <3>2 DEF ViewInv
  <2>3. CASE BeginLatest(r) \/ EndLatest(r) \/ Derive(r)
    <3>1. /\ DOMAIN reader' = Readers
          /\ \A q \in Readers : /\ reader'[q].to = reader[q].to
                                /\ reader'[q].from = reader[q].from
                                /\ reader'[q].prev = reader[q].prev
                                /\ reader'[q].state = reader[q].state
      <4>1. CASE BeginLatest(r)
        BY <4>1 DEF BeginLatest, ViewInv
      <4>2. CASE EndLatest(r)
        BY <4>2 DEF EndLatest, ViewInv
      <4>3. CASE Derive(r)
        BY <4>3 DEF Derive, ViewInv
      <4> QED BY <2>3, <4>1, <4>2, <4>3
    <3> QED BY <2>1, <3>1 DEF ViewInv
  <2> QED BY <1>6, <2>2, <2>3 DEF Snapshot
<1>7. CASE UNCHANGED vars
  BY <1>2, <1>7 DEF vars, ViewInv
<1> QED BY <1>3, <1>4, <1>5, <1>6, <1>7 DEF Next, Metrics

\* A request's histogram and its newest row are one scrape, and it reports
\* the engine up exactly when it has one.
THEOREM ViewCoherentCorrect == Spec => []ViewCoherent
<1>1. Init => ViewInv
  BY DEF Init, ViewInv
<1>2. IInv /\ ViewInv /\ [Next]_vars => (IInv /\ ViewInv)'
  BY StepIInv, StepViewInv
<1>3. ViewInv => ViewCoherent
  BY DEF ViewInv, ViewCoherent
<1> QED BY InitIInv, <1>1, <1>2, <1>3, PTL DEF Spec

-----------------------------------------------------------------------------
(* What a request derives.  Both searches of snapshot() are for an extreme  *)
(* index; that one exists is the least-number principle, which is proved    *)
(* here from the library's theorem that finite sets of naturals are         *)
(* well-founded under strict inclusion.                                     *)

\* A set of naturals that is not empty has a least element.
LEMMA Least ==
    ASSUME NEW T \in SUBSET Nat, T # {}
    PROVE  \E n \in T : \A m \in T : n <= m
<1> DEFINE R == StrictSubsetOrdering(Nat)
           I == {0..n : n \in T}
<1>1. IsWellFoundedOn(R, FiniteSubsetsOf(Nat))
  BY FS_StrictSubsetOrderingWellFounded
<1>2. I \subseteq FiniteSubsetsOf(Nat) /\ I # {}
  <2>1. ASSUME NEW n \in T PROVE 0..n \in FiniteSubsetsOf(Nat)
    <3>1. IsFiniteSet(0..n)
      BY FS_Interval
    <3> QED BY <3>1 DEF FiniteSubsetsOf
  <2> QED BY <2>1
<1>3. PICK J \in I : \A K \in I : ~(<<K, J>> \in R)
  <2> HIDE DEF R, I
  <2> QED BY <1>1, <1>2, WFMin
<1>4. PICK n \in T : J = 0..n
  OBVIOUS
<1>5. ASSUME NEW m \in T, m < n PROVE FALSE
  <2>1. 0..m \subseteq 0..n /\ 0..m # 0..n
    BY <1>5
  <2>2. <<0..m, 0..n>> \in R
    BY <2>1 DEF StrictSubsetOrdering
  <2> QED BY <1>3, <1>4, <2>2
<1> QED BY <1>5

\* The timestamps of the rows are naturals.
LEMMA Times == IInv => Len(rows) \in Nat /\ \A i \in 1..Len(rows) : rows[i].ts \in Nat
<1> SUFFICES ASSUME IInv PROVE Len(rows) \in Nat /\ \A i \in 1..Len(rows) : rows[i].ts \in Nat
  OBVIOUS
<1>1. rows \in Seq(Row)
  BY DEF IInv, HistoryTypeOK
<1>2. ASSUME NEW i \in 1..Len(rows) PROVE rows[i].ts \in Nat
  <2>1. rows[i] \in Row
    BY <1>1
  <2> QED BY <2>1, BoundsAssumption DEF Row
<1> QED BY <1>1, <1>2

\* The percentiles' base is a row of the copy, the first one that is young
\* enough.
LEMMA BaseFound ==
    ASSUME IInv, NEW from \in 1..Len(rows), NEW to \in from..Len(rows)
    PROVE  /\ Base(from, to) \in from..to
           /\ \A j \in from..(Base(from, to) - 1) :
                  rows[to].ts - rows[j].ts > RateWindow
<1> DEFINE young == {i \in from..to : rows[to].ts - rows[i].ts <= RateWindow}
<1>1. Len(rows) \in Nat /\ \A i \in 1..Len(rows) : rows[i].ts \in Nat
  BY Times
<1>2. to \in young /\ young \in SUBSET Nat
  BY <1>1, WindowAssumption
<1>3. PICK i \in young : \A j \in young : i <= j
  BY <1>2, Least
<1>4. \A j \in from..(i - 1) : rows[to].ts - rows[j].ts > RateWindow
  <2> SUFFICES ASSUME NEW j \in from..(i - 1) PROVE rows[to].ts - rows[j].ts > RateWindow
    OBVIOUS
  <2>1. j \in from..to /\ j \notin young
    BY <1>1, <1>3
  <2> QED BY <1>1, <2>1, WindowAssumption
<1> QED BY <1>3, <1>4 DEF Base

\* The window's anchor is a row of the copy.
LEMMA AnchorFound ==
    ASSUME IInv, NEW from \in 1..Len(rows), NEW to \in from..Len(rows)
    PROVE  Anchor(from, to) \in from..to
<1> DEFINE old == {i \in from..(to - 1) : rows[to].ts - rows[i].ts >= RateWindow}
<1>1. CASE old = {}
  BY <1>1 DEF Anchor
<1>2. CASE old # {}
  <2> DEFINE back == {to - i : i \in old}
  <2>1. back # {} /\ back \in SUBSET Nat
    BY <1>2
  <2>2. PICK d \in back : \A e \in back : d <= e
    BY <2>1, Least
  <2>3. PICK i \in old : d = to - i
    OBVIOUS
  <2>4. \A j \in old : j <= i
    <3> SUFFICES ASSUME NEW j \in old PROVE j <= i
      OBVIOUS
    <3>1. d <= to - j
      BY <2>2
    <3> QED BY <2>3, <3>1
  <2> DEFINE a == CHOOSE k \in old : \A j \in old : j <= k
  <2>5. a \in old
    BY <2>4
  <2>6. Anchor(from, to) = a
    BY <1>2 DEF Anchor
  <2> QED BY <2>5, <2>6
<1> QED BY <1>1, <1>2

\* The deque never outgrows HISTORY_LEN: an append to a full one drops a row.
HistoryBound == Len(rows) + 1 - first <= HistoryLen

\* The deque drops a row for each one appended once it is full.
LEMMA StepHistoryBound == IInv /\ HistoryBound /\ [Next]_vars => HistoryBound'
<1> SUFFICES ASSUME IInv, HistoryBound, [Next]_vars PROVE HistoryBound'
  OBVIOUS
<1> USE HistoryAssumption DEF IInv
<1>1. rows \in Seq(Row) /\ Len(rows) \in Nat /\ first \in Nat
  BY DEF HistoryTypeOK
<1>2. CASE AppendRow
  <2>1. Len(rows') = Len(rows) + 1
    BY <1>1, <1>2 DEF AppendRow
  <2> QED BY <1>1, <1>2, <2>1 DEF AppendRow, OldestKept, HistoryBound
<1>3. CASE Attach
  <2>1. Len(rows') = Len(rows) /\ first' = first
    BY <1>1, <1>3 DEF Attach
  <2> QED BY <2>1 DEF HistoryBound
<1>4. CASE ClearOnReset
  BY <1>1, <1>4 DEF ClearOnReset, HistoryBound
<1>5. CASE UNCHANGED <<rows, first>>
  BY <1>5 DEF HistoryBound
<1>6. CASE Serve \/ Crash \/ Boot \/ Wake \/ FetchOk \/ Degrade
  BY <1>5, <1>6 DEF Serve, Crash, Boot, Wake, FetchOk, Degrade
<1>7. ASSUME NEW r \in Readers, Snapshot(r) PROVE UNCHANGED <<rows, first>>
  BY <1>7 DEF Snapshot, Copy, BeginLatest, EndLatest, Derive
<1> QED BY <1>2, <1>3, <1>4, <1>5, <1>6, <1>7 DEF Next, Metrics, vars

Windows == {None} \cup [anchor : Nat, newest : Nat,
                        delta : [Counters -> Count \cup {None}]]
Latencies == {None} \cup [n : Count, base : Nat \cup {None}]

\* What snapshot() computes from a copy has the type of a response.
LEMMA WindowType ==
    ASSUME IInv, NEW from \in 1..(Len(rows) + 1), NEW to \in 0..Len(rows)
    PROVE  Window(from, to) \in Windows
<1> DEFINE a == Anchor(from, to)
<1>1. rows \in Seq(Row) /\ Len(rows) \in Nat
  BY DEF IInv, HistoryTypeOK
<1>2. CASE to > from
  <2>1. a \in from..to
    BY <1>1, <1>2, AnchorFound
  <2>2. rows[a] \in Row /\ rows[to] \in Row
    BY <1>1, <1>2, <2>1
  <2>3. \A k \in Counters : rows[a].c[k] \in Count /\ rows[to].c[k] \in Count
    BY <2>2 DEF Row
  <2>4. \A k \in Counters : Delta(a, to, k) \in Count \cup {None}
    BY <2>3, BoundsAssumption DEF Delta, Count
  <2>5. a \in Nat /\ to \in Nat
    BY <1>1, <1>2, <2>1
  <2> QED BY <2>4, <2>5 DEF Window, Windows
<1>3. CASE ~(to > from)
  BY <1>3 DEF Window, Windows
<1> QED BY <1>2, <1>3

\* Percentiles served without a base: its row still lacked its snapshot, so
\* it was the newest one, and no other was young enough.
LEMMA LatencyType ==
    ASSUME IInv, OnlyNewestBare, NEW from \in 1..(Len(rows) + 1),
           NEW to \in 0..Len(rows), NEW p \in Scrape \cup {None}
    PROVE  /\ Latency(from, to, p) \in Latencies
           /\ Latency(from, to, p) # None =>
                 \/ Latency(from, to, p).base # None
                 \/ \A i \in from..(to - 1) :
                        rows[to].ts - rows[i].ts > RateWindow
<1> DEFINE b == Base(from, to)
           snap == rows[b].snap
           n == p.h - (IF snap = None THEN 0 ELSE snap)
<1>1. rows \in Seq(Row) /\ Len(rows) \in Nat
  BY DEF IInv, HistoryTypeOK
<1>2. CASE to < from \/ p = None
  BY <1>2 DEF Latency, Latencies
<1>3. CASE ~(to < from \/ p = None)
  <2>1. /\ b \in from..to
        /\ \A j \in from..(b - 1) : rows[to].ts - rows[j].ts > RateWindow
    BY <1>1, <1>3, BaseFound
  <2>2. b \in Nat /\ b \in 1..Len(rows) /\ rows[b] \in Row /\ p \in Scrape
    BY <1>1, <1>3, <2>1
  <2>3. p.h \in Count /\ snap \in Count \cup {None}
    BY <2>2 DEF Row, Scrape
  <2>4. snap = None => b = to
    BY <1>1, <2>1, <2>2 DEF OnlyNewestBare
  <2> DEFINE answer == [n |-> n, base |-> IF snap = None THEN None ELSE b]
  <2>5. Latency(from, to, p) = IF n <= 0 THEN None ELSE answer
    BY <1>3 DEF Latency
  <2>6. ~(n <= 0) => n \in Count
    BY <2>3, BoundsAssumption, NoneAssumption DEF Count
  <2>7. ~(n <= 0) => answer \in Latencies
    BY <2>2, <2>6 DEF Latencies
  <2>8. b # None
    BY <2>2, NoneAssumption
  <2>9. answer.base # None \/ \A i \in from..(to - 1) : rows[to].ts - rows[i].ts > RateWindow
    BY <2>1, <2>4, <2>8
  <2> HIDE DEF answer, n
  <2> QED BY <2>5, <2>7, <2>9 DEF Latencies
<1> QED BY <1>2, <1>3

\* LifetimeOnlyAfterGap, of one request.
GapOnly(v) ==
    v.resp # None /\ v.resp.status = 200 /\ v.resp.latency # None =>
        \/ v.resp.latency.base # None
        \/ \A i \in v.from..(v.to - 1) : rows[v.to].ts - rows[i].ts > RateWindow

ReaderInv ==
    /\ reader \in [Readers -> ReaderType]
    /\ \A r \in Readers : GapOnly(reader[r])

\* What a request holds after a step of its own.
LEMMA SnapshotReader ==
    ASSUME IInv, OnlyNewestBare, ViewInv, ReaderInv, NEW r \in Readers, Snapshot(r)
    PROVE  /\ reader' = [reader EXCEPT ![r] = reader'[r]]
           /\ reader'[r] \in ReaderType
           /\ GapOnly(reader'[r])
<1> DEFINE v == reader[r]
           Resp == {None} \cup [status : {500}]
                   \cup [status : {200}, window : Windows, latency : Latencies]
<1>1. ReaderType = [pc : {"idle", "copied", "iterating", "derive"}, from : Nat,
                    to : Nat, prev : Scrape \cup {None}, state : States,
                    bare : BOOLEAN, resp : Resp]
  BY DEF ReaderType, Windows, Latencies
<1>2. v \in ReaderType /\ DOMAIN reader = Readers /\ GapOnly(v)
  BY DEF ReaderInv
<1> HIDE DEF Resp
<1>3. CASE Copy(r)
  <2>1. /\ first \in Nat /\ Len(rows) \in Nat /\ prev \in Scrape \cup {None}
        /\ state \in States
    BY DEF IInv, HistoryTypeOK
  <2>2. reader'[r] = [pc |-> "copied", from |-> first, to |-> Len(rows),
                      prev |-> prev, state |-> state, bare |-> FALSE, resp |-> None]
    BY <1>2, <1>3 DEF Copy
  <2>3. None \in Resp
    BY DEF Resp
  <2> QED BY <1>1, <1>2, <1>3, <2>1, <2>2, <2>3 DEF Copy, GapOnly
<1>4. CASE BeginLatest(r)
  <2> DEFINE bare == v.from <= v.to /\ rows[v.to].snap = None
             next == IF v.from <= v.to THEN "iterating" ELSE "derive"
  <2>1. reader'[r] = [v EXCEPT !.pc = next, !.bare = bare]
    BY <1>2, <1>4 DEF BeginLatest
  <2>2. bare \in BOOLEAN /\ next \in {"iterating", "derive"}
    OBVIOUS
  <2> HIDE DEF bare, next
  <2>3. reader'[r] \in ReaderType
    BY <1>1, <1>2, <2>1, <2>2
  <2>4. GapOnly(reader'[r])
    BY <1>1, <1>2, <2>1 DEF GapOnly
  <2>5. reader' = [reader EXCEPT ![r] = reader'[r]]
    BY <1>2, <1>4 DEF BeginLatest
  <2> QED BY <2>3, <2>4, <2>5
<1>5. CASE EndLatest(r)
  <2>1. reader'[r] = IF v.bare /\ rows[v.to].snap # None
                     THEN [v EXCEPT !.pc = "idle", !.resp = [status |-> 500]]
                     ELSE [v EXCEPT !.pc = "derive"]
    BY <1>2, <1>5 DEF EndLatest
  <2>2. [status |-> 500] \in Resp
    BY DEF Resp
  <2>3. CASE reader'[r] = [v EXCEPT !.pc = "idle", !.resp = [status |-> 500]]
    <3> DEFINE failed == [status |-> 500]
    <3>1. failed \in Resp /\ failed.status # 200
      BY <2>2
    <3> HIDE DEF failed
    <3>2. reader'[r] = [v EXCEPT !.pc = "idle", !.resp = failed]
      BY <2>3 DEF failed
    <3>3. reader'[r] \in ReaderType /\ reader'[r].resp = failed
      BY <1>1, <1>2, <3>1, <3>2
    <3>4. GapOnly(reader'[r])
      BY <3>1, <3>3 DEF GapOnly
    <3>5. reader' = [reader EXCEPT ![r] = reader'[r]]
      BY <1>2, <1>5 DEF EndLatest
    <3> QED BY <3>3, <3>4, <3>5
  <2>4. CASE reader'[r] = [v EXCEPT !.pc = "derive"]
    BY <1>1, <1>2, <1>5, <2>4 DEF EndLatest, GapOnly
  <2> QED BY <2>1, <2>3, <2>4
<1>6. CASE Derive(r)
  <2> DEFINE w == Window(v.from, v.to)
             l == Latency(v.from, v.to, v.prev)
             resp == [status |-> 200, window |-> w, latency |-> l]
  <2>1. v.from \in 1..(Len(rows) + 1) /\ v.to \in 0..Len(rows) /\ v.prev \in Scrape \cup {None}
    BY <1>1, <1>2 DEF ViewInv
  <2>2. /\ w \in Windows /\ l \in Latencies
        /\ l # None => \/ l.base # None
                       \/ \A i \in v.from..(v.to - 1) :
                              rows[v.to].ts - rows[i].ts > RateWindow
    BY <2>1, WindowType, LatencyType
  <2> HIDE DEF w, l
  <2>3. resp \in Resp /\ resp.latency = l
    BY <2>2 DEF Resp
  <2>4. reader'[r] = [v EXCEPT !.pc = "idle", !.resp = resp]
    BY <1>2, <1>6 DEF Derive, w, l
  <2> HIDE DEF resp
  <2>5. reader'[r] \in ReaderType
    BY <1>1, <1>2, <2>3, <2>4
  <2>6. /\ reader'[r].resp = resp /\ reader'[r].from = v.from
        /\ reader'[r].to = v.to
    BY <1>1, <1>2, <2>4
  <2>7. GapOnly(reader'[r])
    BY <2>2, <2>3, <2>6 DEF GapOnly
  <2> QED BY <1>2, <1>6, <2>5, <2>7 DEF Derive
<1> QED BY <1>3, <1>4, <1>5, <1>6 DEF Snapshot

\* Nor does any step take from a request what it has read.
LEMMA StepReaderInv ==
    IInv /\ IInv' /\ OnlyNewestBare /\ ViewInv /\ ReaderInv /\ [Next]_vars => ReaderInv'
<1> SUFFICES ASSUME IInv, IInv', OnlyNewestBare, ViewInv, ReaderInv, [Next]_vars
             PROVE  ReaderInv'
  OBVIOUS
<1>1. /\ Len(rows) \in Nat /\ Len(rows') \in Nat /\ Len(rows) <= Len(rows')
      /\ \A i \in 1..Len(rows) : rows'[i].ts = rows[i].ts
  BY RowsKept
<1>2. ASSUME NEW v, v.to \in 0..Len(rows), v.from \in 1..(Len(rows) + 1), GapOnly(v)
      PROVE  v.resp # None /\ v.resp.status = 200 /\ v.resp.latency # None =>
                \/ v.resp.latency.base # None
                \/ \A i \in v.from..(v.to - 1) :
                       rows'[v.to].ts - rows'[i].ts > RateWindow
  BY <1>1, <1>2 DEF GapOnly
<1>3. \A r \in Readers : /\ reader[r].to \in 0..Len(rows)
                        /\ reader[r].from \in 1..(Len(rows) + 1)
  BY DEF ViewInv
<1>4. CASE reader' = reader
  BY <1>2, <1>3, <1>4 DEF ReaderInv, GapOnly
<1>5. ASSUME NEW r \in Readers, Snapshot(r) PROVE ReaderInv'
  <2>1. /\ reader' = [reader EXCEPT ![r] = reader'[r]]
        /\ reader'[r] \in ReaderType
        /\ GapOnly(reader'[r])
    BY <1>5, SnapshotReader
  <2>2. rows' = rows
    BY <1>5 DEF Snapshot, Copy, BeginLatest, EndLatest, Derive
  <2> QED BY <2>1, <2>2 DEF ReaderInv, GapOnly
<1>6. CASE Serve \/ Crash \/ Boot \/ Metrics
  BY <1>4, <1>6 DEF Serve, Crash, Boot, Metrics, Wake, FetchOk, Degrade,
                    ClearOnReset, AppendRow, Attach
<1> QED BY <1>4, <1>5, <1>6 DEF Next, vars

\* No request is being answered at the start.
LEMMA InitReaderInv == Init => HistoryBound /\ ViewInv /\ ReaderInv
BY HistoryAssumption, BoundsAssumption
   DEF Init, HistoryBound, ViewInv, ReaderInv, ReaderType, GapOnly, States

\* Together they hold throughout.
LEMMA ReaderInvCorrect ==
    Spec => [](IInv /\ RowsInv /\ HistoryBound /\ ViewInv /\ ReaderInv)
<1>1. Init => RowsInv
  BY DEF Init, RowsInv, RatesNonNegative, RateOneLife, OnlyNewestBare
<1>2. IInv /\ RowsInv /\ HistoryBound /\ ViewInv /\ ReaderInv /\ [Next]_vars
      => (IInv /\ RowsInv /\ HistoryBound /\ ViewInv /\ ReaderInv)'
  BY StepIInv, StepRowsInv, StepHistoryBound, StepViewInv, StepReaderInv DEF RowsInv
<1> QED BY InitIInv, <1>1, InitReaderInv, <1>2, PTL DEF Spec

\* Every variable has its type, the deque stays within HISTORY_LEN, and what
\* a request answers is well formed: in particular both searches find a row.
THEOREM TypeCorrect == Spec => []TypeOK
<1>1. IInv /\ HistoryBound /\ ReaderInv => TypeOK
  BY DEF IInv, HistoryBound, ReaderInv, TypeOK
<1> QED BY ReaderInvCorrect, <1>1, PTL

\* Lifetime percentiles are served only when the newest sample has no other
\* within the window, although the snapshot they start from is attached to
\* its row after the row has become visible.
THEOREM LifetimeOnlyAfterGapCorrect == Spec => []LifetimeOnlyAfterGap
<1>1. ReaderInv => LifetimeOnlyAfterGap
  BY DEF ReaderInv, GapOnly, LifetimeOnlyAfterGap
<1> QED BY ReaderInvCorrect, <1>1, PTL

=============================================================================
