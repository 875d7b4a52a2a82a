------------------------------ MODULE Monitor ------------------------------
(***************************************************************************)
(* The engine-metrics half of the dashboard, dashboard/server.py.          *)
(*                                                                         *)
(* One thread scrapes vLLM's cumulative counters every two seconds and     *)
(* appends a row to a bounded history (run_metrics_loop, scrape_once); any *)
(* number of HTTP threads turn that history into the page's numbers        *)
(* (snapshot).  They share Monitor.lock, but three things happen outside   *)
(* it: the history is cleared on a counter reset, a row becomes visible in *)
(* one locked section and gets its histogram snapshot in a second one, and *)
(* snapshot() walks the row dicts after it has released the lock.          *)
(*                                                                         *)
(* The engine under observation dies and comes back with its counters at   *)
(* zero.  "epoch" numbers its lives; it is a history variable the code     *)
(* does not have, carried in scrapes and rows to say what a number mixes.  *)
(***************************************************************************)
EXTENDS Integers, Sequences

CONSTANTS
    Readers,     \* HTTP handler threads
    Counters,    \* COUNTERS: the monotone engine counters
    HistoryLen,  \* HISTORY_LEN
    RateWindow,  \* RATE_WINDOW_S, in scrape intervals
    None,        \* Python's None
    MaxTime, MaxEpoch, MaxCount   \* bounds of the model

ASSUME HistoryAssumption == HistoryLen \in Nat \ {0}
ASSUME WindowAssumption == RateWindow \in Nat \ {0}
ASSUME BoundsAssumption == /\ MaxTime \in Nat /\ MaxEpoch \in Nat
                           /\ MaxCount \in Nat

VARIABLES
    engine,   \* the vLLM process: [up, epoch, c, h], and two history
              \* fields: missed, whether a scrape failed since it died, and
              \* quick, the lives that began before any scrape had failed
    now,      \* wall clock, in scrape intervals
    pc,       \* where the metrics thread is
    cur,      \* the parsed scrape it holds, local to scrape_once
    rows,     \* every row ever appended; scrape_count is Len(rows)
    first,    \* the deque self.samples is rows[first .. Len(rows)]
    prev,     \* self._prev
    state,    \* self.server_state
    resets,   \* self.reset_count
    reader    \* the locals of each snapshot() call, and its last response

vars == <<engine, now, pc, cur, rows, first, prev, state, resets, reader>>

Count == 0..MaxCount
Scrape == [ts : 0..MaxTime, epoch : 0..MaxEpoch, c : [Counters -> Count],
           h : Count]
ASSUME NoneAssumption == None \notin Nat /\ None \notin Scrape
Row == [ts : 0..MaxTime, epoch : 0..MaxEpoch, c : [Counters -> Count],
        rate : [Counters -> Int] \cup {None}, snap : Count \cup {None}]

\* "down" stands for unreachable, http_error, no_metrics and monitor_error.
States == {"connecting", "up", "down"}

-----------------------------------------------------------------------------
(* The engine and the clock.                                               *)

\* Serving traffic moves one counter, or a latency histogram.
Serve ==
    /\ engine.up
    /\ \/ \E k \in Counters :
            /\ engine.c[k] < MaxCount
            /\ engine' = [engine EXCEPT !.c[k] = @ + 1]
       \/ /\ engine.h < MaxCount
          /\ engine' = [engine EXCEPT !.h = @ + 1]
    /\ UNCHANGED <<now, pc, cur, rows, first, prev, state, resets, reader>>

Crash ==
    /\ engine.up
    /\ engine' = [engine EXCEPT !.up = FALSE, !.missed = FALSE]
    /\ UNCHANGED <<now, pc, cur, rows, first, prev, state, resets, reader>>

\* A new life starts from zero.
Boot ==
    /\ ~engine.up
    /\ engine.epoch < MaxEpoch
    /\ engine' = [up |-> TRUE, epoch |-> engine.epoch + 1,
                  c |-> [k \in Counters |-> 0], h |-> 0, missed |-> FALSE,
                  quick |-> engine.quick \cup
                     (IF engine.missed THEN {} ELSE {engine.epoch + 1})]
    /\ UNCHANGED <<now, pc, cur, rows, first, prev, state, resets, reader>>

\* time.sleep(SCRAPE_INTERVAL) ends.
Wake ==
    /\ pc = "sleep"
    /\ now < MaxTime
    /\ now' = now + 1
    /\ pc' = "fetch"
    /\ UNCHANGED <<engine, cur, rows, first, prev, state, resets, reader>>

-----------------------------------------------------------------------------
(* The metrics thread: scrape_once, _degrade and the attach that follows.  *)

FetchOk ==
    /\ pc = "fetch"
    /\ engine.up
    /\ cur' = [ts |-> now, epoch |-> engine.epoch, c |-> engine.c,
               h |-> engine.h]
    /\ pc' = "fetched"
    /\ UNCHANGED <<engine, now, rows, first, prev, state, resets, reader>>

\* A scrape that fails, whether or not the engine is alive, forgets the
\* baseline and leaves the history alone.
Degrade_KeepBaseline == prev
DegradedBaseline == None

Degrade ==
    /\ pc = "fetch"
    /\ state' = "down"
    /\ prev' = DegradedBaseline
    /\ pc' = "sleep"
    /\ engine' = [engine EXCEPT !.missed = ~engine.up]
    /\ UNCHANGED <<now, cur, rows, first, resets, reader>>

\* Some counter went backwards since the baseline.
CounterReset_All == /\ prev # None
                    /\ \A k \in Counters : cur.c[k] < prev.c[k]
CounterReset_AnyChange == /\ prev # None
                          /\ \E k \in Counters : cur.c[k] <= prev.c[k]
CounterReset == /\ prev # None
                /\ \E k \in Counters : cur.c[k] < prev.c[k]

\* Clearing the history on a reset takes no lock.
ClearOnReset ==
    /\ pc = "fetched"
    /\ CounterReset
    /\ resets' = resets + 1
    /\ first' = Len(rows) + 1
    /\ pc' = "cleared"
    /\ UNCHANGED <<engine, now, cur, rows, prev, state, reader>>

\* Increase of each counter since the baseline; the code divides by the
\* elapsed time.  None without a baseline, as after a reset.
Rates == IF pc = "fetched" /\ prev # None /\ cur.ts > prev.ts
         THEN [k \in Counters |-> cur.c[k] - prev.c[k]]
         ELSE None

\* deque(maxlen=HISTORY_LEN): a full history drops its oldest row.
OldestKept_Unbounded == first
OldestKept == IF Len(rows) + 1 - first >= HistoryLen THEN first + 1 ELSE first

\* The row, the baseline and the state change in one locked section.  The
\* row's own histogram snapshot is not there yet.
AppendedBaseline_Lagging == IF prev = None THEN cur ELSE prev
AppendedBaseline == cur

AppendRow ==
    /\ \/ pc = "fetched" /\ ~CounterReset
       \/ pc = "cleared"
    /\ rows' = Append(rows, [ts |-> cur.ts, epoch |-> cur.epoch, c |-> cur.c,
                             rate |-> Rates, snap |-> None])
    /\ first' = OldestKept
    /\ prev' = AppendedBaseline
    /\ state' = "up"
    /\ pc' = "attach"
    /\ cur' = None
    /\ UNCHANGED <<engine, now, resets, reader>>

\* The second locked section of run_metrics_loop, on self.samples[-1].
AttachedRow_Oldest == first
AttachedRow == Len(rows)

Attach ==
    /\ pc = "attach"
    /\ rows' = [rows EXCEPT ![AttachedRow].snap = prev.h]
    /\ pc' = "sleep"
    /\ UNCHANGED <<engine, now, cur, first, prev, state, resets, reader>>

-----------------------------------------------------------------------------
(* snapshot(), on an HTTP thread.                                          *)

\* The locked section: a list of references to the rows, and the baseline.
Copy(r) ==
    /\ reader[r].pc = "idle"
    /\ reader' = [reader EXCEPT ![r] =
                    [pc |-> "copied", from |-> first, to |-> Len(rows),
                     prev |-> prev, state |-> state, bare |-> FALSE,
                     resp |-> None]]
    /\ UNCHANGED <<engine, now, pc, cur, rows, first, prev, state, resets>>

\* "latest" is built by iterating over the newest row, without the lock.
BeginLatest(r) ==
    /\ reader[r].pc = "copied"
    /\ reader' = [reader EXCEPT
         ![r].pc = IF reader[r].from <= reader[r].to THEN "iterating"
                                                     ELSE "derive",
         ![r].bare = reader[r].from <= reader[r].to
                        /\ rows[reader[r].to].snap = None]
    /\ UNCHANGED <<engine, now, pc, cur, rows, first, prev, state, resets>>

\* A key added meanwhile is a RuntimeError, which do_GET answers with a 500.
EndLatest(r) ==
    /\ reader[r].pc = "iterating"
    /\ reader' = [reader EXCEPT ![r] =
         IF @.bare /\ rows[@.to].snap # None
         THEN [@ EXCEPT !.pc = "idle", !.resp = [status |-> 500]]
         ELSE [@ EXCEPT !.pc = "derive"]]
    /\ UNCHANGED <<engine, now, pc, cur, rows, first, prev, state, resets>>

\* The newest sample at least RateWindow older than the newest, or the oldest.
Anchor(from, to) ==
    LET old == {i \in from..(to - 1) : rows[to].ts - rows[i].ts >= RateWindow}
    IN  IF old = {} THEN from ELSE CHOOSE i \in old : \A j \in old : j <= i

\* The oldest sample no more than RateWindow older than the newest.
Base_Newest(from, to) == to
Base(from, to) ==
    CHOOSE i \in from..to :
        /\ rows[to].ts - rows[i].ts <= RateWindow
        /\ \A j \in from..(i - 1) : rows[to].ts - rows[j].ts > RateWindow

\* Change of a counter over the window, None when it went backwards.
Delta(a, b, k) == IF rows[b].c[k] < rows[a].c[k] THEN None
                  ELSE rows[b].c[k] - rows[a].c[k]

Window(from, to) ==
    IF to > from /\ rows[to].ts > rows[Anchor(from, to)].ts
    THEN [anchor |-> Anchor(from, to), newest |-> to,
          delta |-> [k \in Counters |-> Delta(Anchor(from, to), to, k)]]
    ELSE None

\* How many histogram observations the percentiles rest on, and since when:
\* without a base snapshot the subtraction starts from nothing.
Latency(from, to, p) ==
    IF to < from \/ p = None THEN None
    ELSE LET base == Base(from, to)
             snap == rows[base].snap
             n == p.h - (IF snap = None THEN 0 ELSE snap)
         IN  IF n <= 0 THEN None
             ELSE [n |-> n, base |-> IF snap = None THEN None ELSE base]

Derive(r) ==
    /\ reader[r].pc = "derive"
    /\ LET v == reader[r] IN
       reader' = [reader EXCEPT
         ![r].pc = "idle",
         ![r].resp = [status |-> 200,
                      window |-> Window(v.from, v.to),
                      latency |-> Latency(v.from, v.to, v.prev)]]
    /\ UNCHANGED <<engine, now, pc, cur, rows, first, prev, state, resets>>

-----------------------------------------------------------------------------
Init ==
    /\ engine = [up |-> TRUE, epoch |-> 0, c |-> [k \in Counters |-> 0],
                 h |-> 0, missed |-> FALSE, quick |-> {}]
    /\ now = 0
    /\ pc = "fetch"
    /\ cur = None
    /\ rows = <<>>
    /\ first = 1
    /\ prev = None
    /\ state = "connecting"
    /\ resets = 0
    /\ reader = [r \in Readers |->
                   [pc |-> "idle", from |-> 1, to |-> 0, prev |-> None,
                    state |-> "connecting", bare |-> FALSE, resp |-> None]]

Metrics == Wake \/ FetchOk \/ Degrade \/ ClearOnReset \/ AppendRow \/ Attach
Snapshot(r) == Copy(r) \/ BeginLatest(r) \/ EndLatest(r) \/ Derive(r)
Next == Serve \/ Crash \/ Boot \/ Metrics \/ \E r \in Readers : Snapshot(r)

Spec == Init /\ [][Next]_vars
-----------------------------------------------------------------------------
(* What is checked.                                                        *)

ReaderType ==
    [pc : {"idle", "copied", "iterating", "derive"}, from : Nat, to : Nat,
     prev : Scrape \cup {None}, state : States, bare : BOOLEAN,
     resp : {None} \cup [status : {500}]
            \cup [status : {200}, window : {None} \cup
                     [anchor : Nat, newest : Nat,
                      delta : [Counters -> Count \cup {None}]],
                 latency : {None} \cup [n : Count, base : Nat \cup {None}]]]

\* The metrics thread's state has its type.
HistoryTypeOK ==
    /\ engine \in [up : BOOLEAN, epoch : 0..MaxEpoch,
                   c : [Counters -> Count], h : Count, missed : BOOLEAN,
                   quick : SUBSET (0..MaxEpoch)]
    /\ now \in 0..MaxTime
    /\ pc \in {"sleep", "fetch", "fetched", "cleared", "attach"}
    /\ cur \in Scrape \cup {None}
    /\ rows \in Seq(Row)
    /\ first \in 1..(Len(rows) + 1)
    /\ prev \in Scrape \cup {None}
    /\ state \in States
    /\ resets \in Nat

\* Every variable has its type; the deque never exceeds HISTORY_LEN.
TypeOK ==
    /\ HistoryTypeOK
    /\ Len(rows) + 1 - first <= HistoryLen
    /\ reader \in [Readers -> ReaderType]

\* The page's counter_resets never exceeds the restarts the engine really
\* made: a quiet engine, an outage or a failed scrape is never counted.
ResetsReal == resets <= engine.epoch

\* No row ever shows a negative throughput, whichever of the counters fell
\* and whatever the others did across the restart.
RatesNonNegative ==
    \A i \in 1..Len(rows) :
        rows[i].rate # None => \A k \in Counters : rows[i].rate[k] >= 0

\* A row's rate is the increase over the row just before it, and the two
\* come from one life of the engine unless it died and came back without a
\* single scrape failing in between: this is what "force a clean baseline
\* on reconnect" buys.
RateOneLife ==
    \A i \in 1..Len(rows) : rows[i].rate # None =>
        /\ i > 1
        /\ \A k \in Counters : rows[i].rate[k] = rows[i].c[k] - rows[i - 1].c[k]
        /\ (rows[i - 1].epoch + 1)..rows[i].epoch \subseteq engine.quick

\* In the history, and so in every copy a request holds, only the newest row
\* can lack its histogram snapshot, and only until the attach.
OnlyNewestBare ==
    \A i \in 1..Len(rows) :
        rows[i].snap = None => i = Len(rows) /\ pc = "attach"

\* Percentiles that go back to the engine's start rather than to a sample of
\* the window are only ever served when the newest sample has no other
\* within RATE_WINDOW_S: on the first scrape or after a long outage.
LifetimeOnlyAfterGap ==
    \A r \in Readers :
        LET v == reader[r] IN
        v.resp # None /\ v.resp.status = 200 /\ v.resp.latency # None =>
            \/ v.resp.latency.base # None
            \/ \A i \in v.from..(v.to - 1) :
                    rows[v.to].ts - rows[i].ts > RateWindow

\* A request's current histogram and its newest row are the same scrape,
\* although resets clear the history without the lock, and it reports the
\* engine up exactly when it has a histogram to show.
ViewCoherent ==
    \A r \in Readers :
        LET v == reader[r] IN
        /\ v.state = "up" <=> v.prev # None
        /\ v.prev # None /\ v.from <= v.to =>
               v.prev.ts = rows[v.to].ts /\ v.prev.c = rows[v.to].c
=============================================================================
