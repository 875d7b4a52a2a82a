# Verification of the Kimi-K3 endpoint repository

This directory holds TLA+ models of the programs in this repository, the TLC
configurations that check them and TLAPS proofs of the properties that matter
most. The repository is operations code: a dashboard (`dashboard/server.py`)
that watches a vLLM engine and the nginx log in front of it, the shell scripts
that put the endpoint on a box and keep its customers' keys (`deploy.sh`,
`gen-keys.sh`, `secrets-backup.sh`, `issue-cert.sh`), and the evaluation
harness that judges the endpoint from outside (`eval/harness/`). What can go
wrong there is hardly reachable by a test: threads that share half-locked
state, files renamed while they are read, scripts killed between two writes,
two operators at once, an endpoint that fails in the middle of being tested.

`PROJECT.json` is the machine-readable index: components, runs, the source
lines every definition stands for, the mutation each property detects, the
hazards, the findings and the theorems.

    tlc -workers 2 -config MCMonitor.cfg MCMonitor     # model-check a run
    tlapm GenKeysProofs.tla                            # check proofs

## The system

| component | state | operations | modelled in |
|---|---|---|---|
| metrics monitor, `server.py` class `Monitor` | history deque, baseline scrape, server state, reset count, one lock | scrape every 2 s, degrade, clear on counter reset, append row, attach histogram; `snapshot()` per HTTP request | `Monitor`, `MonitorProofs` |
| statistics functions, `server.py:120-281` | none | percentiles from bucket differences, average, downsampling | `Stats`, `ReportProofs` |
| access tail, `server.py` class `AccessTail` | offset, inode, bounded deque of rows | poll: stat, open, read on | `AccessTail`, `AccessTailProofs` |
| log rollup, `server.py` class `LogRollup` | last result | refresh every minute: list the files, read them within a byte budget, fill the windows | `LogRollup`, `LogRollupProofs` |
| usage log | `usage.log`, `.1`, `.N.gz` | nginx appends; logrotate compresses, renames, creates, nginx reopens | `UsageLog`, `UsageLogProofs` |
| customer keys, `gen-keys.sh` | `customers.tsv`, generated map, `k3-limits.inc`, what nginx has loaded of both | generate, add, revoke; each ends in `nginx -t` and reload | `GenKeys`, `GenKeysProofs` |
| deployment, `deploy.sh` | the whole box: credentials, nginx files, running nginx, engine unit | ten stages, in the order an operator asks for | `Deploy`, `DeployProofs` |
| secrets, `secrets-backup.sh` | encrypted bundle, installed files | `restore` (in `Deploy`); `backup`, `verify` are not modelled | `Deploy` |
| certificates, `issue-cert.sh`, certbot hook | certificate, TLS server | issue behind a DNS gate, renew, reload | `Deploy` |
| API health check, `kvv_health.py` | rows of the report, the section and check it is at, the threads of the load check, exit code | ninety-odd checks in fifteen sections; an exception ends a section | `HealthCheck`, `HealthReport` (what it promises), `HealthCheckProofs` |
| production report, `prod_stats.py` | none between runs; the files it still has to read | read the log, newest file first; a summary per window; percentiles of the engine's histograms | `UsageReport`, `Stats`, `ReportProofs` |
| engine unit `k3.service` | loading, up, waiting, dead | start, ready, exit, automatic restart, give up | `Deploy`; its counters in `Monitor` |
| `cloud-init.yaml`, `launch.sh`, `snapshot-prep.sh`, `verify-auth.sh`, `secret-scan.sh`, `tests/`, `eval/collect.sh`, `collect_env.py`, `experiments/` | | linear scripts and clients | not modelled, see below |

How they interact. nginx is the meeting point: `gen-keys.sh`, `deploy.sh`,
`issue-cert.sh` and certbot's hook write into `conf.d` and reload it; it
forwards requests to the engine with the upstream key and appends a line per
request to the usage log, which the dashboard reads twice (tail and rollup) and
the production report once more, while logrotate moves it. The dashboard polls
the engine over HTTP. The health check is a client of the public endpoint, with
the keys of `customers.tsv`. `deploy.sh` calls the other scripts as stages.
Nothing takes a lock across programs.

What is hard, component by component, and the property that says it goes well:

* **Monitor.** Three things happen outside the lock: the clear on a reset, the
  gap between the append of a row and the attach of its histogram, and a
  request's walk over row dicts it no longer holds the lock for. The history
  survives an outage although the counters restart from zero. Correct means:
  resets reported are restarts (`ResetsReal`), no rate is negative or mixes two
  lives of the engine (`RatesNonNegative`, `RateOneLife`), and a request sees
  one consistent moment (`ViewCoherent`, `OnlyNewestBare`,
  `LifetimeOnlyAfterGap`).
* **Statistics.** Integer division, bucket edges, differences of counters that
  may belong to two lives. Correct means: percentiles lie in the bucket of the
  true one and the average is exact (`LatenciesHonest`, for the dashboard and
  for the production report), they are ordered even when lives mix
  (`QuantilesOrdered`), and every sample is in one chart point
  (`ChartComplete`).
* **Access tail.** The file is looked at and then opened; logrotate may act
  between the two, or the log be truncated. Correct means: requests counted
  once and in order unless that gap was hit (`CountedOnceInOrder`), and even
  then at most twice (`CountedAtMostTwice`), nothing before the offset forgotten (`TailContiguous`), rotations real
  (`RotationsReal`), every request attributed in the end (`Attributed`).
* **Log rollup.** Files move under the walk, a budget may run out. Correct
  means: no request twice (`NeverDoubleCounts`), none missing when nothing
  interfered (`CompleteWhenQuiet`), and a window marked partial only when the
  log is too short for it, which the code does not do (`PartialMeansShort`).
* **Customer keys.** Two runs interleave; a run dies between truncating and
  filling the map or the limits file; names are used as regular expressions.
  Correct means: a run that meets no other one repairs whatever was left behind
  (`SoloRunHeals`); a customer has two keys, or a printed key is lost, only by
  the overlaps that `OneKeyPerCustomer` and `AddedKeyKept` name; and without
  overlaps only a start of nginx on an emptied file takes a listed customer out
  of service (`KeptWhileListed`).
* **API health check.** The endpoint may refuse, time out, break off or answer
  with the proxy's HTML page at any request, and change its mind between two
  requests that are compared. An exception ends a section, or silently a worker
  thread. Correct means: a check passes only on answers, with twelve named
  exceptions (`PassMeansAnswered`); a dead endpoint gives a non-zero exit code
  (`SilenceFails`); the load check counts what was sent (`LoadHonest`); no check
  is left out unnoticed (`CheckedInOrder`, `ImplementsReport`); and every run
  ends (`Ends`).
* **Production report.** It walks the log in the direction the files move.
  Correct means: exact when nothing was rotated meanwhile (`ExactWhenQuiet`), and
  otherwise at most one more count per renaming (`CopiesBounded`).
* **Deployment.** One credential in five places, each updated by another stage;
  kills, reboots and refused configurations in between. Correct means: a green
  end is true (`GreenMeansDeployed`), credentials are never replaced by accident
  (`IdentityKept`), nginx can always be restarted (`AlwaysStartable`), a serving
  box keeps serving (`NeverInterrupts`) and a box from a snapshot always comes
  back (`SnapshotServes`).

## The modules

**`Monitor`** (checked by `MCMonitor`). `engine` is the vLLM process with its
counters; `epoch` numbers its lives and is carried in scrapes and rows as
history. `pc` is the metrics thread: `fetch` and `fetched` are inside
`scrape_once`, `cleared` is after the unlocked `samples.clear()`, `attach` is
between the two locked sections. `rows` is every row ever appended and `first`
where the deque begins, so that a request that copied references (`Copy`) keeps
its rows when the deque drops them. A reader goes `copied` → `iterating` (over
the newest row's dict, without the lock: a key added meanwhile is a
RuntimeError and a 500) → `derive`. `Rates`, `Anchor`, `Window`, `Base` and
`Latency` are the computations of the code with the division by elapsed time
left out. A rate is compared with the row before, which is why rows keep the
counters. GPU sampling, cached facts, capacity and alerts are stateless
readings of other programs and are not modelled.

**`Stats`** (run directly with `MCStats.cfg`). `seen` is what the engine
measured, which the dashboard never learns; `base` is the histogram snapshot a
window begins with and the current scrape ends it; `points` is the chart's
input. Fractions are pairs of numerator and denominator. That the base carries
a snapshot at all is `Monitor`'s business. Its specification is called
`StatsSpec`, and its `None` is `Nil`, so that one module can extend it together
with `UsageReport`: the proofs of both are in `ReportProofs`.

**`UsageLog`** is extended by the three readers. Lines are numbered, which is also
their time. Path 0 is `usage.log`, 1 is `.1`, k + 1 is `.k.gz`. A rotation is
begin → compress → shift → rename → create → reopen, any of which a reader may
fall between; the renames of the compressed files are one step, as their order
leaves no reader in a state a single rename does not. A reopen may fail: the
postrotate script ignores it. `Select` keeps the entries of a sequence that lie
in a set: the readers list the existing files and the lines of a window with it.
It stands in for `SelectSeq`, whose definition the prover does not open and about
which nothing could be proved.

**`AccessTail`** splits `poll()` into the stat and the open-and-read. `torn`,
`skipped` and `shrunk` are history: which reads hit the gap, and which lines
the tail legitimately never read.

**`LogRollup`** reads one file per step. `Clock` gives each line its timestamp,
so that a window may begin between two lines; the other readers take the number
of a line for it. `LogWindows` declares the windows it shares with the
production report. `Fits` is the seek into a file larger
than the budget, `Left` the charge of its whole size, `ReadFails` the EOFError
of a gzip file that is still being written, which the code does not catch as an
OSError. The walk is the code's: `reversed(sorted(...))` is the oldest file
first and the live log last, although the comment at `server.py:492` says
"newest first, stop once far enough back".

**`UsageReport`** is the third reader of `UsageLog` (`LineData` has what a line
says besides its time), with one file per step like
`LogRollup`, but in the order of the names, newest first. A file renamed between
two steps is met again under its next name. `moves` is history: the renamings
while the report was made. Of a line its time, customer and status are kept;
every window is summarised in full, with causes and customers.

**`HealthCheck`** is the driver and every section of `kvv_health.py`. A check is
a record of `Plan`: how its verdict comes about and how each of its requests
goes out. `Ask` is one request, and its reply is one of ten kinds (`Replies`);
what a check makes of them is a set of kinds (`Answer`, `Serve`, `Refuse`, ...)
or, for checks of several requests, a case of `Verdict`. `Raises` is when the
code raises: an error body that breaks off inside the except clause of `http()`,
and text where an object is read. In the main thread that is `Crash`, the
driver's except clause; in a worker of section K it is `WorkerDies`. `mode` is
how the endpoint answers at present, and `Change` makes it another one.

**`HealthReport`** is what a reader of the exit code relies on: a chosen section
is reported to the end (`Complete`) or cut short, which is a failure
(`CutShort`), and the code is 0 only if nothing failed (`Close`). `HealthCheck`
implements it with `full`, `cut` and `failed` read off the rows of the report
(`Promise`).

**`GenKeys`** has one action per file operation of the script, for any number
of runs. `Matches` is which names a name matches as `grep` and `sed` use it.
`sed -i` is a read and a rename; the redirection `> $OUT` is a truncation, a
read of the table and a write, and two runs in it at once may leave either map
or a torn one. `k3-limits.inc` is emptied (`LimitsBegin`) and then filled
(`LimitsWrite`); every run writes the same there, so only whether it is filled
is kept. `nginx -t` refuses a torn map and accepts an empty include, with which
nginx passes a customer's own key on to the engine: `Served` are the keys that
open the endpoint. `crossed` and `last` are history: who met whom, and whether
the last run was a good one.

**`Deploy`** is the box and one run of `deploy.sh` at a time. Of a file only
what the scripts compare is kept. Stages that can be cut in the middle are
several actions: restore file by file, fragments copied and then tested, the key
map emptied, filled and followed by the limits file, emptied and filled
(`WriteKeyFiles`), then both tested and reloaded, the units started one after
the other (`EnableEngine`, `EnableNginx`), the TLS server written and then
tested. A map cut short is `None` while it holds nothing the TLS server misses
besides its variables, or `"torn"` when it breaks off inside its block; empty
limits hold no directive, and nginx accepts them. `mishaps` is history: what was
cut, or undone, half way, until the file is written whole again.

`MC*` modules give constants values and define symmetry sets; `MCLogReaders`
puts the two readers of rotated files over one log, a behaviour having one of
them, since neither reads what the other keeps. There is no
module that composes the dashboard with the deployment: they share no state but
the log and the engine, and each reader is checked against the whole behaviour
of what it reads.

## The runs

| run | states | what it shows |
|---|---|---|
| `monitor` | 1.9 M | the seven properties of `Monitor`: one request thread, two symmetric counters and a histogram, three scrapes, three engine lives, a deque of two |
| `access_tail` | 167 k | four lines, two rotations, a truncation; includes the liveness property |
| `log_readers` | 486 k | five lines of two customers with served, throttled and failed requests, two rotations, windows of 1 and 3, for the rollup a budget of four lines |
| `gen_keys` | 2.6 M | three symmetric runs, two customers, one of whose names matches the other |
| `deploy` | 3.6 M | bare box and snapshot; the whole sequence, `secrets keys` and `install services`; three versions of which one is refused; a key replaced; two faults; includes the liveness property |
| `stats` | 193 k | three requests per life, four samples, two finite buckets |
| `health` | 114 k | each section alone, two pairs and an empty selection, an endpoint that changes once; two customers, three load requests by two threads; includes the refinement and the liveness property |
| `log_rollup_partial` | | finding: the longest window is marked partial however long the log is |
| `gen_keys_revoke` | | finding: a revoke that reports success is not in force |
| `deploy_bare_box` | | finding: a bare box never gets its certificate |
| `deploy_stale_engine` | | finding: the restart warning is lost |
| `deploy_restore` | | finding: an interrupted restore is never completed |

The five findings are described, with the quoted lines, in `PROJECT.json`; their
runs are expected to end in a violation. `SoloRunHeals` says how far
`gen-keys.sh` can be trusted all the same.

Some properties hold only with exceptions that are worth knowing, and name them:

* `PassMeansAnswered` judges a PASS by `RepliesTo`, the replies its verdict rests
  on: those to the check's own requests, to the earlier checks it reads (E9, the
  tenth of its section, takes the levels that reported their tokens; F2 and N2 a reply asked for
  before), and for section K those to the threads of the load. B15, G4 and J4
  compare two replies and pass when neither came, and K2, which looks for
  throttling among the codes, passes when all of them are 0; A7, C9, E9, F1, F3,
  G1, G3 and L1 can pass although one of their requests met an outage. Both lists
  are minimal: without any of the twelve, or of the four, the run fails.
* `SilenceFails`: `--only N` against a dead endpoint exits 0, because all of its
  checks only warn. So does `--only K --concurrent-total 0`, whose load check
  passes with 0 of 0; the runs do not choose a total of zero, and it was the proof
  for any total that showed the exception to be missing.
* `CopiesBounded`: `prod_stats.py` counts a request twice when logrotate renames
  its file during the walk. Its docstring says that rotated logs are included "so
  a 24h window survives a midnight rotation"; the dashboard's rollup walks the
  other way and counts twice only between the end of gzip and the removal of
  the file it compressed (`NeverDoubleCounts`).
* `LifetimeOnlyAfterGap`: a request between a row's append and the attach of its
  histogram may be served percentiles of the engine's whole life, but only when
  no other sample lies within the window.
* `CompleteWhenQuiet` asks that the whole log fits the budget and no rotation
  interfered. Otherwise a window of the rollup may miss requests, the newest
  first, since the live log is read last: the comment at `server.py:492` says
  the opposite.
* `CountedOnceInOrder` excepts a tail that opened another file than the one it
  had looked at, and `CountedAtMostTwice` says what that costs.
* `OneKeyPerCustomer` and `AddedKeyKept` hold through overlapping runs of
  `gen-keys.sh` but for two adds at once and for a revoke that overlaps an add.
* `AlwaysStartable`, `NeverInterrupts` and `SnapshotServes` name the cuts that
  the scripts do not repair by themselves: a restore cut in two, refused
  fragments left behind, a map or a limits file emptied and not filled, a TLS
  server written and not loaded, a renewal hook that met such a configuration.

Why the bounds are enough. Every property relates at most three samples, files,
runs or faults, and within its bounds every run reaches a violation of each of
its properties once the code is mutated:

* `monitor`: three scrapes with a deque of two fill and overflow it; the third
  engine life allows a quick restart and an outage in one behaviour; two
  counters let one fall while the other regrows. Requests do not influence each
  other, so one thread stands for all. Counters are symmetric because every
  definition treats them alike.
* the log readers: two rotations give a compressed file and a shift of it; more
  lines than `MaxRows` and than the budget, so both limits are met. Three rows are
  enough to hold a line three times, and within one production report a request is
  counted twice and another missed. The numeric
  order of the names is that of the code only up to nine rotated files; beyond
  that the code misplaces files older than its longest window.
* `gen_keys`: two runs that meet and a third that heals or does not.
* `log_rollup_partial`: the same log with a budget that is never exhausted.
  `MCClock` leaves no line exactly as old as a window, the one case in which the
  flag of the longest window is right.
* `deploy`: a fault during a run and one during its repair. Replacing the key
  counts as one of the two, to bound how much happens to one box. The refused version
  is in the middle, so that the box goes through it to an accepted one.
* `health`: every section is a run of its own, because sections share only the
  rows; the pairs are one in which either section may crash and one in which the
  load check follows a crash. One change of the endpoint splits any two requests;
  with two changes the same properties hold (3.1 M states, four minutes). Three
  requests by two threads give a full batch and a short one.
* `stats`: chart points from 1 to 4 samples into 1 to 4 points; ranks on and
  between bucket edges.

`gen_keys`, `health` and `stats` set CHECK_DEADLOCK FALSE: every run of the
scripts ends, and the histories of `stats` are finite. Everywhere else a deadlock
would be an error of the model or of the code.

## Fairness

Safety runs assume none. `Attributed` assumes that the poll thread keeps
running (it is a `while True` with the exceptions of a poll handled inside) and
that a logrotate run, once begun, completes; not that requests arrive or that
days end. `SnapshotServes` assumes that a script that runs goes on, that systemd
starts, restarts and stops the engine, that certbot's timer fires, and that
somebody points the domain at the box; not that anybody runs `deploy.sh`,
pulls or restarts the engine. `BareBoxComesUp` even assumes that an operator runs
the whole sequence again and again, and fails all the same. `Ends` assumes that
the health check goes on as long as it can, since every request has a timeout; a
server that sends a byte now and then for ever is outside of that, and so is
`--concurrency 0`, with which the load check loops without end.

## The proofs

TLAPS proves the following for every value of the constants, with the
assumptions each module names: any number of threads, counters, runs, customers,
names, lines, rotations and requests, any history length and any window, any
latencies, buckets and quantiles. Every safety property of the passing runs is
proved but `CountedAtMostTwice`.

**`MonitorProofs`.** The metrics thread holds up to two scrapes, the one in hand
and the baseline. The inductive invariant `IInv` says, besides types
(`HistoryTypeOK`), that whatever it still holds is *known* (`HeldInv`): no
scrape has failed since the engine last died, every life begun since is a quick
one, and within its own life the counters have only grown. It also says that the
baseline is the newest row (`BaselineInv`) and that resets up to a scrape are
lives up to it (`ResetsInv`). None of the properties is inductive without it:
that a reset is real needs that a counter which fell between two known scrapes
cannot have fallen within one life. From `IInv` follow, each with a small
invariant of its own, `ResetsRealCorrect`, `RatesNonNegativeCorrect`,
`RateOneLifeCorrect`, `OnlyNewestBareCorrect` (rows, `RowsInv`) and
`ViewCoherentCorrect` (copies, `ViewInv`, resting on the fact that a row once
appended only ever gains its snapshot, `RowsKept`). Assumptions: the history
length and the window are positive, and `None` is none of the numbers or
scrapes. `TypeCorrect` and `LifetimeOnlyAfterGapCorrect` add what a request may
hold (`ReaderInv`): percentiles without a base only in a view whose newest
sample has no other within the window (`GapOnly`); that it stays so although the
rows go on changing is `RowsKept` again. `HistoryBound` says that the deque's
length is respected.

**`UsageLogProofs`** is what the three readers share. Which inode a path names is
a function of how far the rotation is and of how many there were (`NamesInv`,
`Named`); a file is in the order in which its lines were written, and a younger
file holds younger lines (`LinesInv`); no line is ever lost (`LinesKept`). Both
are inductive together with the types (`StepLog`, `StepKept`). From them: a lower
suffix names a younger file, except while `usage.log.1` is being compressed
beside itself (`PathOrder`), and every file has a name (`InodeNamed`). What
`Select` returns (`SelectPicks`, `SelectOrder`) is proved by induction over the
length. The library's induction theorems take the predicate as an operator; here
it is a set of naturals (`Induct`), which is justified by the least element of
one (`Least`), and that by the well-foundedness of strict inclusion on the finite
sets of naturals, which the library states without an operator.

**`AccessTailProofs`.** `CountedOnceInOrder` needs a statement about every row
already taken: it is older than whatever the tail may still read, that is than
what lies behind the position, than the younger files, and, when the file has
shrunk below the position, than all of it (`RowOrder`). `PlaceInv` adds where the
tail stands: its inode is never younger than the newest there is, each rotation
it counted moved it to a younger one (whence `RotationsReal`), and while the log
is still that inode and was not emptied the position lies within it. Together
they are `TailInv`. `torn` and `shrunk` occur only as hypotheses: nothing is
promised of a poll that looked at one file and opened another.

**`LogRollupProofs`.** The suffixes to be read are below those read, and a
rotation moves files only upwards; so every line kept is older than whatever is
still to come, unless the compressed copy was read beside the original
(`OnceInv`, whence `NeverDoubleCounts`). While no rotation interferes and the
budget lasts, a line of the longest window logged before the refresh is kept or
lies ahead (`CoverInv`, whence `CompleteWhenQuiet`). No line kept is older than
the longest window (`AgeInv`), and windows have a longest (`FiniteBounded`): so
every answer flags it, unless a request is exactly that old
(`LongestFlagIgnoresLog`), the general form of the finding of
`log_rollup_partial`. Together they are `RollupInv`. Assumptions: the windows are
finitely many positive numbers, at least one, and timestamps are numbers, in any
order.

**`ReportProofs`, about `Stats`.** A sum is a fold over a set, a recursion whose
solution the prover has to be given: it is built set size by set size
(`SumExists`), does not depend on the set it is a function of nor on the order in
which `CHOOSE` takes the elements (`TotalStep`, `TotalAdd`), and so is additive,
monotone and one more for one element more (`TotalPlus`, `TotalMono`,
`TotalOneMore`). Largest and least elements exist because the sets are finite
(`HasMax`, `HasMin`). Of percentiles, the central fact is that a bucket of the
window's requests reaches the rank just if its bound is no lower than the true
percentile (`PercentileOfCounts`), so that the bucket chosen is the one that holds
it, and the interpolation stays inside (`BetweenFacts`). That quantiles are ordered
needs no histogram of anything, only cumulative counts (`PercentileMono`), which is
why `Monotone` makes any difference cumulative, and why it leaves an honest one
alone (`MonotoneFacts`). The inductive invariant `StatsInv` says that what a sample
kept is the histogram of what had been seen by then, and that within a life no
latency is seen less often later (`KeptInv`); then the difference of two buckets is
the bucket of the requests in between, and `LatenciesAreHonest` and
`QuantilesAreOrdered` follow. `ChartIsComplete` needs of the slices that
consecutive quotients differ by at least one when there are more samples than
points (`QuotientGrows`, `SliceFacts`). Assumptions: latencies and bounds are
finitely many positive numbers, quantiles are 1 to 100 percent, and `Nil` is no
fraction.

**`ReportProofs`, about `UsageReport`.** The walk goes the way the files move, so its argument is
one of counting. `Pending(i)` are the paths still to read that lead to an inode.
The copies of a line already read, together with the pending paths of its file,
are at most one more than the renamings so far (`CopyInv`): reading turns a
pending path into a copy (`ReadLines`), a renaming adds at most one pending path
(`StepMoved`), and nothing else adds any (`StepUnmoved`). Before the first
renaming no line has been read twice or is still to be, and every line there was
when the report began has been read or is pending (`QuietInv`). At the end
nothing is pending, so that the copies are bounded, and exactly one if nothing
moved (`FinishedCopies`); a window of rows without repetitions then counts the
lines due in it, by customer and outcome (`SummaryExact`). The invariant is
`ReportInv`, with the two properties (`Promises`). Assumptions: windows are
positive, every line has a customer and a status, and `None` is no path list.

**`GenKeysProofs`.** Everything rests on `Alone`: two runs that are active at
once are both in `crossed`. So a run outside `crossed` is the only active one at
each of its steps (`StepAlone`), and what it has read is still the table, what
it has written still the files (`SoloInv`). `HealedInv` carries the agreement of
table, files and nginx from a good run's reload to the next change; with it
`SoloRunHealsCorrect` follows. For the properties of single keys, `KInv` adds:
names are distinct but for keys minted in an overlap, in the table and in what a
revoke is about to put in its place (`NamesInv`); an added key is in both, or was
revoked, or lost to a revoke when both had met another run (`AddedInv`); a key is
nowhere before its add appended it (`FreshInv`); and until runs overlap every
listed customer whom nginx serves is in the generated file whenever that is whole
(`ServedInv`). `FreshInv` is what makes the last one survive an add, and
`ServedInv` what makes a restart of nginx on whole files harmless:
`KeptWhileListedCorrect` is the resulting action property. Both invariants were checked with TLC, with three
runs, before they were proved. Assumptions: a name matches itself, there is a
name, and no run minted the keys that were there before.

**`HealthCheckProofs`.** `TypeCorrect` is inductive by itself. The refinement
`Implements` rests on the effect of one more row on what the report says of the
sections (`RowAdded`): it completes its section, cuts it short or leaves it
where it was. With it every step of the driver, the pool and the endpoint is a
step of `HealthReport` or a stutter (`StepImplements`). `CleanIsComplete`, what
exit code 0 means, follows from `Accounted`: a chosen section is reported to the
end, cut short or still left, and one that was cut short has left a FAIL.

The four properties of the verdicts are proved from `HealthInv`, with the types
and: the rows of the running section are its checks so far (`OrderInv`); a check
has had no more replies than it makes requests (`HeardInv`); each thread of the
load check is alive, has left a reply or has died, and when the check has passed
there are as many good replies as requests (`LoadInv`); each section but K and N
has a check that fails on silence (`TellInv`); what later verdicts read of earlier
rows is there (`ReadInv`). What a verdict makes of replies is
a lemma per kind of it, below `VerdictPass`, and holds for every reply and not
only for those an endpoint that changes once can give.
Assumptions: there is a customer and a thread (`LoadAssumption`), and a
selection names sections that exist (`SelectionsAssumption`).

**`DeployProofs`.** For any stages an operator may ask for in any order, any
number of versions, refused or not, and any number of kills, crashes and
reboots. `TypeCorrect` needs `UnitInv` (a run that is about to derive something
from the key or the table has it) and `RunInv` (a run inside a stage has that
stage still to do). `AlwaysStartableCorrect` needs `EdgeInv`: the certificate, the
TLS server on disk and the one in nginx come all together or not at all, and with
them the files they include; `MapInv`: the map is whole unless it is being
written, or a run was cut off there and none has got past it since; and
`StartInv`: the fragments in place, or during a test those that would be put
back, are accepted ones. `IdentityKeptCorrect` needs
`IdInv`: where the bundle's key is, its table is, except between the two.

The outcome builds on that invariant. A whole sequence has a suffix
of `STAGES_ALL` left (`OrderInv`), so that the number of stages left says what
has been established (`DoneInv`): the credential after secrets, the limits and a
loaded configuration after keys, the engine's key after services, a valid TLS
server after tls. `GreenInv` is what remains of it when the run is over, closed
under everything that happens to a box; `GreenMeansDeployedCorrect` follows.
`NeverInterruptsCorrect` needs `ServeInv`: whatever nginx has loaded that serves
a customer is still on disk, but for limits that are being written or were cut
off, so that a reload, by whichever stage, loads something that serves too. `BareNeverServes` is the general form of the finding
of `deploy_bare_box`: with `Origins = {"bare"}`, for any stages run any number of
times, nobody is ever served, because the certificate needs the TLS server to be
issued and the TLS server the certificate to be written (`BareInv`).
Assumptions on the constants: plans are non-empty lists of stages, version 0 is
accepted by nginx, the key is replaced at most once, and `None` is no version,
key or table.

Only model-checked: `CountedAtMostTwice`, `PartialMeansShort` and the other
properties of the violation runs, and the liveness properties `Attributed`,
`SnapshotServes` and `Ends`, since TLAPS does not handle fairness and ENABLED.
That a proof covers all values of the constants
does not make it say more than the model does: what the model leaves out is
listed next.

## Not modelled, and why

* `parse_prometheus`, the log line's regular expression, `percentile`, the
  grouping in `AccessTail.view` and the breakdowns of the rollup: parsing and
  aggregation of one list, which a unit test reaches.
* GPU, facts, certificate and capacity readings of the dashboard, its routing
  and page: no state of their own.
* In `Deploy`: the dashboard's password and files, kernel tuning, the
  optional volume, `--dry-run`, timing (backoff, time limits). The fragments of
  one version are copied in one step; certbot's retry without `www` is one
  outcome with the first attempt; an operator restarts the engine only with a
  reason.
* `cloud-init.yaml`, `launch.sh`, `snapshot-prep.sh`: linear lists of steps that
  repeat stages of `deploy.sh`. `verify-auth.sh` and `tests/`: clients of a
  live endpoint; their verdict is `Verified` in `Deploy`. `eval/collect.sh` and
  `collect_env.py`: commands whose output is written to a file each.
  `secret-scan.sh`: text matching. `experiments/`: single measurements with
  their recorded results; `redact.py` is substitution in text, `validate.py`,
  `validate2.py` and `envprobe.py` ask vLLM what it accepts and print it.
* In `HealthCheck`: prompts and the contents of replies beyond what verdicts
  tell apart (ten kinds of reply), latencies and throughput figures, Ctrl-C, the
  JSON and text form of the report.
* In `UsageReport`: bytes, addresses, paths and latencies of a line (summed or
  counted like the status), the scalars of `/metrics`, the text of the report.

## Plan

In order; done are 1 to 10 and 13.

1. `Monitor`, its runs and its proofs: the part with the threads.
2. `UsageLog`, with `AccessTail` and `LogRollup` on it.
3. `GenKeys` and its proofs.
4. `Deploy`, its liveness and the three findings.
5. `Stats`.
6. Proofs of every `GenKeys` property.
7. `HealthReport` and `HealthCheck`, the refinement between them and its proof;
   `UsageReport`, the third reader of the log.
8. Proofs of every safety property of `Deploy`.
9. Proofs for the log and its three readers, every property of them.
10. Proofs of what the verdicts of `HealthCheck` mean, for any number of requests
   and threads; of the rest of `Monitor`.
11. An abstract specification of the customer table (a set of keys in service,
   changed atomically), which `GenKeys` without overlapping runs implements, as
   a refinement checked and proved.
12. `tests/gate.py` with its baseline file, and the arm lifecycle of
    `experiments/.../driver.sh` (upgrade, measure, restore on failure).
13. Proofs of every property of `Stats`.
