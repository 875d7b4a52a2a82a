---------------------------- MODULE UsageReport ----------------------------
(***************************************************************************)
(* eval/harness/prod_stats.py: the production report made from the usage   *)
(* log.  main() takes the time, read_rows() lists usage.log* and reads the *)
(* files in the order of their names, newest first, and each window of the *)
(* report is a summary of the rows.  Unlike the dashboard's rollup the     *)
(* walk goes the way logrotate moves the files, so that a file can be met  *)
(* again under its next name.  What a line says besides its time is its    *)
(* customer and its status; sizes, addresses, paths and latencies are      *)
(* summed in the same loops and left out.                                  *)
(***************************************************************************)
EXTENDS LineData, SequencesExt

VARIABLES
    ahead,  \* the paths still to read, None when no report is being made
    now,    \* time.time() of main(): the last line before it
    taken,  \* the lines read so far
    report, \* prod_stats.json, None before the first
    moves   \* history: the steps of logrotate that gave a file another name
            \* while this report was being made

reportVars == <<ahead, now, taken, report, moves>>
logAndReport == <<logVars, reportVars>>

\* sorted(glob(LOG_GLOB)), with fewer than ten rotated files.
AllPaths == [i \in 1..(MaxRotations + 2) |-> i - 1]
NamesInOrder_LiveTwice == <<0>> \o Select(AllPaths, Existing)
NamesInOrder == Select(AllPaths, Existing)

BeginReport ==
    /\ ahead = None
    /\ ahead' = NamesInOrder
    /\ now' = written
    /\ taken' = <<>>
    /\ moves' = IF rotating \in {"compressing", "compressed"} THEN 1 ELSE 0
    /\ UNCHANGED <<logVars, report>>

\* usage.log.1.gz while gzip is still writing it.
StillEmpty(k) == k = 2 /\ rotating = "compressing"

\* The next file is read to its end; one that is gone is passed over, and a
\* compressed one may still be empty.
ReadNext ==
    /\ ahead # None /\ ahead # <<>>
    /\ LET k == Head(ahead) IN
       taken' = IF name[k] = None \/ StillEmpty(k) THEN taken
               ELSE taken \o files[name[k]]
    /\ ahead' = Tail(ahead)
    /\ UNCHANGED <<logVars, now, report, moves>>

\* A truncated gzip stream is an EOFError, which is no OSError: the program
\* ends, and the report of an earlier run stays as it was.
Dies ==
    /\ ahead # None /\ ahead # <<>>
    /\ StillEmpty(Head(ahead))
    /\ ahead' = None
    /\ UNCHANGED <<logVars, now, taken, report, moves>>

(***************************************************************************)
(* summarise().  A line logged after main() took the time has a negative   *)
(* age and belongs to every window.                                        *)
(***************************************************************************)
InWindow_Strict(l, secs) == now - l < secs
InWindow(l, secs) == now - l <= secs

Count(s, P(_)) == Cardinality({i \in DOMAIN s : P(s[i])})

Failed(l) == Status[l] >= 400

\* cause_of: a class per status, the paths playing no part.
CausesOf(sel) ==
    [st \in {Status[sel[i]] : i \in {i \in DOMAIN sel : Failed(sel[i])}} |->
        Count(sel, LAMBDA l : Status[l] = st)]

CustomersOf(sel) ==
    [c \in {Cust[sel[i]] : i \in DOMAIN sel} |->
        [requests  |-> Count(sel, LAMBDA l : Cust[l] = c),
         failures  |-> Count(sel, LAMBDA l : Cust[l] = c /\ Failed(l)),
         throttled |-> Count(sel, LAMBDA l : Cust[l] = c /\ Status[l] = 429)]]

\* coverage_seconds: from the oldest row to the newest.
Span ==
    IF Len(taken) > 1 THEN Max(Range(taken)) - Min(Range(taken)) ELSE 0

Summary(secs) ==
    LET sel == Select(taken, {l \in Lines : InWindow(l, secs)})
    IN  [requests     |-> Len(sel),
         successful   |-> Count(sel, LAMBDA l : ~Failed(l)),
         failures     |-> Count(sel, Failed),
         server_error |-> Count(sel, LAMBDA l : Status[l] >= 500),
         causes       |-> CausesOf(sel),
         per_customer |-> CustomersOf(sel),
         partial      |-> secs > Span]

FinishReport ==
    /\ ahead = <<>>
    /\ report' = [windows |-> [secs \in Windows |-> Summary(secs)],
                  rows |-> taken, at |-> now, moves |-> moves]
    /\ ahead' = None
    /\ UNCHANGED <<logVars, now, taken, moves>>

ReportInit ==
    /\ LogInit
    /\ ahead = None /\ now = 0 /\ taken = <<>>
    /\ report = None /\ moves = 0

Renames == BeginRotation \/ Shift \/ Rename
ReportNext ==
    \/ BeginReport \/ ReadNext \/ Dies \/ FinishReport
    \/ (WriteLine \/ CompressEnd \/ Create \/ Reopen) /\ UNCHANGED reportVars
    \/ Renames /\ moves' = moves + 1 /\ UNCHANGED <<ahead, now, taken, report>>
ReportSpec == ReportInit /\ [][ReportNext]_logAndReport

-----------------------------------------------------------------------------
(* What is checked.                                                        *)

\* A report that logrotate left alone has, in every window, each request
\* logged since the window began exactly once, with its customer and its
\* outcome; and a window not marked partial reaches back to its beginning,
\* unless requests came in while the report was made (prod_stats.py:64-92,
\* 102-179, 313-325).
ExactWhenQuiet ==
    report # None /\ report.moves = 0 => \A secs \in Windows :
        LET w    == report.windows[secs]
            due  == {l \in 1..report.at : report.at - l <= secs}
            more == {l \in Range(report.rows) : l > report.at}
            mine(c) == {l \in due \cup more : Cust[l] = c}
        IN  /\ w.requests = Cardinality(due \cup more)
            /\ w.requests = w.successful + w.failures
            /\ \A c \in Customers :
                  IF mine(c) = {} THEN c \notin DOMAIN w.per_customer
                  ELSE /\ w.per_customer[c].requests = Cardinality(mine(c))
                       /\ w.per_customer[c].failures
                             = Cardinality({l \in mine(c) : Failed(l)})
            /\ ~w.partial /\ more = {}
                  => \E l \in 1..report.at : report.at - l >= secs

\* A request is counted again only for a step of logrotate that renamed its
\* file while the report was being made, once per step; and it is missing only
\* after such a step (prod_stats.py:64-67).
CopiesBounded ==
    report # None => \A l \in 1..report.at :
        LET copies == Count(report.rows, LAMBDA r : r = l)
        IN  /\ copies <= 1 + report.moves
            /\ report.moves = 0 => copies = 1
=============================================================================
