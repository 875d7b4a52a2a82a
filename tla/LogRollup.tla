----------------------------- MODULE LogRollup -----------------------------
(***************************************************************************)
(* The dashboard's hour and day figures, dashboard/server.py class         *)
(* LogRollup.  refresh() lists usage.log*, reads the files one after the   *)
(* other within a byte budget, keeps the lines of the longest window and    *)
(* fills each window from them.  The walk is in reverse lexicographic order *)
(* of the names, and logrotate may rename files under it.  With fewer than *)
(* ten rotated files that order is the numeric one; beyond, it misplaces   *)
(* only files that daily rotation has made older than the longest window.  *)
(***************************************************************************)
EXTENDS LogWindows, SequencesExt

CONSTANTS Clock,    \* the timestamp of each line, and what the clock shows
                    \* when it is the last one
          MaxBytes  \* ROLLUP_MAX_BYTES, in lines

ASSUME RollupAssumption == /\ Windows # {} /\ IsFiniteSet(Windows)
                           /\ MaxBytes \in Nat
                           /\ Clock \in [0..MaxLines -> Nat]

VARIABLES
    walk,    \* the suffixes still to read, or None when no refresh runs
    started, \* refresh()'s now: that of the last line before it
    budget,  \* what is left of MaxBytes
    rows,    \* the lines kept so far, in the order they were read
    data,    \* what view() returns: a record per window, None before the first
    moved,   \* history: a rotation was in progress during this refresh
    twice    \* history: this refresh read the compressed copy of usage.log.1
             \* when that was still there

rollupVars == <<walk, started, budget, rows, data, moved, twice>>
vars == <<logVars, rollupVars>>

Longest == Max(Windows)

\* "now - ts <= secs": a line as old as the refresh itself has age 0.
Age(l) == Clock[started] - Clock[l]
Recent_Strict(secs, s) == Select(s, {l \in Lines : Age(l) < secs})
Recent(secs, s) == Select(s, {l \in Lines : Age(l) <= secs})

\* reversed(sorted(glob(path + "*"))): with fewer than ten rotated files, the
\* highest suffix first and the live log last.
WalkOrder_NewestFirst ==
    Select([i \in 1..(MaxRotations + 2) |-> i - 1], Existing)
WalkOrder ==
    Select([i \in 1..(MaxRotations + 2) |-> MaxRotations + 2 - i], Existing)

Begin ==
    /\ walk = None
    /\ walk' = WalkOrder
    /\ started' = written
    /\ budget' = MaxBytes
    /\ rows' = <<>>
    /\ moved' = (rotating # "no")
    /\ twice' = FALSE
    /\ UNCHANGED <<logVars, data>>

\* The lines of a file that fit: a plain file larger than the budget is read
\* from its last budget bytes, less the line they cut; a .gz is read whole.
Fits(k, lines) ==
    IF k <= 1 /\ Len(lines) > budget
    THEN SubSeq(lines, Len(lines) - budget + 2, Len(lines))
    ELSE lines

\* The budget is charged the file's whole size, even when only its end fits.
Left_Refunded(size) == budget + size
Left(size) == budget - size

\* usage.log.1.gz while gzip is still writing it.
Truncated(k) == k = 2 /\ rotating = "compressing"

\* One file of the walk.  A path that is gone, has not been created yet, or is
\* a compressed file with nothing in it yet, adds nothing.
ReadFile ==
    /\ walk # None /\ walk # <<>> /\ budget > 0
    /\ LET k == Head(walk) IN
       IF name[k] = None \/ Truncated(k) THEN UNCHANGED <<budget, rows>>
       ELSE /\ rows' = rows \o Recent(Longest, Fits(k, files[name[k]]))
            /\ budget' = Left(Len(files[name[k]]))
    /\ walk' = Tail(walk)
    /\ twice' = (twice \/ (Head(walk) = 2 /\ rotating = "compressed"))
    /\ UNCHANGED <<logVars, started, data, moved>>

\* A truncated gzip stream is an EOFError, which is no OSError: it ends the
\* whole refresh, and the page says that the figures are not available.
ReadFails ==
    /\ walk # None /\ walk # <<>> /\ budget > 0
    /\ Truncated(Head(walk))
    /\ walk' = None
    /\ data' = None
    /\ UNCHANGED <<logVars, started, budget, rows, moved, twice>>

\* coverage: the age of the oldest line kept.
Coverage == IF rows = <<>> THEN 0
            ELSE Max({Age(rows[i]) : i \in 1..Len(rows)})

Partial(secs) == secs > Coverage

Finish ==
    /\ walk # None
    /\ walk = <<>> \/ budget <= 0
    /\ data' = [secs \in Windows |->
                  [requests |-> Len(Recent(secs, rows)), partial |-> Partial(secs),
                   lines |-> Recent(secs, rows), at |-> started, moved |-> moved,
                   twice |-> twice, starved |-> walk # <<>> \/ budget < 0]]
    /\ walk' = None
    /\ UNCHANGED <<logVars, started, budget, rows, moved, twice>>

Init ==
    /\ LogInit
    /\ walk = None /\ started = 0 /\ budget = 0 /\ rows = <<>>
    /\ data = None /\ moved = FALSE /\ twice = FALSE

Refresh == Begin \/ ReadFile \/ ReadFails \/ Finish
Next ==
    \/ Refresh
    \/ WriteLine /\ UNCHANGED rollupVars
    \/ Rotate /\ moved' = TRUE
              /\ UNCHANGED <<walk, started, budget, rows, data, twice>>
Spec == Init /\ [][Next]_vars
-----------------------------------------------------------------------------
(* What is checked.                                                        *)

WindowType == [requests : Nat, partial : BOOLEAN, lines : Seq(Lines),
               at : 0..MaxLines, moved : BOOLEAN, twice : BOOLEAN,
               starved : BOOLEAN]

\* Every variable has its type.
TypeOK ==
    /\ LogTypeOK
    /\ walk = None \/ walk \in Seq(Paths)
    /\ started \in 0..MaxLines
    /\ budget \in Int /\ budget <= MaxBytes
    /\ rows \in Seq(Lines)
    /\ data = None \/ data \in [Windows -> WindowType]
    /\ moved \in BOOLEAN /\ twice \in BOOLEAN

\* A rotation in the middle of a refresh never makes it count a request
\* twice, because files only move to suffixes already visited; except when it
\* reads usage.log.1.gz after gzip has completed it and before logrotate has
\* removed usage.log.1, which comes next.
NeverDoubleCounts ==
    data # None => \A secs \in Windows :
        data[secs].twice \/ IsInjective(data[secs].lines)

\* A refresh that met no rotation and stayed within its budget counts, in
\* every window, every request of that window that had been logged when it
\* began, wherever the rotations had put it.
CompleteWhenQuiet ==
    data # None => \A secs \in Windows :
        LET d == data[secs] IN
        ~d.moved /\ ~d.starved =>
            {l \in 1..d.at : Clock[d.at] - Clock[l] <= secs} \subseteq Range(d.lines)

\* The class says (server.py:475-478) that it "marks a window partial when the
\* log does not reach back far enough to support it": a refresh that nothing
\* disturbed marks no window the log does support.
PartialMeansShort ==
    data # None => \A secs \in Windows :
        LET d == data[secs] IN
        ~d.moved /\ ~d.starved /\ d.partial =>
            \A l \in 1..d.at : Clock[d.at] - Clock[l] < secs
=============================================================================
