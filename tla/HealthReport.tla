---------------------------- MODULE HealthReport ----------------------------
(***************************************************************************)
(* What a run of eval/harness/kvv_health.py promises to whoever reads its  *)
(* exit code (eval/collect.sh records it in the manifest): every chosen    *)
(* section is either reported to its last check or cut short, a cut        *)
(* section is a failure, and the code is 0 only if nothing failed.  How a  *)
(* section comes about is HealthCheck's matter.                            *)
(***************************************************************************)
CONSTANTS Sections, None

VARIABLES
    chosen, \* the sections of this run
    todo,   \* those not yet dealt with
    full,   \* those reported to the end
    cut,    \* those that were not
    failed, \* something has been reported FAIL
    exit    \* the exit code, None while the run lasts

vars == <<chosen, todo, full, cut, failed, exit>>

\* Without a single customer key nothing is tested (2); a directory that cannot
\* be made or a results file that cannot be written ends the run with 1.
GiveUp ==
    /\ exit = None
    /\ exit' \in {1, 2}
    /\ UNCHANGED <<chosen, todo, full, cut, failed>>

Choose ==
    /\ chosen = None
    /\ exit = None
    /\ chosen' \in SUBSET Sections
    /\ todo' = chosen'
    /\ UNCHANGED <<full, cut, failed, exit>>

\* A check that is not the last of its section fails.
Fail ==
    /\ todo # {}
    /\ failed' = TRUE
    /\ UNCHANGED <<chosen, todo, full, cut, exit>>

Complete(s) ==
    /\ todo' = todo \ {s}
    /\ full' = full \cup {s}
    /\ failed' \in {failed, TRUE}
    /\ UNCHANGED <<chosen, cut, exit>>

CutShort(s) ==
    /\ todo' = todo \ {s}
    /\ cut' = cut \cup {s}
    /\ failed' = TRUE
    /\ UNCHANGED <<chosen, full, exit>>

Close ==
    /\ chosen # None
    /\ todo = {}
    /\ exit = None
    /\ exit' = IF failed THEN 1 ELSE 0
    /\ UNCHANGED <<chosen, todo, full, cut, failed>>

Init ==
    /\ chosen = None /\ todo = {}
    /\ full = {} /\ cut = {} /\ failed = FALSE
    /\ exit = None

Next ==
    \/ GiveUp \/ Choose \/ Fail \/ Close
    \/ \E s \in todo : Complete(s) \/ CutShort(s)

Spec == Init /\ [][Next]_vars

\* A run that ends with 0 has reported every section it was asked for, to the
\* last check, and none of them failed.
CleanMeansComplete ==
    exit = 0 => /\ ~failed
                /\ cut = {}
                /\ full = chosen
=============================================================================
