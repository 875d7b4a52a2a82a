---------------------------- MODULE MCLogReaders ----------------------------
(***************************************************************************)
(* The two readers of the usage log for TLC, the dashboard's rollup and    *)
(* the production report, over the same log.  Neither reads what the other *)
(* keeps, so a behaviour has one of them.                                  *)
(***************************************************************************)
EXTENDS MCLogRollup, UsageReport

VARIABLE reader \* which of the two

\* The throttled customer fails, the other is served.
MCCust == [l \in Lines |-> IF l % 2 = 0 THEN "acme" ELSE "evalbot"]
MCStatus == [l \in Lines |-> CASE l % 3 = 0 -> 429 [] l % 4 = 0 -> 502
                               [] OTHER -> 200]

MCInit == /\ Init /\ ReportInit
          /\ reader \in {"dashboard", "report"}

Dashboard == /\ reader = "dashboard"
             /\ Next
             /\ UNCHANGED <<reader, reportVars>>
Reporter == /\ reader = "report"
            /\ ReportNext
            /\ UNCHANGED <<reader, rollupVars>>

MCNext == Dashboard \/ Reporter
MCSpec == MCInit /\ [][MCNext]_<<vars, reportVars, reader>>
=============================================================================
