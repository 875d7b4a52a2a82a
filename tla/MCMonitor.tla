----------------------------- MODULE MCMonitor -----------------------------
(***************************************************************************)
(* Monitor for TLC.  The counters are interchangeable: no operator names   *)
(* one, and no property here is a temporal one.                            *)
(***************************************************************************)
EXTENDS Monitor, TLC

CounterSymmetry == Permutations(Counters)
=============================================================================
