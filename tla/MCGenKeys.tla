----------------------------- MODULE MCGenKeys -----------------------------
(***************************************************************************)
(* GenKeys for TLC: three runs and two customers, one of whose names has a *)
(* dot and so matches the other's.                                         *)
(***************************************************************************)
EXTENDS GenKeys, TLC

CONSTANTS plain, dotted

MCNames == {plain, dotted}
MCMatches == plain :> {plain} @@ dotted :> {plain, dotted}
RunSymmetry == Permutations(Runs)
=============================================================================
