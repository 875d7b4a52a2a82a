---------------------------- MODULE LogWindows -----------------------------
(***************************************************************************)
(* The windows that the dashboard's rollup and the production report       *)
(* summarise the usage log over.                                           *)
(***************************************************************************)
EXTENDS UsageLog

CONSTANT Windows \* ROLLUP_WINDOWS, or WINDOWS: their lengths, on the lines' clock

ASSUME WindowsAssumption == Windows \subseteq Nat \ {0}
=============================================================================
