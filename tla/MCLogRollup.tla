---------------------------- MODULE MCLogRollup ----------------------------
(* LogRollup for TLC. *)
EXTENDS LogRollup

\* A tick for each line, and one more before the third: so a window can begin
\* between two lines, and no line is exactly as old as it.
MCClock == [l \in 0..MaxLines |-> IF l < 3 THEN l ELSE l + 1]
=============================================================================
