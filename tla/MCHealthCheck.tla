---------------------------- MODULE MCHealthCheck ----------------------------
EXTENDS HealthCheck

\* Every section by itself, a pair whose first may crash, and an empty order.
MCSelections == {{s} : s \in Sections} \cup {{"D", "F"}, {"H", "K"}, {}}
=============================================================================
