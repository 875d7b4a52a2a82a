------------------------------ MODULE MCDeploy ------------------------------
EXTENDS Deploy

\* The whole sequence, and stages an operator re-runs by themselves.
MCPlans == {STAGES_ALL, <<"secrets", "keys">>, <<"install", "services">>}
MCWhole == {STAGES_ALL}
=============================================================================
