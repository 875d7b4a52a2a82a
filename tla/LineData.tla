----------------------------- MODULE LineData ------------------------------
(***************************************************************************)
(* What a line of the usage log says besides its time, as far as the       *)
(* production report tells lines apart: whose request it was and the       *)
(* status it was answered with.                                            *)
(***************************************************************************)
EXTENDS LogWindows

CONSTANTS Customers,
          Cust,   \* the customer of each line
          Status  \* and its status

ASSUME LineAssumption == /\ Cust \in [Lines -> Customers]
                         /\ Status \in [Lines -> 100..599]
=============================================================================
