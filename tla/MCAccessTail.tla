---------------------------- MODULE MCAccessTail ---------------------------
(* AccessTail for TLC. *)
EXTENDS AccessTail
=============================================================================
