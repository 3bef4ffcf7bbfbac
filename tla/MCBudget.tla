------------------------------- MODULE MCBudget -------------------------------
(* Instances of Budget for TLC. *)
EXTENDS Budget, TLC
===============================================================================
