----------------------------- MODULE MCModelCalls -----------------------------
(* Instances of ModelCalls for TLC. *)
EXTENDS ModelCalls, TLC

\* every call reserves 2, so a cost of 1 leaves a remainder and 3 needs a top-up
MCEstimate == [c \in Calls |-> 2]
MCCosts == {1, 2, 3}
===============================================================================
