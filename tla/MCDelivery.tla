----------------------------- MODULE MCDelivery -----------------------------
(* One goal with two passes at a time; a behaviour may use up one of the    *)
(* budgets: a nudge, a fault and a late answer, a further round, a          *)
(* milestone, an act of a person, or a crowd of other goals.               *)
EXTENDS Delivery

Budget(used) == [c \in Counters |-> IF c \in used THEN 1 ELSE 0]
MCBudgets    == {Budget(used) : used \in {{"nudges"}, {"faults", "late"},
                                          {"rounds"}, {"further"}, {"acts"}, {"others"}}}

=============================================================================
