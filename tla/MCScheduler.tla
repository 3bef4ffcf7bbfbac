------------------------------ MODULE MCScheduler ------------------------------
(* Instances of Scheduler for TLC: a large entry, a small one that it outranks, *)
(* and one that asks for a single resource.                                     *)
EXTENDS Scheduler, TLC

CONSTANTS e1, e2, e3, cpu, calls

AskedFor ==
  [e \in Entries |-> (cpu :> IF e = e1 THEN 2 ELSE 1) @@ (calls :> IF e = e3 THEN 0 ELSE 1)]
Ranks == {<<e1, e2>>}
===============================================================================
