----------------------------- MODULE MCWorkerLoop -----------------------------
(* Instances of WorkerLoop for TLC: one business event, one timer. *)
EXTENDS WorkerLoop, TLC

CONSTANTS e1, e2, t1

TimerFiredOf == [t \in Timers |-> e1]
===============================================================================
