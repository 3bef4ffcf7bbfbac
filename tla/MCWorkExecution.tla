---------------------------- MODULE MCWorkExecution ----------------------------
(* Instances of WorkExecution for TLC: two works that do not need each other. *)
EXTENDS WorkExecution, TLC

Independent == [w \in Works |-> {}]
===============================================================================
