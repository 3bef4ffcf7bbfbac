------------------------------ MODULE EventQueue ------------------------------
(***************************************************************************)
(* What the outbox promises to those who put events into it: an event is   *)
(* worked on at least once before it is finished, what is finished stays   *)
(* so, and what nobody could handle is kept as a dead letter until it is   *)
(* revived.  Work may be done more than once, also after the end.          *)
(***************************************************************************)
CONSTANT Events

VARIABLES item,  \* item[e]: where the event stands
          done   \* events on which the work was completed at least once

queueVars == <<item, done>>

QueueInit ==
  /\ item = [e \in Events |-> "absent"]
  /\ done = {}

Move(e, from, to) ==
  /\ item[e] = from
  /\ item' = [item EXCEPT ![e] = to]
  /\ UNCHANGED done

Put(e) == Move(e, "absent", "waiting")

Work(e) ==
  /\ item[e] # "absent"
  /\ done' = done \union {e}
  /\ UNCHANGED item

Finish(e) == e \in done /\ Move(e, "waiting", "finished")

GiveUp(e) == Move(e, "waiting", "dead")

Revive(e) == Move(e, "dead", "waiting")

QueueNext == \E e \in Events : Put(e) \/ Work(e) \/ Finish(e) \/ GiveUp(e) \/ Revive(e)

QueueSpec == QueueInit /\ [][QueueNext]_queueVars
===============================================================================
