-------------------------------- MODULE Timers --------------------------------
(***************************************************************************)
(* Durable timers (runtime/timers.py): a row that becomes due, is claimed  *)
(* by the tick of a worker together with others of its batch, and is then  *)
(* fired by one transaction that also inserts a TimerFired event into the  *)
(* outbox.  DurableTimerService.fail has no caller in the repository and   *)
(* is left out, so that FAILED is never reached.                           *)
(*                                                                         *)
(* Abstracted: when a timer becomes due, the command and the payload.      *)
(***************************************************************************)
EXTENDS Outbox

CONSTANTS Timers,       \* rows of durable_timers
          TimerEvent    \* the event that each timer inserts when it fires

ASSUME TimersAssumption ==
  /\ TimerEvent \in [Timers -> Events]
  /\ \A t1, t2 \in Timers : TimerEvent[t1] = TimerEvent[t2] => t1 = t2

VARIABLES
  timer,   \* timer[t]: the row
  batch    \* batch[w]: timers claimed by the tick of w and not yet fired

timerVars == <<timer, batch>>

TimerStatus == {"NONE", "PENDING", "CLAIMED", "FIRED", "CANCELLED"}

TimersTypeOK ==
  /\ timer \in [Timers -> [status: TimerStatus, due: BOOLEAN,
                           owner: Workers \union {NoWorker}, live: BOOLEAN]]
  /\ batch \in [Workers -> SUBSET Timers]

TimersInit ==
  /\ timer = [t \in Timers |->
                [status |-> "NONE", due |-> FALSE, owner |-> NoWorker, live |-> FALSE]]
  /\ batch = [w \in Workers |-> {}]

-------------------------------------------------------------------------------
TimerEvents == {TimerEvent[t] : t \in Timers}

\* rows of due_timer_statement
Due == {t \in Timers : timer[t].status = "PENDING" /\ timer[t].due}

Schedule(t) ==
  /\ timer[t].status = "NONE"
  /\ timer' = [timer EXCEPT ![t].status = "PENDING"]
  /\ UNCHANGED <<batch, outboxVars>>

BadCancel(t) ==  \* whatever has become of it
  /\ timer[t].status \notin {"NONE", "CANCELLED"}
  /\ timer' = [timer EXCEPT ![t].status = "CANCELLED"]
  /\ UNCHANGED <<batch, outboxVars>>

\* a timer that is claimed can no longer be cancelled; the caller ignores that
Cancel(t) ==
  /\ timer[t].status = "PENDING"
  /\ timer' = [timer EXCEPT ![t].status = "CANCELLED"]
  /\ UNCHANGED <<batch, outboxVars>>

\* the claim of dispatch_due
ClaimTimers(w, set) ==
  /\ batch[w] = {}
  /\ timer' = [t \in Timers |->
                 IF t \in set
                 THEN [status |-> "CLAIMED", due |-> TRUE, owner |-> w, live |-> TRUE]
                 ELSE timer[t]]
  /\ batch' = [batch EXCEPT ![w] = set]
  /\ UNCHANGED outboxVars

Held(w, t) == timer[t].status = "CLAIMED" /\ timer[t].owner = w /\ timer[t].live

\* one transaction: the row becomes FIRED and its event is inserted
Fire(w, t) ==
  /\ t \in batch[w]
  /\ Held(w, t)
  /\ timer' = [timer EXCEPT ![t].status = "FIRED", ![t].owner = NoWorker, ![t].live = FALSE]
  /\ event' = Inserted(TimerEvent[t])
  /\ batch' = [batch EXCEPT ![w] = @ \ {t}]
  /\ UNCHANGED <<run, handled, faults>>

\* the lease ran out before fire: LEASE_LOST leaves the tick, and with it the
\* timers of the batch that come after
FireRaises(w, t) ==
  /\ t \in batch[w]
  /\ ~Held(w, t)
  /\ batch' = [batch EXCEPT ![w] = {}]
  /\ UNCHANGED <<timer, outboxVars>>

BecomesDue(t) ==
  /\ timer[t].status = "PENDING" /\ ~timer[t].due
  /\ timer' = [timer EXCEPT ![t].due = TRUE]
  /\ UNCHANGED <<batch, outboxVars>>

TimerLeaseEnds(t) ==
  /\ timer[t].status = "CLAIMED" /\ timer[t].live
  /\ timer' = [timer EXCEPT ![t].live = FALSE]
  /\ UNCHANGED <<batch, outboxVars>>

\* a worker that dies forgets its batch
ForgetBatch(w) == batch' = [batch EXCEPT ![w] = {}] /\ UNCHANGED timer

-------------------------------------------------------------------------------
(***************************************************************************)
(* Properties.                                                             *)
(***************************************************************************)

\* A timer has inserted its event exactly when it is FIRED: not twice, not
\* after a cancellation, and never one without the other, whatever dies
\* between claim and fire (timers.py:115).
FiredIffEvent ==
  \A t \in Timers : (timer[t].status = "FIRED") <=> (event[TimerEvent[t]].status # "NONE")

\* Nobody works on a timer that another worker holds, and nobody still means
\* to fire one that is over.
OneTimerHolder ==
  \A w \in Workers : \A t \in batch[w] :
    timer[t].status = "CLAIMED" /\ timer[t].owner = w

\* A timer that is claimed, but by no batch of a living worker.
Stranded(t) == timer[t].status = "CLAIMED" /\ \A w \in Workers : t \notin batch[w]
===============================================================================
