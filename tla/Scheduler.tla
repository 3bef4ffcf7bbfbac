------------------------------- MODULE Scheduler -------------------------------
(***************************************************************************)
(* The scheduler of one organisation (application/scheduler_service.py):   *)
(* queue entries that ask for amounts of several resources at once, the    *)
(* quotas these are held against, the reservations that each decision      *)
(* makes, and the ledger of debits and credits.                            *)
(*                                                                         *)
(* Scheduling locks the queue and then the quotas, a release locks the     *)
(* reservation and its quota: each is one step.  A preemption locks the    *)
(* entry and then looks, without a lock, whether the goal has an external  *)
(* operation under dispatch: it is two steps, and such an operation, a     *)
(* release or a decision for another entry may come between them.          *)
(*                                                                         *)
(* dispatch_with_eo and preempt_with_eo_check have no caller in the        *)
(* repository and are left out, as is the permit that a tick asks for and  *)
(* nobody claims.  Of the reservations of an entry only the number of those*)
(* that are HELD is kept; the others are never looked at again.            *)
(***************************************************************************)
EXTENDS Integers, FiniteSets, Functions

CONSTANTS
  Entries, Resources,
  Request,   \* Request[e][r]: what the entry asks for
  Outranks,  \* <<e, f>>: e is sure to be sorted before f
  Limits     \* the limits an operator may set

ASSUME SchedulerAssumption ==
  /\ IsFiniteSet(Entries)
  /\ Request \in [Entries -> [Resources -> Nat]]
  /\ \A e \in Entries : \E r \in Resources : Request[e][r] > 0
  /\ Outranks \subseteq Entries \X Entries
  /\ Limits \subseteq Nat

VARIABLES
  entry,       \* entry[e]: the status of the queue entry
  quota,       \* quota[r]: the limit and the amount that is held
  holds,       \* holds[e][r]: reservations of the entry that are HELD
  ledger,      \* ledger[r]: debits minus credits
  selected,    \* entries that some decision has selected
  checkpoints, \* those of which a checkpoint was saved
  resumed,     \* entries that note a checkpoint they were resumed from
  preempting,  \* entries that are locked by a preemption which has looked
  dispatching  \* entries whose goal has an operation in DISPATCHING

schedulerVars ==
  <<entry, quota, holds, ledger, selected, checkpoints, resumed, preempting, dispatching>>

SchedulerTypeOK ==
  /\ entry \in [Entries -> {"NONE", "QUEUED", "SCHEDULED"}]
  /\ quota \in [Resources -> [limit: Limits, held: Nat]]
  /\ holds \in [Entries -> [Resources -> Nat]]
  /\ ledger \in [Resources -> Int]
  /\ selected \subseteq Entries /\ checkpoints \subseteq Entries /\ resumed \subseteq Entries
  /\ preempting \subseteq Entries /\ dispatching \subseteq Entries

SchedulerInit ==
  /\ entry = [e \in Entries |-> "NONE"]
  /\ quota \in [Resources -> [limit: Limits, held: {0}]]
  /\ holds = [e \in Entries |-> [r \in Resources |-> 0]]
  /\ ledger = [r \in Resources |-> 0]
  /\ selected = {} /\ checkpoints = {} /\ resumed = {} /\ preempting = {} /\ dispatching = {}

-------------------------------------------------------------------------------
Asks(e, r) == Request[e][r] > 0
BadFits(e) ==  \* some of it is free
  \A r \in Resources : Asks(e, r) => quota[r].held < quota[r].limit

Fits(e) == \A r \in Resources : Asks(e, r) => quota[r].held + Request[e][r] <= quota[r].limit
BadCandidates == {e \in Entries : entry[e] # "NONE" /\ Fits(e)}

Candidates == {e \in Entries : entry[e] = "QUEUED" /\ Fits(e)}

BadIsFirst(e) ==  \* the head of the queue blocks those behind it
  /\ e \in Candidates
  /\ \A f \in Entries : entry[f] = "QUEUED" => <<f, e>> \notin Outranks

\* the first by aging score of those that fit; the others are passed over
IsFirst(e) == e \in Candidates /\ \A f \in Candidates : <<f, e>> \notin Outranks

\* ensure_quota of a quota that exists: nobody looks at what is held
SetLimit(r) ==
  /\ \E limit \in Limits \ {quota[r].limit} : quota' = [quota EXCEPT ![r].limit = limit]
  /\ UNCHANGED <<entry, holds, ledger, selected, checkpoints, resumed, preempting, dispatching>>

Enqueue(e) ==
  /\ entry[e] = "NONE"
  /\ entry' = [entry EXCEPT ![e] = "QUEUED"]
  /\ UNCHANGED <<quota, holds, ledger, selected, checkpoints, resumed, preempting, dispatching>>

\* schedule_once: the first one is held in all it asks for.
\* The scores are computed anew, so that what a resume had added to one is gone;
\* counted in whole minutes, they may order two entries now so, now otherwise.
ScheduleOnce(e) ==
  /\ IsFirst(e)
  /\ entry' = [entry EXCEPT ![e] = "SCHEDULED"]
  /\ quota' = [r \in Resources |-> [quota[r] EXCEPT !.held = @ + Request[e][r]]]
  /\ holds' = [holds EXCEPT ![e] = [r \in Resources |-> IF Asks(e, r) THEN @[r] + 1 ELSE @[r]]]
  /\ ledger' = [r \in Resources |-> ledger[r] + Request[e][r]]
  /\ selected' = selected \union {e}
  /\ UNCHANGED <<checkpoints, resumed, preempting, dispatching>>

\* save_checkpoint of a decision: by the tick after it, unless the worker dies,
\* or at any later time on request
SaveCheckpoint(e) ==
  /\ e \in selected \ checkpoints
  /\ checkpoints' = checkpoints \union {e}
  /\ UNCHANGED <<entry, quota, holds, ledger, selected, resumed, preempting, dispatching>>

\* release_reservation, one row; the entry stays as it is
Release(e, r) ==
  /\ holds[e][r] > 0 /\ quota[r].held >= Request[e][r]
  /\ holds' = [holds EXCEPT ![e][r] = @ - 1]
  /\ quota' = [quota EXCEPT ![r].held = @ - Request[e][r]]
  /\ ledger' = [ledger EXCEPT ![r] = @ - Request[e][r]]
  /\ UNCHANGED <<entry, selected, checkpoints, resumed, preempting, dispatching>>

\* preempt has the lock of the entry and sees no operation under dispatch ...
PreemptLooks(e) ==
  /\ e \notin preempting /\ entry[e] = "SCHEDULED" /\ e \notin dispatching
  /\ preempting' = preempting \union {e}
  /\ UNCHANGED <<entry, quota, holds, ledger, selected, checkpoints, resumed, dispatching>>

BadGivenBack(e, r) == Request[e][r]  \* what it asked for, not what it holds

\* ... and gives back whatever the entry then holds, unless it dies or raises
GivenBack(e, r) == holds[e][r] * Request[e][r]

PreemptEnds(e) ==
  /\ e \in preempting
  /\ \A r \in Resources : quota[r].held >= GivenBack(e, r)
  /\ preempting' = preempting \ {e}
  /\ entry' = [entry EXCEPT ![e] = "QUEUED"]
  /\ quota' = [r \in Resources |-> [quota[r] EXCEPT !.held = @ - GivenBack(e, r)]]
  /\ ledger' = [r \in Resources |-> ledger[r] - GivenBack(e, r)]
  /\ holds' = [holds EXCEPT ![e] = [r \in Resources |-> 0]]
  /\ UNCHANGED <<selected, checkpoints, resumed, dispatching>>

PreemptFails(e) ==
  /\ e \in preempting
  /\ preempting' = preempting \ {e}
  /\ UNCHANGED <<entry, quota, holds, ledger, selected, checkpoints, resumed, dispatching>>

\* resume_from_checkpoint queues the entry again from any status, and leaves its
\* reservations as they are
Resume(e) ==
  /\ e \in checkpoints /\ e \notin preempting
  /\ entry' = [entry EXCEPT ![e] = "QUEUED"]
  /\ resumed' = resumed \union {e}
  /\ UNCHANGED <<quota, holds, ledger, selected, checkpoints, preempting, dispatching>>

\* an external operation of the goal is dispatched, and ends
Dispatch(e) ==
  /\ entry[e] # "NONE" /\ e \notin dispatching
  /\ dispatching' = dispatching \union {e}
  /\ UNCHANGED <<entry, quota, holds, ledger, selected, checkpoints, resumed, preempting>>

OperationEnds(e) ==
  /\ e \in dispatching
  /\ dispatching' = dispatching \ {e}
  /\ UNCHANGED <<entry, quota, holds, ledger, selected, checkpoints, resumed, preempting>>

-------------------------------------------------------------------------------
Schedule == \E e \in Entries : ScheduleOnce(e)

SchedulerNext ==
  \/ Schedule
  \/ \E r \in Resources : SetLimit(r)
  \/ \E e \in Entries :
       \/ Enqueue(e) \/ SaveCheckpoint(e) \/ Resume(e)
       \/ PreemptLooks(e) \/ PreemptEnds(e) \/ PreemptFails(e)
       \/ Dispatch(e) \/ OperationEnds(e)
       \/ \E r \in Resources : Release(e, r)

SchedulerSpec == SchedulerInit /\ [][SchedulerNext]_schedulerVars

\* the worker ticks
SchedulerFairSpec == SchedulerSpec /\ WF_schedulerVars(Schedule)

-------------------------------------------------------------------------------
(***************************************************************************)
(* Properties.                                                             *)
(***************************************************************************)

\* What a quota says is held, and what the ledger says, is the sum of the
\* reservations that are HELD, whatever releases, preemptions and resumes have
\* crossed (scheduler_service.py:358): nothing is given back twice, or kept.
HeldIsReserved ==
  \A r \in Resources :
    /\ quota[r].held = SumFunctionOnSet([e \in Entries |-> holds[e][r] * Request[e][r]], Entries)
    /\ ledger[r] = quota[r].held

\* Only a decision adds to what is held: for one entry, in all its resources
\* or in none, and within the limits of the moment (scheduler_service.py:230),
\* although limits are lowered below what is held.
HoldsAllOrNone ==
  [][\A r \in Resources : quota'[r].held > quota[r].held =>
       \E e \in Entries :
         /\ entry[e] = "QUEUED" /\ entry'[e] = "SCHEDULED"
         /\ \A s \in Resources :
              /\ quota'[s].held = quota[s].held + Request[e][s]
              /\ Asks(e, s) => quota'[s].held <= quota'[s].limit]_schedulerVars

\* An entry in the queue holds nothing, and a scheduled one once at most in
\* each resource, unless it was resumed from a checkpoint: then every further
\* decision holds beside the earlier ones (scheduler_service.py:649).
HoldsTwiceOnlyResumed ==
  \A e \in Entries \ resumed, r \in Resources :
    holds[e][r] <= IF entry[e] = "SCHEDULED" THEN 1 ELSE 0

\* An entry that fits from some time on stays in the queue forever only while
\* entries that it does not outrank come back to the queue again and again
\* (scheduler_service.py:62).
FittingIsScheduled ==
  \A e \in Entries :
    (<>[](e \in Candidates)) =>
      []<><<\E f \in Entries \ {e} :
              entry[f] = "SCHEDULED" /\ entry'[f] = "QUEUED"
                /\ <<e, f>> \notin Outranks>>_schedulerVars
===============================================================================
