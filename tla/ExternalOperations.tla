-------------------------- MODULE ExternalOperations --------------------------
(***************************************************************************)
(* External operations (application/external_operation_service.py) and     *)
(* their reconciliation (application/reconciliation_worker.py).            *)
(*                                                                         *)
(* An operation is prepared under a claimed permit, dispatched in the same *)
(* transaction that consumes the permit, and ended by whoever first        *)
(* reports: the caller of the provider, or the sweep of the worker, which  *)
(* asks the durable state of the provider.                                 *)
(*                                                                         *)
(* The sweep reads stale operations without a lock and writes them in the  *)
(* same transaction a moment later; then it reads those in RECONCILING,    *)
(* asks for the outcome of each and records it.  Each of these is a step,  *)
(* so that everything else may come between them.                          *)
(*                                                                         *)
(* begin_reconcile and reconcile_specific, the way of an operator, have no *)
(* caller in the repository and are left out.                              *)
(***************************************************************************)
EXTENDS Permits

CONSTANTS Operations, NoPermit

ASSUME OperationsAssumption == NoPermit \notin Permits

VARIABLES
  op,      \* op[o]: the row
  sweep    \* the tick of the reconciliation worker

operationVars == <<op, sweep>>

OperationStatus == {"NONE", "PREPARED", "DISPATCHING", "SUCCEEDED", "FAILED_TERMINAL",
                    "UNKNOWN", "RECONCILING", "MANUAL_REVIEW"}
Final == {"SUCCEEDED", "FAILED_TERMINAL", "MANUAL_REVIEW"}

\* age: stale from the timeout after its creation on (updated_at is never written
\* again); the sweep sets a deadline, which passes
\* named: it carries the external id that the provider gave
OperationRow == [status: OperationStatus, permit: Permits \union {NoPermit},
                 generation: {0, 1}, age: {"young", "stale", "deadline", "past"},
                 named: BOOLEAN]

\* rows: stale rows it has read and not yet written, then rows whose outcome it
\* still has to ask for; asked and verdict: the answer it holds
Sweep == [pc: {"idle", "write", "ask", "resolve"}, rows: SUBSET Operations,
          asked: SUBSET Operations, verdict: {"none", "SUCCEEDED", "FAILED_TERMINAL",
                                              "MANUAL_REVIEW"}]
AtRest == [pc |-> "idle", rows |-> {}, asked |-> {}, verdict |-> "none"]

OperationsTypeOK ==
  /\ PermitsTypeOK
  /\ op \in [Operations -> OperationRow]
  /\ sweep \in Sweep

OperationsInit ==
  /\ PermitsInit
  /\ op = [o \in Operations |-> [status |-> "NONE", permit |-> NoPermit, generation |-> 0,
                                 age |-> "young", named |-> FALSE]]
  /\ sweep = AtRest

-------------------------------------------------------------------------------
\* prepare: an operation whose key is known is returned as it is
CanPrepare(o, p) ==
  \/ op[o].status # "NONE"
  \/ permit[p].status = "CLAIMED" /\ \A q \in Operations : op[q].permit # p

Prepare(o, p) ==
  /\ CanPrepare(o, p)
  /\ op' = IF op[o].status # "NONE" THEN op
           ELSE [op EXCEPT ![o].status = "PREPARED", ![o].permit = p]
  /\ UNCHANGED <<permit, sweep>>

\* begin_dispatch: idempotent while DISPATCHING, otherwise one transaction that
\* consumes the permit; like consume it does not look at the validity
InDispatch(o) == op[o].status = "DISPATCHING" /\ op[o].generation > 0
CanDispatch(o) ==
  \/ InDispatch(o)
  \/ op[o].status = "PREPARED" /\ permit[op[o].permit].status = "CLAIMED"

BeginDispatch(o) ==
  /\ CanDispatch(o)
  /\ IF InDispatch(o)
     THEN UNCHANGED <<op, permit>>
     ELSE /\ op' = [op EXCEPT ![o].status = "DISPATCHING", ![o].generation = 1]
          /\ SetPermit(op[o].permit, "CONSUMED")
  /\ UNCHANGED sweep

BadAllowedFrom(status) ==  \* a late success corrects a failure
  {"DISPATCHING", "UNKNOWN", "RECONCILING"}
    \union (IF status = "SUCCEEDED" THEN {"FAILED_TERMINAL"} ELSE {"PREPARED"})

\* _terminal: the first writer wins, a later one is ignored
AllowedFrom(status) ==
  {"DISPATCHING", "UNKNOWN", "RECONCILING"}
    \union (IF status \in {"FAILED_TERMINAL", "UNKNOWN"} THEN {"PREPARED"} ELSE {})

Mark(o, status) ==
  /\ op' = IF op[o].status \in AllowedFrom(status)
           THEN [op EXCEPT ![o].status = status, ![o].named = (status = "SUCCEEDED")]
           ELSE op
  /\ UNCHANGED <<permit, sweep>>

-------------------------------------------------------------------------------
Stale == {o \in Operations : op[o].status \in {"DISPATCHING", "UNKNOWN"} /\ op[o].age # "young"}
Reconciling == {o \in Operations : op[o].status = "RECONCILING"}

\* reconcile_stale_unknowns reads ...
SweepReads ==
  /\ sweep.pc = "idle"
  /\ Stale \union Reconciling # {}
  /\ sweep' = [AtRest EXCEPT !.pc = "write", !.rows = Stale]
  /\ UNCHANGED <<permit, op>>

\* the tick has these rows to ask for, or ends
AskFor(rows) ==
  IF rows = {} THEN AtRest ELSE [AtRest EXCEPT !.pc = "ask", !.rows = rows]

Reopened(row) ==
  [row EXCEPT !.status = "RECONCILING",
              !.age = IF row.age = "stale" THEN "deadline" ELSE row.age]

\* ... and writes what it has read, whatever has become of it; then the tick
\* reads what is RECONCILING
SweepWrites ==
  /\ sweep.pc = "write"
  /\ op' = [o \in Operations |-> IF o \in sweep.rows THEN Reopened(op[o]) ELSE op[o]]
  /\ sweep' = AskFor({o \in Operations : op'[o].status = "RECONCILING"})
  /\ UNCHANGED permit

BadVerdict(o, outcome) == outcome  \* the deadline is not looked at

\* the probe of one row: outcome is what the durable state tells, or "none"
Verdict(o, outcome) ==
  IF outcome # "none" THEN outcome
  ELSE IF op[o].age = "past" THEN "MANUAL_REVIEW" ELSE "none"

SweepAsks(o, outcome) ==
  /\ sweep.pc = "ask" /\ o \in sweep.rows
  /\ sweep' = IF Verdict(o, outcome) = "none"
              THEN AskFor(sweep.rows \ {o})
              ELSE [pc |-> "resolve", rows |-> sweep.rows \ {o}, asked |-> {o},
                    verdict |-> Verdict(o, outcome)]
  /\ UNCHANGED <<permit, op>>

\* resolve_reconcile: raises when the row has moved on, which ends the tick
SweepResolves ==
  /\ sweep.pc = "resolve"
  /\ \E o \in sweep.asked :
       IF op[o].status = "RECONCILING"
       THEN /\ op' = [op EXCEPT ![o].status = sweep.verdict]
            /\ sweep' = AskFor(sweep.rows)
       ELSE /\ sweep' = AtRest
            /\ UNCHANGED op
  /\ UNCHANGED permit

\* the worker that runs the tick dies
SweepDies ==
  /\ sweep.pc # "idle"
  /\ sweep' = AtRest
  /\ UNCHANGED <<permit, op>>

\* the timeout of a row passes, then its deadline
GrowsOld(o) ==
  /\ op[o].status # "NONE" /\ op[o].age \in {"young", "deadline"}
  /\ op' = [op EXCEPT ![o].age = IF @ = "young" THEN "stale" ELSE "past"]
  /\ UNCHANGED <<permit, sweep>>

-------------------------------------------------------------------------------
(***************************************************************************)
(* Properties.                                                             *)
(***************************************************************************)

\* An operation has been dispatched only by consuming its own permit, so that
\* a permit that was revoked or swept before never reaches a provider, and no
\* two operations share one (external_operation_service.py:150).
DispatchConsumesPermit ==
  \A o \in Operations : op[o].generation = 1 =>
    /\ permit[op[o].permit].status = "CONSUMED"
    /\ \A q \in Operations \ {o} : op[q].permit # op[o].permit

\* An operation that has ended is reopened by nothing but a sweep that had read
\* it before it ended; every other report finds it final, in whatever order
\* results, queries and deadlines arrive (external_operation_service.py:345).
OnlySweepReopens ==
  [][\A o \in Operations :
       op[o].status \in Final /\ op'[o].status # op[o].status
         => sweep.pc = "write" /\ o \in sweep.rows
              /\ op'[o].status = "RECONCILING"]_<<permit, op, sweep>>
===============================================================================
