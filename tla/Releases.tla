------------------------------- MODULE Releases -------------------------------
(***************************************************************************)
(* A preview deployment (application/release_service.py: request, execute  *)
(* and the retry with a new key) over external operations, with the sweep  *)
(* of the worker beside it.                                                *)
(*                                                                         *)
(* execute is the handler of an outbox event, which is delivered again     *)
(* after a crash or a lost lease, so that several executions of one        *)
(* deployment may run at once and each may die between two transactions.   *)
(* The provider deploys under the idempotency key of the deployment: doing *)
(* it twice is doing it once, and a call may raise after its effect.       *)
(*                                                                         *)
(* reconcile and rollback have no caller in the repository and are left    *)
(* out, as are the checks of the candidate that precede request.           *)
(***************************************************************************)
EXTENDS ExternalOperations

CONSTANTS Agents,         \* executions that may run at once
          BaseOperation,  \* key preview-deploy:<idempotency key>
          BasePermit,
          NoOperation,
          MaxCrashes      \* bound: executions and ticks that die

ASSUME ReleasesAssumption ==
  /\ BaseOperation \in Operations /\ BasePermit \in Permits
  /\ NoOperation \notin Operations /\ MaxCrashes \in Nat

VARIABLES
  deployment,  \* the row, with the operation and the permit it names
  exec,        \* exec[x]: where the execution of agent x stands
  provider,    \* the deployment has taken effect at the provider
  crashes

releaseVars == <<deployment, exec, provider, crashes>>
vars == <<permit, operationVars, releaseVars>>

Places == {"idle", "look", "claim", "prepare", "dispatch", "save", "deploy", "mark", "commit"}
Results == {"none", "SUCCEEDED", "FAILED", "UNKNOWN", "raised"}
Deployment == [status: {"NONE", "REQUESTED", "DEPLOYING", "SUCCEEDED", "FAILED", "UNKNOWN"},
               op: Operations, permit: Permits]
Execution == [pc: Places, op: Operations \union {NoOperation},
              permit: Permits \union {NoPermit}, minted: BOOLEAN, result: Results]
NoExecution == [pc |-> "idle", op |-> NoOperation, permit |-> NoPermit, minted |-> FALSE,
                result |-> "none"]

ReleasesTypeOK ==
  /\ OperationsTypeOK
  /\ deployment \in Deployment
  /\ exec \in [Agents -> Execution]
  /\ provider \in BOOLEAN
  /\ crashes \in 0..MaxCrashes

ReleasesInit ==
  /\ OperationsInit
  /\ deployment = [status |-> "NONE", op |-> BaseOperation, permit |-> BasePermit]
  /\ exec = [x \in Agents |-> NoExecution]
  /\ provider = FALSE
  /\ crashes = 0

-------------------------------------------------------------------------------
At(x, place) == exec[x].pc = place
Goto(x, place) == exec' = [exec EXCEPT ![x].pc = place]
Leave(x) == exec' = [exec EXCEPT ![x] = NoExecution]

\* request_deployment of the approved candidate
RequestDeployment ==
  /\ deployment.status = "NONE" /\ permit[BasePermit].status # "NONE"
  /\ deployment' = [deployment EXCEPT !.status = "REQUESTED"]
  /\ UNCHANGED <<permit, operationVars, exec, provider, crashes>>

\* execute: an ended deployment is returned as it is, an UNKNOWN one refused
Begin(x) ==
  /\ At(x, "idle")
  /\ deployment.status \in {"REQUESTED", "DEPLOYING"}
  /\ deployment' = [deployment EXCEPT !.status = "DEPLOYING"]
  /\ exec' = [exec EXCEPT ![x] = [NoExecution EXCEPT !.pc = "look", !.op = deployment.op,
                                                     !.permit = deployment.permit]]
  /\ UNCHANGED <<permit, operationVars, provider, crashes>>

BadNext1(status) ==  \* what was prepared is taken for dispatched
  IF status = "NONE" THEN "claim" ELSE "deploy"

\* what becomes of the execution by the status of its operation
Next1(status) ==
  CASE status = "NONE" -> "claim"
    [] status = "PREPARED" -> "dispatch"
    [] status \in {"DISPATCHING", "UNKNOWN", "RECONCILING"} -> "deploy"

LookOpen(x) ==
  /\ At(x, "look") /\ op[exec[x].op].status \notin Final
  /\ exec' = [exec EXCEPT ![x].pc = Next1(op[exec[x].op].status),
                          ![x].permit = IF op[exec[x].op].status = "NONE" THEN @ ELSE NoPermit]
  /\ UNCHANGED <<permit, operationVars, deployment, provider, crashes>>

\* an operation that succeeded with an external id: the provider is asked, and
\* knows of the deployment or (after its own restart) does not
LookSucceeded(x) ==
  /\ At(x, "look") /\ op[exec[x].op].status = "SUCCEEDED"
  /\ IF op[exec[x].op].named
     THEN \/ provider /\ exec' = [exec EXCEPT ![x].pc = "commit", ![x].result = "SUCCEEDED"]
          \/ Goto(x, "deploy")
     ELSE Leave(x)
  /\ UNCHANGED <<permit, operationVars, deployment, provider, crashes>>

\* an operation that failed or was given to a person: a new key and permit
Remint(x) ==
  /\ At(x, "look") /\ op[exec[x].op].status \in {"FAILED_TERMINAL", "MANUAL_REVIEW"}
  /\ \E o \in Operations \ {BaseOperation}, p \in Permits \ {BasePermit} :
       /\ op[o].status = "NONE" /\ \A y \in Agents : exec[y].op # o
       /\ permit[p].status = "NONE" /\ \A y \in Agents : exec[y].permit # p
       /\ permit' = [permit EXCEPT ![p] = [status |-> "APPROVED", valid |-> TRUE]]
       /\ exec' = [exec EXCEPT ![x].pc = "claim", ![x].op = o, ![x].permit = p,
                               ![x].minted = TRUE]
  /\ UNCHANGED <<operationVars, deployment, provider, crashes>>

\* every refusal below raises out of execute
Claim(x) ==
  /\ At(x, "claim")
  /\ IF Usable(exec[x].permit)
     THEN ClaimPermit(exec[x].permit) /\ Goto(x, "prepare")
     ELSE Leave(x) /\ UNCHANGED permit
  /\ UNCHANGED <<operationVars, deployment, provider, crashes>>

PrepareOne(x) ==
  /\ At(x, "prepare")
  /\ IF CanPrepare(exec[x].op, exec[x].permit)
     THEN /\ Prepare(exec[x].op, exec[x].permit)
          /\ exec' = [exec EXCEPT ![x].pc = "dispatch", ![x].permit = NoPermit]
     ELSE Leave(x) /\ UNCHANGED <<permit, operationVars>>
  /\ UNCHANGED <<deployment, provider, crashes>>

Dispatch(x) ==
  /\ At(x, "dispatch")
  /\ IF CanDispatch(exec[x].op)
     THEN /\ BeginDispatch(exec[x].op)
          /\ exec' = [exec EXCEPT ![x].pc = IF exec[x].minted THEN "save" ELSE "deploy",
                                  ![x].permit = NoPermit, ![x].minted = FALSE]
     ELSE Leave(x) /\ UNCHANGED <<permit, operationVars>>
  /\ UNCHANGED <<deployment, provider, crashes>>

\* only now the deployment names the new operation and permit
Save(x) ==
  /\ At(x, "save")
  /\ deployment' = [deployment EXCEPT !.op = exec[x].op, !.permit = op[exec[x].op].permit]
  /\ Goto(x, "deploy")
  /\ UNCHANGED <<permit, operationVars, provider, crashes>>

\* the call of the provider, outside any transaction
Deploy(x) ==
  /\ At(x, "deploy")
  /\ \E result \in Results \ {"none"} :
       /\ exec' = [exec EXCEPT ![x].pc = "mark", ![x].result = result]
       /\ provider' \in CASE result = "SUCCEEDED" -> {TRUE}
                          [] result = "FAILED" -> {provider}
                          [] OTHER -> {provider, TRUE}
  /\ UNCHANGED <<permit, operationVars, deployment, crashes>>

StatusOf(result) ==
  CASE result = "SUCCEEDED" -> "SUCCEEDED"
    [] result = "FAILED" -> "FAILED_TERMINAL"
    [] OTHER -> "UNKNOWN"

MarkResult(x) ==
  /\ At(x, "mark")
  /\ Mark(exec[x].op, StatusOf(exec[x].result))
  /\ Goto(x, "commit")
  /\ UNCHANGED <<deployment, provider, crashes>>

\* _commit_result and _mark_unknown: only from DEPLOYING
Commit(x) ==
  /\ At(x, "commit")
  /\ deployment' =
       IF deployment.status # "DEPLOYING" THEN deployment
       ELSE [deployment EXCEPT !.status = IF exec[x].result = "raised" THEN "UNKNOWN"
                                          ELSE exec[x].result]
  /\ Leave(x)
  /\ UNCHANGED <<permit, operationVars, provider, crashes>>

BadProbe(o) ==  \* any deployment of the key is taken for a success
  IF o = BaseOperation /\ deployment.status # "NONE" THEN "SUCCEEDED" ELSE "none"

\* _probe_durable_outcome: the deployment of the base key, or of the external id
Probe(o) ==
  LET found == \/ o = BaseOperation /\ deployment.status # "NONE"
               \/ op[o].named /\ deployment.status \in {"SUCCEEDED", "FAILED"}
  IN CASE found /\ deployment.status = "SUCCEEDED" -> "SUCCEEDED"
       [] found /\ deployment.status = "FAILED" -> "FAILED_TERMINAL"
       [] OTHER -> "none"

-------------------------------------------------------------------------------
Execute(x) ==
  \/ LookOpen(x) \/ LookSucceeded(x) \/ Remint(x) \/ Claim(x) \/ PrepareOne(x)
  \/ Dispatch(x) \/ Save(x) \/ Deploy(x) \/ MarkResult(x) \/ Commit(x)

Tick ==
  /\ \/ SweepReads \/ SweepWrites \/ SweepResolves
     \/ \E o \in Operations : SweepAsks(o, Probe(o))
  /\ UNCHANGED releaseVars

\* the time: rows grow old, deadlines pass, the validity of permits ends
Clock ==
  /\ \E o \in Operations : GrowsOld(o)
  /\ UNCHANGED releaseVars

\* what is done to permits beside the execution
Governance ==
  /\ \/ ExpireDue
     \/ Request(BasePermit)
     \/ \E p \in Permits : Decide(p) \/ Revoke(p) \/ ValidityEnds(p)
  /\ UNCHANGED <<operationVars, releaseVars>>

Crash ==
  /\ crashes < MaxCrashes
  /\ crashes' = crashes + 1
  /\ \/ \E x \in Agents : ~At(x, "idle") /\ Leave(x) /\ UNCHANGED <<permit, operationVars>>
     \/ SweepDies /\ UNCHANGED exec
  /\ UNCHANGED <<deployment, provider>>

ReleasesNext ==
  \/ RequestDeployment \/ Tick \/ Clock \/ Governance \/ Crash
  \/ \E x \in Agents : Begin(x) \/ Execute(x)

ReleasesSpec == ReleasesInit /\ [][ReleasesNext]_vars

\* Executions go on, the worker turns its loop, and time passes.
FairSpec ==
  /\ ReleasesSpec
  /\ \A x \in Agents : WF_vars(Execute(x))
  /\ WF_vars(Tick) /\ WF_vars(Clock)

-------------------------------------------------------------------------------
(***************************************************************************)
(* Properties.                                                             *)
(***************************************************************************)

\* Nobody calls the provider, or reports what it said, without a dispatch that
\* is committed, on any path of execute: first try, resumed after a crash, or
\* with a new key (release_service.py:353); and each dispatch has consumed a
\* permit of its own, that was neither revoked nor swept before.
EffectUnderDispatch ==
  /\ \A x \in Agents :
       exec[x].pc \in {"save", "deploy", "mark"} => op[exec[x].op].generation = 1
  /\ DispatchConsumesPermit

\* Success is never invented: neither a late result, nor the sweep that takes
\* it from the deployment, says SUCCEEDED of what the provider has not done.
SuccessIsReal ==
  deployment.status = "SUCCEEDED" \/ (\E o \in Operations : op[o].status = "SUCCEEDED")
    => provider

\* An operation that was dispatched is ended: by its result, by the sweep from
\* the deployment, or by the deadline (reconciliation_worker.py:40).
OperationEnds ==
  \A o \in Operations : op[o].generation = 1 ~> op[o].status \in Final
===============================================================================
