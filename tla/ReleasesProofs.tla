---------------------------- MODULE ReleasesProofs ----------------------------
(***************************************************************************)
(* Proofs about deployments, external operations and permits, for any      *)
(* number of executions, operations, permits and crashes.                  *)
(***************************************************************************)
EXTENDS Releases, TLAPS

-------------------------------------------------------------------------------
(* The inductive invariant *)

\* An operation has a permit from the moment it is prepared, its own, and has
\* been dispatched exactly when it is past PREPARED.
Keyed ==
  \A o \in Operations :
    /\ op[o].status = "NONE" <=> op[o].permit = NoPermit
    /\ op[o].generation = 1 <=> op[o].status \notin {"NONE", "PREPARED"}
    /\ \A q \in Operations \ {o} : op[o].permit # NoPermit => op[q].permit # op[o].permit

Spent ==
  \A o \in Operations : op[o].generation = 1 => permit[op[o].permit].status = "CONSUMED"

\* What the sweep has read was dispatched.
SweepKnows ==
  /\ \A o \in sweep.rows \union sweep.asked : op[o].generation = 1
  /\ sweep.pc = "resolve" => sweep.verdict # "none"

\* What an execution in progress has read still holds.
PathsHold ==
  \A x \in Agents :
    /\ exec[x].pc # "idle" => exec[x].op \in Operations
    /\ exec[x].pc \in {"look", "claim", "prepare"} => exec[x].permit \in Permits
    /\ exec[x].pc \in {"save", "deploy", "mark"} => op[exec[x].op].generation = 1
    /\ exec[x].pc \in {"mark", "commit"} => exec[x].result # "none"

\* Whoever says SUCCEEDED has it from the provider.
Truth ==
  /\ deployment.status = "SUCCEEDED" => provider
  /\ sweep.verdict = "SUCCEEDED" => provider
  /\ \A o \in Operations : op[o].status = "SUCCEEDED" => provider
  /\ \A x \in Agents : exec[x].result = "SUCCEEDED" => provider

RInv == ReleasesTypeOK /\ Keyed /\ Spent /\ SweepKnows /\ PathsHold /\ Truth

LEMMA RInitial == ReleasesInit => RInv
<1> SUFFICES ASSUME ReleasesInit PROVE RInv
  OBVIOUS
<1>1. ReleasesTypeOK
  <2>1. PermitsTypeOK
    BY DEF ReleasesInit, OperationsInit, PermitsInit, PermitsTypeOK, PermitStatus
  <2>2. op \in [Operations -> OperationRow]
    BY DEF ReleasesInit, OperationsInit, OperationRow, OperationStatus
  <2>3. sweep \in Sweep
    BY DEF ReleasesInit, OperationsInit, Sweep, AtRest
  <2>4. deployment \in Deployment
    BY ReleasesAssumption DEF ReleasesInit, Deployment
  <2>5. exec \in [Agents -> Execution]
    BY DEF ReleasesInit, Execution, NoExecution, Places, Results
  <2>6. crashes \in 0..MaxCrashes
    BY ReleasesAssumption DEF ReleasesInit
  <2>7. provider \in BOOLEAN
    BY Zenon DEF ReleasesInit
  <2> QED
    BY <2>1, <2>2, <2>3, <2>4, <2>5, <2>6, <2>7 DEF ReleasesTypeOK, OperationsTypeOK
<1>2. Keyed /\ Spent /\ SweepKnows
  BY DEF ReleasesInit, OperationsInit, Keyed, Spent, SweepKnows, AtRest
<1>3. PathsHold /\ Truth
  BY DEF ReleasesInit, OperationsInit, PathsHold, Truth, AtRest, NoExecution
<1> QED
  BY <1>1, <1>2, <1>3 DEF RInv

-------------------------------------------------------------------------------
(* Permits *)

\* A consumed permit stays consumed.
PermitsKept ==
  PermitsTypeOK' /\ \A p \in Permits : permit[p].status = "CONSUMED" => permit'[p].status = "CONSUMED"

LEMMA SetKeeps ==
  ASSUME PermitsTypeOK, NEW p \in Permits, NEW s \in PermitStatus, SetPermit(p, s),
         permit[p].status # "CONSUMED"
  PROVE  PermitsKept /\ permit'[p].status = s
<1> DEFINE r == [status |-> s, valid |-> permit[p].valid /\ s \in Revocable]
<1>1. r \in [status: PermitStatus, valid: BOOLEAN] /\ r.status = s
  OBVIOUS
<1>2. permit' = [permit EXCEPT ![p] = r]
  BY DEF SetPermit, PermitsTypeOK
<1> HIDE DEF r
<1> QED
  BY <1>1, <1>2 DEF PermitsKept, PermitsTypeOK

LEMMA NewPermitKeeps ==
  ASSUME PermitsTypeOK, NEW p \in Permits, NEW s \in {"REQUESTED", "APPROVED"},
         permit[p].status = "NONE", permit' = [permit EXCEPT ![p] = [status |-> s, valid |-> TRUE]]
  PROVE  PermitsKept
BY DEF PermitsKept, PermitsTypeOK, PermitStatus

\* Nothing brings back a permit that is over, or was consumed.
LEMMA GovernanceKeeps ==
  ASSUME PermitsTypeOK,
         \/ ExpireDue
         \/ \E p \in Permits : Request(p) \/ Decide(p) \/ Revoke(p) \/ ValidityEnds(p)
  PROVE  PermitsKept
<1>1. CASE ExpireDue
  <2>1. \A p \in Permits : permit'[p] = IF p \in Overdue THEN [status |-> "EXPIRED", valid |-> FALSE]
                                        ELSE permit[p]
    BY <1>1 DEF ExpireDue
  <2>2. PermitsTypeOK'
    BY <1>1 DEF ExpireDue, PermitsTypeOK, PermitStatus
  <2>3. \A p \in Permits : permit[p].status = "CONSUMED" => permit'[p] = permit[p]
    BY <2>1 DEF Overdue, Revocable
  <2> QED
    BY <2>2, <2>3 DEF PermitsKept
<1>2. ASSUME NEW p \in Permits, Request(p) PROVE PermitsKept
  <2>1. CASE UNCHANGED permit
    BY <2>1 DEF PermitsKept, PermitsTypeOK
  <2>2. CASE permit[p].status = "NONE" /\ \E status \in {"REQUESTED", "APPROVED"} :
               permit' = [permit EXCEPT ![p] = [status |-> status, valid |-> TRUE]]
    BY <2>2, NewPermitKeeps
  <2> QED
    BY <1>2, <2>1, <2>2 DEF Request
<1>3. ASSUME NEW p \in Permits, Decide(p) PROVE PermitsKept
  BY <1>3, SetKeeps DEF Decide, PermitStatus
<1>4. ASSUME NEW p \in Permits, Revoke(p) PROVE PermitsKept
  BY <1>4, SetKeeps DEF Revoke, PermitStatus, Revocable
<1>5. ASSUME NEW p \in Permits, ValidityEnds(p) PROVE PermitsKept
  BY <1>5 DEF ValidityEnds, PermitsKept, PermitsTypeOK
<1> QED
  BY <1>1, <1>2, <1>3, <1>4, <1>5

-------------------------------------------------------------------------------
(* Operations *)

\* The rows of the operations after a step.
OpsKept ==
  /\ op' \in [Operations -> OperationRow]
  /\ Keyed' /\ Spent'
  /\ \A o \in Operations : op[o].generation = 1 => op'[o].generation = 1

LEMMA OpsStay ==
  ASSUME RInv, PermitsKept, UNCHANGED op
  PROVE  OpsKept
<1>1. \A o \in Operations : op[o].generation = 1 => op[o].permit \in Permits
  BY DEF RInv, Keyed, ReleasesTypeOK, OperationsTypeOK, OperationRow
<1> QED
  BY <1>1 DEF RInv, ReleasesTypeOK, OperationsTypeOK, OpsKept, PermitsKept, Keyed, Spent

\* One row changes, but not the permit it has: it is prepared under a permit of
\* its own, dispatched, or changed after its dispatch.
LEMMA OneRow ==
  ASSUME RInv, PermitsKept, NEW o \in Operations, NEW row \in OperationRow,
         op' = [op EXCEPT ![o] = row], row.status # "NONE", row.permit # NoPermit,
         op[o].status # "NONE" => row.permit = op[o].permit,
         op[o].status = "NONE" => \A q \in Operations : op[q].permit # row.permit,
         row.generation = 1 <=> row.status # "PREPARED",
         op[o].generation = 1 => row.generation = 1,
         row.generation = 1 => permit'[row.permit].status = "CONSUMED"
  PROVE  OpsKept
<1>1. op \in [Operations -> OperationRow] /\ Keyed /\ Spent
  BY DEF RInv, ReleasesTypeOK, OperationsTypeOK
<1>2. op'[o] = row /\ \A q \in Operations \ {o} : op'[q] = op[q]
  BY <1>1
<1>3. op' \in [Operations -> OperationRow]
  BY <1>1
<1>4. \A q \in Operations \ {o} : op[q].permit # row.permit
  BY <1>1 DEF Keyed
<1>5. Keyed'
  BY <1>1, <1>2, <1>4 DEF Keyed
<1>6. Spent'
  <2> SUFFICES ASSUME NEW q \in Operations, op'[q].generation = 1
               PROVE  permit'[op'[q].permit].status = "CONSUMED"
    BY DEF Spent
  <2>1. CASE q = o
    BY <1>2, <2>1
  <2>2. CASE q # o
    <3>1. op[q].permit \in Permits /\ permit[op[q].permit].status = "CONSUMED"
      BY <1>1, <1>2, <2>2 DEF Keyed, Spent, OperationRow
    <3> QED
      BY <1>2, <2>2, <3>1 DEF PermitsKept
  <2> QED
    BY <2>1, <2>2
<1> QED
  BY <1>2, <1>3, <1>5, <1>6 DEF OpsKept

\* A row that was dispatched changes, and keeps its permit.
LEMMA LaterRow ==
  ASSUME RInv, UNCHANGED permit, NEW o \in Operations, NEW row \in OperationRow,
         op' = [op EXCEPT ![o] = row], op[o].generation = 1, row.generation = 1,
         row.permit = op[o].permit, row.status \notin {"NONE", "PREPARED"}
  PROVE  OpsKept
<1>1. PermitsKept /\ op[o].status # "NONE" /\ op[o].permit # NoPermit
      /\ permit[op[o].permit].status = "CONSUMED"
  BY DEF RInv, ReleasesTypeOK, OperationsTypeOK, PermitsTypeOK, PermitsKept, Keyed, Spent
<1> QED
  BY <1>1, OneRow

-------------------------------------------------------------------------------
(* Executions *)

\* A step of one execution: where it goes it has what it needs.
LEMMA AgentMoves ==
  ASSUME RInv, PermitsKept, OpsKept, UNCHANGED sweep, NEW x \in Agents, NEW r \in Execution,
         exec' = [exec EXCEPT ![x] = r],
         deployment' \in Deployment, provider' \in BOOLEAN, crashes' \in 0..MaxCrashes,
         provider => provider',
         deployment'.status = "SUCCEEDED" => provider',
         \A o \in Operations : op'[o].status = "SUCCEEDED" => provider',
         r.result = "SUCCEEDED" => provider',
         r.pc # "idle" => r.op \in Operations,
         r.pc \in {"look", "claim", "prepare"} => r.permit \in Permits,
         r.pc \in {"save", "deploy", "mark"} => op'[r.op].generation = 1,
         r.pc \in {"mark", "commit"} => r.result # "none"
  PROVE  RInv'
<1>1. /\ exec'[x] = r /\ \A y \in Agents \ {x} : exec'[y] = exec[y]
      /\ exec' \in [Agents -> Execution]
  BY DEF RInv, ReleasesTypeOK
<1>2. ReleasesTypeOK'
  BY <1>1 DEF RInv, ReleasesTypeOK, OperationsTypeOK, OpsKept, PermitsKept
<1>3. SweepKnows'
  <2>1. sweep.rows \union sweep.asked \subseteq Operations
    BY DEF RInv, ReleasesTypeOK, OperationsTypeOK, Sweep
  <2> QED
    BY <2>1 DEF RInv, SweepKnows, OpsKept
<1>4. PathsHold'
  <2> SUFFICES ASSUME NEW y \in Agents
               PROVE  /\ exec'[y].pc # "idle" => exec'[y].op \in Operations
                      /\ exec'[y].pc \in {"look", "claim", "prepare"} => exec'[y].permit \in Permits
                      /\ exec'[y].pc \in {"save", "deploy", "mark"} => op'[exec'[y].op].generation = 1
                      /\ exec'[y].pc \in {"mark", "commit"} => exec'[y].result # "none"
    BY DEF PathsHold
  <2>1. CASE y = x
    BY <1>1, <2>1
  <2>2. CASE y # x
    BY <1>1, <2>2 DEF RInv, PathsHold, OpsKept
  <2> QED
    BY <2>1, <2>2
<1>5. Truth'
  <2>1. \A y \in Agents : exec'[y].result = "SUCCEEDED" => provider'
    BY <1>1 DEF RInv, Truth
  <2> QED
    BY <2>1 DEF RInv, Truth
<1> QED
  BY <1>2, <1>3, <1>4, <1>5 DEF RInv, OpsKept

\* A step of anybody else.
LEMMA OthersMove ==
  ASSUME RInv, PermitsKept, OpsKept, sweep' \in Sweep, UNCHANGED <<exec, provider>>,
         deployment' \in Deployment, crashes' \in 0..MaxCrashes,
         deployment'.status = "SUCCEEDED" => provider,
         \A o \in Operations : op'[o].status = "SUCCEEDED" => provider,
         sweep'.verdict = "SUCCEEDED" => provider,
         \A o \in sweep'.rows \union sweep'.asked : op'[o].generation = 1,
         sweep'.pc = "resolve" => sweep'.verdict # "none"
  PROVE  RInv'
<1>1. ReleasesTypeOK'
  BY DEF RInv, ReleasesTypeOK, OperationsTypeOK, OpsKept, PermitsKept
<1>2. SweepKnows' /\ Truth'
  BY DEF RInv, SweepKnows, Truth
<1>3. PathsHold'
  BY DEF RInv, PathsHold, OpsKept
<1> QED
  BY <1>1, <1>2, <1>3 DEF RInv, OpsKept

LEMMA TypeFacts ==
  ASSUME RInv
  PROVE  /\ permit \in [Permits -> [status: PermitStatus, valid: BOOLEAN]] /\ PermitsTypeOK
         /\ op \in [Operations -> OperationRow] /\ sweep \in Sweep
         /\ deployment \in Deployment /\ exec \in [Agents -> Execution]
         /\ provider \in BOOLEAN /\ crashes \in 0..MaxCrashes
         /\ permit' = permit => PermitsKept
         /\ permit' = permit /\ op' = op => OpsKept
<1>1. /\ permit \in [Permits -> [status: PermitStatus, valid: BOOLEAN]] /\ PermitsTypeOK
      /\ op \in [Operations -> OperationRow] /\ sweep \in Sweep
      /\ deployment \in Deployment /\ exec \in [Agents -> Execution]
      /\ provider \in BOOLEAN /\ crashes \in 0..MaxCrashes
  BY DEF RInv, ReleasesTypeOK, OperationsTypeOK, PermitsTypeOK
<1>2. permit' = permit => PermitsKept
  BY <1>1 DEF PermitsKept, PermitsTypeOK
<1>3. permit' = permit /\ op' = op => OpsKept
  BY <1>2, OpsStay
<1> QED
  BY <1>1, <1>2, <1>3

\* An execution changes nothing but itself: it is idle, has a result or not.
LEMMA AgentAlone ==
  ASSUME RInv, UNCHANGED <<permit, operationVars, provider>>, NEW x \in Agents, NEW r \in Execution,
         exec' = [exec EXCEPT ![x] = r],
         deployment' \in Deployment, crashes' \in 0..MaxCrashes,
         deployment'.status = "SUCCEEDED" => provider,
         r.result = "SUCCEEDED" => provider,
         r.pc # "idle" => r.op \in Operations,
         r.pc \in {"look", "claim", "prepare"} => r.permit \in Permits,
         r.pc \in {"save", "deploy", "mark"} => op[r.op].generation = 1,
         r.pc \in {"mark", "commit"} => r.result # "none"
  PROVE  RInv'
<1>1. PermitsKept /\ OpsKept /\ UNCHANGED <<op, sweep>>
  BY TypeFacts DEF operationVars
<1>2. provider' \in BOOLEAN /\ (provider => provider')
  BY TypeFacts
<1>3. \A o \in Operations : op'[o].status = "SUCCEEDED" => provider'
  BY <1>1 DEF RInv, Truth
<1> QED
  BY <1>1, <1>2, <1>3, AgentMoves

LEMMA LeaveKeeps ==
  ASSUME RInv, NEW x \in Agents, Leave(x), UNCHANGED <<permit, operationVars, provider>>,
         deployment' \in Deployment, crashes' \in 0..MaxCrashes,
         deployment'.status = "SUCCEEDED" => provider
  PROVE  RInv'
<1>1. /\ NoExecution \in Execution /\ NoExecution.pc = "idle" /\ NoExecution.result = "none"
  BY DEF NoExecution, Execution, Places, Results
<1>2. exec' = [exec EXCEPT ![x] = NoExecution]
  BY DEF Leave
<1> HIDE DEF NoExecution
<1> QED
  BY <1>1, <1>2, AgentAlone

LEMMA BeginKeeps ==
  ASSUME RInv, NEW x \in Agents, Begin(x)
  PROVE  RInv'
<1> DEFINE r == [NoExecution EXCEPT !.pc = "look", !.op = deployment.op, !.permit = deployment.permit]
<1>1. deployment.op \in Operations /\ deployment.permit \in Permits
      /\ [deployment EXCEPT !.status = "DEPLOYING"] \in Deployment
      /\ [deployment EXCEPT !.status = "DEPLOYING"].status = "DEPLOYING"
      /\ crashes \in 0..MaxCrashes
  BY TypeFacts DEF Deployment
<1>2. /\ r \in Execution /\ r.pc = "look" /\ r.op = deployment.op /\ r.permit = deployment.permit
      /\ r.result = "none"
  BY <1>1 DEF NoExecution, Execution, Places, Results
<1>3. /\ exec' = [exec EXCEPT ![x] = r] /\ deployment' = [deployment EXCEPT !.status = "DEPLOYING"]
      /\ UNCHANGED <<permit, operationVars, provider, crashes>>
  BY DEF Begin
<1> HIDE DEF r
<1> QED
  BY <1>1, <1>2, <1>3, AgentAlone

\* What an execution is and has, where it stands.
LEMMA AgentFacts ==
  ASSUME RInv, NEW x \in Agents
  PROVE  /\ exec[x] \in Execution
         /\ exec[x].pc # "idle" => exec[x].op \in Operations
         /\ exec[x].pc \in {"look", "claim", "prepare"} => exec[x].permit \in Permits
         /\ exec[x].pc \in {"save", "deploy", "mark"} => op[exec[x].op].generation = 1
         /\ exec[x].pc \in {"mark", "commit"} => exec[x].result # "none"
         /\ exec[x].result = "SUCCEEDED" => provider
BY TypeFacts DEF RInv, PathsHold, Truth

LEMMA LookKeeps ==
  ASSUME RInv, NEW x \in Agents, LookOpen(x) \/ LookSucceeded(x)
  PROVE  RInv'
<1>1. /\ UNCHANGED <<permit, operationVars, deployment, provider, crashes>>
      /\ exec[x].pc = "look" /\ exec[x].op \in Operations /\ exec[x].permit \in Permits
      /\ op[exec[x].op] \in OperationRow
      /\ deployment \in Deployment /\ crashes \in 0..MaxCrashes
      /\ exec[x] \in Execution /\ exec \in [Agents -> Execution]
  BY AgentFacts, TypeFacts DEF LookOpen, LookSucceeded, At
<1>2. deployment.status = "SUCCEEDED" => provider
  BY DEF RInv, Truth
<1>3. exec[x].result = "SUCCEEDED" => provider
  BY AgentFacts
<1>4. \A o \in Operations : op[o].generation = 1 <=> op[o].status \notin {"NONE", "PREPARED"}
  BY DEF RInv, Keyed
<1>5. CASE LookOpen(x)
  <2> DEFINE n == Next1(op[exec[x].op].status)
             p == IF op[exec[x].op].status = "NONE" THEN exec[x].permit ELSE NoPermit
             r == [exec[x] EXCEPT !.pc = n, !.permit = p]
  <2>1. \/ n = "claim" /\ p = exec[x].permit
        \/ n = "dispatch"
        \/ n = "deploy" /\ op[exec[x].op].generation = 1
    BY <1>1, <1>4, <1>5 DEF LookOpen, Next1, OperationRow, OperationStatus, Final
  <2>2. p \in Permits \union {NoPermit}
    BY <1>1
  <2>3. exec' = [exec EXCEPT ![x] = r]
    BY <1>1, <1>5 DEF LookOpen
  <2> HIDE DEF n, p
  <2>4. /\ r \in Execution /\ r.pc = n /\ r.op = exec[x].op /\ r.permit = p
        /\ r.result = exec[x].result
    BY <1>1, <2>1, <2>2 DEF Execution, Places
  <2> HIDE DEF r
  <2> QED
    BY <1>1, <1>2, <1>3, <2>1, <2>3, <2>4, AgentAlone
<1>6. CASE LookSucceeded(x)
  <2>1. op[exec[x].op].generation = 1
    BY <1>1, <1>4, <1>6 DEF LookSucceeded
  <2>2. CASE provider /\ exec' = [exec EXCEPT ![x].pc = "commit", ![x].result = "SUCCEEDED"]
    <3> DEFINE r == [exec[x] EXCEPT !.pc = "commit", !.result = "SUCCEEDED"]
    <3>1. exec' = [exec EXCEPT ![x] = r]
      BY <1>1, <2>2
    <3>2. r \in Execution /\ r.pc = "commit" /\ r.op = exec[x].op /\ r.result = "SUCCEEDED"
      BY <1>1 DEF Execution, Places, Results
    <3> HIDE DEF r
    <3> QED
      BY <1>1, <1>2, <2>2, <3>1, <3>2, AgentAlone
  <2>3. CASE Goto(x, "deploy")
    <3> DEFINE r == [exec[x] EXCEPT !.pc = "deploy"]
    <3>1. exec' = [exec EXCEPT ![x] = r]
      BY <1>1, <2>3 DEF Goto
    <3>2. r \in Execution /\ r.pc = "deploy" /\ r.op = exec[x].op /\ r.result = exec[x].result
      BY <1>1 DEF Execution, Places
    <3> HIDE DEF r
    <3> QED
      BY <1>1, <1>2, <1>3, <2>1, <3>1, <3>2, AgentAlone
  <2>4. CASE Leave(x)
    BY <1>1, <1>2, <2>4, LeaveKeeps
  <2> QED
    BY <1>6, <2>2, <2>3, <2>4 DEF LookSucceeded
<1> QED
  BY <1>5, <1>6

LEMMA RemintKeeps ==
  ASSUME RInv, NEW x \in Agents, Remint(x)
  PROVE  RInv'
<1>1. PICK o \in Operations \ {BaseOperation}, p \in Permits \ {BasePermit} :
        /\ permit[p].status = "NONE"
        /\ permit' = [permit EXCEPT ![p] = [status |-> "APPROVED", valid |-> TRUE]]
        /\ exec' = [exec EXCEPT ![x].pc = "claim", ![x].op = o, ![x].permit = p, ![x].minted = TRUE]
  BY DEF Remint
<1>2. /\ UNCHANGED <<op, sweep>> /\ UNCHANGED <<deployment, provider, crashes>>
      /\ deployment \in Deployment /\ crashes \in 0..MaxCrashes
      /\ exec[x] \in Execution /\ exec \in [Agents -> Execution] /\ PermitsTypeOK
  BY AgentFacts, TypeFacts DEF Remint, operationVars
<1>3. PermitsKept /\ OpsKept
  BY <1>1, <1>2, NewPermitKeeps, OpsStay
<1> DEFINE r == [exec[x] EXCEPT !.pc = "claim", !.op = o, !.permit = p, !.minted = TRUE]
<1>4. exec' = [exec EXCEPT ![x] = r]
  BY <1>1, <1>2
<1>5. /\ r \in Execution /\ r.pc = "claim" /\ r.op = o /\ r.permit = p
      /\ r.result = exec[x].result
  BY <1>2 DEF Execution, Places
<1> HIDE DEF r
<1>6. provider' \in BOOLEAN /\ (provider => provider')
  BY <1>2, TypeFacts
<1>7. /\ deployment'.status = "SUCCEEDED" => provider'
      /\ \A q \in Operations : op'[q].status = "SUCCEEDED" => provider'
      /\ r.result = "SUCCEEDED" => provider'
  BY <1>2, <1>5 DEF RInv, Truth
<1> QED
  BY <1>2, <1>3, <1>4, <1>5, <1>6, <1>7, AgentMoves

LEMMA ClaimKeeps ==
  ASSUME RInv, NEW x \in Agents, Claim(x)
  PROVE  RInv'
<1>1. /\ UNCHANGED <<op, sweep>> /\ UNCHANGED <<operationVars, deployment, provider, crashes>>
      /\ deployment \in Deployment /\ crashes \in 0..MaxCrashes
      /\ exec[x] \in Execution /\ exec \in [Agents -> Execution] /\ PermitsTypeOK
      /\ exec[x].pc = "claim" /\ exec[x].op \in Operations /\ exec[x].permit \in Permits
  BY AgentFacts, TypeFacts DEF Claim, At, operationVars
<1>2. /\ deployment.status = "SUCCEEDED" => provider
      /\ \A q \in Operations : op[q].status = "SUCCEEDED" => provider
      /\ exec[x].result = "SUCCEEDED" => provider
  BY DEF RInv, Truth
<1>3. CASE ClaimPermit(exec[x].permit) /\ Goto(x, "prepare")
  <2>1. PermitsKept
    BY <1>1, <1>3, SetKeeps DEF ClaimPermit, Usable, PermitStatus
  <2>2. OpsKept
    BY <1>1, <2>1, OpsStay
  <2> DEFINE r == [exec[x] EXCEPT !.pc = "prepare"]
  <2>3. exec' = [exec EXCEPT ![x] = r]
    BY <1>1, <1>3 DEF Goto
  <2>4. /\ r \in Execution /\ r.pc = "prepare" /\ r.op = exec[x].op /\ r.permit = exec[x].permit
        /\ r.result = exec[x].result
    BY <1>1 DEF Execution, Places
  <2> HIDE DEF r
  <2>5. provider' \in BOOLEAN /\ (provider => provider')
    BY <1>1, TypeFacts
  <2>6. /\ deployment'.status = "SUCCEEDED" => provider'
        /\ \A q \in Operations : op'[q].status = "SUCCEEDED" => provider'
        /\ r.result = "SUCCEEDED" => provider'
    BY <1>1, <1>2, <2>4
  <2> QED
    BY <1>1, <2>1, <2>2, <2>3, <2>4, <2>5, <2>6, AgentMoves
<1>4. CASE Leave(x) /\ UNCHANGED permit
  BY <1>1, <1>2, <1>4, LeaveKeeps
<1> QED
  BY <1>3, <1>4 DEF Claim

LEMMA PrepareKeeps ==
  ASSUME RInv, NEW x \in Agents, PrepareOne(x)
  PROVE  RInv'
<1>1. /\ UNCHANGED sweep /\ UNCHANGED <<permit, deployment, provider, crashes>>
      /\ deployment \in Deployment /\ crashes \in 0..MaxCrashes
      /\ exec[x] \in Execution /\ exec \in [Agents -> Execution] /\ PermitsKept
      /\ exec[x].pc = "prepare" /\ exec[x].op \in Operations /\ exec[x].permit \in Permits
      /\ op \in [Operations -> OperationRow] /\ op[exec[x].op] \in OperationRow
      /\ exec[x].permit # NoPermit
  BY AgentFacts, TypeFacts, OperationsAssumption DEF PrepareOne, Prepare, At, operationVars
<1>2. /\ deployment.status = "SUCCEEDED" => provider
      /\ \A q \in Operations : op[q].status = "SUCCEEDED" => provider
      /\ exec[x].result = "SUCCEEDED" => provider
  BY DEF RInv, Truth
<1>3. CASE Prepare(exec[x].op, exec[x].permit)
           /\ exec' = [exec EXCEPT ![x].pc = "dispatch", ![x].permit = NoPermit]
  <2> DEFINE o == exec[x].op
             row == [op[o] EXCEPT !.status = "PREPARED", !.permit = exec[x].permit]
  <2>1. OpsKept /\ \A q \in Operations : op'[q].status = "SUCCEEDED" => provider
    <3>1. CASE op[o].status # "NONE"
      <4>1. op' = op
        BY <1>3, <3>1 DEF Prepare
      <4> QED
        BY <1>1, <1>2, <4>1, OpsStay
    <3>2. CASE op[o].status = "NONE"
      <4>1. op' = [op EXCEPT ![o] = row]
        BY <1>1, <1>3, <3>2 DEF Prepare
      <4>2. /\ row \in OperationRow /\ row.status = "PREPARED" /\ row.permit = exec[x].permit
            /\ row.generation = op[o].generation
        BY <1>1 DEF OperationRow, OperationStatus
      <4>3. op[o].generation # 1 /\ \A q \in Operations : op[q].permit # row.permit
        BY <1>1, <1>3, <3>2, <4>2 DEF RInv, Keyed, Prepare, CanPrepare
      <4>4. \A q \in Operations : op'[q].status = "SUCCEEDED" => op[q].status = "SUCCEEDED"
        BY <1>1, <4>1, <4>2
      <4> HIDE DEF row, o
      <4>5. o \in Operations
        BY <1>1 DEF o
      <4> QED
        BY <1>1, <1>2, <3>2, <4>1, <4>2, <4>3, <4>4, <4>5, OneRow
    <3> QED
      BY <3>1, <3>2
  <2> DEFINE r == [exec[x] EXCEPT !.pc = "dispatch", !.permit = NoPermit]
  <2>3. exec' = [exec EXCEPT ![x] = r]
    BY <1>1, <1>3
  <2>4. r \in Execution /\ r.pc = "dispatch" /\ r.op = exec[x].op /\ r.result = exec[x].result
    BY <1>1 DEF Execution, Places
  <2> HIDE DEF r, row, o
  <2>5. provider' \in BOOLEAN /\ (provider => provider')
    BY <1>1, TypeFacts
  <2>6. /\ deployment'.status = "SUCCEEDED" => provider'
        /\ \A q \in Operations : op'[q].status = "SUCCEEDED" => provider'
        /\ r.result = "SUCCEEDED" => provider'
    BY <1>1, <1>2, <2>1, <2>4
  <2> QED
    BY <1>1, <2>1, <2>3, <2>4, <2>5, <2>6, AgentMoves
<1>4. CASE Leave(x) /\ UNCHANGED <<permit, operationVars>>
  BY <1>1, <1>2, <1>4, LeaveKeeps
<1> QED
  BY <1>3, <1>4 DEF PrepareOne

LEMMA DispatchKeeps ==
  ASSUME RInv, NEW x \in Agents, Dispatch(x)
  PROVE  RInv'
<1>1. /\ UNCHANGED sweep /\ UNCHANGED <<deployment, provider, crashes>>
      /\ deployment \in Deployment /\ crashes \in 0..MaxCrashes
      /\ exec[x] \in Execution /\ exec \in [Agents -> Execution] /\ PermitsTypeOK
      /\ exec[x].pc = "dispatch" /\ exec[x].op \in Operations
      /\ op \in [Operations -> OperationRow] /\ op[exec[x].op] \in OperationRow
  BY AgentFacts, TypeFacts DEF Dispatch, BeginDispatch, At, operationVars
<1>2. /\ deployment.status = "SUCCEEDED" => provider
      /\ \A q \in Operations : op[q].status = "SUCCEEDED" => provider
      /\ exec[x].result = "SUCCEEDED" => provider
  BY DEF RInv, Truth
<1>3. CASE /\ BeginDispatch(exec[x].op)
           /\ exec' = [exec EXCEPT ![x].pc = IF exec[x].minted THEN "save" ELSE "deploy",
                                   ![x].permit = NoPermit, ![x].minted = FALSE]
  <2> DEFINE o == exec[x].op
             row == [op[o] EXCEPT !.status = "DISPATCHING", !.generation = 1]
  <2>1. /\ PermitsKept /\ OpsKept /\ op'[o].generation = 1
        /\ \A q \in Operations : op'[q].status = "SUCCEEDED" => provider
    <3>1. CASE InDispatch(o)
      <4>1. op' = op /\ permit' = permit
        BY <1>3, <3>1 DEF BeginDispatch
      <4>2. op[o].generation = 1
        BY <1>1, <3>1 DEF InDispatch, OperationRow
      <4> QED
        BY <1>1, <1>2, <4>1, <4>2, TypeFacts
    <3>2. CASE ~InDispatch(o)
      <4>1. /\ op' = [op EXCEPT ![o] = row] /\ SetPermit(op[o].permit, "CONSUMED")
            /\ op[o].status = "PREPARED" /\ permit[op[o].permit].status = "CLAIMED"
        BY <1>1, <1>3, <3>2 DEF BeginDispatch, CanDispatch
      <4>2. /\ row \in OperationRow /\ row.status = "DISPATCHING" /\ row.permit = op[o].permit
            /\ row.generation = 1
        BY <1>1 DEF OperationRow, OperationStatus
      <4>3. op[o].permit \in Permits /\ op[o].permit # NoPermit
        BY <1>1, <4>1 DEF RInv, Keyed, OperationRow
      <4>4. PermitsKept /\ permit'[op[o].permit].status = "CONSUMED"
        BY <1>1, <4>1, <4>3, SetKeeps DEF PermitStatus
      <4>5. op'[o].generation = 1
            /\ \A q \in Operations : op'[q].status = "SUCCEEDED" => op[q].status = "SUCCEEDED"
        BY <1>1, <4>1, <4>2
      <4> HIDE DEF row, o
      <4>6. o \in Operations
        BY <1>1 DEF o
      <4>7. OpsKept
        BY <4>1, <4>2, <4>3, <4>4, <4>6, OneRow
      <4> QED
        BY <1>2, <4>4, <4>5, <4>7
    <3> QED
      BY <3>1, <3>2
  <2> DEFINE n == IF exec[x].minted THEN "save" ELSE "deploy"
             r == [exec[x] EXCEPT !.pc = n, !.permit = NoPermit, !.minted = FALSE]
  <2>2. n \in {"save", "deploy"}
    OBVIOUS
  <2>3. exec' = [exec EXCEPT ![x] = r]
    BY <1>1, <1>3
  <2> HIDE DEF n
  <2>4. r \in Execution /\ r.pc \in {"save", "deploy"} /\ r.op = exec[x].op /\ r.result = exec[x].result
    BY <1>1, <2>2 DEF Execution, Places
  <2>5. provider' \in BOOLEAN /\ (provider => provider')
    BY <1>1, TypeFacts
  <2> HIDE DEF r, row
  <2>6. /\ deployment'.status = "SUCCEEDED" => provider'
        /\ \A q \in Operations : op'[q].status = "SUCCEEDED" => provider'
        /\ r.result = "SUCCEEDED" => provider'
    BY <1>1, <1>2, <2>1, <2>4
  <2> QED
    BY <1>1, <2>1, <2>3, <2>4, <2>5, <2>6, AgentMoves
<1>4. CASE Leave(x) /\ UNCHANGED <<permit, operationVars>>
  BY <1>1, <1>2, <1>4, LeaveKeeps
<1> QED
  BY <1>3, <1>4 DEF Dispatch

LEMMA SaveKeeps ==
  ASSUME RInv, NEW x \in Agents, Save(x)
  PROVE  RInv'
<1>1. /\ UNCHANGED <<permit, operationVars, provider, crashes>>
      /\ deployment \in Deployment /\ crashes \in 0..MaxCrashes
      /\ exec[x] \in Execution /\ exec \in [Agents -> Execution]
      /\ exec[x].pc = "save" /\ exec[x].op \in Operations /\ op[exec[x].op].generation = 1
      /\ op[exec[x].op] \in OperationRow
  BY AgentFacts, TypeFacts DEF Save, At
<1>2. /\ deployment.status = "SUCCEEDED" => provider
      /\ exec[x].result = "SUCCEEDED" => provider
  BY DEF RInv, Truth
<1>3. op[exec[x].op].permit \in Permits
  BY <1>1 DEF RInv, Keyed, OperationRow
<1>4. deployment' \in Deployment /\ deployment'.status = deployment.status
  BY <1>1, <1>3 DEF Save, Deployment
<1> DEFINE r == [exec[x] EXCEPT !.pc = "deploy"]
<1>5. exec' = [exec EXCEPT ![x] = r]
  BY <1>1 DEF Save, Goto
<1>6. r \in Execution /\ r.pc = "deploy" /\ r.op = exec[x].op /\ r.result = exec[x].result
  BY <1>1 DEF Execution, Places
<1> HIDE DEF r
<1> QED
  BY <1>1, <1>2, <1>4, <1>5, <1>6, AgentAlone

\* The call of the provider: what it says is true, and what it has done stays.
LEMMA DeployKeeps ==
  ASSUME RInv, NEW x \in Agents, Deploy(x)
  PROVE  RInv'
<1>1. PICK result \in Results \ {"none"} :
       /\ exec' = [exec EXCEPT ![x].pc = "mark", ![x].result = result]
       /\ provider' \in CASE result = "SUCCEEDED" -> {TRUE}
                          [] result = "FAILED" -> {provider}
                          [] OTHER -> {provider, TRUE}
  BY DEF Deploy
<1>2. /\ UNCHANGED <<op, sweep>> /\ UNCHANGED <<deployment, crashes>>
      /\ deployment \in Deployment /\ crashes \in 0..MaxCrashes
      /\ exec[x] \in Execution /\ exec \in [Agents -> Execution] /\ PermitsKept /\ OpsKept
      /\ exec[x].pc = "deploy" /\ exec[x].op \in Operations
  BY AgentFacts, TypeFacts DEF Deploy, At, operationVars
<1>3. exec[x].pc = "deploy" => op[exec[x].op].generation = 1
  BY AgentFacts
<1>4. provider' \in BOOLEAN
  <2>1. provider \in BOOLEAN
    BY TypeFacts
  <2> QED
    BY <1>1, <2>1
<1>5. (provider => provider') /\ (result = "SUCCEEDED" => provider')
  BY <1>1
<1>6. /\ deployment'.status = "SUCCEEDED" => provider'
      /\ \A q \in Operations : op'[q].status = "SUCCEEDED" => provider'
  BY <1>2, <1>5 DEF RInv, Truth
<1> DEFINE r == [exec[x] EXCEPT !.pc = "mark", !.result = result]
<1>7. exec' = [exec EXCEPT ![x] = r]
  BY <1>1, <1>2
<1>8. r \in Execution /\ r.pc = "mark" /\ r.op = exec[x].op /\ r.result = result
  BY <1>2 DEF Execution, Places
<1> HIDE DEF r
<1> QED
  BY <1>2, <1>3, <1>4, <1>5, <1>6, <1>7, <1>8, AgentMoves

LEMMA MarkKeeps ==
  ASSUME RInv, NEW x \in Agents, MarkResult(x)
  PROVE  RInv'
<1> DEFINE o == exec[x].op
           s == StatusOf(exec[x].result)
           row == [op[o] EXCEPT !.status = s, !.named = (s = "SUCCEEDED")]
<1>1. /\ UNCHANGED <<permit, sweep>> /\ UNCHANGED <<deployment, provider, crashes>>
      /\ deployment \in Deployment /\ crashes \in 0..MaxCrashes
      /\ exec[x] \in Execution /\ exec \in [Agents -> Execution] /\ PermitsKept
      /\ exec[x].pc = "mark" /\ exec[x].result # "none" /\ o \in Operations /\ op[o].generation = 1
      /\ op \in [Operations -> OperationRow] /\ op[o] \in OperationRow
  BY AgentFacts, TypeFacts DEF MarkResult, Mark, At
<1>2. /\ deployment.status = "SUCCEEDED" => provider
      /\ \A q \in Operations : op[q].status = "SUCCEEDED" => provider
      /\ exec[x].result = "SUCCEEDED" => provider
  BY DEF RInv, Truth
<1>3. s \in {"SUCCEEDED", "FAILED_TERMINAL", "UNKNOWN"} /\ (s = "SUCCEEDED" => exec[x].result = "SUCCEEDED")
  BY DEF StatusOf
<1>4. OpsKept /\ \A q \in Operations : op'[q].status = "SUCCEEDED" => provider
  <2>1. op' = op \/ op' = [op EXCEPT ![o] = row]
    BY <1>1 DEF MarkResult, Mark
  <2> HIDE DEF s
  <2>2. /\ row \in OperationRow /\ row.status = s /\ row.permit = op[o].permit
        /\ row.generation = op[o].generation
    BY <1>1, <1>3 DEF OperationRow, OperationStatus
  <2>3. \A q \in Operations : op'[q].status = "SUCCEEDED" => op[q].status = "SUCCEEDED" \/ s = "SUCCEEDED"
    BY <1>1, <2>1, <2>2
  <2> HIDE DEF row, o
  <2>4. OpsKept
    BY <1>1, <1>3, <2>1, <2>2, OpsStay, LaterRow
  <2> QED
    BY <1>2, <1>3, <2>3, <2>4
<1> DEFINE r == [exec[x] EXCEPT !.pc = "commit"]
<1>5. exec' = [exec EXCEPT ![x] = r]
  BY <1>1 DEF MarkResult, Goto
<1>6. r \in Execution /\ r.pc = "commit" /\ r.op = exec[x].op /\ r.result = exec[x].result
  BY <1>1 DEF Execution, Places
<1> HIDE DEF r, row, s
<1>7. provider' \in BOOLEAN /\ (provider => provider')
  BY <1>1, TypeFacts
<1>8. /\ deployment'.status = "SUCCEEDED" => provider'
      /\ \A q \in Operations : op'[q].status = "SUCCEEDED" => provider'
      /\ r.result = "SUCCEEDED" => provider'
  BY <1>1, <1>2, <1>4, <1>6
<1> QED
  BY <1>1, <1>4, <1>5, <1>6, <1>7, <1>8, AgentMoves

LEMMA CommitKeeps ==
  ASSUME RInv, NEW x \in Agents, Commit(x)
  PROVE  RInv'
<1>1. /\ UNCHANGED <<permit, operationVars, provider, crashes>> /\ Leave(x) /\ exec[x].pc = "commit"
      /\ deployment \in Deployment /\ crashes \in 0..MaxCrashes
      /\ exec[x].result \in {"SUCCEEDED", "FAILED", "UNKNOWN", "raised"}
  BY AgentFacts, TypeFacts DEF Commit, At, Execution, Results
<1>2. /\ deployment.status = "SUCCEEDED" => provider
      /\ exec[x].result = "SUCCEEDED" => provider
  BY DEF RInv, Truth
<1>3. deployment' \in Deployment /\ (deployment'.status = "SUCCEEDED" => provider)
  <2>1. CASE deployment' = deployment
    BY <1>1, <1>2, <2>1
  <2>2. CASE deployment' = [deployment EXCEPT !.status = "UNKNOWN"]
    BY <1>1, <2>2 DEF Deployment
  <2>3. CASE exec[x].result # "raised" /\ deployment' = [deployment EXCEPT !.status = exec[x].result]
    <3>1. deployment' \in Deployment /\ deployment'.status = exec[x].result
      BY <1>1, <2>3 DEF Deployment
    <3> QED
      BY <1>2, <3>1
  <2> QED
    BY <2>1, <2>2, <2>3 DEF Commit
<1> QED
  BY <1>1, <1>3, LeaveKeeps

-------------------------------------------------------------------------------
(* The sweep, the time and the rest of the system *)

LEMMA SweepFacts ==
  ASSUME RInv
  PROVE  /\ sweep.rows \subseteq Operations /\ sweep.asked \subseteq Operations
         /\ sweep.verdict \in {"none", "SUCCEEDED", "FAILED_TERMINAL", "MANUAL_REVIEW"}
         /\ \A o \in sweep.rows \union sweep.asked : op[o].generation = 1
         /\ sweep.pc = "resolve" => sweep.verdict # "none"
         /\ \A o \in Operations : /\ op[o] \in OperationRow
                                  /\ op[o].generation = 1 <=> op[o].status \notin {"NONE", "PREPARED"}
         /\ deployment.status = "SUCCEEDED" => provider
         /\ sweep.verdict = "SUCCEEDED" => provider
         /\ \A o \in Operations : op[o].status = "SUCCEEDED" => provider
BY TypeFacts DEF RInv, SweepKnows, Sweep, Keyed, Truth

LEMMA AskForFacts ==
  ASSUME NEW rows \in SUBSET Operations
  PROVE  /\ AskFor(rows) \in Sweep /\ AskFor(rows).verdict = "none"
         /\ AskFor(rows).rows = rows /\ AskFor(rows).asked = {}
         /\ AskFor(rows).pc # "resolve"
BY DEF AskFor, AtRest, Sweep

\* The rows that the sweep reopens were dispatched; it leaves the others alone.
LEMMA ReopenKeeps ==
  ASSUME RInv, UNCHANGED permit, sweep.pc = "write",
         op' = [o \in Operations |-> IF o \in sweep.rows THEN Reopened(op[o]) ELSE op[o]]
  PROVE  OpsKept /\ \A o \in Operations : op'[o].status = "SUCCEEDED" => op[o].status = "SUCCEEDED"
<1>1. ASSUME NEW o \in Operations
      PROVE  /\ op'[o] \in OperationRow /\ op'[o].permit = op[o].permit
             /\ op'[o].generation = op[o].generation
             /\ \/ op'[o].status = op[o].status
                \/ op'[o].status = "RECONCILING" /\ op[o].generation = 1
    <2>1. op[o] \in OperationRow
      BY SweepFacts
    <2>2. CASE o \in sweep.rows
      <3>1. op'[o] = Reopened(op[o]) /\ op[o].generation = 1
        BY <2>2, SweepFacts
      <3>2. op'[o] \in OperationRow
        <4>1. op[o].age \in {"young", "stale", "deadline", "past"}
          BY <2>1 DEF OperationRow
        <4> QED
          BY <2>1, <3>1, <4>1 DEF Reopened, OperationRow, OperationStatus
      <3> QED
        BY <2>1, <3>1, <3>2 DEF Reopened, OperationRow
    <2>3. CASE o \notin sweep.rows
      BY <2>1, <2>3
    <2> QED
      BY <2>2, <2>3
<1>2. op' \in [Operations -> OperationRow]
  BY <1>1
<1>3. Keyed'
  <2> SUFFICES ASSUME NEW o \in Operations
               PROVE  /\ op'[o].status = "NONE" <=> op'[o].permit = NoPermit
                      /\ op'[o].generation = 1 <=> op'[o].status \notin {"NONE", "PREPARED"}
                      /\ \A q \in Operations \ {o} :
                           op'[o].permit # NoPermit => op'[q].permit # op'[o].permit
    BY DEF Keyed
  <2>1. op[o].generation = 1 => op[o].status \notin {"NONE", "PREPARED"}
    BY SweepFacts
  <2> QED
    BY <1>1, <2>1 DEF RInv, Keyed
<1>4. Spent'
  BY <1>1 DEF RInv, Spent
<1> QED
  BY <1>1, <1>2, <1>3, <1>4 DEF OpsKept

LEMMA TickKeeps ==
  ASSUME RInv, Tick
  PROVE  RInv'
<1>1. /\ UNCHANGED <<permit, deployment, exec, provider, crashes>> /\ PermitsKept
      /\ deployment \in Deployment /\ crashes \in 0..MaxCrashes
      /\ sweep \in Sweep /\ op \in [Operations -> OperationRow]
  BY TypeFacts DEF Tick, releaseVars, SweepReads, SweepWrites, SweepResolves, SweepAsks
<1>2. CASE SweepReads
  <2>1. sweep' = [AtRest EXCEPT !.pc = "write", !.rows = Stale] /\ op' = op
    BY <1>2 DEF SweepReads
  <2>2. Stale \subseteq Operations /\ \A o \in Stale : op[o].generation = 1
    BY SweepFacts DEF Stale
  <2>3. sweep' \in Sweep /\ sweep'.verdict = "none" /\ sweep'.rows = Stale /\ sweep'.asked = {}
        /\ sweep'.pc = "write"
    BY <2>1, <2>2 DEF AtRest, Sweep
  <2>4. OpsKept
    BY <1>1, <2>1, OpsStay
  <2> QED
    BY <1>1, <2>1, <2>2, <2>3, <2>4, SweepFacts, OthersMove
<1>3. CASE SweepWrites
  <2>1. /\ sweep.pc = "write"
        /\ op' = [o \in Operations |-> IF o \in sweep.rows THEN Reopened(op[o]) ELSE op[o]]
        /\ sweep' = AskFor({o \in Operations : op'[o].status = "RECONCILING"})
    BY <1>3 DEF SweepWrites
  <2>2. OpsKept /\ \A o \in Operations : op'[o].status = "SUCCEEDED" => op[o].status = "SUCCEEDED"
    BY <1>1, <2>1, ReopenKeeps
  <2>3. \A o \in Operations : op'[o].status = "RECONCILING" => op'[o].generation = 1
    BY <2>2 DEF OpsKept, Keyed
  <2> DEFINE rows == {o \in Operations : op'[o].status = "RECONCILING"}
  <2>4. rows \in SUBSET Operations
    OBVIOUS
  <2>5. sweep' \in Sweep /\ sweep'.verdict = "none" /\ sweep'.rows = rows /\ sweep'.asked = {}
        /\ sweep'.pc # "resolve"
    BY <2>1, <2>4, AskForFacts
  <2>6. \A o \in sweep'.rows \union sweep'.asked : op'[o].generation = 1
    BY <2>3, <2>5
  <2> QED
    BY <1>1, <2>2, <2>5, <2>6, SweepFacts, OthersMove
<1>4. ASSUME NEW o \in Operations, SweepAsks(o, Probe(o)) PROVE RInv'
  <2>1. op' = op /\ o \in sweep.rows
    BY <1>4 DEF SweepAsks
  <2>2. OpsKept
    BY <1>1, <2>1, OpsStay
  <2>3. Probe(o) \in {"none", "SUCCEEDED", "FAILED_TERMINAL"} /\ (Probe(o) = "SUCCEEDED" => provider)
    BY SweepFacts DEF Probe
  <2>4. /\ Verdict(o, Probe(o)) \in {"none", "SUCCEEDED", "FAILED_TERMINAL", "MANUAL_REVIEW"}
        /\ Verdict(o, Probe(o)) = "SUCCEEDED" => provider
    BY <2>3 DEF Verdict
  <2>5. /\ sweep' \in Sweep /\ sweep'.verdict \in {"none", Verdict(o, Probe(o))}
        /\ sweep'.rows \union sweep'.asked \subseteq sweep.rows
        /\ sweep'.pc = "resolve" => sweep'.verdict # "none"
    <3>1. CASE sweep' = AskFor(sweep.rows \ {o})
      <4>1. sweep.rows \ {o} \in SUBSET Operations
        BY SweepFacts
      <4> QED
        BY <3>1, <4>1, AskForFacts
    <3>2. CASE /\ sweep' = [pc |-> "resolve", rows |-> sweep.rows \ {o}, asked |-> {o},
                            verdict |-> Verdict(o, Probe(o))]
               /\ Verdict(o, Probe(o)) # "none"
      BY <2>1, <2>4, <3>2, SweepFacts DEF Sweep
    <3> QED
      BY <1>4, <3>1, <3>2 DEF SweepAsks
  <2>6. \A q \in sweep'.rows \union sweep'.asked : op'[q].generation = 1
    BY <2>1, <2>5, SweepFacts
  <2>7. sweep'.verdict = "SUCCEEDED" => provider
    BY <2>4, <2>5
  <2> QED
    BY <1>1, <2>1, <2>2, <2>5, <2>6, <2>7, SweepFacts, OthersMove
<1>5. CASE SweepResolves
  <2>1. PICK o \in sweep.asked :
          IF op[o].status = "RECONCILING"
          THEN /\ op' = [op EXCEPT ![o].status = sweep.verdict]
               /\ sweep' = AskFor(sweep.rows)
          ELSE /\ sweep' = AtRest
               /\ UNCHANGED op
    BY <1>5 DEF SweepResolves
  <2>2. o \in Operations /\ op[o].generation = 1 /\ sweep.rows \in SUBSET Operations
    BY <2>1, SweepFacts
  <2>3. CASE op[o].status = "RECONCILING"
    <3> DEFINE row == [op[o] EXCEPT !.status = sweep.verdict]
    <3>1. op' = [op EXCEPT ![o] = row] /\ sweep' = AskFor(sweep.rows)
      BY <1>1, <2>1, <2>3
    <3>2. sweep.verdict \in {"SUCCEEDED", "FAILED_TERMINAL", "MANUAL_REVIEW"}
      BY <1>5, SweepFacts DEF SweepResolves
    <3>3. /\ row \in OperationRow /\ row.status = sweep.verdict /\ row.permit = op[o].permit
          /\ row.generation = 1
      BY <2>2, <3>2, SweepFacts DEF OperationRow, OperationStatus
    <3>4. \A q \in Operations :
            op'[q].status = "SUCCEEDED" => op[q].status = "SUCCEEDED" \/ sweep.verdict = "SUCCEEDED"
      BY <1>1, <2>2, <3>1, <3>3
    <3>5. \A q \in sweep.rows : op'[q].generation = 1
      BY <1>1, <2>2, <3>1, <3>3, SweepFacts
    <3> HIDE DEF row
    <3>6. OpsKept
      BY <1>1, <2>2, <3>1, <3>2, <3>3, LaterRow
    <3>7. /\ sweep' \in Sweep /\ sweep'.verdict = "none" /\ sweep'.pc # "resolve"
          /\ sweep'.rows = sweep.rows /\ sweep'.asked = {}
      BY <2>2, <3>1, AskForFacts
    <3>8. \A q \in sweep'.rows \union sweep'.asked : op'[q].generation = 1
      BY <3>5, <3>7
    <3>9. \A q \in Operations : op'[q].status = "SUCCEEDED" => provider
      BY <3>4, SweepFacts
    <3> QED
      BY <1>1, <3>6, <3>7, <3>8, <3>9, SweepFacts, OthersMove
  <2>4. CASE op[o].status # "RECONCILING"
    <3>1. op' = op /\ sweep' = AtRest
      BY <2>1, <2>4
    <3>2. /\ AtRest \in Sweep /\ AtRest.rows = {} /\ AtRest.asked = {} /\ AtRest.verdict = "none"
          /\ AtRest.pc = "idle"
      BY DEF AtRest, Sweep
    <3>3. OpsKept
      BY <1>1, <3>1, OpsStay
    <3> HIDE DEF AtRest
    <3> QED
      BY <1>1, <3>1, <3>2, <3>3, SweepFacts, OthersMove
  <2> QED
    BY <2>3, <2>4
<1> QED
  BY <1>2, <1>3, <1>4, <1>5 DEF Tick

LEMMA ClockKeeps ==
  ASSUME RInv, Clock
  PROVE  RInv'
<1>1. /\ UNCHANGED <<permit, sweep>> /\ UNCHANGED <<deployment, exec, provider, crashes>> /\ PermitsKept
      /\ deployment \in Deployment /\ crashes \in 0..MaxCrashes
      /\ sweep \in Sweep /\ op \in [Operations -> OperationRow]
  BY TypeFacts DEF Clock, releaseVars, GrowsOld
<1>2. PICK o \in Operations : GrowsOld(o)
  BY DEF Clock
<1> DEFINE row == [op[o] EXCEPT !.age = IF @ = "young" THEN "stale" ELSE "past"]
<1>3. op' = [op EXCEPT ![o] = row] /\ op[o].status # "NONE" /\ op[o] \in OperationRow
  BY <1>1, <1>2 DEF GrowsOld
<1>4. /\ row \in OperationRow /\ row.status = op[o].status /\ row.permit = op[o].permit
      /\ row.generation = op[o].generation
  BY <1>3 DEF OperationRow
<1>5. \A q \in Operations : op'[q].status = op[q].status /\ op'[q].generation = op[q].generation
  BY <1>1, <1>3, <1>4
<1>6. /\ op[o].permit # NoPermit /\ (op[o].generation = 1 <=> op[o].status # "PREPARED")
      /\ op[o].generation = 1 => permit[op[o].permit].status = "CONSUMED"
  BY <1>3 DEF RInv, Keyed, Spent
<1> HIDE DEF row
<1>7. OpsKept
  BY <1>1, <1>3, <1>4, <1>6, OneRow
<1>8. \A q \in sweep'.rows \union sweep'.asked : op'[q].generation = 1
  BY <1>1, <1>5, SweepFacts
<1>9. /\ \A q \in Operations : op'[q].status = "SUCCEEDED" => provider
      /\ sweep'.pc = "resolve" => sweep'.verdict # "none"
      /\ sweep'.verdict = "SUCCEEDED" => provider
      /\ deployment'.status = "SUCCEEDED" => provider
  BY <1>1, <1>5, SweepFacts
<1> QED
  BY <1>1, <1>7, <1>8, <1>9, OthersMove

\* Permits are requested, decided, revoked and swept; the deployment is asked for.
LEMMA GovernedKeeps ==
  ASSUME RInv, Governance \/ RequestDeployment
  PROVE  RInv'
<1>1. /\ UNCHANGED <<op, sweep>> /\ UNCHANGED <<exec, provider, crashes>>
      /\ deployment \in Deployment /\ crashes \in 0..MaxCrashes
      /\ sweep \in Sweep /\ PermitsTypeOK
  BY TypeFacts DEF Governance, RequestDeployment, releaseVars, operationVars
<1>2. PermitsKept
  <2>1. CASE Governance
    BY <1>1, <2>1, ReleasesAssumption, GovernanceKeeps DEF Governance
  <2>2. CASE RequestDeployment
    BY <2>2, TypeFacts DEF RequestDeployment
  <2> QED
    BY <2>1, <2>2
<1>3. deployment' \in Deployment /\ deployment'.status \in {deployment.status, "REQUESTED"}
  BY <1>1 DEF Governance, RequestDeployment, releaseVars, Deployment
<1>4. OpsKept
  BY <1>1, <1>2, OpsStay
<1> QED
  BY <1>1, <1>2, <1>3, <1>4, SweepFacts, OthersMove

LEMMA CrashKeeps ==
  ASSUME RInv, Crash
  PROVE  RInv'
<1>1. /\ UNCHANGED <<permit, op>> /\ UNCHANGED <<deployment, provider>> /\ PermitsKept /\ OpsKept
      /\ deployment \in Deployment
  BY TypeFacts DEF Crash, SweepDies, operationVars
<1>2. crashes' \in 0..MaxCrashes
  BY ReleasesAssumption, TypeFacts DEF Crash
<1>3. ASSUME NEW x \in Agents, Leave(x), UNCHANGED <<permit, operationVars>>
      PROVE  RInv'
  BY <1>1, <1>2, <1>3, SweepFacts, LeaveKeeps
<1>4. CASE SweepDies /\ UNCHANGED exec
  <2>1. sweep' = AtRest
    BY <1>4 DEF SweepDies
  <2>2. /\ AtRest \in Sweep /\ AtRest.rows = {} /\ AtRest.asked = {} /\ AtRest.verdict = "none"
        /\ AtRest.pc = "idle"
    BY DEF AtRest, Sweep
  <2> HIDE DEF AtRest
  <2> QED
    BY <1>1, <1>2, <1>4, <2>1, <2>2, SweepFacts, OthersMove
<1> QED
  BY <1>3, <1>4 DEF Crash

LEMMA RStep == RInv /\ [ReleasesNext]_vars => RInv'
<1> SUFFICES ASSUME RInv, [ReleasesNext]_vars PROVE RInv'
  OBVIOUS
<1>1. CASE RequestDeployment \/ Governance \/ Tick \/ Clock \/ Crash
  BY <1>1, GovernedKeeps, TickKeeps, ClockKeeps, CrashKeeps
<1>2. ASSUME NEW x \in Agents, Begin(x) \/ Execute(x) PROVE RInv'
  BY <1>2, BeginKeeps, LookKeeps, RemintKeeps, ClaimKeeps, PrepareKeeps, DispatchKeeps, SaveKeeps,
     DeployKeeps, MarkKeeps, CommitKeeps DEF Execute
<1>3. CASE UNCHANGED vars
  <2>1. UNCHANGED <<permit, op, sweep>> /\ UNCHANGED <<deployment, exec, provider, crashes>>
    BY <1>3 DEF vars, operationVars, releaseVars
  <2>2. /\ PermitsKept /\ OpsKept /\ sweep \in Sweep /\ deployment \in Deployment
        /\ crashes \in 0..MaxCrashes
    BY <2>1, TypeFacts
  <2> QED
    BY <2>1, <2>2, SweepFacts, OthersMove
<1> QED
  BY <1>1, <1>2, <1>3 DEF ReleasesNext

\* The inductive invariant of deployments, operations and permits.
THEOREM ReleasesInductive == ReleasesSpec => []RInv
BY RInitial, RStep, PTL DEF ReleasesSpec

\* Nobody calls the provider without a committed dispatch, and a dispatch has
\* consumed a permit of its own (release_service.py:353).
THEOREM EffectsAreDispatched == ReleasesSpec => []EffectUnderDispatch
<1>1. RInv => EffectUnderDispatch
  <2> SUFFICES ASSUME RInv PROVE EffectUnderDispatch
    OBVIOUS
  <2>1. \A o \in Operations : op[o].generation = 1 => op[o].permit # NoPermit
    BY DEF RInv, Keyed
  <2>2. DispatchConsumesPermit
    BY <2>1 DEF RInv, Keyed, Spent, DispatchConsumesPermit
  <2> QED
    BY <2>2 DEF RInv, PathsHold, EffectUnderDispatch
<1> QED
  BY <1>1, ReleasesInductive, PTL

\* What is recorded as a success, the provider has done
\* (external_operation_service.py:345).
THEOREM SuccessesAreReal == ReleasesSpec => []SuccessIsReal
<1>1. RInv => SuccessIsReal
  BY DEF RInv, Truth, SuccessIsReal
<1> QED
  BY <1>1, ReleasesInductive, PTL

-------------------------------------------------------------------------------
(* What has ended *)

\* Every report but the write of a sweep leaves an operation that has ended
\* as it is.
LEMMA EndedStays ==
  ASSUME RInv, [ReleasesNext]_vars, NEW o \in Operations, op[o].status \in Final,
         op'[o].status # op[o].status
  PROVE  SweepWrites
<1>1. op \in [Operations -> OperationRow] /\ op[o] \in OperationRow
  BY TypeFacts
<1>2. CASE Tick
  <2>1. ~SweepReads /\ ~\E q \in Operations : SweepAsks(q, Probe(q))
    BY DEF SweepReads, SweepAsks
  <2>2. ~SweepResolves
    BY <1>1 DEF SweepResolves, Final
  <2> QED
    BY <1>2, <2>1, <2>2 DEF Tick
<1>3. ~Clock
  BY <1>1 DEF Clock, GrowsOld, OperationRow
<1>4. ~Governance /\ ~RequestDeployment /\ ~Crash
  BY DEF Governance, RequestDeployment, Crash, SweepDies, operationVars
<1>5. ASSUME NEW x \in Agents, Begin(x) \/ Execute(x) PROVE FALSE
  <2>1. CASE Begin(x) \/ LookOpen(x) \/ LookSucceeded(x) \/ Remint(x) \/ Claim(x) \/ Save(x)
             \/ Deploy(x) \/ Commit(x)
    BY <2>1 DEF Begin, LookOpen, LookSucceeded, Remint, Claim, Save, Deploy, Commit, operationVars
  <2>2. CASE PrepareOne(x)
    BY <1>1, <2>2 DEF PrepareOne, Prepare, operationVars, Final
  <2>3. CASE Dispatch(x)
    BY <1>1, <2>3 DEF Dispatch, BeginDispatch, CanDispatch, operationVars, Final
  <2>4. CASE MarkResult(x)
    BY <1>1, <2>4 DEF MarkResult, Mark, AllowedFrom, Final
  <2> QED
    BY <1>5, <2>1, <2>2, <2>3, <2>4 DEF Execute
<1>6. ~UNCHANGED vars
  BY DEF vars, operationVars
<1> QED
  BY <1>2, <1>3, <1>4, <1>5, <1>6 DEF ReleasesNext

\* An operation that has ended is reopened by nothing but a sweep that had read
\* it before (external_operation_service.py:345).
THEOREM OnlySweepsReopen == ReleasesSpec => OnlySweepReopens
<1> DEFINE Reopens(o) == op[o].status \in Final /\ op'[o].status # op[o].status
           Late(o) == sweep.pc = "write" /\ o \in sweep.rows /\ op'[o].status = "RECONCILING"
<1>1. ASSUME RInv, [ReleasesNext]_vars, NEW o \in Operations, Reopens(o) PROVE Late(o)
  <2>1. SweepWrites /\ op[o] \in OperationRow
    BY <1>1, EndedStays, TypeFacts
  <2> QED
    BY <1>1, <2>1 DEF SweepWrites, Reopened, OperationRow
<1>2. RInv /\ [ReleasesNext]_vars
        => [\A o \in Operations : Reopens(o) => Late(o)]_<<permit, op, sweep>>
  BY <1>1
<1> HIDE DEF Reopens, Late
<1>3. ReleasesSpec => [][\A o \in Operations : Reopens(o) => Late(o)]_<<permit, op, sweep>>
  BY <1>2, ReleasesInductive, PTL DEF ReleasesSpec
<1> QED
  BY <1>3 DEF OnlySweepReopens, Reopens, Late
===============================================================================
