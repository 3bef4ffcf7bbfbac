----------------------------- MODULE WorkExecution -----------------------------
(***************************************************************************)
(* The execution of the works of a goal (application/execution_service.py) *)
(* over the state machines of goals, works and runs                        *)
(* (domain/transitions.py), with the reclaim of orphan runs by the worker  *)
(* (application/run_advancement.py).                                       *)
(*                                                                         *)
(* Every transition is a transaction of its own that locks the row and     *)
(* compares the version it was told.  execute is a chain of such           *)
(* transitions: it may be called twice for one work, run beside that of    *)
(* other works, be overtaken by the reclaim or by a command of the         *)
(* operator, and die between any two of them.  What it refuses or finds    *)
(* changed raises, and nothing is undone, except while the model is asked. *)
(*                                                                         *)
(* The version of a run is the length of its path, so that its status says *)
(* it.  The tasks of a hive, the artifacts and the audit are left out.     *)
(***************************************************************************)
EXTENDS Integers, FiniteSets

CONSTANTS
  Works, NoWork,
  Needs,             \* Needs[w]: the works it depends on
  Agents,            \* executions that may run at once
  OperatorCommands,  \* what is asked of the goal from outside
  MaxAttempts,       \* bound: runs of a work
  MaxRuns,           \* bound: no call begins with so many runs
  MaxIncidents       \* bound: executions and ticks that die, and commands of the operator

ASSUME ExecutionAssumption ==
  /\ NoWork \notin Works
  /\ Needs \in [Works -> SUBSET Works]
  /\ MaxAttempts \in Nat \ {0} /\ MaxRuns \in Nat /\ MaxIncidents \in Nat

Attempts == 1..MaxAttempts

VARIABLES
  goal,      \* status and version
  work,      \* work[w]: status and version
  run,       \* run[w][n]: the status of the n-th run of the work
  exec,      \* exec[x]: the execution of agent x, with what it has read
  reclaim,   \* the run that the worker advances
  stranded,  \* started works whose execution is gone
  incidents

vars == <<goal, work, run, exec, reclaim, stranded, incidents>>

GoalStatus == {"DRAFT", "READY", "ACTIVE", "PAUSED", "WAITING_HUMAN", "BLOCKED", "ACHIEVED",
               "EXHAUSTED", "FAILED", "CANCELLED"}
GoalTerminal == {"ACHIEVED", "EXHAUSTED", "FAILED", "CANCELLED"}
WorkStatus == {"PLANNED", "READY", "RUNNING", "EVALUATING", "ACCEPTED", "REJECTED", "UNKNOWN"}
RunStatus == {"NONE", "CREATED", "PERMIT_PENDING", "QUEUED", "RUNNING", "EXECUTED", "FAILED"}
ActiveRun == {"CREATED", "PERMIT_PENDING", "QUEUED", "RUNNING"}

\* _GOAL_TRANSITIONS; REPLAN revives a goal that is terminal
GoalTransitions ==
  {<<"DRAFT", "qualify", "READY">>, <<"READY", "activate", "ACTIVE">>,
   <<"ACTIVE", "pause", "PAUSED">>, <<"PAUSED", "resume", "ACTIVE">>,
   <<"ACTIVE", "wait_for_human", "WAITING_HUMAN">>,
   <<"WAITING_HUMAN", "human_resolved", "ACTIVE">>,
   <<"WAITING_HUMAN", "human_blocked", "BLOCKED">>,
   <<"WAITING_HUMAN", "human_timeout_exhausted", "EXHAUSTED">>,
   <<"BLOCKED", "replan", "ACTIVE">>, <<"EXHAUSTED", "replan", "ACTIVE">>,
   <<"FAILED", "replan", "ACTIVE">>, <<"ACTIVE", "achieve", "ACHIEVED">>,
   <<"ACTIVE", "exhaust", "EXHAUSTED">>, <<"BLOCKED", "exhaust", "EXHAUSTED">>}
    \union {<<s, "fail", "FAILED">> : s \in GoalStatus \ GoalTerminal}
    \union {<<s, "cancel", "CANCELLED">> : s \in GoalStatus \ GoalTerminal}

WorkTransitions ==
  {<<"PLANNED", "make_ready", "READY">>, <<"READY", "start", "RUNNING">>,
   <<"RUNNING", "request_evaluation", "EVALUATING">>,
   <<"EVALUATING", "accept", "ACCEPTED">>, <<"EVALUATING", "reject", "REJECTED">>,
   <<"REJECTED", "retry", "READY">>, <<"UNKNOWN", "retry", "READY">>,
   <<"RUNNING", "mark_unknown", "UNKNOWN">>}

RunTransitions ==
  {<<"CREATED", "request_permit", "PERMIT_PENDING">>, <<"PERMIT_PENDING", "queue", "QUEUED">>,
   <<"QUEUED", "claim", "RUNNING">>, <<"RUNNING", "mark_executed", "EXECUTED">>,
   <<"RUNNING", "mark_failed", "FAILED">>}

Places == {"idle", "goal", "ready", "create", "start", "request_permit", "queue", "claim",
           "call", "mark_failed", "mark_unknown", "mark_executed", "request_evaluation",
           "judge", "look", "achieve"}
Execution == [pc: Places, work: Works \union {NoWork}, attempt: 0..MaxAttempts,
              goal: [status: GoalStatus, version: Nat],
              status: WorkStatus, version: Nat, accepted: BOOLEAN]
NoExecution == [pc |-> "idle", work |-> NoWork, attempt |-> 0,
                goal |-> [status |-> "DRAFT", version |-> 0],
                status |-> "PLANNED", version |-> 0, accepted |-> FALSE]
NoReclaim == [work |-> NoWork, attempt |-> 0, status |-> "CREATED"]

WorkExecutionTypeOK ==
  /\ goal \in [status: GoalStatus, version: Nat]
  /\ work \in [Works -> [status: WorkStatus, version: Nat]]
  /\ run \in [Works -> [Attempts -> RunStatus]]
  /\ exec \in [Agents -> Execution]
  /\ reclaim \in [work: Works \union {NoWork}, attempt: 0..MaxAttempts, status: RunStatus]
  /\ stranded \subseteq Works
  /\ incidents \in 0..MaxIncidents

WorkExecutionInit ==
  /\ goal = [status |-> "DRAFT", version |-> 0]
  /\ work = [w \in Works |-> [status |-> "PLANNED", version |-> 0]]
  /\ run = [w \in Works |-> [n \in Attempts |-> "NONE"]]
  /\ exec = [x \in Agents |-> NoExecution]
  /\ reclaim = NoReclaim
  /\ stranded = {} /\ incidents = 0

-------------------------------------------------------------------------------
(* TransitionService: the row is locked, its version compared, its status *)
(* moved; otherwise the call raises.                                      *)
CanMoveGoal(command, version) ==
  goal.version = version /\ \E t \in GoalTransitions : t[1] = goal.status /\ t[2] = command
MoveGoal(command) ==
  \E t \in GoalTransitions :
    t[1] = goal.status /\ t[2] = command
      /\ goal' = [status |-> t[3], version |-> goal.version + 1]

CanMoveWork(w, command, version) ==
  work[w].version = version
    /\ \E t \in WorkTransitions : t[1] = work[w].status /\ t[2] = command
MoveWork(w, command) ==
  \E t \in WorkTransitions :
    t[1] = work[w].status /\ t[2] = command
      /\ work' = [work EXCEPT ![w] = [status |-> t[3], version |-> @.version + 1]]

CanMoveRun(w, n, command) == \E t \in RunTransitions : t[1] = run[w][n] /\ t[2] = command
MoveRun(w, n, command) ==
  \E t \in RunTransitions :
    t[1] = run[w][n] /\ t[2] = command /\ run' = [run EXCEPT ![w][n] = t[3]]

-------------------------------------------------------------------------------
At(x, place) == exec[x].pc = place
Goto(x, place) == exec' = [exec EXCEPT ![x].pc = place]
Mine(x) == exec[x].work
Started(x) == exec[x].pc \notin {"idle", "goal", "ready", "create", "start"}

\* the call raises, or its process dies: nobody goes on with a started work
Leave(x) ==
  /\ exec' = [exec EXCEPT ![x] = NoExecution]
  /\ stranded' = IF Started(x) /\ work[Mine(x)].status \in {"RUNNING", "EVALUATING"}
                 THEN stranded \union {Mine(x)} ELSE stranded

BadBegin(x) ==  \* the receipt of an executed run is not looked for
  /\ At(x, "idle")
  /\ Cardinality({r \in Works \X Attempts : run[r[1]][r[2]] # "NONE"}) < MaxRuns
  /\ \E w \in Works, n \in Attempts :
       /\ \A d \in Needs[w] : work[d].status = "ACCEPTED"
       /\ run[w][n] = "NONE" /\ \A m \in 1..(n - 1) : run[w][m] # "NONE"
       /\ exec' = [exec EXCEPT ![x] = [pc |-> "goal", work |-> w, attempt |-> n, goal |-> goal,
                    status |-> work[w].status, version |-> work[w].version, accepted |-> FALSE]]
  /\ UNCHANGED <<goal, work, run, reclaim, stranded, incidents>>

\* execute reads: a work that has an executed run is answered with its receipt
Begin(x) ==
  /\ At(x, "idle")
  /\ Cardinality({r \in Works \X Attempts : run[r[1]][r[2]] # "NONE"}) < MaxRuns
  /\ \E w \in Works, n \in Attempts :
       /\ \A d \in Needs[w] : work[d].status = "ACCEPTED"
       /\ \A m \in Attempts : run[w][m] # "EXECUTED"
       /\ run[w][n] = "NONE" /\ \A m \in 1..(n - 1) : run[w][m] # "NONE"
       /\ exec' = [exec EXCEPT ![x] = [pc |-> "goal", work |-> w, attempt |-> n, goal |-> goal,
                    status |-> work[w].status, version |-> work[w].version, accepted |-> FALSE]]
  /\ UNCHANGED <<goal, work, run, reclaim, stranded, incidents>>

\* the goal is taken to ACTIVE from DRAFT, in two steps, or from READY
Activation == [DRAFT |-> "qualify", READY |-> "activate"]

ActivateGoal(x) ==
  LET seen == exec[x].goal
  IN /\ At(x, "goal")
     /\ \/ /\ seen.status = "ACTIVE"
           /\ exec' = [exec EXCEPT ![x].pc = "ready", ![x].goal = NoExecution.goal]
           /\ UNCHANGED <<goal, stranded>>
        \/ /\ seen.status \in DOMAIN Activation
           /\ IF CanMoveGoal(Activation[seen.status], seen.version)
              THEN /\ MoveGoal(Activation[seen.status])
                   /\ exec' = [exec EXCEPT ![x].goal = goal']
                   /\ UNCHANGED stranded
              ELSE Leave(x) /\ UNCHANGED goal
        \/ /\ seen.status \notin DOMAIN Activation \union {"ACTIVE"}
           /\ Leave(x) /\ UNCHANGED goal
     /\ UNCHANGED <<work, run, reclaim, incidents>>

\* the work is taken to READY; of any other status it cannot be executed
Readying == [PLANNED |-> "make_ready", UNKNOWN |-> "retry", REJECTED |-> "retry"]

ReadyWork(x) ==
  /\ At(x, "ready")
  /\ \/ /\ exec[x].status = "READY"
        /\ Goto(x, "create")
        /\ UNCHANGED <<work, stranded>>
     \/ /\ exec[x].status \in DOMAIN Readying
        /\ IF CanMoveWork(Mine(x), Readying[exec[x].status], exec[x].version)
           THEN /\ MoveWork(Mine(x), Readying[exec[x].status])
                /\ exec' = [exec EXCEPT ![x].pc = "create", ![x].status = "READY",
                                        ![x].version = @ + 1]
                /\ UNCHANGED stranded
           ELSE Leave(x) /\ UNCHANGED work
     \/ /\ exec[x].status \notin DOMAIN Readying \union {"READY"}
        /\ Leave(x) /\ UNCHANGED work
  /\ UNCHANGED <<goal, run, reclaim, incidents>>

\* the key of the attempt is unique, and so is the active run of a work
CreateRun(x) ==
  /\ At(x, "create")
  /\ IF /\ run[Mine(x)][exec[x].attempt] = "NONE"
        /\ \A m \in Attempts : run[Mine(x)][m] \notin ActiveRun
     THEN /\ run' = [run EXCEPT ![Mine(x)][exec[x].attempt] = "CREATED"]
          /\ Goto(x, "start")
          /\ UNCHANGED stranded
     ELSE Leave(x) /\ UNCHANGED run
  /\ UNCHANGED <<goal, work, reclaim, incidents>>

\* the execution e at its next place, with the version of the work it left
OneOn(e, next) == [e EXCEPT !.pc = next, !.version = @ + 1]

\* a transition of the work on the way, which raises when it was changed
WorkStep(x, place, command, next) ==
  /\ At(x, place)
  /\ IF CanMoveWork(Mine(x), command, exec[x].version)
     THEN /\ MoveWork(Mine(x), command)
          /\ exec' = [exec EXCEPT ![x] = IF next = "idle" THEN NoExecution
                                         ELSE OneOn(exec[x], next)]
          /\ UNCHANGED stranded
     ELSE Leave(x) /\ UNCHANGED work
  /\ UNCHANGED <<goal, run, reclaim, incidents>>

StartWork(x) == WorkStep(x, "start", "start", "request_permit")

\* and one of the run: its place is the command
RunStep(x, command, next) ==
  /\ At(x, command)
  /\ IF CanMoveRun(Mine(x), exec[x].attempt, command)
     THEN /\ MoveRun(Mine(x), exec[x].attempt, command)
          /\ Goto(x, next)
          /\ UNCHANGED stranded
     ELSE Leave(x) /\ UNCHANGED run
  /\ UNCHANGED <<goal, work, reclaim, incidents>>

AdvanceRun(x) ==
  \/ RunStep(x, "request_permit", "queue")
  \/ RunStep(x, "queue", "claim")
  \/ RunStep(x, "claim", "call")

\* the models execute and judge the work, or one of the calls raises
CallModels(x) ==
  /\ At(x, "call")
  /\ \/ Goto(x, "mark_failed")
     \/ \E verdict \in BOOLEAN :
          exec' = [exec EXCEPT ![x].pc = "mark_executed", ![x].accepted = verdict]
  /\ UNCHANGED <<goal, work, run, reclaim, stranded, incidents>>

BadFail(x) ==  \* the run is marked, the work is not
  \/ RunStep(x, "mark_failed", "mark_unknown")
  \/ /\ At(x, "mark_unknown")
     /\ exec' = [exec EXCEPT ![x] = NoExecution]
     /\ UNCHANGED <<goal, work, run, reclaim, stranded, incidents>>

Fail(x) ==
  \/ RunStep(x, "mark_failed", "mark_unknown")
  \/ WorkStep(x, "mark_unknown", "mark_unknown", "idle")

BadFinish(x) ==  \* nobody looks whether that was the last one
  \/ RunStep(x, "mark_executed", "request_evaluation")
  \/ WorkStep(x, "request_evaluation", "request_evaluation", "judge")
  \/ exec[x].accepted /\ WorkStep(x, "judge", "accept", "idle")
  \/ ~exec[x].accepted /\ WorkStep(x, "judge", "reject", "idle")

Finish(x) ==
  \/ RunStep(x, "mark_executed", "request_evaluation")
  \/ WorkStep(x, "request_evaluation", "request_evaluation", "judge")
  \/ exec[x].accepted /\ WorkStep(x, "judge", "accept", "look")
  \/ ~exec[x].accepted /\ WorkStep(x, "judge", "reject", "idle")

BadComplete == \A w \in Works : work[w].status \notin {"RUNNING", "EVALUATING"}

Complete == \A w \in Works : work[w].status = "ACCEPTED"

\* _achieve_if_complete: reads the works and the goal, then achieves it
LookComplete(x) ==
  /\ At(x, "look")
  /\ IF Complete
     THEN exec' = [exec EXCEPT ![x].pc = "achieve", ![x].goal = goal] /\ UNCHANGED stranded
     ELSE Leave(x)
  /\ UNCHANGED <<goal, work, run, reclaim, incidents>>

Achieve(x) ==
  /\ At(x, "achieve")
  /\ IF CanMoveGoal("achieve", exec[x].goal.version) THEN MoveGoal("achieve")
     ELSE UNCHANGED goal
  /\ Leave(x)
  /\ UNCHANGED <<work, run, reclaim, incidents>>

-------------------------------------------------------------------------------
\* reclaim_stale_created_runs: any run that is CREATED, however young
ReclaimReads ==
  /\ reclaim = NoReclaim
  /\ \E w \in Works, n \in Attempts :
       /\ run[w][n] = "CREATED"
       /\ reclaim' = [work |-> w, attempt |-> n, status |-> "CREATED"]
  /\ UNCHANGED <<goal, work, run, exec, stranded, incidents>>

AdvancedBy == [CREATED |-> "request_permit", PERMIT_PENDING |-> "queue", QUEUED |-> "claim"]

\* advance_created_run goes on while the run is as it left it
ReclaimAdvances ==
  LET w == reclaim.work
      n == reclaim.attempt
  IN /\ reclaim # NoReclaim
     /\ IF run[w][n] = reclaim.status
        THEN /\ MoveRun(w, n, AdvancedBy[reclaim.status])
             /\ reclaim' = IF run'[w][n] = "RUNNING" THEN NoReclaim
                           ELSE [reclaim EXCEPT !.status = run'[w][n]]
        ELSE reclaim' = NoReclaim /\ UNCHANGED run
     /\ UNCHANGED <<goal, work, exec, stranded, incidents>>

Incident == incidents < MaxIncidents /\ incidents' = incidents + 1

\* POST /goals/{id}/transitions
Operate ==
  /\ Incident
  /\ \E command \in OperatorCommands : MoveGoal(command)
  /\ UNCHANGED <<work, run, exec, reclaim, stranded>>

Crash ==
  /\ Incident
  /\ \/ \E x \in Agents : ~At(x, "idle") /\ Leave(x) /\ UNCHANGED reclaim
     \/ reclaim # NoReclaim /\ reclaim' = NoReclaim /\ UNCHANGED <<exec, stranded>>
  /\ UNCHANGED <<goal, work, run>>

Execute(x) ==
  \/ ActivateGoal(x) \/ ReadyWork(x) \/ CreateRun(x) \/ StartWork(x) \/ AdvanceRun(x)
  \/ CallModels(x) \/ Fail(x) \/ Finish(x) \/ LookComplete(x) \/ Achieve(x)

Reclaim == ReclaimReads \/ ReclaimAdvances

WorkExecutionNext ==
  \/ Reclaim \/ Operate \/ Crash
  \/ \E x \in Agents : Begin(x) \/ Execute(x)

WorkExecutionSpec == WorkExecutionInit /\ [][WorkExecutionNext]_vars

\* a call that was begun goes on, and the worker turns its loop
FairSpec ==
  WorkExecutionSpec /\ WF_vars(Reclaim) /\ \A x \in Agents : WF_vars(Execute(x))

-------------------------------------------------------------------------------
(***************************************************************************)
(* Properties.                                                             *)
(***************************************************************************)

\* However calls for one work overlap, at most one of them asks the models, and
\* a verdict rests on exactly one executed run (execution_service.py:185).
OneExecution ==
  \A w \in Works :
    /\ Cardinality({x \in Agents : Mine(x) = w /\ Started(x)
                                   /\ work[w].status \in {"RUNNING", "EVALUATING"}}) <= 1
    /\ Cardinality({n \in Attempts : run[w][n] = "EXECUTED"}) <= 1
    /\ work[w].status \in {"EVALUATING", "ACCEPTED", "REJECTED"}
         => \E n \in Attempts : run[w][n] = "EXECUTED"

\* A goal is achieved when every work is accepted, and only then, although the
\* works are read before the goal is written (execution_service.py:511).
AchievedIsComplete ==
  goal.status = "ACHIEVED" => \A w \in Works : work[w].status = "ACCEPTED"

\* A work that was started ends in a verdict or UNKNOWN, or is stranded: its
\* execution died, or the worker had advanced its run before it did
\* (run_advancement.py:48).
WorkEnds ==
  \A w \in Works :
    work[w].status \in {"RUNNING", "EVALUATING"} ~>
      (work[w].status \notin {"RUNNING", "EVALUATING"} \/ w \in stranded)

\* The last acceptance achieves the goal, unless an execution dies or the
\* operator moves the goal in between: nobody looks again (execution_service.py:386).
CompleteIsAchieved ==
  (\A w \in Works : work[w].status = "ACCEPTED") ~>
    (goal.status = "ACHIEVED" \/ incidents > 0)
===============================================================================
