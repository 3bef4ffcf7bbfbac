------------------------------ MODULE Delivery ------------------------------
(***************************************************************************)
(* The delivery of one goal (execution_orchestrator.py): the handlers that *)
(* carry it from its execution request through discovery, requirements,    *)
(* generation, build and release to a review of the running preview, with  *)
(* the people who approve, the timeouts that answer for them, and the      *)
(* watchdog that wakes a goal on which nothing has moved.                  *)
(*                                                                         *)
(* A pass is one run of the pipeline for the goal; passes overlap, because *)
(* nothing checks that an earlier one is over before another starts.  An   *)
(* event stays due until its handler is acknowledged, so a handler may run *)
(* again after it has had its effect.                                      *)
(*                                                                         *)
(* The goal's optimistic version is left out: a transition that meets      *)
(* another version is refused with a retryable error, the handler starts   *)
(* again from its first read, and the model takes that attempt for one     *)
(* that never began.  What is kept is a transition refused for good.       *)
(***************************************************************************)
EXTENDS Integers, FiniteSets

CONSTANTS Passes,        \* passes that may be under way together
          Tasks,         \* approval tasks the goal may ask for
          Budgets,       \* what a behaviour may use up, one of these
          Slots          \* handlers the dispatcher runs together

\* Counters of the code, as far as the goal has any of them left: nudges of
\* the watchdog (_STALE_MAX_NUDGES) and further rounds after one that selected
\* nothing (_MAX_AUTO_RECOVERY_ATTEMPTS and one adapted round).  Bounds of the
\* model: further milestones and revisions, acts of a person (directions and
\* pauses), answers to a task that has timed out, faults (deaths of a handler
\* and dead letters), times other goals crowd this one out.
Counters == {"nudges", "rounds", "further", "acts", "late", "faults", "others"}

ASSUME DeliveryAssumption ==
  /\ Passes # {}
  /\ Budgets \subseteq [Counters -> Nat]
  /\ Slots \in Nat \ {0}

VARIABLES
  profile,   \* how the goal is delivered: directly?, through hard gates?
  crowded,   \* as many other goals as a scan takes have waited longer
  goal,      \* the goal's row, the part of its metadata the handlers test
  due,       \* outbox events not yet acknowledged
  busy,      \* handlers between two of their transactions
  round,     \* discovery round of a pass
  plan,      \* capability plan of a pass's latest requirement revision
  task,      \* approval tasks
  expiring,  \* tasks the timeout scan has read as open and due
  left       \* what is left of the budget

vars == <<profile, crowded, goal, due, busy, round, plan, task, expiring, left>>

Statuses == {"ACTIVE", "WAITING_HUMAN", "ACHIEVED", "FAILED"}
Terminal == {"ACHIEVED", "FAILED"}
Stages   == {"WORKING", "DELIVERY_SOFT_PAUSE"}
PassSteps == {"execute", "discover", "selected", "undecided", "require", "resolve", "satisfied",
              "generate", "snapshot", "depend", "build", "deploy", "released", "refused",
              "review"}
Answers == {"accept", "reject"}
Events  == (PassSteps \X Passes) \cup (Answers \X Tasks)
Places  == {"generating", "asked", "approved", "resumed"}

\* crossed, verified and approved are history, which no operation reads: an
\* approval was being carried out as the goal was parked; a review has verified
\* the preview; a person has approved it.
Goals == [status : Statuses, stage : Stages, paused : BOOLEAN, lineage : BOOLEAN,
          crossed : BOOLEAN, verified : BOOLEAN, approved : BOOLEAN]

TypeOK ==
  /\ profile \in [direct : BOOLEAN, hard : BOOLEAN, auto : BOOLEAN]
  /\ crowded \in BOOLEAN
  /\ goal \in Goals
  /\ due \subseteq Events
  /\ busy \subseteq [event : Events, place : Places]
  /\ Cardinality(busy) <= Slots
  /\ round \in [Passes -> {"NONE", "REQUESTED", "ENDED"}]
  /\ plan \in [Passes -> {"NONE", "SATISFIED", "WAITING_HUMAN"}]
  /\ task \in [Tasks -> [status : {"NONE", "OPEN", "COMPLETED", "TIMED_OUT"},
                         kind : {"release", "quality"}, pass : Passes]]
  /\ expiring \subseteq Tasks
  /\ left \in [Counters -> Nat]

-----------------------------------------------------------------------------
(* What the handlers share.                                                *)

Uses(counter) == left[counter] > 0 /\ left' = [left EXCEPT ![counter] = @ - 1]

Running(e) == \E b \in busy : b.event = e
Ready(e)   == e \in due /\ ~Running(e)
Paused(g)  == g.stage = "DELIVERY_SOFT_PAUSE" \/ g.paused
Resuming   == \E b \in busy : b.place = "resumed"

\* WAIT_FOR_HUMAN; only an active goal has this transition.
Waits(g) == IF g.status = "ACTIVE"
            THEN [g EXCEPT !.status = "WAITING_HUMAN", !.crossed = @ \/ Resuming]
            ELSE g

\* HUMAN_RESOLVED.
Resumes(g) == IF g.status = "WAITING_HUMAN" THEN [g EXCEPT !.status = "ACTIVE"] ELSE g

AtStage(g, s) == [g EXCEPT !.stage = s]

\* A halt that asks for a person and names no task becomes a soft pause.
Halts(g) == Waits(AtStage(g, "DELIVERY_SOFT_PAUSE"))

\* A gap in the delivery leaves the loop: the goal is paused, and parked
\* unless what is left is a question to the person.
Pauses(g)  == [AtStage(g, "DELIVERY_SOFT_PAUSE") EXCEPT !.paused = TRUE]
Recovered(g) == IF Paused(g) THEN {g} ELSE {Pauses(g), Halts(Pauses(g))}

\* The handler has had its effect and has emitted new.  It is acknowledged,
\* or dies before that and will run again.
Acked(e, new) == due' = (due \ {e}) \cup new /\ UNCHANGED <<profile, crowded, expiring>>

Handled(e, new) ==
  \/ Acked(e, new) /\ UNCHANGED left
  \/ due' = due \cup new /\ Uses("faults") /\ UNCHANGED <<profile, crowded, expiring>>

Emits(e, new) == Handled(e, new) /\ UNCHANGED <<goal, busy, round, plan, task>>

Drops(e) == Emits(e, {})

At(e, place) == [event |-> e, place |-> place] \in busy
Left(e)      == {b \in busy : b.event # e}

\* The handler keeps a slot while the rest of its work is still to do.
Occupies(e, place) ==
  /\ Cardinality(Left(e)) < Slots
  /\ busy' = Left(e) \cup {[event |-> e, place |-> place]}
  /\ UNCHANGED <<profile, crowded, due, round, plan, expiring, left>>

Enters(e, place) == Occupies(e, place) /\ UNCHANGED task

\* A task that was never asked for, or whose answer has been dealt with.
FreeTasks == {t \in Tasks : /\ task[t].status # "OPEN" /\ t \notin expiring
                            /\ \A e \in due : e[1] \in Answers => e[2] # t}
ATask == CHOOSE t \in FreeTasks : TRUE

\* A pass of which nothing is left: no event, no handler, no task.
Free(p) == /\ \A e \in due \cup {b.event : b \in busy} : e[1] \in PassSteps => e[2] # p
           /\ \A t \in Tasks : task[t].status = "OPEN" => task[t].pass # p
APass == CHOOSE p \in Passes : Free(p)

-----------------------------------------------------------------------------
(* From the execution request to the generated application.                *)

Execute(p) ==
  LET e == <<"execute", p>> IN
  /\ Ready(e)
  /\ CASE goal.status # "ACTIVE" -> Drops(e)
       [] goal.status = "ACTIVE" /\ profile.direct -> Emits(e, {<<"generate", p>>})
       [] goal.status = "ACTIVE" /\ ~profile.direct /\ round[p] # "NONE" -> Drops(e)
       [] OTHER -> /\ Handled(e, {<<"discover", p>>})
                   /\ round' = [round EXCEPT ![p] = "REQUESTED"]
                   /\ UNCHANGED <<goal, busy, plan, task>>

\* The round ends in one transaction and is announced in another; a worker
\* that dies between them leaves a round that is not run again.
Discover(p) ==
  LET e == <<"discover", p>> IN
  /\ Ready(e)
  /\ IF round[p] # "REQUESTED" THEN Drops(e)
     ELSE /\ round' = [round EXCEPT ![p] = "ENDED"]
          /\ UNCHANGED <<goal, busy, plan, task>>
          /\ \/ \E outcome \in {"selected", "undecided"} : Handled(e, {<<outcome, p>>})
             \/ Uses("faults") /\ UNCHANGED <<profile, crowded, due, expiring>>

Selected(p) == LET e == <<"selected", p>> IN Ready(e) /\ Emits(e, {<<"require", p>>})

\* Recovery after a round that selected nothing is another round.
ResearchesMore(e, p) ==
  /\ Uses("rounds")
  /\ Acked(e, {<<"discover", p>>})
  /\ round' = [round EXCEPT ![p] = "REQUESTED"]
  /\ goal' = AtStage(goal, "WORKING")

\* After the last one the goal halts.
Undecided(p) ==
  LET e == <<"undecided", p>> IN
  /\ Ready(e)
  /\ UNCHANGED <<busy, plan, task>>
  /\ \/ ResearchesMore(e, p)
     \/ left.rounds = 0 /\ Handled(e, {}) /\ goal' = Halts(goal) /\ UNCHANGED round

\* Each run creates a revision of its own, which has no plan yet.
Require(p) ==
  LET e == <<"require", p>> IN
  /\ Ready(e)
  /\ Handled(e, {<<"resolve", p>>})
  /\ plan' = [plan EXCEPT ![p] = "NONE"]
  /\ UNCHANGED <<goal, busy, round, task>>

\* A blocked plan leaves the goal active, with nothing to take it further.
Resolve(p) ==
  LET e == <<"resolve", p>>
      New(status) == /\ plan' = [plan EXCEPT ![p] = status]
                     /\ goal' = [goal EXCEPT !.lineage = TRUE,
                                   !.stage = IF status = "SATISFIED" THEN @ ELSE "WORKING"]
                     /\ UNCHANGED <<busy, round, task>>
  IN /\ Ready(e)
     /\ CASE plan[p] = "SATISFIED" -> Emits(e, {<<"satisfied", p>>})
          [] plan[p] = "WAITING_HUMAN" -> Drops(e)
          [] OTHER -> \/ New("SATISFIED") /\ Handled(e, {<<"satisfied", p>>})
                      \/ New("WAITING_HUMAN") /\ Handled(e, {})

Satisfied(p) == LET e == <<"satisfied", p>> IN Ready(e) /\ Emits(e, {<<"generate", p>>})

\* Only a pause holds generation back: the goal's status is not looked at.
GenerateBegins(p) ==
  LET e == <<"generate", p>> IN
  /\ Ready(e)
  /\ IF Paused(goal) THEN Drops(e) ELSE Enters(e, "generating") /\ UNCHANGED goal

\* A finished generation clears the pause, one that came meanwhile too.  One
\* that failed is a gap, but for a transcript that could not be saved, and for
\* the direct way, which has no records to recover from.
GenerateEnds(p) ==
  LET e == <<"generate", p>> IN
  /\ At(e, "generating")
  /\ busy' = Left(e)
  /\ UNCHANGED <<round, plan, task>>
  /\ \/ /\ goal' = [AtStage(goal, "WORKING") EXCEPT !.paused = FALSE]
        /\ Handled(e, IF profile.direct THEN {} ELSE {<<"snapshot", p>>})
     \/ /\ Handled(e, {})
        /\ goal' \in {goal} \cup (IF profile.direct THEN {} ELSE Recovered(goal))

\* A workspace that is not compliant fails the goal, whatever its status.
Snapshot(p) ==
  LET e == <<"snapshot", p>> IN
  /\ Ready(e)
  /\ \/ Emits(e, {<<"depend", p>>})
     \/ /\ Handled(e, {})
        /\ goal' = [AtStage(goal, "WORKING") EXCEPT !.status = "FAILED"]
        /\ UNCHANGED <<busy, round, plan, task>>

Depend(p) == LET e == <<"depend", p>> IN Ready(e) /\ Emits(e, {<<"build", p>>})

\* Under the soft gates a failed build goes on.
Build(p) ==
  LET e == <<"build", p>> IN
  /\ Ready(e)
  /\ \/ Emits(e, {<<"deploy", p>>})
     \/ /\ profile.hard
        /\ Handled(e, {})
        /\ goal' \in Recovered(AtStage(goal, "WORKING"))
        /\ UNCHANGED <<busy, round, plan, task>>

-----------------------------------------------------------------------------
(* Release, review and the answers to them.                                *)

Asks(kind, p, status) ==
  /\ FreeTasks # {}
  /\ task' = [task EXCEPT ![ATask] = [status |-> status, kind |-> kind, pass |-> p]]

\* The released preview, or the gap its deployment met.
Deployed(e, p) ==
  \/ Handled(e, {<<"review", p>>}) /\ UNCHANGED goal
  \/ Handled(e, {}) /\ goal' \in Recovered(AtStage(goal, "WORKING"))

\* A task is asked for even where the release approves itself ...
DeployBegins(p) ==
  LET e == <<"deploy", p>> IN
  /\ Ready(e)
  /\ Asks("release", p, "OPEN")
  /\ Occupies(e, "asked")
  /\ UNCHANGED goal

\* ... then there is no candidate, or a person is waited for ...
DeployAsks(p) ==
  LET e == <<"deploy", p>> IN
  /\ At(e, "asked")
  /\ busy' = Left(e)
  /\ Handled(e, {})
  /\ \/ goal' = Halts(goal)
     \/ ~profile.auto /\ goal' = Waits(AtStage(goal, "WORKING"))
  /\ UNCHANGED <<round, plan, task>>

\* ... or the release completes its task, refused for good where a person has
\* answered meanwhile ...
DeployApproves(p) ==
  LET e == <<"deploy", p>>
      own == {t \in Tasks : task[t].status = "OPEN" /\ task[t].kind = "release" /\ task[t].pass = p}
  IN /\ At(e, "asked")
     /\ profile.auto
     /\ \/ \E t \in own : /\ task' = [task EXCEPT ![t].status = "COMPLETED"]
                           /\ due' = due \cup {<<"released", p>>}
                           /\ busy' = Left(e) \cup {[event |-> e, place |-> "approved"]}
        \/ /\ own = {}
           /\ due' = due \ {e}
           /\ busy' = Left(e)
           /\ UNCHANGED task
     /\ UNCHANGED <<profile, crowded, goal, round, plan, expiring, left>>

\* ... and deploys at once, where an exception is logged and no more.
DeployEnds(p) ==
  LET e == <<"deploy", p>> IN
  /\ At(e, "approved")
  /\ busy' = Left(e)
  /\ Deployed(e, p) \/ (Handled(e, {}) /\ UNCHANGED goal)
  /\ UNCHANGED <<round, plan, task>>

\* An answer may find no candidate that is waiting for it.
Released(p) ==
  LET e == <<"released", p>> IN
  /\ Ready(e)
  /\ \/ Deployed(e, p) /\ UNCHANGED <<busy, round, plan, task>>
     \/ Drops(e)

Refused(p) ==
  LET e == <<"refused", p>> IN
  /\ Ready(e)
  /\ Handled(e, {})
  /\ goal' = Halts(goal)
  /\ UNCHANGED <<busy, round, plan, task>>

\* The preview does not stand: a failed smoke test or product check.
ReviewFails(p) ==
  LET e == <<"review", p>> IN
  /\ Ready(e)
  /\ Handled(e, {})
  /\ UNCHANGED <<busy, round, plan, task>>
  /\ \/ goal' = AtStage(goal, "WORKING")
     \/ ~profile.hard /\ goal' \in Recovered(AtStage(goal, "WORKING"))

\* Observations are missing.  Under the soft gates a preview that stands is
\* shown, and nothing more is arranged ...
ReviewShows(p) ==
  LET e == <<"review", p>> IN
  /\ Ready(e)
  /\ ~profile.hard
  /\ Handled(e, {})
  /\ goal' = AtStage(goal, "WORKING")
  /\ UNCHANGED <<busy, round, plan, task>>

\* ... while under the hard ones, or without an endpoint, the transaction that
\* would make the goal wait for them reads a name that is not bound
\* (execution_orchestrator.py:4107).  It rolls back, and so does each further
\* attempt that finds no observations, until the event is a dead letter.  Each
\* leaves a timer, which finds a goal that does not wait and changes nothing:
\* the timers are left out.
ReviewRaises(p) ==
  LET e == <<"review", p>> IN
  /\ Ready(e)
  /\ due' = due \ {e}
  /\ UNCHANGED <<profile, crowded, goal, busy, round, plan, task, expiring, left>>

\* The next milestone, or a revision, starts with another round.
GoesOn(e, p) ==
  /\ Uses("further")
  /\ Acked(e, {<<"discover", p>>})
  /\ round' = [round EXCEPT ![p] = "REQUESTED"]
  /\ goal' = AtStage(goal, "WORKING")
  /\ UNCHANGED task

\* The iteration is stopped, or the delivery has not been verified.
StaysUnverified(e) ==
  Handled(e, {}) /\ goal' = Waits(AtStage(goal, "WORKING")) /\ UNCHANGED <<round, task>>

\* Passed by its looks alone: delivered, and a person is asked.
DeliversForReview(e, p) ==
  /\ Handled(e, {})
  /\ Asks("quality", p, "OPEN")
  /\ goal' = Waits(AtStage(goal, "WORKING"))
  /\ UNCHANGED round

\* Only an active goal can be achieved; any other refuses for good, but a
\* review has written the stage before.
Achieves(e, byPerson) ==
  /\ Handled(e, {})
  /\ goal' = IF goal.status = "ACTIVE"
             THEN [AtStage(goal, "WORKING") EXCEPT !.status = "ACHIEVED", !.verified = ~byPerson]
             ELSE IF byPerson THEN goal ELSE AtStage(goal, "WORKING")
  /\ UNCHANGED <<round, task>>

\* The gates have spoken and the check of the preview has passed.
ReviewConcludes(p) ==
  LET e == <<"review", p>> IN
  /\ Ready(e)
  /\ UNCHANGED <<busy, plan>>
  /\ GoesOn(e, p) \/ StaysUnverified(e) \/ DeliversForReview(e, p) \/ Achieves(e, FALSE)

BadAcceptBegins(t) == LET e == <<"accept", t>> IN Ready(e) /\ Achieves(e, TRUE) /\ UNCHANGED <<busy, plan>>  \* a parked goal not resumed

\* An approval that finds the goal parked resumes it first, in a
\* transaction of its own.
AcceptBegins(t) ==
  LET e == <<"accept", t>> IN
  /\ Ready(e)
  /\ CASE goal.status \in Terminal -> Drops(e)
       [] goal.status = "ACTIVE" ->
            Achieves(e, TRUE) /\ UNCHANGED <<busy, plan>>
       [] goal.status = "WAITING_HUMAN" -> Enters(e, "resumed") /\ goal' = Resumes(goal)

\* Then it reads the version, not the status, and achieves.  Parked again
\* before that read, the goal refuses for good; after it, for a retry.
AcceptEnds(t) ==
  LET e == <<"accept", t>> IN
  /\ At(e, "resumed")
  /\ busy' = Left(e)
  /\ UNCHANGED <<plan>>
  /\ \/ Achieves(e, TRUE)
     \/ /\ goal.status = "WAITING_HUMAN"
        /\ UNCHANGED <<profile, crowded, goal, due, round, task, expiring, left>>

BadReject(t) ==                       \* parks the goal whatever its status
  LET e == <<"reject", t>> IN
  /\ Ready(e)
  /\ Handled(e, {})
  /\ goal' = [AtStage(goal, "WORKING") EXCEPT !.status = "WAITING_HUMAN"]
  /\ UNCHANGED <<busy, round, plan, task>>

Reject(t) ==
  LET e == <<"reject", t>> IN
  /\ Ready(e)
  /\ IF goal.status \in Terminal THEN Drops(e)
     ELSE /\ Handled(e, {})
          /\ goal' = Waits(AtStage(goal, "WORKING"))
          /\ UNCHANGED <<busy, round, plan, task>>

-----------------------------------------------------------------------------
(* People, time and faults.                                                *)

\* The event that tells the orchestrator of an answer.
Told(t, approved) ==
  IF task[t].kind = "quality" THEN <<IF approved THEN "accept" ELSE "reject", t>>
  ELSE <<IF approved THEN "released" ELSE "refused", task[t].pass>>

\* A person answers, also a task that has timed out.  In the chat an
\* approval resumes the goal too; over HTTP it only completes the task.
Answer(t) ==
  /\ \/ task[t].status = "OPEN" /\ UNCHANGED left
     \/ task[t].status = "TIMED_OUT" /\ Uses("late")
  /\ task' = [task EXCEPT ![t].status = "COMPLETED"]
  /\ \E yes \in BOOLEAN :
       LET g == [goal EXCEPT !.approved = @ \/ (yes /\ task[t].kind = "quality")]
       IN /\ due' = due \cup {Told(t, yes)}
          /\ goal' \in {g} \cup (IF yes THEN {Resumes(g)} ELSE {})
  /\ UNCHANGED <<profile, crowded, busy, round, plan, expiring>>

\* The timeout scan reads the open tasks that are due, a day after they were
\* asked for and so by no handler still at it ...
TimeoutReads ==
  /\ expiring = {}
  /\ expiring' = {t \in Tasks : /\ task[t].status = "OPEN"
                               /\ ~At(<<"deploy", task[t].pass>>, "asked")}
  /\ expiring' # {}
  /\ UNCHANGED <<profile, crowded, goal, due, busy, round, plan, task, left>>

BadTimeoutWrites ==                   \* silence approves
  /\ expiring # {}
  /\ task' = [t \in Tasks |-> IF t \in expiring THEN [task[t] EXCEPT !.status = "TIMED_OUT"] ELSE task[t]]
  /\ due' = due \cup {Told(t, TRUE) : t \in expiring}
  /\ expiring' = {}
  /\ UNCHANGED <<profile, crowded, goal, busy, round, plan, left>>

\* ... and refuses all of them, one answered in between as well.
TimeoutWrites ==
  /\ expiring # {}
  /\ task' = [t \in Tasks |-> IF t \in expiring THEN [task[t] EXCEPT !.status = "TIMED_OUT"] ELSE task[t]]
  /\ due' = due \cup {Told(t, FALSE) : t \in expiring}
  /\ expiring' = {}
  /\ UNCHANGED <<profile, crowded, goal, busy, round, plan, left>>

\* A direction in the chat for a goal that is paused or parked: the pause is
\* lifted, and generation asked for if the goal has been through it.  Or
\* nothing is asked for: the agent's session cannot be resumed, or there is
\* none and the gap is looked at anew, or no progress was made and the goal is
\* paused again.
Direct ==
  LET g == [Resumes(AtStage(goal, "WORKING")) EXCEPT !.paused = FALSE] IN
  /\ Uses("acts")
  /\ goal.status \notin Terminal
  /\ Paused(goal) \/ goal.status = "WAITING_HUMAN"
  /\ \/ /\ goal.lineage
        /\ \E p \in Passes : Free(p)
        /\ due' = due \cup {<<"generate", APass>>}
        /\ goal' = g
     \/ /\ goal' \in {g, AtStage(g, "DELIVERY_SOFT_PAUSE"), Pauses(g)}
        /\ UNCHANGED due
  /\ UNCHANGED <<profile, crowded, busy, round, plan, task, expiring>>

\* A person pauses the goal.  Generation requests that are queued are marked
\* failed, which the dispatcher claims again like any other: they stay due.
Pause ==
  /\ Uses("acts")
  /\ goal.status \notin Terminal
  /\ goal' = Pauses(goal)
  /\ UNCHANGED <<profile, crowded, due, busy, round, plan, task, expiring>>

\* Other goals come and go.
Crowd ==
  /\ crowded' = ~crowded
  /\ IF crowded THEN UNCHANGED left ELSE Uses("others")
  /\ UNCHANGED <<profile, goal, due, busy, round, plan, task, expiring>>

\* The watchdog takes the forty active goals whose last transition is the
\* oldest, those that are paused among them, and leaves those out only then,
\* with those that wait for an approval.  Its transaction reads the metadata
\* and writes it back, which is one step here.
Stale == /\ goal.status = "ACTIVE"
         /\ ~crowded
         /\ ~Paused(goal)
         /\ \A t \in Tasks : task[t].status # "OPEN"

\* It asks for another execution, under a key of its own ...
WatchNudges ==
  /\ Stale
  /\ Uses("nudges")
  /\ \E p \in Passes : Free(p)
  /\ due' = due \cup {<<"execute", APass>>}
  /\ round' = [round EXCEPT ![APass] = "NONE"]
  /\ plan' = [plan EXCEPT ![APass] = "NONE"]
  /\ UNCHANGED <<profile, crowded, goal, busy, task, expiring>>

BadWatchPauses == Stale /\ left.nudges = 0 /\ UNCHANGED vars   \* gives up without a pause

\* ... and once it has done so often enough, pauses the goal.
WatchPauses ==
  /\ Stale
  /\ left.nudges = 0
  /\ goal' = Pauses(goal)
  /\ UNCHANGED <<profile, crowded, due, busy, round, plan, task, expiring, left>>

\* Handlers that call a model, a sandbox or a deployment may fail until
\* their attempts are used up; the event is then a dead letter.
DeadLetter(e) ==
  /\ Uses("faults")
  /\ e[1] \in {"discover", "require", "generate", "depend", "build", "released", "review"}
  /\ e \in due
  /\ due' = due \ {e}
  /\ busy' = Left(e)
  /\ UNCHANGED <<profile, crowded, goal, round, plan, task, expiring>>

\* The worker dies inside a handler; its event is claimed again.
Dies(b) ==
  /\ Uses("faults")
  /\ busy' = busy \ {b}
  /\ UNCHANGED <<profile, crowded, goal, due, round, plan, task, expiring>>

-----------------------------------------------------------------------------

Init ==
  /\ profile \in {r \in [direct : BOOLEAN, hard : BOOLEAN, auto : BOOLEAN] :
                    (r.direct => ~r.hard) /\ (r.hard \/ r.auto)}
  /\ crowded = FALSE
  /\ goal = [status |-> "ACTIVE", stage |-> "WORKING", paused |-> FALSE, lineage |-> FALSE,
             crossed |-> FALSE, verified |-> FALSE, approved |-> FALSE]
  /\ due = {<<"execute", CHOOSE p \in Passes : TRUE>>}
  /\ busy = {} /\ expiring = {}
  /\ round = [p \in Passes |-> "NONE"]
  /\ plan = [p \in Passes |-> "NONE"]
  /\ task = [t \in Tasks |-> [status |-> "NONE", kind |-> "release", pass |-> CHOOSE p \in Passes : TRUE]]
  /\ left \in Budgets

Handle(p) ==
  \/ Execute(p) \/ Discover(p) \/ Selected(p) \/ Undecided(p) \/ Require(p) \/ Resolve(p)
  \/ Satisfied(p) \/ GenerateBegins(p) \/ GenerateEnds(p) \/ Snapshot(p) \/ Depend(p) \/ Build(p)
  \/ DeployBegins(p) \/ DeployAsks(p) \/ DeployApproves(p) \/ DeployEnds(p)
  \/ Released(p) \/ Refused(p)
  \/ ReviewFails(p) \/ ReviewShows(p) \/ ReviewRaises(p) \/ ReviewConcludes(p)

HandleAnswer(t) == AcceptBegins(t) \/ AcceptEnds(t) \/ Reject(t)

Dispatch == (\E p \in Passes : Handle(p)) \/ (\E t \in Tasks : HandleAnswer(t))

Timeouts == TimeoutReads \/ TimeoutWrites

Watchdog == WatchNudges \/ WatchPauses

Next ==
  \/ Dispatch
  \/ Timeouts
  \/ Watchdog
  \/ \E t \in Tasks : Answer(t)
  \/ Direct \/ Pause \/ Crowd
  \/ \E e \in due : DeadLetter(e)
  \/ \E b \in busy : Dies(b)

\* The worker's loop keeps claiming events, applying timeouts and
\* scanning for goals on which nothing moves; whether the scan reaches this
\* goal is its guard.  Nothing is assumed of people, other goals, deaths and
\* dead letters.
Fairness ==
  /\ WF_vars(Dispatch)
  /\ WF_vars(Timeouts)
  /\ WF_vars(Watchdog)

Spec == Init /\ [][Next]_vars /\ Fairness

-----------------------------------------------------------------------------

\* Nobody's silence achieves a goal: it is achieved by a verified preview or
\* by the approval of a person, never by a timeout or by a preview that only
\* looks right.
AchievedIsAccepted == goal.status = "ACHIEVED" => goal.verified \/ goal.approved

\* An achieved goal is not taken up again by what is still under way for it:
\* a late refusal, a halted pass, a direction or a nudge.  Only a workspace found
\* not to be compliant fails it.
AchievedStays ==
  [][goal.status = "ACHIEVED" =>
       \/ goal'.status = "ACHIEVED"
       \/ goal'.status = "FAILED" /\ \E p \in Passes : <<"snapshot", p>> \in due]_vars

\* No goal is left active with nobody acting on it: whatever is lost on the
\* way, it ends, or it is paused, or it waits for a person, unless goals that
\* have waited longer, which may be paused ones, keep it out of the watchdog's
\* scans again and again.
Settles ==
  <>[]~crowded =>
    <>[](\/ goal.status # "ACTIVE" \/ Paused(goal)
         \/ \E t \in Tasks : task[t].status = "OPEN")

\* A person's approval of a preview ends the goal, also across a death of the
\* worker between its two transitions, unless another handler parks the goal
\* again between them.
ApprovalIsActedOn == goal.approved ~> (goal.status \in Terminal \/ goal.crossed)
=============================================================================
