---------------------------- MODULE DeliveryProofs ----------------------------
(***************************************************************************)
(* Proofs about the delivery of a goal, for any number of passes, tasks    *)
(* and handlers, and for every budget.                                     *)
(***************************************************************************)
EXTENDS Delivery, TLAPS

-------------------------------------------------------------------------------
(* What becomes of the goal *)

\* h is as much achieved as g, and for the same reason.
SameEnd(g, h) ==
  /\ h \in Goals
  /\ h.status = "ACHIEVED" <=> g.status = "ACHIEVED"
  /\ h.verified = g.verified /\ h.approved = g.approved

LEMMA GoalFacts ==
  ASSUME NEW g \in Goals
  PROVE  /\ SameEnd(g, g) /\ SameEnd(g, Waits(g)) /\ SameEnd(g, Resumes(g))
         /\ \A s \in Stages : AtStage(g, s) \in Goals /\ SameEnd(g, AtStage(g, s))
         /\ SameEnd(g, Halts(g)) /\ SameEnd(g, Pauses(g))
<1>1. ASSUME NEW s \in Stages
      PROVE  AtStage(g, s) \in Goals /\ SameEnd(g, AtStage(g, s))
  BY DEF AtStage, SameEnd, Goals
<1>2. ASSUME NEW h \in Goals PROVE SameEnd(h, Waits(h)) /\ SameEnd(h, Resumes(h))
  <2> DEFINE c == h.crossed \/ Resuming
  <2>1. c \in BOOLEAN
    OBVIOUS
  <2>2. Waits(h) = IF h.status = "ACTIVE" THEN [h EXCEPT !.status = "WAITING_HUMAN", !.crossed = c] ELSE h
    BY DEF Waits
  <2> HIDE DEF c
  <2> QED
    BY <2>1, <2>2 DEF Resumes, SameEnd, Goals, Statuses
<1>3. SameEnd(g, Halts(g))
  <2>1. "DELIVERY_SOFT_PAUSE" \in Stages
    BY DEF Stages
  <2> QED
    BY <1>1, <1>2, <2>1 DEF Halts, SameEnd
<1>4. SameEnd(g, Pauses(g))
  BY DEF Pauses, AtStage, SameEnd, Goals, Stages
<1> QED
  BY <1>1, <1>2, <1>3, <1>4 DEF SameEnd

LEMMA RecoveredFacts ==
  ASSUME NEW g \in Goals, NEW h \in Recovered(g)
  PROVE  SameEnd(g, h)
<1>1. Pauses(g) \in Goals /\ SameEnd(g, Pauses(g))
  BY GoalFacts DEF SameEnd
<1>2. SameEnd(Pauses(g), Halts(Pauses(g)))
  BY <1>1, GoalFacts
<1> QED
  BY <1>1, <1>2, GoalFacts DEF Recovered, SameEnd

LEMMA WorkingFacts ==
  ASSUME NEW g \in Goals
  PROVE  /\ AtStage(g, "WORKING") \in Goals /\ SameEnd(g, AtStage(g, "WORKING"))
         /\ SameEnd(g, Waits(AtStage(g, "WORKING")))
         /\ \A h \in Recovered(AtStage(g, "WORKING")) : SameEnd(g, h)
<1>1. AtStage(g, "WORKING") \in Goals /\ SameEnd(g, AtStage(g, "WORKING"))
  BY GoalFacts DEF Stages
<1>2. /\ SameEnd(AtStage(g, "WORKING"), Waits(AtStage(g, "WORKING")))
      /\ \A h \in Recovered(AtStage(g, "WORKING")) : SameEnd(AtStage(g, "WORKING"), h)
  BY <1>1, GoalFacts, RecoveredFacts
<1> QED
  BY <1>1, <1>2 DEF SameEnd

-------------------------------------------------------------------------------
(* The inductive invariant *)

\* An approval of task t is on its way, or being carried out.
Accepting(t) == <<"accept", t>> \in due \/ At(<<"accept", t>>, "resumed")

\* Whatever carries out an approval, a person has approved.
AcceptedByPerson == \A t \in Tasks : Accepting(t) => goal.approved

AInv == goal \in Goals /\ AchievedIsAccepted /\ AcceptedByPerson

\* No approval appears.
NoNewAnswer ==
  /\ \A t \in Tasks : <<"accept", t>> \in due' => <<"accept", t>> \in due
  /\ \A t \in Tasks : At(<<"accept", t>>, "resumed")' => Accepting(t)

\* A step that ends nothing and takes up no approval.
Calm == SameEnd(goal, goal') /\ NoNewAnswer

LEMMA CalmKeeps ==
  ASSUME AInv, Calm
  PROVE  AInv'
<1>1. goal' \in Goals /\ AchievedIsAccepted'
  BY DEF AInv, Calm, SameEnd, AchievedIsAccepted
<1>2. AcceptedByPerson'
  <2> SUFFICES ASSUME NEW t \in Tasks, Accepting(t)' PROVE goal'.approved
    BY DEF AcceptedByPerson
  <2>1. Accepting(t)
    BY DEF Accepting, Calm, NoNewAnswer
  <2> QED
    BY <2>1 DEF AInv, AcceptedByPerson, Calm, SameEnd
<1> QED
  BY <1>1, <1>2 DEF AInv

\* A handler that has had its effect emits no approval ...
LEMMA HandledFacts ==
  ASSUME NEW e, NEW new, Handled(e, new) \/ Acked(e, new),
         \A t \in Tasks : <<"accept", t>> \notin new
  PROVE  \A t \in Tasks : <<"accept", t>> \in due' => <<"accept", t>> \in due
BY DEF Handled, Acked

\* ... and leaves its slot, or none.
LEMMA NoAnswer ==
  ASSUME \A t \in Tasks : <<"accept", t>> \in due' => <<"accept", t>> \in due,
         busy' \subseteq busy
  PROVE  NoNewAnswer
BY DEF NoNewAnswer, Accepting, At

LEMMA EmitsCalm ==
  ASSUME AInv, NEW e, NEW new, Emits(e, new), \A t \in Tasks : <<"accept", t>> \notin new
  PROVE  Calm
<1>1. Handled(e, new) /\ goal' = goal /\ busy' = busy
  BY DEF Emits
<1>2. NoNewAnswer
  BY <1>1, HandledFacts, NoAnswer
<1> QED
  BY <1>1, <1>2, GoalFacts DEF Calm, AInv

LEMMA DropsCalm ==
  ASSUME AInv, NEW e, Drops(e)
  PROVE  Calm
BY EmitsCalm DEF Drops

\* The handler of a pass goes to a slot, which no approval does.
LEMMA EntersCalm ==
  ASSUME AInv, NEW p, NEW step \in PassSteps, NEW place, Enters(<<step, p>>, place), UNCHANGED goal
  PROVE  Calm
<1>1. \A t \in Tasks : <<"accept", t>> # <<step, p>>
  BY DEF PassSteps
<1>2. NoNewAnswer
  BY <1>1 DEF Enters, Occupies, Left, NoNewAnswer, Accepting, At
<1> QED
  BY <1>2, GoalFacts DEF Calm, AInv

\* A handler that writes the goal.
LEMMA WritesCalm ==
  ASSUME AInv, NEW e, NEW new, Handled(e, new) \/ Acked(e, new),
         \A t \in Tasks : <<"accept", t>> \notin new,
         busy' \subseteq busy, SameEnd(goal, goal')
  PROVE  Calm
BY HandledFacts, NoAnswer DEF Calm

-------------------------------------------------------------------------------
(* The handlers of a pass *)

LEMMA EarlySteps ==
  ASSUME AInv, NEW p \in Passes,
         \/ Execute(p) \/ Discover(p) \/ Selected(p) \/ Undecided(p) \/ Require(p) \/ Resolve(p)
         \/ Satisfied(p)
  PROVE  Calm
<1>0. /\ goal \in Goals /\ SameEnd(goal, goal) /\ SameEnd(goal, Halts(goal))
      /\ SameEnd(goal, AtStage(goal, "WORKING"))
  BY GoalFacts, WorkingFacts DEF AInv
<1>1. CASE Execute(p)
  <2>1. \/ Drops(<<"execute", p>>)
        \/ Emits(<<"execute", p>>, {<<"generate", p>>})
        \/ Handled(<<"execute", p>>, {<<"discover", p>>}) /\ UNCHANGED <<goal, busy>>
    BY <1>1 DEF Execute
  <2>2. ASSUME Handled(<<"execute", p>>, {<<"discover", p>>}), UNCHANGED <<goal, busy>>
        PROVE  Calm
    BY <1>0, <2>2, WritesCalm
  <2> QED
    BY <2>1, <2>2, DropsCalm, EmitsCalm
<1>2. CASE Discover(p)
  <2>1. CASE Drops(<<"discover", p>>)
    BY <2>1, DropsCalm
  <2>2. ASSUME NEW outcome \in {"selected", "undecided"},
               Handled(<<"discover", p>>, {<<outcome, p>>}), UNCHANGED <<goal, busy>>
        PROVE  Calm
    BY <1>0, <2>2, WritesCalm
  <2>3. CASE UNCHANGED <<goal, busy, due>>
    BY <1>0, <2>3, NoAnswer DEF Calm
  <2> QED
    BY <1>2, <2>1, <2>2, <2>3 DEF Discover
<1>3. CASE Selected(p) \/ Satisfied(p)
  BY <1>3, EmitsCalm DEF Selected, Satisfied
<1>4. CASE Undecided(p)
  <2>1. \/ Acked(<<"undecided", p>>, {<<"discover", p>>}) /\ goal' = AtStage(goal, "WORKING")
        \/ Handled(<<"undecided", p>>, {}) /\ goal' = Halts(goal)
    BY <1>4 DEF Undecided, ResearchesMore
  <2>2. busy' = busy
    BY <1>4 DEF Undecided
  <2> QED
    BY <1>0, <2>1, <2>2, WritesCalm
<1>5. CASE Require(p)
  <2>1. Handled(<<"require", p>>, {<<"resolve", p>>}) /\ UNCHANGED <<goal, busy>>
    BY <1>5 DEF Require
  <2> QED
    BY <1>0, <2>1, WritesCalm
<1>6. CASE Resolve(p)
  <2> DEFINE e == <<"resolve", p>>
             g(status) == [goal EXCEPT !.lineage = TRUE,
                                       !.stage = IF status = "SATISFIED" THEN @ ELSE "WORKING"]
  <2>1. \A status \in {"SATISFIED", "WAITING_HUMAN"} : SameEnd(goal, g(status))
    BY <1>0 DEF SameEnd, Goals, Stages
  <2>2. \/ Emits(e, {<<"satisfied", p>>}) \/ Drops(e)
        \/ goal' = g("SATISFIED") /\ busy' = busy /\ Handled(e, {<<"satisfied", p>>})
        \/ goal' = g("WAITING_HUMAN") /\ busy' = busy /\ Handled(e, {})
    BY <1>6 DEF Resolve
  <2> HIDE DEF g
  <2>3. ASSUME goal' = g("SATISFIED"), busy' = busy, Handled(e, {<<"satisfied", p>>})
        PROVE  Calm
    BY <2>1, <2>3, WritesCalm
  <2>4. ASSUME goal' = g("WAITING_HUMAN"), busy' = busy, Handled(e, {})
        PROVE  Calm
    BY <2>1, <2>4, WritesCalm
  <2> QED
    BY <2>2, <2>3, <2>4, DropsCalm, EmitsCalm
<1> QED
  BY <1>1, <1>2, <1>3, <1>4, <1>5, <1>6

\* Generation and build; only a workspace that is not compliant fails the goal.
LEMMA MiddleSteps ==
  ASSUME AInv, NEW p \in Passes,
         GenerateBegins(p) \/ GenerateEnds(p) \/ Depend(p) \/ Build(p)
  PROVE  Calm
<1>0. /\ goal \in Goals /\ SameEnd(goal, goal)
      /\ \A h \in Recovered(goal) : SameEnd(goal, h)
      /\ \A h \in Recovered(AtStage(goal, "WORKING")) : SameEnd(goal, h)
  BY GoalFacts, WorkingFacts, RecoveredFacts DEF AInv
<1>1. CASE GenerateBegins(p)
  BY <1>1, DropsCalm, EntersCalm DEF GenerateBegins, PassSteps
<1>2. CASE GenerateEnds(p)
  <2> DEFINE g == [AtStage(goal, "WORKING") EXCEPT !.paused = FALSE]
             new == IF profile.direct THEN {} ELSE {<<"snapshot", p>>}
  <2>1. SameEnd(goal, g)
    BY <1>0 DEF AtStage, SameEnd, Goals, Stages
  <2>2. \A t \in Tasks : <<"accept", t>> \notin new
    OBVIOUS
  <2>3. busy' \subseteq busy
    BY <1>2 DEF GenerateEnds, Left
  <2>4. \/ goal' = g /\ Handled(<<"generate", p>>, new)
        \/ goal' \in {goal} \union Recovered(goal) /\ Handled(<<"generate", p>>, {})
    BY <1>2 DEF GenerateEnds
  <2> HIDE DEF g, new
  <2> QED
    BY <1>0, <2>1, <2>2, <2>3, <2>4, WritesCalm
<1>3. CASE Depend(p)
  BY <1>3, EmitsCalm DEF Depend
<1>4. CASE Build(p)
  <2>1. \/ Emits(<<"build", p>>, {<<"deploy", p>>})
        \/ /\ Handled(<<"build", p>>, {}) /\ goal' \in Recovered(AtStage(goal, "WORKING"))
           /\ busy' = busy
    BY <1>4 DEF Build
  <2>2. \A t \in Tasks : <<"accept", t>> \notin {<<"deploy", p>>}
    OBVIOUS
  <2> QED
    BY <1>0, <2>1, <2>2, EmitsCalm, WritesCalm
<1> QED
  BY <1>1, <1>2, <1>3, <1>4

LEMMA SnapshotStep ==
  ASSUME AInv, NEW p \in Passes, Snapshot(p)
  PROVE  \/ Calm
         \/ /\ <<"snapshot", p>> \in due /\ NoNewAnswer
            /\ goal' \in Goals /\ goal'.status = "FAILED" /\ goal'.approved = goal.approved
<1>1. CASE Emits(<<"snapshot", p>>, {<<"depend", p>>})
  BY <1>1, EmitsCalm
<1>2. CASE /\ Handled(<<"snapshot", p>>, {}) /\ busy' = busy
           /\ goal' = [AtStage(goal, "WORKING") EXCEPT !.status = "FAILED"]
  <2>1. NoNewAnswer
    BY <1>2, HandledFacts, NoAnswer
  <2>2. <<"snapshot", p>> \in due
    BY DEF Snapshot, Ready
  <2>3. AtStage(goal, "WORKING") \in Goals /\ AtStage(goal, "WORKING").approved = goal.approved
    BY WorkingFacts DEF AInv, SameEnd
  <2> HIDE DEF AtStage
  <2> QED
    BY <1>2, <2>1, <2>2, <2>3 DEF Goals, Statuses
<1> QED
  BY <1>1, <1>2 DEF Snapshot

LEMMA DeploySteps ==
  ASSUME AInv, NEW p \in Passes,
         DeployBegins(p) \/ DeployAsks(p) \/ DeployApproves(p) \/ DeployEnds(p)
  PROVE  Calm
<1> DEFINE e == <<"deploy", p>>
<1>0. /\ goal \in Goals /\ SameEnd(goal, goal) /\ SameEnd(goal, Halts(goal))
      /\ SameEnd(goal, Waits(AtStage(goal, "WORKING")))
      /\ \A h \in Recovered(AtStage(goal, "WORKING")) : SameEnd(goal, h)
  BY GoalFacts, WorkingFacts DEF AInv
<1>1. \A t \in Tasks : <<"accept", t>> # e
  OBVIOUS
<1>2. CASE DeployBegins(p)
  <2>1. Occupies(e, "asked") /\ goal' = goal
    BY <1>2 DEF DeployBegins
  <2>2. NoNewAnswer
    BY <1>1, <2>1 DEF Occupies, Left, NoNewAnswer, Accepting, At
  <2> QED
    BY <1>0, <2>1, <2>2 DEF Calm
<1>3. CASE DeployAsks(p)
  <2>1. Handled(e, {}) /\ busy' \subseteq busy
    BY <1>3 DEF DeployAsks, Left
  <2>2. SameEnd(goal, goal')
    BY <1>0, <1>3 DEF DeployAsks
  <2> QED
    BY <2>1, <2>2, WritesCalm
<1>4. CASE DeployApproves(p)
  <2>1. /\ goal' = goal
        /\ due' = due \cup {<<"released", p>>} \/ due' = due \ {e}
        /\ busy' \subseteq busy \cup {[event |-> e, place |-> "approved"]}
    BY <1>4 DEF DeployApproves, Left
  <2>2. NoNewAnswer
    BY <1>1, <2>1 DEF NoNewAnswer, Accepting, At
  <2> QED
    BY <1>0, <2>1, <2>2 DEF Calm
<1>5. CASE DeployEnds(p)
  <2>1. busy' \subseteq busy
    BY <1>5 DEF DeployEnds, Left
  <2>2. \/ Handled(e, {<<"review", p>>}) /\ goal' = goal
        \/ Handled(e, {}) /\ goal' \in Recovered(AtStage(goal, "WORKING"))
        \/ Handled(e, {}) /\ goal' = goal
    BY <1>5 DEF DeployEnds, Deployed
  <2>3. \A t \in Tasks : <<"accept", t>> \notin {<<"review", p>>}
    OBVIOUS
  <2> QED
    BY <1>0, <2>1, <2>2, <2>3, WritesCalm
<1> QED
  BY <1>2, <1>3, <1>4, <1>5

LEMMA LateSteps ==
  ASSUME AInv, NEW p \in Passes,
         Released(p) \/ Refused(p) \/ ReviewFails(p) \/ ReviewShows(p) \/ ReviewRaises(p)
  PROVE  Calm
<1>0. /\ goal \in Goals /\ SameEnd(goal, goal) /\ SameEnd(goal, Halts(goal))
      /\ SameEnd(goal, AtStage(goal, "WORKING"))
      /\ \A h \in Recovered(AtStage(goal, "WORKING")) : SameEnd(goal, h)
  BY GoalFacts, WorkingFacts DEF AInv
<1>1. CASE Released(p)
  <2>1. CASE Deployed(<<"released", p>>, p) /\ busy' = busy
    <3>1. \/ Handled(<<"released", p>>, {<<"review", p>>}) /\ goal' = goal
          \/ Handled(<<"released", p>>, {}) /\ goal' \in Recovered(AtStage(goal, "WORKING"))
      BY <2>1 DEF Deployed
    <3>2. \A t \in Tasks : <<"accept", t>> \notin {<<"review", p>>}
      OBVIOUS
    <3> QED
      BY <1>0, <2>1, <3>1, <3>2, WritesCalm
  <2> QED
    BY <1>1, <2>1, DropsCalm DEF Released
<1>2. CASE Refused(p)
  <2>1. Handled(<<"refused", p>>, {}) /\ goal' = Halts(goal) /\ busy' = busy
    BY <1>2 DEF Refused
  <2> QED
    BY <1>0, <2>1, WritesCalm
<1>3. CASE ReviewFails(p) \/ ReviewShows(p)
  <2>1. /\ Handled(<<"review", p>>, {}) /\ busy' = busy
        /\ goal' = AtStage(goal, "WORKING") \/ goal' \in Recovered(AtStage(goal, "WORKING"))
    BY <1>3 DEF ReviewFails, ReviewShows
  <2> QED
    BY <1>0, <2>1, WritesCalm
<1>4. CASE ReviewRaises(p)
  <2>1. goal' = goal /\ busy' = busy /\ due' \subseteq due
    BY <1>4 DEF ReviewRaises
  <2> QED
    BY <1>0, <2>1, NoAnswer DEF Calm
<1> QED
  BY <1>1, <1>2, <1>3, <1>4

-------------------------------------------------------------------------------
(* Ends and answers *)

\* The goal is achieved, by a review or by a person.
Ends(byPerson) ==
  /\ goal.status = "ACTIVE" /\ goal' \in Goals /\ goal'.status = "ACHIEVED"
  /\ goal'.verified = ~byPerson /\ goal'.approved = goal.approved
  /\ NoNewAnswer

LEMMA AchievesEnds ==
  ASSUME AInv, NEW e, NEW byPerson \in BOOLEAN, Achieves(e, byPerson), busy' \subseteq busy
  PROVE  Calm \/ Ends(byPerson)
<1>1. Handled(e, {})
  BY DEF Achieves
<1>2. CASE goal.status # "ACTIVE"
  <2>1. goal' = goal \/ goal' = AtStage(goal, "WORKING")
    BY <1>2 DEF Achieves
  <2>2. SameEnd(goal, goal')
    BY <2>1, GoalFacts, WorkingFacts DEF AInv
  <2> QED
    BY <1>1, <2>2, WritesCalm
<1>3. CASE goal.status = "ACTIVE"
  <2>1. NoNewAnswer
    BY <1>1, HandledFacts, NoAnswer
  <2>2. AtStage(goal, "WORKING") \in Goals /\ AtStage(goal, "WORKING").approved = goal.approved
    BY WorkingFacts DEF AInv, SameEnd
  <2> DEFINE v == ~byPerson
  <2>3. goal' = [AtStage(goal, "WORKING") EXCEPT !.status = "ACHIEVED", !.verified = v]
    BY <1>3 DEF Achieves
  <2>4. v \in BOOLEAN
    OBVIOUS
  <2> HIDE DEF AtStage, v
  <2>5. /\ goal' \in Goals /\ goal'.status = "ACHIEVED" /\ goal'.verified = v
        /\ goal'.approved = goal.approved
    BY <2>2, <2>3, <2>4 DEF Goals, Statuses
  <2> QED
    BY <1>3, <2>1, <2>5 DEF Ends, v
<1> QED
  BY <1>2, <1>3

LEMMA ConcludeStep ==
  ASSUME AInv, NEW p \in Passes, ReviewConcludes(p)
  PROVE  Calm \/ Ends(FALSE)
<1> DEFINE e == <<"review", p>>
<1>0. /\ goal \in Goals /\ SameEnd(goal, AtStage(goal, "WORKING"))
      /\ SameEnd(goal, Waits(AtStage(goal, "WORKING")))
  BY WorkingFacts DEF AInv
<1>1. busy' = busy
  BY DEF ReviewConcludes
<1>2. CASE GoesOn(e, p)
  <2>1. Acked(e, {<<"discover", p>>}) /\ goal' = AtStage(goal, "WORKING")
    BY <1>2 DEF GoesOn
  <2>2. \A t \in Tasks : <<"accept", t>> \notin {<<"discover", p>>}
    OBVIOUS
  <2>3. busy' \subseteq busy /\ SameEnd(goal, goal')
    BY <1>0, <1>1, <2>1
  <2> HIDE DEF e
  <2> QED
    BY <2>1, <2>2, <2>3, WritesCalm
<1>3. CASE StaysUnverified(e) \/ DeliversForReview(e, p)
  <2>1. Handled(e, {}) /\ goal' = Waits(AtStage(goal, "WORKING"))
    BY <1>3 DEF StaysUnverified, DeliversForReview
  <2>2. busy' \subseteq busy /\ SameEnd(goal, goal')
    BY <1>0, <1>1, <2>1
  <2>3. \A t \in Tasks : <<"accept", t>> \notin {}
    OBVIOUS
  <2> HIDE DEF e
  <2>4. Calm
    BY <2>1, <2>2, <2>3, WritesCalm
  <2> QED
    BY <2>4
<1>4. CASE Achieves(e, FALSE)
  <2>1. busy' \subseteq busy /\ FALSE \in BOOLEAN
    BY <1>1
  <2> HIDE DEF e
  <2> QED
    BY <1>4, <2>1, AchievesEnds
<1> QED
  BY <1>2, <1>3, <1>4 DEF ReviewConcludes

\* An approval is carried out only where there is one.
LEMMA AcceptStep ==
  ASSUME AInv, NEW t \in Tasks, AcceptBegins(t) \/ AcceptEnds(t)
  PROVE  Calm \/ (Ends(TRUE) /\ goal.approved)
<1> DEFINE e == <<"accept", t>>
<1>0. goal \in Goals /\ SameEnd(goal, goal) /\ SameEnd(goal, Resumes(goal))
  BY GoalFacts DEF AInv
<1>1. Accepting(t)
  BY DEF AcceptBegins, AcceptEnds, Ready, Accepting
<1>2. goal.approved
  BY <1>1 DEF AInv, AcceptedByPerson
<1>3. CASE AcceptBegins(t)
  <2>1. \/ Drops(e)
        \/ Achieves(e, TRUE) /\ busy' = busy
        \/ Enters(e, "resumed") /\ goal' = Resumes(goal)
    BY <1>0, <1>3 DEF AcceptBegins, Goals, Statuses, Terminal
  <2>2. ASSUME Enters(e, "resumed"), goal' = Resumes(goal)
        PROVE  Calm
    <3>1. e \in due
      BY <1>3 DEF AcceptBegins, Ready
    <3>2. NoNewAnswer
      BY <2>2, <3>1 DEF Enters, Occupies, Left, NoNewAnswer, Accepting, At
    <3> QED
      BY <1>0, <2>2, <3>2 DEF Calm
  <2> QED
    BY <1>2, <2>1, <2>2, DropsCalm, AchievesEnds
<1>4. CASE AcceptEnds(t)
  <2>1. busy' \subseteq busy
    BY <1>4 DEF AcceptEnds, Left
  <2>2. CASE Achieves(e, TRUE)
    BY <1>2, <2>1, <2>2, AchievesEnds
  <2>3. CASE UNCHANGED <<goal, due>>
    BY <1>0, <2>1, <2>3, NoAnswer DEF Calm
  <2> QED
    BY <1>4, <2>2, <2>3 DEF AcceptEnds
<1> QED
  BY <1>3, <1>4

LEMMA RejectStep ==
  ASSUME AInv, NEW t \in Tasks, Reject(t)
  PROVE  Calm
<1>1. SameEnd(goal, Waits(AtStage(goal, "WORKING")))
  BY WorkingFacts DEF AInv
<1>2. CASE Drops(<<"reject", t>>)
  BY <1>2, DropsCalm
<1>3. CASE /\ Handled(<<"reject", t>>, {}) /\ goal' = Waits(AtStage(goal, "WORKING"))
           /\ busy' = busy
  BY <1>1, <1>3, WritesCalm
<1> QED
  BY <1>2, <1>3 DEF Reject

\* A person answers: an approval of a preview is remembered with its event.
Answered ==
  /\ goal' \in Goals /\ (goal'.status = "ACHIEVED" <=> goal.status = "ACHIEVED")
  /\ goal'.verified = goal.verified /\ (goal.approved => goal'.approved)
  /\ \A t \in Tasks : Accepting(t)' => Accepting(t) \/ goal'.approved

LEMMA AnswerStep ==
  ASSUME AInv, NEW t \in Tasks, Answer(t)
  PROVE  Answered
<1>1. PICK yes \in BOOLEAN :
        LET g == [goal EXCEPT !.approved = @ \/ (yes /\ task[t].kind = "quality")]
        IN /\ due' = due \cup {Told(t, yes)}
           /\ goal' \in {g} \cup (IF yes THEN {Resumes(g)} ELSE {})
  BY DEF Answer
<1> DEFINE a == goal.approved \/ (yes /\ task[t].kind = "quality")
           g == [goal EXCEPT !.approved = a]
<1>2. /\ goal \in Goals /\ a \in BOOLEAN
      /\ goal.approved => a
      /\ yes /\ task[t].kind = "quality" => a
  BY DEF AInv
<1>3. goal' \in {g, Resumes(g)}
  BY <1>1
<1> HIDE DEF a
<1>4. /\ g \in Goals /\ g.status = goal.status /\ g.verified = goal.verified /\ g.approved = a
  BY <1>2 DEF Goals
<1> HIDE DEF g
<1>5. goal' \in Goals /\ SameEnd(g, goal')
  BY <1>3, <1>4, GoalFacts DEF SameEnd
<1>6. \A u \in Tasks : <<"accept", u>> = Told(t, yes) => yes /\ task[t].kind = "quality"
  BY DEF Told
<1>7. due' = due \cup {Told(t, yes)} /\ busy' = busy
  BY <1>1 DEF Answer
<1>8. goal'.approved = a
  BY <1>4, <1>5 DEF SameEnd
<1>9. ASSUME NEW u \in Tasks, Accepting(u)' PROVE Accepting(u) \/ goal'.approved
  <2>1. CASE <<"accept", u>> \in due'
    <3>1. <<"accept", u>> \in due \/ <<"accept", u>> = Told(t, yes)
      BY <1>7, <2>1
    <3> QED
      BY <1>2, <1>6, <1>8, <3>1 DEF Accepting
  <2>2. CASE At(<<"accept", u>>, "resumed")'
    BY <1>7, <2>2 DEF Accepting, At
  <2> QED
    BY <1>9, <2>1, <2>2 DEF Accepting
<1> QED
  BY <1>2, <1>4, <1>5, <1>8, <1>9 DEF Answered, SameEnd

\* Silence is told as a refusal.
LEMMA TimeSteps ==
  ASSUME AInv, Timeouts
  PROVE  Calm
<1>1. goal' = goal /\ busy' = busy /\ SameEnd(goal, goal)
  BY GoalFacts DEF AInv, Timeouts, TimeoutReads, TimeoutWrites
<1>2. \A t : \A u \in Tasks : Told(t, FALSE) # <<"accept", u>>
  BY DEF Told
<1>3. CASE TimeoutReads
  <2>1. \A u \in Tasks : <<"accept", u>> \in due' => <<"accept", u>> \in due
    BY <1>3 DEF TimeoutReads
  <2> QED
    BY <1>1, <2>1, NoAnswer DEF Calm
<1>4. CASE TimeoutWrites
  <2>1. due' = due \cup {Told(t, FALSE) : t \in expiring}
    BY <1>4 DEF TimeoutWrites
  <2>2. \A u \in Tasks : <<"accept", u>> \in due' => <<"accept", u>> \in due
    BY <1>2, <2>1
  <2> QED
    BY <1>1, <2>2, NoAnswer DEF Calm
<1> QED
  BY <1>3, <1>4 DEF Timeouts

\* Directions, pauses, the watchdog and what is lost.
LEMMA OtherSteps ==
  ASSUME AInv,
         \/ Direct \/ Pause \/ Crowd \/ Watchdog
         \/ \E e \in due : DeadLetter(e)
         \/ \E b \in busy : Dies(b)
  PROVE  Calm
<1>0. /\ goal \in Goals /\ SameEnd(goal, goal) /\ SameEnd(goal, Pauses(goal))
      /\ SameEnd(goal, AtStage(goal, "WORKING"))
  BY GoalFacts, WorkingFacts DEF AInv
<1>1. CASE Direct
  <2> DEFINE g == [Resumes(AtStage(goal, "WORKING")) EXCEPT !.paused = FALSE]
  <2>1. /\ goal' \in {g, AtStage(g, "DELIVERY_SOFT_PAUSE"), Pauses(g)}
        /\ due' = due \cup {<<"generate", APass>>} \/ due' = due
        /\ busy' = busy
    BY <1>1 DEF Direct
  <2>2. Resumes(AtStage(goal, "WORKING")) \in Goals /\ SameEnd(goal, Resumes(AtStage(goal, "WORKING")))
    <3>1. AtStage(goal, "WORKING") \in Goals
      BY <1>0 DEF SameEnd
    <3> QED
      BY <1>0, <3>1, GoalFacts DEF SameEnd
  <2>3. g \in Goals /\ SameEnd(goal, g)
    <3> HIDE DEF Resumes, AtStage
    <3> QED
      BY <2>2 DEF SameEnd, Goals
  <2> HIDE DEF g
  <2>4. SameEnd(goal, AtStage(g, "DELIVERY_SOFT_PAUSE")) /\ SameEnd(goal, Pauses(g))
    <3>1. "DELIVERY_SOFT_PAUSE" \in Stages
      BY DEF Stages
    <3> QED
      BY <2>3, <3>1, GoalFacts DEF SameEnd
  <2>5. \A u \in Tasks : <<"accept", u>> \in due' => <<"accept", u>> \in due
    BY <2>1
  <2> QED
    BY <2>1, <2>3, <2>4, <2>5, NoAnswer DEF Calm
<1>2. CASE Pause \/ WatchPauses
  <2>1. goal' = Pauses(goal) /\ UNCHANGED <<due, busy>>
    BY <1>2 DEF Pause, WatchPauses
  <2> QED
    BY <1>0, <2>1, NoAnswer DEF Calm
<1>3. CASE WatchNudges
  <2>1. goal' = goal /\ busy' = busy /\ due' = due \cup {<<"execute", APass>>}
    BY <1>3 DEF WatchNudges
  <2>2. \A u \in Tasks : <<"accept", u>> \in due' => <<"accept", u>> \in due
    BY <2>1
  <2> QED
    BY <1>0, <2>1, <2>2, NoAnswer DEF Calm
<1>4. ASSUME NEW e \in due, DeadLetter(e)
      PROVE  Calm
  <2>1. goal' = goal /\ due' = due \ {e} /\ busy' \subseteq busy
    BY <1>4 DEF DeadLetter, Left
  <2> QED
    BY <1>0, <2>1, NoAnswer DEF Calm
<1>5. ASSUME NEW b \in busy, Dies(b)
      PROVE  Calm
  <2>1. goal' = goal /\ due' = due /\ busy' \subseteq busy
    BY <1>5 DEF Dies
  <2> QED
    BY <1>0, <2>1, NoAnswer DEF Calm
<1>6. CASE Crowd
  <2>1. UNCHANGED <<goal, due, busy>>
    BY <1>6 DEF Crowd
  <2> QED
    BY <1>0, <2>1, NoAnswer DEF Calm
<1> QED
  BY <1>1, <1>2, <1>3, <1>4, <1>5, <1>6 DEF Watchdog

-------------------------------------------------------------------------------
(* The theorems *)

\* Every step is of one of these kinds.
FoundNotCompliant ==
  /\ \E p \in Passes : <<"snapshot", p>> \in due
  /\ NoNewAnswer
  /\ goal' \in Goals /\ goal'.status = "FAILED" /\ goal'.approved = goal.approved

Kinds == Calm \/ Ends(FALSE) \/ (Ends(TRUE) /\ goal.approved) \/ FoundNotCompliant \/ Answered

LEMMA StepKinds == AInv /\ [Next]_vars => Kinds
<1> SUFFICES ASSUME AInv, [Next]_vars PROVE Kinds
  OBVIOUS
<1>1. ASSUME NEW p \in Passes, Handle(p)
      PROVE  Calm \/ Ends(FALSE) \/ FoundNotCompliant
  BY <1>1, EarlySteps, MiddleSteps, SnapshotStep, DeploySteps, LateSteps, ConcludeStep DEF Handle, FoundNotCompliant
<1>2. ASSUME NEW t \in Tasks, HandleAnswer(t)
      PROVE  Calm \/ (Ends(TRUE) /\ goal.approved)
  BY <1>2, AcceptStep, RejectStep DEF HandleAnswer
<1>3. ASSUME NEW t \in Tasks, Answer(t)
      PROVE  Answered
  BY <1>3, AnswerStep
<1>4. CASE \/ Timeouts \/ Direct \/ Pause \/ Crowd \/ Watchdog
           \/ (\E e \in due : DeadLetter(e)) \/ (\E b \in busy : Dies(b))
  BY <1>4, TimeSteps, OtherSteps DEF Kinds
<1>5. CASE UNCHANGED vars
  <2>1. UNCHANGED <<goal, due, busy>>
    BY <1>5 DEF vars
  <2> QED
    BY <2>1, GoalFacts, NoAnswer DEF Calm, AInv, Kinds
<1> QED
  BY <1>1, <1>2, <1>3, <1>4, <1>5 DEF Next, Dispatch, Kinds

LEMMA AInitial == Init => AInv
<1> SUFFICES ASSUME Init PROVE AInv
  OBVIOUS
<1>1. goal \in Goals /\ AchievedIsAccepted
  BY DEF Init, Goals, Statuses, Stages, AchievedIsAccepted
<1>2. AcceptedByPerson
  BY DEF Init, AcceptedByPerson, Accepting, At
<1> QED
  BY <1>1, <1>2 DEF AInv

LEMMA AStep == AInv /\ [Next]_vars => AInv'
<1> SUFFICES ASSUME AInv, [Next]_vars PROVE AInv'
  OBVIOUS
<1>1. CASE Calm
  BY <1>1, CalmKeeps
<1>2. ASSUME NoNewAnswer, goal'.approved = goal.approved
      PROVE  AcceptedByPerson'
  BY <1>2 DEF NoNewAnswer, AcceptedByPerson, Accepting, AInv
<1>3. CASE Ends(FALSE) \/ (Ends(TRUE) /\ goal.approved)
  BY <1>2, <1>3 DEF Ends, AInv, AchievedIsAccepted
<1>4. CASE FoundNotCompliant
  BY <1>2, <1>4 DEF FoundNotCompliant, AInv, AchievedIsAccepted
<1>5. CASE Answered
  <2>1. AcceptedByPerson'
    BY <1>5 DEF Answered, AcceptedByPerson, AInv
  <2> QED
    BY <1>5, <2>1 DEF Answered, AInv, AchievedIsAccepted
<1> QED
  BY <1>1, <1>3, <1>4, <1>5, StepKinds DEF Kinds

\* The inductive invariant holds in every reachable state.
THEOREM DeliveryInductive == Spec => []AInv
BY AInitial, AStep, PTL DEF Spec

\* A goal is achieved by a verified preview or by the approval of a person,
\* never by silence (human_task_service.py:271).
THEOREM AchievedByAcceptance == Spec => []AchievedIsAccepted
<1>1. AInv => AchievedIsAccepted
  BY DEF AInv
<1> QED
  BY <1>1, DeliveryInductive, PTL

\* An achieved goal is not taken up again, but a workspace found not to be
\* compliant fails it (execution_orchestrator.py:2432).
THEOREM AchievedForGood == Spec => AchievedStays
<1> DEFINE Stays == goal.status = "ACHIEVED" =>
              \/ goal'.status = "ACHIEVED"
              \/ goal'.status = "FAILED" /\ \E p \in Passes : <<"snapshot", p>> \in due
<1>1. AInv /\ [Next]_vars => [Stays]_vars
  <2> SUFFICES ASSUME AInv, [Next]_vars PROVE Stays
    OBVIOUS
  <2> QED
    BY StepKinds DEF Kinds, Calm, SameEnd, Ends, FoundNotCompliant, Answered
<1> HIDE DEF Stays
<1>2. Spec => [][Stays]_vars
  BY <1>1, DeliveryInductive, PTL DEF Spec
<1> QED
  BY <1>2 DEF AchievedStays, Stays
===============================================================================
