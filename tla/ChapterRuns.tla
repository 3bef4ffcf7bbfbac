----------------------------- MODULE ChapterRuns -----------------------------
(***************************************************************************)
(* One chapter run of the novel engine, from start_run to its last step:   *)
(* executions claim it and advance one step (works_advance.advance_step),  *)
(* the user pauses, resumes, grants budget, guides and decides             *)
(* (works_run_control, works_path, decisions), and a timer takes the       *)
(* default of a decision nobody takes.                                     *)
(*                                                                         *)
(* An execution locks the run, reads it into its session and commits       *)
(* before every model call, so between its calls nothing is locked and     *)
(* what it has read may be out of date.  Its session does not expire what  *)
(* it has read (expire_on_commit=False) and writes a column when the value *)
(* in memory changes, whatever the row holds by then; generation_context   *)
(* is one column.  A request of the user is a short transaction and one    *)
(* step here.                                                              *)
(*                                                                         *)
(* Operators named Bad... are mutated forms of the definition that follows *)
(* them; they are no part of the model.                                    *)
(***************************************************************************)
EXTENDS Integers, Sequences, FiniteSets

CONSTANTS
  Workers,     \* executions: background workers and /advance requests
  Decisions,   \* decisions the director may request in this chapter
  Order,       \* chapter_step_order of the chapter's executor
  MaxClaims,   \* bound of the model: claims of the run
  MaxChanges   \* bound of the model: input version the user drives the run to

ASSUME ChapterAssumption ==
  /\ Order \in Seq({"ASSEMBLE", "DIRECT", "PRODUCE", "REVIEW", "CANON"})
  /\ Len(Order) > 0
  /\ IsFiniteSet(Decisions)
  /\ MaxClaims \in Nat
  /\ MaxChanges \in Nat

VARIABLES
  work,      \* state of the work
  run,       \* the row of the chapter run
  steps,     \* its step rows
  decision,  \* the decision requests
  exec,      \* exec[w]: what an execution has in memory between two commits
  timer,     \* decisions sweep_expired_decisions has read as due
  refused    \* recover_novel_calls raises in every tick of the worker

vars == <<work, run, steps, decision, exec, timer, refused>>

-------------------------------------------------------------------------------
(* Types *)

Steps == {Order[i] : i \in 1 .. Len(Order)}

WorkStates ==
  {"RUNNING", "PENDING_DECISION", "PAUSED_QUOTA", "PAUSED_COST", "RECOMPUTING"}

RunStates ==
  {"QUEUED", "RUNNING", "PENDING_DECISION", "AWAITING_INPUT", "RETRYABLE_FAILED",
   "TERMINAL_FAILED", "CANONIZED"}

\* generation_context: the input version its draft was made for, the decisions
\* resolved and not consumed, whether a budget grant is in it, the budget_pause
Document ==
  [draft : Nat, answers : SUBSET Decisions, grant : BOOLEAN, pause : BOOLEAN]

\* owned: lease_owner is set; live: lease_expires_at is in the future
Run ==
  [state : RunStates, owned : BOOLEAN, live : BOOLEAN, token : Nat, input : Nat,
   auto : BOOLEAN, doc : Document]

Step == [state : {"PENDING", "RUNNING", "SUCCEEDED", "FAILED"}, attempt : Int]

Failures == {"error", "stopped", "calls", "cost"}

Idle == [at |-> "idle"]

Execution ==
  [at : {"calling", "failing"}, step : Steps, attempt : Int, token : Nat, input : Nat,
   state : RunStates, auto : BOOLEAN, doc : Document, failure : Failures \cup {"none"}]

TypeOK ==
  /\ work \in WorkStates
  /\ run \in Run
  /\ steps \in [Steps -> Step]
  /\ decision \in [Decisions -> {"none", "PENDING", "RESOLVED"}]
  /\ exec \in [Workers -> {Idle} \cup Execution]
  /\ timer \in SUBSET Decisions
  /\ refused \in BOOLEAN

-------------------------------------------------------------------------------
(* What an execution works on *)

Claimable == {"QUEUED", "RUNNING", "RETRYABLE_FAILED"}

\* the first step that has not succeeded
Unfinished(i) ==
  /\ steps[Order[i]].state # "SUCCEEDED"
  /\ \A j \in 1 .. i - 1 : steps[Order[j]].state = "SUCCEEDED"

BadLeaseLost(e) == ~(run.owned /\ run.live)  \* the owner is checked, not the token

LeaseLost(e) == ~(run.owned /\ run.live /\ run.token = e.token)

BadStale(e) == LeaseLost(e)  \* a change of direction is not noticed

\* _stale_reason, from the columns as they are in the database
Stale(e) == LeaseLost(e) \/ run.input # e.input

\* the value of a column after the session sets it: written only when it differs
\* from what the session has in memory
Put(new, memory, stored) == IF new # memory THEN new ELSE stored

Released(r) == [r EXCEPT !.owned = FALSE, !.live = FALSE]

BadClaimed(r) ==  \* the claim takes no token of its own
  [r EXCEPT !.owned = TRUE, !.live = TRUE, !.token = IF r.live THEN r.token ELSE r.token + 1,
            !.state = IF r.state = "QUEUED" THEN "RUNNING" ELSE r.state]

\* acquire_run_lease on the row in the database, by a claim
Claimed(r) ==
  [r EXCEPT !.owned = TRUE, !.live = TRUE, !.token = r.token + 1,
            !.state = IF r.state = "QUEUED" THEN "RUNNING" ELSE r.state]

Started(st, s) == [st EXCEPT ![s].state = "RUNNING", ![s].attempt = st[s].attempt + 1]

Memory(r, st, s) ==
  [at |-> "calling", step |-> s, attempt |-> st[s].attempt, token |-> r.token,
   input |-> r.input, state |-> r.state, auto |-> r.auto, doc |-> r.doc,
   failure |-> "none"]

\* the document with the result of a call in it
Drafted(e) == [e.doc EXCEPT !.draft = e.input]

Leave(w) == exec' = [exec EXCEPT ![w] = Idle]

\* what is written of an execution whose result is no longer wanted: it gives the
\* lease back when it still has it
Discard(r, e) ==
  IF LeaseLost(e) THEN r ELSE Released(r)

-------------------------------------------------------------------------------
(* What an execution records: r is the run row it writes to, st the step rows *)

\* the step goes on, or REVIEW sends the chapter back to PRODUCE
Partial(e, r, st) ==
  /\ e.step \in {"PRODUCE", "REVIEW"}
  /\ run' = [Released(r) EXCEPT !.state = Put("RUNNING", e.state, r.state)]
  /\ steps' = [s \in Steps |->
       IF s = e.step THEN [state |-> "PENDING", attempt |-> 0]
       ELSE IF e.step = "REVIEW" /\ s = "PRODUCE" THEN [st[s] EXCEPT !.state = "PENDING"]
       ELSE st[s]]
  /\ UNCHANGED work

BadCompleted(e) ==  \* the run takes the state of its step
  CASE e.step = "CANON" -> "SUCCEEDED"
    [] e.step = "DIRECT" /\ ~e.auto -> "AWAITING_INPUT"
    [] OTHER -> "RUNNING"

\* the state a completed step leaves the run in
Completed(e) ==
  CASE e.step = "CANON" -> "CANONIZED"
    [] e.step = "DIRECT" /\ ~e.auto -> "AWAITING_INPUT"
    [] OTHER -> "RUNNING"

Complete(e, r, st) ==
  /\ run' = [Released(r) EXCEPT !.state = Put(Completed(e), e.state, r.state)]
  /\ steps' = [st EXCEPT ![e.step].state = "SUCCEEDED"]
  /\ UNCHANGED work

\* BudgetExhausted: the work pauses, the step may be entered again
Exhausted(e, r, st) ==
  /\ e.failure \in {"calls", "cost"}
  /\ work' = IF e.failure = "calls" THEN "PAUSED_QUOTA" ELSE "PAUSED_COST"
  /\ run' = [Released(r) EXCEPT !.doc = [e.doc EXCEPT !.pause = TRUE],
                                !.state = Put("RUNNING", e.state, r.state)]
  /\ steps' = [st EXCEPT ![e.step] = [state |-> "PENDING", attempt |-> e.attempt - 1]]

\* any other failure: for good after three attempts, else the lease is kept for a
\* while, under the token in memory plus one
Broken(e, r, st) ==
  /\ e.failure \in {"error", "stopped"}
  /\ LET final == e.attempt >= 3 \/ e.failure = "stopped"
         kept == [r EXCEPT !.doc = e.doc,
                    !.state = Put(IF final THEN "TERMINAL_FAILED" ELSE "RETRYABLE_FAILED",
                                  e.state, r.state)]
     IN run' = IF final THEN Released(kept)
               ELSE [kept EXCEPT !.live = TRUE, !.token = e.token + 1]
  /\ steps' = [st EXCEPT ![e.step].state = "FAILED"]
  /\ UNCHANGED work

Fail(e, r, st) == Exhausted(e, r, st) \/ Broken(e, r, st)

-------------------------------------------------------------------------------
(* advance_step *)

\* what both an /advance request and a worker require; the request takes the
\* lease over when it is live, because every execution has the same owner name
MayAdvance(w, i) ==
  /\ exec[w] = Idle
  /\ work = "RUNNING"
  /\ run.state \in Claimable
  /\ run.token < MaxClaims
  /\ Unfinished(i)

\* Claim the run and commit before the first model call.
Call(w, i) ==
  LET s == Order[i]
  IN /\ MayAdvance(w, i)
     /\ s # "ASSEMBLE"
     /\ run' = Claimed(run)
     /\ steps' = Started(steps, s)
     /\ exec' = [exec EXCEPT ![w] = Memory(Claimed(run), Started(steps, s), s)]
     /\ UNCHANGED <<work, decision, timer, refused>>

\* A tick without a model call: one transaction from the claim to the outcome.
Tick(w, i) ==
  LET s == Order[i]
      st == Started(steps, s)
      e(failure) == [Memory(Claimed(run), st, s) EXCEPT !.failure = failure]
      drafted == [Claimed(run) EXCEPT !.doc = Drafted(e("none"))]
  IN /\ MayAdvance(w, i)
     /\ \/ Partial(e("none"), drafted, st)
        \/ Complete(e("none"), drafted, st)
        \/ \E f \in Failures : Fail(e(f), Claimed(run), st)
     /\ UNCHANGED <<decision, exec, timer, refused>>

BadAdvanceBackground(w, i) ==  \* only a lease that was given back is free
  /\ ~run.owned
  /\ Call(w, i) \/ Tick(w, i)

\* The worker takes a run only when its lease has ended.
AdvanceBackground(w, i) ==
  /\ ~run.live
  /\ Call(w, i) \/ Tick(w, i)

AdvanceRequest(w, i) == Call(w, i) \/ Tick(w, i)

\* The answer is saved and the next call of the tick is made: the commit before it
\* writes the document, and nothing is checked.
CallAgain(w) ==
  /\ exec[w].at = "calling"
  /\ run' = [run EXCEPT !.doc = Drafted(exec[w])]
  /\ exec' = [exec EXCEPT ![w].doc = Drafted(exec[w])]
  /\ UNCHANGED <<work, steps, decision, timer, refused>>

\* The result is in: the query of _stale_reason flushes the document, and with it
\* the row is locked until the outcome is committed or discarded.
Return(w, consumed) ==
  LET e == [exec[w] EXCEPT !.doc = [Drafted(exec[w]) EXCEPT !.answers = @ \ consumed]]
      flushed == [run EXCEPT !.doc = e.doc]
  IN /\ exec[w].at = "calling"
     /\ consumed \subseteq exec[w].doc.answers /\ Cardinality(consumed) <= 1
     /\ IF Stale(e)
        THEN run' = Discard(flushed, e) /\ UNCHANGED <<work, steps>>
        ELSE \/ Partial(e, flushed, steps)
             \/ Complete(e, flushed, steps)
             \/ \E f \in Failures : Fail([e EXCEPT !.failure = f], flushed, steps)
     /\ Leave(w)
     /\ UNCHANGED <<decision, timer, refused>>

\* The director asks the user (create_decision): the work waits, and the run does
\* unless it is being tried again; only then is the tick checked and recorded.
RequestDecision(w, d) ==
  LET e == exec[w]
      waits == e.state = "RUNNING"
      asked == [run EXCEPT !.doc = Drafted(e),
                           !.state = IF waits THEN "PENDING_DECISION" ELSE @]
  IN /\ e.at = "calling" /\ e.step = "PRODUCE"
     /\ decision[d] = "none"
     /\ decision' = [decision EXCEPT ![d] = "PENDING"]
     /\ work' = "PENDING_DECISION"
     /\ IF Stale(e)
        THEN run' = Discard(asked, e) /\ UNCHANGED steps
        ELSE /\ run' = [Released(asked) EXCEPT !.state = IF waits THEN @ ELSE "RUNNING"]
             /\ steps' = [steps EXCEPT ![e.step] = [state |-> "PENDING", attempt |-> 0]]
     /\ Leave(w)
     /\ UNCHANGED <<timer, refused>>

\* The call itself raises.  Nothing is to be flushed, so the query that checks the
\* execution locks nothing, and the failure is recorded in a later statement.
CallFails(w, failure) ==
  LET e == exec[w]
  IN /\ e.at = "calling"
     /\ failure \in {"error", "cost"}
     /\ IF Stale(e)
        THEN run' = Discard(run, e) /\ Leave(w)
        ELSE /\ exec' = [exec EXCEPT ![w].at = "failing", ![w].failure = failure]
             /\ UNCHANGED run
     /\ UNCHANGED <<work, steps, decision, timer, refused>>

RecordFailure(w) ==
  /\ exec[w].at = "failing"
  /\ Fail(exec[w], run, steps)
  /\ Leave(w)
  /\ UNCHANGED <<decision, timer, refused>>

Crash(w) ==
  /\ exec[w] # Idle
  /\ Leave(w)
  /\ UNCHANGED <<work, run, steps, decision, timer, refused>>

LeaseExpires ==
  /\ run.live
  /\ run' = [run EXCEPT !.live = FALSE]
  /\ UNCHANGED <<work, steps, decision, exec, timer, refused>>

-------------------------------------------------------------------------------
(* The user *)

Pause ==
  /\ work = "RUNNING"
  /\ work' = "PAUSED_COST"
  /\ UNCHANGED <<run, steps, decision, exec, timer, refused>>

\* resume_work, on the row r: only a run that a worker can take up is set going
Resumed(r) ==
  IF r.state \in Claimable
  THEN /\ work' = "RUNNING"
       /\ run' = IF r.state = "RETRYABLE_FAILED" THEN [r EXCEPT !.live = FALSE] ELSE r
  ELSE work' = work /\ run' = r

Resume ==
  /\ work \in {"RUNNING", "PAUSED_COST", "PAUSED_QUOTA"}
  /\ work # "RUNNING" => ~run.doc.pause
  /\ Resumed(run)
  /\ UNCHANGED <<steps, decision, exec, timer, refused>>

AuthorizeBudget ==
  /\ work \in {"PAUSED_COST", "PAUSED_QUOTA"}
  /\ Resumed([run EXCEPT !.doc.grant = TRUE, !.doc.pause = FALSE])
  /\ UNCHANGED <<steps, decision, exec, timer, refused>>

Bumped(r, n) == [r EXCEPT !.input = r.input + n]

SubmitGuidance ==
  /\ run.state = "AWAITING_INPUT"
  /\ run.input < MaxChanges
  /\ run' = Bumped([run EXCEPT !.state = "RUNNING"], 1)
  /\ UNCHANGED <<work, steps, decision, exec, timer, refused>>

SetAutoAdvance(enabled) ==
  /\ run' = [run EXCEPT !.auto = enabled,
               !.state = IF enabled /\ @ = "AWAITING_INPUT" THEN "RUNNING" ELSE @]
  /\ UNCHANGED <<work, steps, decision, exec, timer, refused>>

InFlight == Claimable \cup {"AWAITING_INPUT", "PENDING_DECISION"}

UpdatePath ==
  /\ run.input < MaxChanges
  /\ work' = IF work = "RUNNING" THEN "RECOMPUTING" ELSE work
  /\ run' = IF run.state \in InFlight THEN Bumped(run, 1) ELSE run
  /\ UNCHANGED <<steps, decision, exec, timer, refused>>

-------------------------------------------------------------------------------
(* Decisions *)

BadApply(ds) ==  \* the run is not set going
  /\ decision' = [d \in Decisions |-> IF d \in ds THEN "RESOLVED" ELSE decision[d]]
  /\ work' = IF work = "PENDING_DECISION" /\ ds # {} THEN "RUNNING" ELSE work
  /\ run' = Bumped([run EXCEPT !.doc.answers = @ \cup ds], Cardinality(ds))

\* apply_decision for each of ds, all of them still pending
Apply(ds) ==
  /\ decision' = [d \in Decisions |-> IF d \in ds THEN "RESOLVED" ELSE decision[d]]
  /\ work' = IF work = "PENDING_DECISION" /\ ds # {} THEN "RUNNING" ELSE work
  /\ run' = Bumped([run EXCEPT !.doc.answers = @ \cup ds,
                      !.state = IF @ = "PENDING_DECISION" /\ ds # {} THEN "RUNNING" ELSE @],
                   Cardinality(ds))

ResolveDecision(d) ==
  /\ decision[d] = "PENDING"
  /\ Apply({d})
  /\ UNCHANGED <<steps, exec, timer, refused>>

\* the conditional update of apply_decision refuses what is no longer pending
StillPending(ds) == {d \in ds : decision[d] = "PENDING"}

BadSweepRead ==  \* only a run that waits too has its decision swept
  /\ run.state = "PENDING_DECISION"
  /\ ~refused
  /\ timer = {}
  /\ timer' \in SUBSET StillPending(Decisions) \ {{}}
  /\ UNCHANGED <<work, run, steps, decision, exec, refused>>

\* Some are past their deadline.  The recovery of model calls comes first in the
\* tick: where it raises, the decisions are not read.
SweepRead ==
  /\ ~refused
  /\ timer = {}
  /\ timer' \in SUBSET StillPending(Decisions) \ {{}}
  /\ UNCHANGED <<work, run, steps, decision, exec, refused>>

SweepApply ==
  /\ timer # {}
  /\ Apply(StillPending(timer))
  /\ timer' = {}
  /\ UNCHANGED <<steps, exec, refused>>

SweepCrashes ==
  /\ timer # {}
  /\ timer' = {}
  /\ UNCHANGED <<work, run, steps, decision, exec, refused>>

\* The ledger refuses an UNKNOWN call in the first place of the recovery, as it
\* does again in each tick; it matters, and is taken, while a decision is pending.
RecoveryRefused ==
  /\ ~refused
  /\ StillPending(Decisions) # {}
  /\ refused' = TRUE
  /\ UNCHANGED <<work, run, steps, decision, exec, timer>>

-------------------------------------------------------------------------------
(* Specification *)

\* A chapter up to some step has been written, without a failure; tokens are
\* counted from here.
Init ==
  /\ work = "RUNNING"
  /\ \E k \in 1 .. Len(Order) :
       /\ steps = [s \in Steps |->
            IF \E j \in 1 .. k - 1 : Order[j] = s
            THEN [state |-> "SUCCEEDED", attempt |-> 1]
            ELSE [state |-> "PENDING", attempt |-> 0]]
       /\ run = [state |-> IF k = 1 THEN "QUEUED" ELSE "RUNNING",
                 owned |-> FALSE, live |-> FALSE, token |-> 0, input |-> 1,
                 auto |-> TRUE,
                 doc |-> [draft |-> 0, answers |-> {}, grant |-> FALSE, pause |-> FALSE]]
  /\ decision = [d \in Decisions |-> "none"]
  /\ exec = [w \in Workers |-> Idle]
  /\ timer = {}
  /\ refused = FALSE

Background(w) == \E i \in 1 .. Len(Order) : AdvanceBackground(w, i)

CallEnds(w) ==
  \/ \E consumed \in SUBSET Decisions : Return(w, consumed)
  \/ \E d \in Decisions : RequestDecision(w, d)
  \/ \E failure \in Failures : CallFails(w, failure)

User ==
  \/ Pause \/ Resume \/ AuthorizeBudget \/ SubmitGuidance \/ UpdatePath
  \/ \E enabled \in BOOLEAN : SetAutoAdvance(enabled)
  \/ \E d \in Decisions : ResolveDecision(d)

Next ==
  \/ \E w \in Workers :
       \/ Background(w)
       \/ \E i \in 1 .. Len(Order) : AdvanceRequest(w, i)
       \/ CallAgain(w) \/ CallEnds(w) \/ RecordFailure(w) \/ Crash(w)
  \/ LeaseExpires
  \/ User
  \/ SweepRead \/ SweepApply \/ SweepCrashes \/ RecoveryRefused

Spec == Init /\ [][Next]_vars

\* Some worker polls without end, time passes, a model call is cut off by its
\* deadline, and the timer loop comes round again after an exception; whether it
\* gets to the decisions is the guard of SweepRead.
Fairness ==
  /\ WF_vars(\E w \in Workers : Background(w))
  /\ WF_vars(\E w \in Workers : CallEnds(w) \/ RecordFailure(w))
  /\ WF_vars(LeaseExpires)
  /\ WF_vars(SweepRead) /\ SF_vars(SweepApply)

FairSpec == Spec /\ Fairness

-------------------------------------------------------------------------------
(* Properties *)

\* A step is done with a draft of the direction the user has set last: whatever the
\* user changed during the call, an answer to a decision included, makes the result
\* void (bump_input_version, works_advance._stale_reason).
OutcomeIsCurrent ==
  [][\A s \in Steps :
       steps[s].state # "SUCCEEDED" /\ steps'[s].state = "SUCCEEDED" =>
         run'.doc.draft = run'.input]_vars

\* Who waits for a decision waits for one that somebody can still take: neither the
\* work nor the run is left waiting when its decision has been taken, whoever took
\* it and whatever else was going on (create_decision, apply_decision).
WaitHasDecision ==
  work = "PENDING_DECISION" \/ run.state = "PENDING_DECISION" =>
    \E d \in Decisions : decision[d] = "PENDING"

\* A work does not wait for a decision for ever: at its deadline the timer takes the
\* default (sweep_expired_decisions), unless a model call the ledger refuses keeps
\* the timer from it for good (Worker._novel_recovery_tick).
WaitEnds == work = "PENDING_DECISION" ~> work # "PENDING_DECISION" \/ refused

\* A run that can go on is claimed again, though the execution that had it has
\* crashed, is late or was not wanted any more (advance_background_run).
RunAdvances ==
  \A n \in 0 .. MaxClaims - 1 :
    run.token = n /\ work = "RUNNING" /\ run.state \in Claimable
      ~> run.token # n \/ work # "RUNNING" \/ run.state \notin Claimable

\* What the comment in advance_step says of a call whose execution has lost its lease
\* or whose direction has changed: its output is void and overwrites nothing.
StaleResultDiscarded ==
  [][\A w \in Workers :
       exec[w] # Idle /\ exec[w].at = "calling" /\ exec'[w] = Idle /\ Stale(exec[w]) =>
         run'.doc = run.doc]_vars
===============================================================================
