--------------------------- MODULE ChapterRunsProofs ---------------------------
(***************************************************************************)
(* Proofs about ChapterRuns and ChapterFence, for every set of executions  *)
(* and decisions and every order of steps.                                 *)
(***************************************************************************)
EXTENDS ChapterFence, FiniteSetTheorems, TLAPS

-------------------------------------------------------------------------------
(* The operators on rows keep their types *)

LEMMA RunFields ==
  ASSUME NEW r \in Run
  PROVE  /\ r.state \in RunStates /\ r.owned \in BOOLEAN /\ r.live \in BOOLEAN
         /\ r.token \in Nat /\ r.token + 1 \in Nat /\ r.input \in Nat
         /\ \A n \in Nat : r.input + n \in Nat
         /\ r.auto \in BOOLEAN /\ r.doc \in Document
<1>1. r.token \in Nat /\ r.input \in Nat
  BY DEF Run
<1> QED
  BY <1>1 DEF Run

LEMMA SetLease ==
  ASSUME NEW r \in Run, NEW o \in BOOLEAN, NEW l \in BOOLEAN, NEW t \in Nat, NEW s \in RunStates
  PROVE  /\ [r EXCEPT !.owned = o, !.live = l, !.token = t, !.state = s] \in Run
         /\ [r EXCEPT !.owned = o, !.live = l] \in Run
         /\ [r EXCEPT !.live = l, !.token = t] \in Run
         /\ [r EXCEPT !.live = l] \in Run
BY DEF Run

LEMMA RowTypes ==
  ASSUME NEW r \in Run
  PROVE  /\ Released(r) \in Run
         /\ Claimed(r) \in Run
         /\ \A n \in Nat : Bumped(r, n) \in Run
<1>1. Released(r) \in Run
  BY SetLease, RunFields DEF Released
<1>2. Claimed(r) \in Run
  <2>1. (IF r.state = "QUEUED" THEN "RUNNING" ELSE r.state) \in RunStates
    BY RunFields DEF RunStates
  <2> QED
    BY <2>1, SetLease, RunFields DEF Claimed
<1>3. ASSUME NEW n \in Nat PROVE Bumped(r, n) \in Run
  <2>1. \A m \in Nat : [r EXCEPT !.input = m] \in Run
    BY DEF Run
  <2> QED
    BY <2>1, RunFields DEF Bumped
<1> QED
  BY <1>1, <1>2, <1>3

LEMMA PutType ==
  ASSUME NEW new \in RunStates, NEW memory, NEW stored \in RunStates
  PROVE  Put(new, memory, stored) \in RunStates
BY DEF Put

LEMMA SetState ==
  ASSUME NEW r \in Run, NEW s \in RunStates
  PROVE  [r EXCEPT !.state = s] \in Run
BY DEF Run

LEMMA SetRow ==
  ASSUME NEW r \in Run, NEW d \in Document, NEW s \in RunStates
  PROVE  /\ [r EXCEPT !.doc = d] \in Run
         /\ [r EXCEPT !.doc = d, !.state = s] \in Run
BY DEF Run

LEMMA OrderStep ==
  ASSUME NEW i \in 1 .. Len(Order)
  PROVE  Order[i] \in Steps
BY DEF Steps

LEMMA StartedType ==
  ASSUME NEW st \in [Steps -> Step], NEW s \in Steps
  PROVE  /\ Started(st, s) \in [Steps -> Step]
         /\ Started(st, s)[s].attempt \in Int
<1>1. Started(st, s)[s] = [st[s] EXCEPT !.state = "RUNNING", !.attempt = st[s].attempt + 1]
  BY DEF Started, Step
<1>2. /\ st[s] \in Step
      /\ \A n \in Int : [st[s] EXCEPT !.state = "RUNNING", !.attempt = n] \in Step
  BY DEF Step
<1>3. st[s].attempt + 1 \in Int
  <2>1. st[s].attempt \in Int
    BY <1>2 DEF Step
  <2> QED
    BY <2>1
<1>4. Started(st, s)[s] \in Step
  BY <1>1, <1>2, <1>3
<1>5. Started(st, s) \in [Steps -> Step]
  BY <1>4, <1>1 DEF Started
<1> QED
  BY <1>4, <1>5 DEF Step

LEMMA MemoryType ==
  ASSUME NEW r \in Run, NEW st \in [Steps -> Step], NEW s \in Steps
  PROVE  Memory(r, st, s) \in Execution
BY DEF Memory, Execution, Run, Step

\* what an execution has in memory, when it has something
LEMMA Busy ==
  ASSUME TypeOK, NEW w \in Workers, exec[w] # Idle
  PROVE  exec[w] \in Execution
BY DEF TypeOK

LEMMA BusyAt ==
  ASSUME NEW w, exec[w].at \in {"calling", "failing"}
  PROVE  exec[w] # Idle
BY DEF Idle

LEMMA DraftedType ==
  ASSUME NEW e \in Execution
  PROVE  Drafted(e) \in Document
BY DEF Drafted, Execution, Document

LEMMA DiscardType ==
  ASSUME NEW r \in Run, NEW e
  PROVE  Discard(r, e) \in Run
BY RowTypes DEF Discard

LEMMA LeaveType ==
  ASSUME TypeOK, NEW w \in Workers, Leave(w)
  PROVE  exec' \in [Workers -> {Idle} \cup Execution]
BY DEF Leave, TypeOK

-------------------------------------------------------------------------------
(* The outcomes keep the types *)

LEMMA PartialType ==
  ASSUME NEW e \in Execution, NEW r \in Run, NEW st \in [Steps -> Step], Partial(e, r, st)
  PROVE  run' \in Run /\ steps' \in [Steps -> Step] /\ work' = work
<1>1. Put("RUNNING", e.state, r.state) \in RunStates
  BY PutType DEF Run, RunStates
<1>2. run' \in Run
  BY <1>1, RowTypes, SetState DEF Partial
<1>3. \A s \in Steps : [st[s] EXCEPT !.state = "PENDING"] \in Step
  BY DEF Step
<1> QED
  BY <1>2, <1>3 DEF Partial, Step

LEMMA CompleteType ==
  ASSUME NEW e \in Execution, NEW r \in Run, NEW st \in [Steps -> Step], Complete(e, r, st)
  PROVE  run' \in Run /\ steps' \in [Steps -> Step] /\ work' = work
<1>1. Put(Completed(e), e.state, r.state) \in RunStates
  BY PutType DEF Run, RunStates, Completed
<1>2. run' \in Run
  BY <1>1, RowTypes, SetState DEF Complete
<1> QED
  BY <1>2 DEF Complete, Step, Execution

LEMMA FailType ==
  ASSUME NEW e \in Execution, NEW r \in Run, NEW st \in [Steps -> Step], Fail(e, r, st),
         work \in WorkStates
  PROVE  run' \in Run /\ steps' \in [Steps -> Step] /\ work' \in WorkStates
<1>1. CASE Exhausted(e, r, st)
  <2>1. [e.doc EXCEPT !.pause = TRUE] \in Document
    BY DEF Execution, Document
  <2>2. run' \in Run
    <3>1. Put("RUNNING", e.state, r.state) \in RunStates
      BY PutType, RunFields DEF RunStates
    <3> QED
      BY <1>1, <2>1, <3>1, RowTypes, SetRow DEF Exhausted
  <2> QED
    BY <1>1, <2>2 DEF Exhausted, Step, Execution, WorkStates
<1>2. CASE Broken(e, r, st)
  <2> DEFINE final == e.attempt >= 3 \/ e.failure = "stopped"
             to == IF final THEN "TERMINAL_FAILED" ELSE "RETRYABLE_FAILED"
             kept == [r EXCEPT !.doc = e.doc, !.state = Put(to, e.state, r.state)]
  <2>1. Put(to, e.state, r.state) \in RunStates
    BY PutType DEF Run, RunStates
  <2>2. kept \in Run
    <3>1. e.doc \in Document
      BY DEF Execution
    <3> QED
      BY <2>1, <3>1, SetRow
  <2>3. run' = IF final THEN Released(kept)
               ELSE [kept EXCEPT !.live = TRUE, !.token = e.token + 1]
    BY <1>2 DEF Broken
  <2>4. [kept EXCEPT !.live = TRUE, !.token = e.token + 1] \in Run
    <3>1. e.token \in Nat
      BY DEF Execution
    <3>2. e.token + 1 \in Nat
      BY <3>1
    <3> HIDE DEF kept
    <3> QED
      BY <2>2, <3>2, SetLease, RunFields
  <2>5. run' \in Run
    <3> HIDE DEF kept
    <3> QED
      BY <2>2, <2>3, <2>4, RowTypes
  <2> QED
    BY <1>2, <2>5 DEF Broken, Step, Execution
<1> QED
  BY <1>1, <1>2 DEF Fail

-------------------------------------------------------------------------------
(* Type correctness *)

LEMMA TypeInit ==
  ASSUME Init
  PROVE  TypeOK
<1>1. PICK k \in 1 .. Len(Order) :
        /\ steps = [s \in Steps |->
             IF \E j \in 1 .. k - 1 : Order[j] = s
             THEN [state |-> "SUCCEEDED", attempt |-> 1]
             ELSE [state |-> "PENDING", attempt |-> 0]]
        /\ run = [state |-> IF k = 1 THEN "QUEUED" ELSE "RUNNING",
                  owned |-> FALSE, live |-> FALSE, token |-> 0, input |-> 1,
                  auto |-> TRUE,
                  doc |-> [draft |-> 0, answers |-> {}, grant |-> FALSE, pause |-> FALSE]]
  BY DEF Init
<1>2. steps \in [Steps -> Step]
  BY <1>1 DEF Step
<1>3. run \in Run
  BY <1>1 DEF Run, RunStates, Document
<1> QED
  BY <1>2, <1>3 DEF Init, TypeOK, WorkStates

LEMMA CallType ==
  ASSUME TypeOK, NEW w \in Workers, NEW i \in 1 .. Len(Order), Call(w, i)
  PROVE  TypeOK'
<1> DEFINE s == Order[i]
<1>1. s \in Steps /\ run \in Run /\ steps \in [Steps -> Step]
  BY OrderStep DEF TypeOK
<1>2. Claimed(run) \in Run /\ Started(steps, s) \in [Steps -> Step]
  BY <1>1, RowTypes, StartedType
<1>3. Memory(Claimed(run), Started(steps, s), s) \in Execution
  BY <1>1, <1>2, MemoryType
<1> QED
  BY <1>1, <1>2, <1>3 DEF Call, TypeOK

LEMMA TickParts ==
  ASSUME TypeOK, NEW w \in Workers, NEW i \in 1 .. Len(Order), Tick(w, i)
  PROVE  /\ Order[i] \in Steps /\ steps[Order[i]].state # "SUCCEEDED"
         /\ Started(steps, Order[i]) \in [Steps -> Step]
         /\ UNCHANGED <<decision, exec, timer, refused>>
         /\ \E e \in Execution, r \in Run :
              /\ e.step = Order[i] /\ e.token = r.token /\ r.token = run.token + 1
              /\ r.state = "PENDING_DECISION" => run.state = "PENDING_DECISION"
              /\ \/ Partial(e, r, Started(steps, Order[i]))
                 \/ Complete(e, r, Started(steps, Order[i])) /\ r.doc.draft = r.input
                 \/ Fail(e, r, Started(steps, Order[i]))
<1> DEFINE s == Order[i]
           st == Started(steps, s)
           c == Claimed(run)
           m == Memory(c, st, s)
           e(failure) == [m EXCEPT !.failure = failure]
           drafted == [c EXCEPT !.doc = Drafted(e("none"))]
<1>1. s \in Steps /\ run \in Run /\ steps \in [Steps -> Step]
  BY OrderStep DEF TypeOK
<1>2. c \in Run /\ st \in [Steps -> Step]
  BY <1>1, RowTypes, StartedType
<1>3. /\ c.token = run.token + 1
      /\ c.state = "PENDING_DECISION" => run.state = "PENDING_DECISION"
  BY <1>1 DEF Claimed, Run
<1>4. m \in Execution /\ m.step = s /\ m.token = c.token /\ m.input = c.input
  BY <1>1, <1>2, MemoryType DEF Memory
<1>5. \A f \in Failures \cup {"none"} :
        e(f) \in Execution /\ e(f).step = s /\ e(f).token = c.token /\ e(f).input = c.input
  <2> HIDE DEF m
  <2> QED
    BY <1>4 DEF Execution
<1>6. Drafted(e("none")) \in Document /\ Drafted(e("none")).draft = c.input
  <2> HIDE DEF e
  <2> QED
    BY <1>5, DraftedType DEF Drafted, Document, Execution
<1>7. /\ drafted \in Run /\ drafted.token = c.token /\ drafted.state = c.state
      /\ drafted.doc.draft = drafted.input
  <2> HIDE DEF e, c
  <2> QED
    BY <1>2, <1>6, SetRow, RunFields DEF Run
<1>8. /\ \/ Partial(e("none"), drafted, st)
         \/ Complete(e("none"), drafted, st)
         \/ \E f \in Failures : Fail(e(f), c, st)
      /\ UNCHANGED <<decision, exec, timer, refused>>
  BY DEF Tick
<1>9. steps[s].state # "SUCCEEDED"
  BY DEF Tick, MayAdvance, Unfinished
<1> HIDE DEF s, st, c, e, drafted
<1>10. \E x \in Execution, r \in Run :
         /\ x.step = s /\ x.token = r.token /\ r.token = run.token + 1
         /\ r.state = "PENDING_DECISION" => run.state = "PENDING_DECISION"
         /\ \/ Partial(x, r, st)
            \/ Complete(x, r, st) /\ r.doc.draft = r.input
            \/ Fail(x, r, st)
  <2>1. CASE Partial(e("none"), drafted, st) \/ Complete(e("none"), drafted, st)
    BY <1>3, <1>5, <1>7, <2>1
  <2>2. CASE \E f \in Failures : Fail(e(f), c, st)
    BY <1>2, <1>3, <1>5, <2>2
  <2> QED
    BY <1>8, <2>1, <2>2
<1> QED
  BY <1>1, <1>2, <1>8, <1>9, <1>10 DEF s, st

LEMMA ReturnParts ==
  ASSUME TypeOK, NEW w \in Workers, NEW consumed, Return(w, consumed)
  PROVE  /\ exec[w] \in Execution /\ exec[w] # Idle
         /\ Leave(w) /\ UNCHANGED <<decision, timer, refused>>
         /\ \E e \in Execution, r \in Run :
              /\ e.step = exec[w].step /\ e.token = exec[w].token
              /\ r.state = run.state /\ r.token = run.token
              /\ r.owned = run.owned /\ r.live = run.live
              /\ \/ run' = Discard(r, e) /\ UNCHANGED <<work, steps>>
                 \/ /\ ~LeaseLost(exec[w])
                    /\ \/ Partial(e, r, steps)
                       \/ Complete(e, r, steps) /\ r.doc.draft = r.input
                       \/ Fail(e, r, steps)
<1> DEFINE m == exec[w]
           e == [m EXCEPT !.doc = [Drafted(m) EXCEPT !.answers = @ \ consumed]]
           flushed == [run EXCEPT !.doc = e.doc]
<1>1. m \in Execution /\ m # Idle /\ run \in Run
  <2>1. exec[w].at = "calling"
    BY DEF Return
  <2> QED
    BY <2>1, Busy, BusyAt DEF TypeOK
<1>2. /\ e \in Execution /\ e.step = m.step /\ e.token = m.token /\ e.input = m.input
      /\ e.doc \in Document /\ e.doc.draft = m.input
  <2>1. Drafted(m) \in Document /\ Drafted(m).draft = m.input
    BY <1>1, DraftedType DEF Drafted, Execution, Document
  <2>2. /\ [Drafted(m) EXCEPT !.answers = @ \ consumed] \in Document
        /\ [Drafted(m) EXCEPT !.answers = @ \ consumed].draft = m.input
    <3> HIDE DEF m
    <3> QED
      BY <2>1 DEF Document
  <2>3. \A d \in Document :
          /\ [m EXCEPT !.doc = d] \in Execution
          /\ [m EXCEPT !.doc = d].step = m.step /\ [m EXCEPT !.doc = d].token = m.token
          /\ [m EXCEPT !.doc = d].input = m.input /\ [m EXCEPT !.doc = d].doc = d
    <3> HIDE DEF m
    <3> QED
      BY <1>1 DEF Execution
  <2> QED
    BY <2>2, <2>3
<1>3. /\ flushed \in Run /\ flushed.state = run.state /\ flushed.token = run.token
      /\ flushed.owned = run.owned /\ flushed.live = run.live
      /\ flushed.input = run.input /\ flushed.doc.draft = m.input
  <2> HIDE DEF e
  <2> QED
    BY <1>1, <1>2 DEF Run
<1>4. \A f \in Failures :
        /\ [e EXCEPT !.failure = f] \in Execution
        /\ [e EXCEPT !.failure = f].step = e.step /\ [e EXCEPT !.failure = f].token = e.token
  <2> HIDE DEF e
  <2> QED
    BY <1>2 DEF Execution
<1>5. /\ IF Stale(e)
         THEN run' = Discard(flushed, e) /\ UNCHANGED <<work, steps>>
         ELSE \/ Partial(e, flushed, steps)
              \/ Complete(e, flushed, steps)
              \/ \E f \in Failures : Fail([e EXCEPT !.failure = f], flushed, steps)
      /\ Leave(w)
      /\ UNCHANGED <<decision, timer, refused>>
  BY DEF Return
<1>6. ~Stale(e) => ~LeaseLost(m) /\ run.input = m.input
  <2> HIDE DEF e, m
  <2> QED
    BY <1>2 DEF Stale, LeaseLost
<1> HIDE DEF e, m, flushed
<1>7. \E x \in Execution, r \in Run :
        /\ x.step = m.step /\ x.token = m.token
        /\ r.state = run.state /\ r.token = run.token
        /\ r.owned = run.owned /\ r.live = run.live
        /\ \/ run' = Discard(r, x) /\ UNCHANGED <<work, steps>>
           \/ /\ ~LeaseLost(m)
              /\ \/ Partial(x, r, steps)
                 \/ Complete(x, r, steps) /\ r.doc.draft = r.input
                 \/ Fail(x, r, steps)
  <2>1. CASE Stale(e) \/ Partial(e, flushed, steps) \/ Complete(e, flushed, steps)
    BY <1>2, <1>3, <1>5, <1>6, <2>1
  <2>2. CASE /\ ~Stale(e)
             /\ \E f \in Failures : Fail([e EXCEPT !.failure = f], flushed, steps)
    BY <1>2, <1>3, <1>4, <1>6, <2>2
  <2> QED
    BY <1>5, <2>1, <2>2
<1> QED
  BY <1>1, <1>5, <1>7 DEF m

LEMMA TickType ==
  ASSUME TypeOK, NEW w \in Workers, NEW i \in 1 .. Len(Order), Tick(w, i)
  PROVE  TypeOK'
<1>1. run' \in Run /\ steps' \in [Steps -> Step] /\ work' \in WorkStates
  BY TickParts, PartialType, CompleteType, FailType DEF TypeOK
<1> QED
  BY <1>1, TickParts DEF TypeOK

LEMMA ReturnType ==
  ASSUME TypeOK, NEW w \in Workers, NEW consumed, Return(w, consumed)
  PROVE  TypeOK'
<1>1. run' \in Run /\ steps' \in [Steps -> Step] /\ work' \in WorkStates
  BY ReturnParts, DiscardType, PartialType, CompleteType, FailType DEF TypeOK
<1> QED
  BY <1>1, ReturnParts, LeaveType DEF TypeOK

LEMMA CallAgainType ==
  ASSUME TypeOK, NEW w \in Workers, CallAgain(w)
  PROVE  TypeOK'
<1>1. exec[w].at = "calling"
  BY DEF CallAgain
<1>2. exec[w] \in Execution
  BY <1>1, Busy, BusyAt
<1>3. Drafted(exec[w]) \in Document
  BY <1>2, DraftedType
<1>4. [exec[w] EXCEPT !.doc = Drafted(exec[w])] \in Execution
  BY <1>2, <1>3 DEF Execution
<1>5. [run EXCEPT !.doc = Drafted(exec[w])] \in Run
  BY <1>3, SetRow, RunFields DEF TypeOK
<1>6. exec' = [exec EXCEPT ![w] = [exec[w] EXCEPT !.doc = Drafted(exec[w])]]
  BY DEF CallAgain
<1>7. exec' \in [Workers -> {Idle} \cup Execution]
  BY <1>4, <1>6 DEF TypeOK
<1> QED
  BY <1>5, <1>7 DEF CallAgain, TypeOK

LEMMA RequestDecisionType ==
  ASSUME TypeOK, NEW w \in Workers, NEW d \in Decisions, RequestDecision(w, d)
  PROVE  TypeOK'
<1> DEFINE e == exec[w]
           waits == e.state = "RUNNING"
           asked == [run EXCEPT !.doc = Drafted(e),
                                !.state = IF waits THEN "PENDING_DECISION" ELSE @]
<1>1. e.at = "calling" /\ e.step = "PRODUCE"
  BY DEF RequestDecision
<1>2. e \in Execution
  BY <1>1, Busy, BusyAt
<1>3. asked \in Run
  <2>1. Drafted(e) \in Document
    BY <1>2, DraftedType
  <2>2. (IF waits THEN "PENDING_DECISION" ELSE run.state) \in RunStates
    BY RunFields DEF TypeOK, RunStates
  <2> QED
    BY <2>1, <2>2, SetRow DEF TypeOK
<1>4. IF Stale(e)
      THEN run' = Discard(asked, e) /\ UNCHANGED steps
      ELSE /\ run' = [Released(asked) EXCEPT !.state = IF waits THEN @ ELSE "RUNNING"]
           /\ steps' = [steps EXCEPT ![e.step] = [state |-> "PENDING", attempt |-> 0]]
  BY DEF RequestDecision
<1>5. run' \in Run
  <2> HIDE DEF asked, waits
  <2>1. Released(asked) \in Run /\ Discard(asked, e) \in Run
    BY <1>3, RowTypes, DiscardType
  <2>2. (IF waits THEN Released(asked).state ELSE "RUNNING") \in RunStates
    BY <2>1, RunFields DEF RunStates
  <2> QED
    BY <1>4, <2>1, <2>2, SetState
<1>6. steps' \in [Steps -> Step]
  BY <1>2, <1>4 DEF TypeOK, Step, Execution
<1>7. exec' \in [Workers -> {Idle} \cup Execution]
  BY LeaveType DEF RequestDecision
<1>8. decision' = [decision EXCEPT ![d] = "PENDING"] /\ work' = "PENDING_DECISION"
      /\ UNCHANGED <<timer, refused>>
  BY DEF RequestDecision
<1> QED
  BY <1>5, <1>6, <1>7, <1>8 DEF TypeOK, WorkStates

LEMMA CallFailsType ==
  ASSUME TypeOK, NEW w \in Workers, NEW failure, CallFails(w, failure)
  PROVE  TypeOK'
<1>1. exec[w].at = "calling" /\ failure \in Failures
  BY DEF CallFails, Failures
<1>2. exec[w] \in Execution
  BY <1>1, Busy, BusyAt
<1>3. UNCHANGED <<work, steps, decision, timer, refused>>
  BY DEF CallFails
<1>4. CASE Stale(exec[w])
  <2>1. run' = Discard(run, exec[w]) /\ Leave(w)
    BY <1>4 DEF CallFails
  <2> QED
    BY <1>3, <2>1, DiscardType, LeaveType DEF TypeOK
<1>5. CASE ~Stale(exec[w])
  <2>1. /\ exec' = [exec EXCEPT ![w] = [exec[w] EXCEPT !.at = "failing", !.failure = failure]]
        /\ run' = run
    BY <1>5 DEF CallFails
  <2>2. [exec[w] EXCEPT !.at = "failing", !.failure = failure] \in Execution
    BY <1>1, <1>2 DEF Execution
  <2> QED
    BY <1>3, <2>1, <2>2 DEF TypeOK
<1> QED
  BY <1>4, <1>5

LEMMA RecordFailureType ==
  ASSUME TypeOK, NEW w \in Workers, RecordFailure(w)
  PROVE  TypeOK'
<1>1. exec[w].at = "failing"
  BY DEF RecordFailure
<1>2. exec[w] \in Execution
  BY <1>1, Busy, BusyAt
<1>3. run' \in Run /\ steps' \in [Steps -> Step] /\ work' \in WorkStates
  BY <1>2, FailType DEF RecordFailure, TypeOK
<1> QED
  BY <1>3, LeaveType DEF RecordFailure, TypeOK

LEMMA UserType ==
  ASSUME TypeOK,
         \/ Pause \/ Resume \/ AuthorizeBudget \/ SubmitGuidance \/ UpdatePath
         \/ \E enabled \in BOOLEAN : SetAutoAdvance(enabled)
  PROVE  TypeOK'
<1>1. CASE Pause
  BY <1>1 DEF Pause, TypeOK, WorkStates
<1>2. ASSUME NEW r \in Run, Resumed(r)
      PROVE  run' \in Run /\ work' \in WorkStates
  <2>1. [r EXCEPT !.live = FALSE] \in Run
    BY SetLease, RunFields
  <2> QED
    BY <1>2, <2>1 DEF Resumed, TypeOK, WorkStates
<1>3. CASE Resume
  BY <1>2, <1>3 DEF Resume, TypeOK
<1>4. CASE AuthorizeBudget
  <2>1. [run EXCEPT !.doc.grant = TRUE, !.doc.pause = FALSE] \in Run
    BY DEF TypeOK, Run, Document
  <2> QED
    BY <1>2, <1>4, <2>1 DEF AuthorizeBudget, TypeOK
<1>5. CASE SubmitGuidance
  <2>1. [run EXCEPT !.state = "RUNNING"] \in Run
    BY SetState DEF TypeOK, RunStates
  <2> QED
    BY <1>5, <2>1, RowTypes DEF SubmitGuidance, TypeOK
<1>6. CASE UpdatePath
  BY <1>6, RowTypes DEF UpdatePath, TypeOK, WorkStates
<1>7. CASE \E enabled \in BOOLEAN : SetAutoAdvance(enabled)
  <2>1. PICK enabled \in BOOLEAN : SetAutoAdvance(enabled)
    BY <1>7
  <2>2. [run EXCEPT !.auto = enabled,
           !.state = IF enabled /\ @ = "AWAITING_INPUT" THEN "RUNNING" ELSE @] \in Run
    BY DEF TypeOK, Run, RunStates
  <2> QED
    BY <2>1, <2>2 DEF SetAutoAdvance, TypeOK
<1> QED
  BY <1>1, <1>3, <1>4, <1>5, <1>6, <1>7

LEMMA ApplyType ==
  ASSUME TypeOK, NEW ds \in SUBSET Decisions, Apply(ds)
  PROVE  /\ decision' \in [Decisions -> {"none", "PENDING", "RESOLVED"}]
         /\ work' \in WorkStates
         /\ run' \in Run
<1>1. Cardinality(ds) \in Nat
  BY ChapterAssumption, FS_Subset, FS_CardinalityType
<1>2. [run EXCEPT !.doc.answers = @ \cup ds,
         !.state = IF @ = "PENDING_DECISION" /\ ds # {} THEN "RUNNING" ELSE @] \in Run
  BY DEF TypeOK, Run, RunStates, Document
<1>3. run' \in Run
  BY <1>1, <1>2, RowTypes DEF Apply
<1> QED
  BY <1>3 DEF Apply, TypeOK, WorkStates

\* a step of Next, an action at a time
LEMMA Actions ==
  ASSUME Next
  PROVE  \/ \E w \in Workers, i \in 1 .. Len(Order) : Call(w, i) \/ Tick(w, i)
         \/ \E w \in Workers, consumed \in SUBSET Decisions : Return(w, consumed)
         \/ \E w \in Workers, d \in Decisions : RequestDecision(w, d)
         \/ \E w \in Workers, failure \in Failures : CallFails(w, failure)
         \/ \E w \in Workers : CallAgain(w) \/ RecordFailure(w) \/ Crash(w)
         \/ LeaseExpires
         \/ Pause \/ Resume \/ AuthorizeBudget \/ SubmitGuidance \/ UpdatePath
         \/ \E enabled \in BOOLEAN : SetAutoAdvance(enabled)
         \/ \E d \in Decisions : ResolveDecision(d)
         \/ SweepRead \/ SweepApply \/ SweepCrashes \/ RecoveryRefused
BY DEF Next, Background, CallEnds, User, AdvanceBackground, AdvanceRequest

LEMMA TypeStep ==
  ASSUME TypeOK, [Next]_vars
  PROVE  TypeOK'
<1>1. CASE UNCHANGED vars
  BY <1>1 DEF vars, TypeOK
<1>2. CASE \E w \in Workers, i \in 1 .. Len(Order) : Call(w, i) \/ Tick(w, i)
  BY <1>2, CallType, TickType
<1>3. CASE \E w \in Workers, consumed \in SUBSET Decisions : Return(w, consumed)
  BY <1>3, ReturnType
<1>4. CASE \E w \in Workers, d \in Decisions : RequestDecision(w, d)
  BY <1>4, RequestDecisionType
<1>5. CASE \E w \in Workers, failure \in Failures : CallFails(w, failure)
  BY <1>5, CallFailsType
<1>6. CASE \E w \in Workers : CallAgain(w) \/ RecordFailure(w) \/ Crash(w)
  <2>1. ASSUME NEW w \in Workers, Crash(w) PROVE TypeOK'
    BY <2>1, LeaveType DEF Crash, TypeOK
  <2> QED
    BY <1>6, <2>1, CallAgainType, RecordFailureType
<1>7. CASE LeaseExpires
  BY <1>7, SetLease, RunFields DEF LeaseExpires, TypeOK
<1>8. CASE \/ Pause \/ Resume \/ AuthorizeBudget \/ SubmitGuidance \/ UpdatePath
           \/ \E enabled \in BOOLEAN : SetAutoAdvance(enabled)
  BY <1>8, UserType
<1>9. CASE \E d \in Decisions : ResolveDecision(d)
  <2>1. PICK d \in Decisions : ResolveDecision(d)
    BY <1>9
  <2>2. {d} \in SUBSET Decisions /\ Apply({d}) /\ UNCHANGED <<steps, exec, timer, refused>>
    BY <2>1 DEF ResolveDecision
  <2> QED
    BY <2>2, ApplyType DEF TypeOK
<1>10. CASE SweepRead
  BY <1>10 DEF SweepRead, StillPending, TypeOK
<1>11. CASE SweepApply
  <2>1. StillPending(timer) \in SUBSET Decisions
    BY DEF StillPending, TypeOK
  <2> QED
    BY <1>11, <2>1, ApplyType DEF SweepApply, TypeOK
<1>12. CASE SweepCrashes \/ RecoveryRefused
  BY <1>12 DEF SweepCrashes, RecoveryRefused, TypeOK
<1> QED
  BY Actions, <1>1, <1>2, <1>3, <1>4, <1>5, <1>6, <1>7, <1>8, <1>9, <1>10, <1>11, <1>12

\* The variables keep their types: rows, memories and documents have the fields
\* and values the columns of the code have.
THEOREM TypeCorrect == Spec => []TypeOK
<1>1. Init => TypeOK
  BY TypeInit
<1>2. TypeOK /\ [Next]_vars => TypeOK'
  BY TypeStep
<1> QED
  BY <1>1, <1>2, PTL DEF Spec

-------------------------------------------------------------------------------
(* A wait has a decision that can be taken *)

\* an outcome makes neither the work nor the run wait
LEMMA OutcomeDoesNotWait ==
  ASSUME NEW e, NEW r, NEW st, r \in Run, e \in Execution,
         Partial(e, r, st) \/ Complete(e, r, st) \/ Fail(e, r, st)
  PROVE  /\ run'.state = "PENDING_DECISION" => r.state = "PENDING_DECISION"
         /\ work' = "PENDING_DECISION" => work = "PENDING_DECISION"
<1>1. \A new \in RunStates \ {"PENDING_DECISION"} : \A memory :
        Put(new, memory, r.state) = "PENDING_DECISION" => r.state = "PENDING_DECISION"
  BY DEF Put
<1>2. Released(r) \in Run /\ Released(r).state = r.state
  BY RowTypes DEF Released, Run
<1>3. CASE Partial(e, r, st)
  BY <1>1, <1>2, <1>3 DEF Partial, Run, RunStates
<1>4. CASE Complete(e, r, st)
  <2>1. Completed(e) \in RunStates \ {"PENDING_DECISION"}
    BY DEF Completed, RunStates
  <2> QED
    BY <1>1, <1>2, <1>4, <2>1 DEF Complete, Run
<1>5. CASE Exhausted(e, r, st)
  BY <1>1, <1>2, <1>5 DEF Exhausted, Run, RunStates
<1>6. CASE Broken(e, r, st)
  <2> DEFINE final == e.attempt >= 3 \/ e.failure = "stopped"
             to == IF final THEN "TERMINAL_FAILED" ELSE "RETRYABLE_FAILED"
             kept == [r EXCEPT !.doc = e.doc, !.state = Put(to, e.state, r.state)]
  <2>1. run'.state = kept.state
    BY <1>6 DEF Broken, Released, Run
  <2>2. kept.state = Put(to, e.state, r.state)
    BY DEF Run
  <2>3. to \in RunStates \ {"PENDING_DECISION"}
    BY DEF RunStates
  <2> HIDE DEF to
  <2> QED
    BY <1>1, <1>6, <2>1, <2>2, <2>3 DEF Broken
<1> QED
  BY <1>3, <1>4, <1>5, <1>6 DEF Fail

LEMMA WaitStep ==
  ASSUME TypeOK, WaitHasDecision, [Next]_vars
  PROVE  WaitHasDecision'
<1> USE DEF WaitHasDecision
<1>1. ASSUME UNCHANGED decision,
             work' = "PENDING_DECISION" => work = "PENDING_DECISION",
             run'.state = "PENDING_DECISION" => run.state = "PENDING_DECISION"
      PROVE  WaitHasDecision'
  BY <1>1
<1>2. run \in Run
  BY DEF TypeOK
<1>3. CASE UNCHANGED vars
  BY <1>3 DEF vars
<1>4. ASSUME NEW w \in Workers, NEW i \in 1 .. Len(Order), Call(w, i) PROVE WaitHasDecision'
  <2>1. Claimed(run).state = "PENDING_DECISION" => run.state = "PENDING_DECISION"
    BY <1>2 DEF Claimed, Run
  <2> QED
    BY <1>1, <1>4, <2>1 DEF Call
<1>5. ASSUME NEW w \in Workers, NEW i \in 1 .. Len(Order), Tick(w, i) PROVE WaitHasDecision'
  BY <1>1, <1>5, TickParts, OutcomeDoesNotWait
<1>6. ASSUME NEW w \in Workers, NEW consumed \in SUBSET Decisions, Return(w, consumed)
      PROVE  WaitHasDecision'
  <2>1. \A r \in Run : \A e : Discard(r, e).state = r.state
    BY DEF Discard, Released, Run
  <2> QED
    BY <1>1, <1>6, <2>1, ReturnParts, OutcomeDoesNotWait
<1>7. ASSUME NEW w \in Workers, NEW d \in Decisions, RequestDecision(w, d)
      PROVE  WaitHasDecision'
  <2>1. decision'[d] = "PENDING"
    BY <1>7 DEF RequestDecision, TypeOK
  <2> QED
    BY <2>1
<1>8. ASSUME NEW w \in Workers, NEW failure \in Failures, CallFails(w, failure)
      PROVE  WaitHasDecision'
  <2>1. Discard(run, exec[w]).state = run.state
    BY <1>2 DEF Discard, Released, Run
  <2> QED
    BY <1>1, <1>8, <2>1 DEF CallFails
<1>9. ASSUME NEW w \in Workers, CallAgain(w) PROVE WaitHasDecision'
  <2>1. run'.state = run.state
    BY <1>2, <1>9 DEF CallAgain, Run
  <2> QED
    BY <1>1, <1>9, <2>1 DEF CallAgain
<1>10. ASSUME NEW w \in Workers, RecordFailure(w) PROVE WaitHasDecision'
  <2>1. exec[w] \in Execution
    BY <1>10, Busy, BusyAt DEF RecordFailure
  <2> QED
    BY <1>1, <1>2, <1>10, <2>1, OutcomeDoesNotWait DEF RecordFailure
<1>11. ASSUME NEW w \in Workers, Crash(w) PROVE WaitHasDecision'
  BY <1>11 DEF Crash
<1>12. CASE LeaseExpires
  BY <1>1, <1>2, <1>12 DEF LeaseExpires, Run
<1>13. ASSUME NEW r \in Run, Resumed(r), r.state = run.state, UNCHANGED decision
       PROVE  WaitHasDecision'
  <2>1. run'.state = r.state
    BY <1>13 DEF Resumed, Run
  <2> QED
    BY <1>1, <1>13, <2>1 DEF Resumed
<1>14. CASE Pause \/ Resume \/ AuthorizeBudget \/ SubmitGuidance \/ UpdatePath
  <2>1. CASE Pause
    BY <2>1 DEF Pause
  <2>2. CASE Resume
    BY <1>2, <1>13, <2>2 DEF Resume
  <2>3. CASE AuthorizeBudget
    <3> DEFINE r == [run EXCEPT !.doc.grant = TRUE, !.doc.pause = FALSE]
    <3>1. r \in Run /\ r.state = run.state
      BY <1>2 DEF Run, Document
    <3> QED
      BY <1>13, <2>3, <3>1 DEF AuthorizeBudget
  <2>4. CASE SubmitGuidance
    BY <1>1, <1>2, <2>4 DEF SubmitGuidance, Bumped, Run
  <2>5. CASE UpdatePath
    BY <1>1, <1>2, <2>5 DEF UpdatePath, Bumped, Run
  <2> QED
    BY <1>14, <2>1, <2>2, <2>3, <2>4, <2>5
<1>15. ASSUME NEW enabled \in BOOLEAN, SetAutoAdvance(enabled) PROVE WaitHasDecision'
  BY <1>1, <1>2, <1>15 DEF SetAutoAdvance, Run
<1>16. ASSUME NEW ds \in SUBSET Decisions, Apply(ds) PROVE WaitHasDecision'
  <2>1. CASE ds = {}
    <3>1. decision' = decision
      BY <1>16, <2>1 DEF Apply, TypeOK
    <3>2. run'.state = run.state /\ work' = work
      BY <1>2, <1>16, <2>1 DEF Apply, Bumped, Run
    <3> QED
      BY <1>1, <3>1, <3>2
  <2>2. CASE ds # {}
    <3>1. work' # "PENDING_DECISION" /\ run'.state # "PENDING_DECISION"
      BY <1>2, <1>16, <2>2 DEF Apply, Bumped, Run
    <3> QED
      BY <3>1
  <2> QED
    BY <2>1, <2>2
<1>17. ASSUME NEW d \in Decisions, ResolveDecision(d) PROVE WaitHasDecision'
  BY <1>16, <1>17 DEF ResolveDecision
<1>18. CASE SweepRead \/ SweepApply \/ SweepCrashes \/ RecoveryRefused
  <2>1. StillPending(timer) \in SUBSET Decisions
    BY DEF StillPending, TypeOK
  <2> QED
    BY <1>16, <1>18, <2>1 DEF SweepRead, SweepApply, SweepCrashes, RecoveryRefused
<1> QED
  BY Actions, <1>3, <1>4, <1>5, <1>6, <1>7, <1>8, <1>9, <1>10, <1>11, <1>12, <1>14,
     <1>15, <1>17, <1>18

\* Who waits for a decision waits for one that can still be taken.
THEOREM WaitsHaveDecisions == Spec => []WaitHasDecision
<1>1. Init => WaitHasDecision
  BY DEF Init, WaitHasDecision
<1>2. TypeOK /\ WaitHasDecision /\ [Next]_vars => WaitHasDecision'
  BY WaitStep
<1> QED
  BY <1>1, <1>2, TypeCorrect, PTL DEF Spec

-------------------------------------------------------------------------------
(* A step is done for the current direction *)

\* only completing its step makes a step succeed
LEMMA NotCompleted ==
  ASSUME NEW e \in Execution, NEW r \in Run, NEW st \in [Steps -> Step], NEW s \in Steps,
         Partial(e, r, st) \/ Fail(e, r, st),
         st[s].state # "SUCCEEDED"
  PROVE  steps'[s].state # "SUCCEEDED"
<1>1. CASE Partial(e, r, st)
  BY <1>1 DEF Partial, Step
<1>2. CASE Broken(e, r, st)
  BY <1>2 DEF Broken, Step, Execution
<1>3. CASE Exhausted(e, r, st)
  BY <1>3 DEF Exhausted, Step, Execution
<1> QED
  BY <1>1, <1>2, <1>3 DEF Fail

LEMMA CompletedRow ==
  ASSUME NEW e, NEW r \in Run, NEW st, Complete(e, r, st)
  PROVE  run'.doc = r.doc /\ run'.input = r.input
BY DEF Complete, Released, Run

LEMMA CurrentStep ==
  ASSUME TypeOK, [Next]_vars, NEW s \in Steps,
         steps[s].state # "SUCCEEDED", steps'[s].state = "SUCCEEDED"
  PROVE  run'.doc.draft = run'.input
<1>1. run \in Run /\ steps \in [Steps -> Step]
  BY DEF TypeOK
<1>2. steps' # steps
  OBVIOUS
<1>3. ASSUME NEW w \in Workers, NEW i \in 1 .. Len(Order) PROVE ~Call(w, i)
  <2>1. Started(steps, Order[i])[s].state # "SUCCEEDED"
    BY <1>1, OrderStep DEF Started, Step
  <2> QED
    BY <2>1 DEF Call
<1>4. ASSUME NEW w \in Workers, NEW i \in 1 .. Len(Order), Tick(w, i)
      PROVE  run'.doc.draft = run'.input
  <2>1. Started(steps, Order[i])[s].state # "SUCCEEDED"
    BY <1>1, OrderStep DEF Started, Step
  <2> QED
    BY <1>4, <2>1, TickParts, NotCompleted, CompletedRow
<1>5. ASSUME NEW w \in Workers, NEW consumed \in SUBSET Decisions, Return(w, consumed)
      PROVE  run'.doc.draft = run'.input
  BY <1>1, <1>2, <1>5, ReturnParts, NotCompleted, CompletedRow
<1>6. ASSUME NEW w \in Workers, NEW d \in Decisions PROVE ~RequestDecision(w, d)
  BY <1>1, <1>2 DEF RequestDecision, Step
<1>7. ASSUME NEW w \in Workers PROVE ~RecordFailure(w)
  <2>1. SUFFICES ASSUME RecordFailure(w) PROVE FALSE
    OBVIOUS
  <2>2. exec[w] \in Execution
    BY <2>1, Busy, BusyAt DEF RecordFailure
  <2> QED
    BY <1>1, <2>1, <2>2, NotCompleted DEF RecordFailure
<1>8. CASE Next
  <2>1. \/ \E w \in Workers, i \in 1 .. Len(Order) : Call(w, i) \/ Tick(w, i)
        \/ \E w \in Workers, consumed \in SUBSET Decisions : Return(w, consumed)
        \/ \E w \in Workers, d \in Decisions : RequestDecision(w, d)
        \/ \E w \in Workers : RecordFailure(w)
    BY <1>2, <1>8, Actions DEF CallFails, CallAgain, Crash, LeaseExpires, Pause, Resume,
       AuthorizeBudget, SubmitGuidance, UpdatePath, SetAutoAdvance, ResolveDecision,
       SweepRead, SweepApply, SweepCrashes, RecoveryRefused
  <2> QED
    BY <2>1, <1>3, <1>4, <1>5, <1>6, <1>7
<1> QED
  BY <1>2, <1>8 DEF vars

\* A step is done with a draft of the direction the user has set last.
THEOREM OutcomesAreCurrent == Spec => OutcomeIsCurrent
<1>1. TypeOK /\ [Next]_vars =>
        [\A s \in Steps :
           steps[s].state # "SUCCEEDED" /\ steps'[s].state = "SUCCEEDED" =>
             run'.doc.draft = run'.input]_vars
  BY CurrentStep
<1> QED
  BY <1>1, TypeCorrect, PTL DEF Spec, OutcomeIsCurrent

-------------------------------------------------------------------------------
(* The fencing token, until a failure recorded late has kept the lease *)

TokensFit == \A w \in Workers : exec[w] # Idle => exec[w].token <= run.token

TokensDiffer ==
  \A w, v \in Workers :
    w # v /\ exec[w] # Idle /\ exec[v] # Idle => exec[w].token # exec[v].token

\* nobody else has touched the step of the execution that has the lease
HolderRuns ==
  \A w \in Workers :
    exec[w] # Idle /\ ~LeaseLost(exec[w]) => steps[exec[w].step].state = "RUNNING"

Fenced == TokensFit /\ TokensDiffer /\ HolderRuns

\* a step that neither claims the run nor touches the steps
LEMMA FencedQuiet ==
  ASSUME TypeOK, Fenced, UNCHANGED steps, run'.token = run.token,
         run'.owned /\ run'.live => run.owned /\ run.live,
         \A v \in Workers : exec'[v] # Idle =>
           exec[v] # Idle /\ exec'[v].token = exec[v].token /\ exec'[v].step = exec[v].step
  PROVE  Fenced'
<1>1. TokensFit' /\ TokensDiffer'
  BY DEF Fenced, TokensFit, TokensDiffer
<1>2. ASSUME NEW v \in Workers, exec'[v] # Idle, ~LeaseLost(exec[v])'
      PROVE  steps'[exec'[v].step].state = "RUNNING"
  <2>1. exec[v] # Idle /\ ~LeaseLost(exec[v])
    BY <1>2 DEF LeaseLost
  <2> QED
    BY <1>2, <2>1 DEF Fenced, HolderRuns
<1> QED
  BY <1>1, <1>2 DEF Fenced, HolderRuns

\* the holder of the lease records what came out and gives the lease up, or keeps it
\* under a new token
LEMMA FencedOutcome ==
  ASSUME TypeOK, TypeOK', Fenced, NEW w \in Workers, Leave(w),
         run'.token >= run.token, run'.owned => run'.token > run.token
  PROVE  Fenced'
<1>1. ASSUME NEW v \in Workers, exec'[v] # Idle
      PROVE  /\ v # w /\ exec'[v] = exec[v] /\ exec[v] # Idle
             /\ exec[v].token <= run'.token
             /\ LeaseLost(exec[v])'
  <2>1. v # w /\ exec'[v] = exec[v]
    BY <1>1 DEF Leave, TypeOK
  <2>2. exec[v].token <= run.token /\ exec[v] \in Execution
    BY <1>1, <2>1, Busy DEF Fenced, TokensFit
  <2>3. exec[v].token \in Nat /\ run.token \in Nat /\ run'.token \in Nat
    BY <2>2 DEF TypeOK, Execution, Run
  <2>4. exec[v].token <= run'.token /\ (run'.owned => exec[v].token < run'.token)
    BY <2>2, <2>3
  <2> QED
    BY <1>1, <2>1, <2>3, <2>4 DEF LeaseLost
<1>2. TokensFit'
  BY <1>1 DEF TokensFit
<1>3. TokensDiffer'
  BY <1>1 DEF Fenced, TokensDiffer
<1>4. HolderRuns'
  BY <1>1 DEF HolderRuns
<1> QED
  BY <1>2, <1>3, <1>4 DEF Fenced

\* what an outcome does to the lease of the row it is written to
LEMMA OutcomeLease ==
  ASSUME NEW e \in Execution, NEW r \in Run, NEW st, e.token = r.token,
         Partial(e, r, st) \/ Complete(e, r, st) \/ Fail(e, r, st)
  PROVE  /\ run'.token >= r.token
         /\ run'.owned => run'.token > r.token
<1>1. Released(r).token = r.token /\ ~Released(r).owned /\ Released(r) \in Run /\ r.token \in Nat
  BY RowTypes, RunFields DEF Released, Run
<1>2. CASE Partial(e, r, st)
  BY <1>1, <1>2 DEF Partial, Run
<1>3. CASE Complete(e, r, st)
  BY <1>1, <1>3 DEF Complete, Run
<1>4. CASE Exhausted(e, r, st)
  BY <1>1, <1>4 DEF Exhausted, Run
<1>5. CASE Broken(e, r, st)
  <2> DEFINE final == e.attempt >= 3 \/ e.failure = "stopped"
             to == IF final THEN "TERMINAL_FAILED" ELSE "RETRYABLE_FAILED"
             kept == [r EXCEPT !.doc = e.doc, !.state = Put(to, e.state, r.state)]
  <2>1. kept \in Run /\ kept.token = r.token
    <3>1. e.doc \in Document
      BY DEF Execution
    <3>2. Put(to, e.state, r.state) \in RunStates
      BY PutType DEF Run, RunStates
    <3> QED
      BY <3>1, <3>2, SetRow DEF Run
  <2>2. run' = IF final THEN Released(kept)
               ELSE [kept EXCEPT !.live = TRUE, !.token = e.token + 1]
    BY <1>5 DEF Broken
  <2>3. CASE final
    <3> HIDE DEF kept, final
    <3>1. Released(kept).token = r.token /\ ~Released(kept).owned
      BY <2>1 DEF Released, Run
    <3> QED
      BY <1>1, <2>2, <2>3, <3>1
  <2>4. CASE ~final
    <3> HIDE DEF kept, final
    <3>1. [kept EXCEPT !.live = TRUE, !.token = e.token + 1].token = e.token + 1
      BY <2>1 DEF Run
    <3> QED
      BY <1>1, <2>2, <2>4, <3>1
  <2> QED
    BY <2>3, <2>4
<1> QED
  BY <1>2, <1>3, <1>4, <1>5 DEF Fail

LEMMA FencedCall ==
  ASSUME TypeOK, TypeOK', Fenced, NEW w \in Workers, NEW i \in 1 .. Len(Order), Call(w, i)
  PROVE  Fenced'
<1> DEFINE s == Order[i]
<1>1. s \in Steps /\ run \in Run /\ steps \in [Steps -> Step] /\ run.token \in Nat
  BY OrderStep, RunFields DEF TypeOK
<1>2. /\ run' = Claimed(run) /\ run'.token = run.token + 1
      /\ steps' = Started(steps, s) /\ steps'[s].state = "RUNNING"
      /\ exec' = [exec EXCEPT ![w] = Memory(Claimed(run), Started(steps, s), s)]
  BY <1>1 DEF Call, Claimed, Started, Run, Step
<1>3. exec'[w].token = run'.token /\ exec'[w].step = s
  <2>1. exec'[w] = Memory(run', steps', s)
    BY <1>2 DEF TypeOK
  <2> QED
    BY <2>1 DEF Memory
<1>4. ASSUME NEW v \in Workers, v # w, exec'[v] # Idle
      PROVE  /\ exec'[v] = exec[v] /\ exec[v] # Idle
             /\ exec[v].token < run'.token
             /\ LeaseLost(exec[v])'
  <2>1. exec'[v] = exec[v]
    BY <1>2, <1>4 DEF TypeOK
  <2>2. exec[v].token <= run.token /\ exec[v].token \in Nat
    BY <1>4, <2>1, Busy DEF Fenced, TokensFit, Execution
  <2>3. exec[v].token < run'.token
    BY <1>1, <1>2, <2>2
  <2> QED
    BY <1>4, <2>1, <2>2, <2>3 DEF LeaseLost
<1>5. run'.token \in Nat
  BY RunFields DEF TypeOK
<1>6. TokensFit'
  <2>1. ASSUME NEW v \in Workers, v # w, exec'[v] # Idle
        PROVE  exec'[v].token <= run'.token
    <3>1. exec[v].token < run'.token /\ exec[v].token \in Nat
      BY <1>4, <2>1, Busy DEF Execution
    <3> QED
      BY <1>4, <1>5, <2>1, <3>1
  <2> QED
    BY <1>3, <1>5, <2>1 DEF TokensFit
<1>7. TokensDiffer'
  <2>1. SUFFICES ASSUME NEW v \in Workers, NEW u \in Workers, v # u,
                        exec'[v] # Idle, exec'[u] # Idle
                 PROVE  exec'[v].token # exec'[u].token
    BY DEF TokensDiffer
  <2>2. ASSUME NEW x \in Workers, x # w, exec'[x] # Idle
        PROVE  exec'[x].token # run'.token
    <3>1. exec[x].token < run'.token /\ exec[x].token \in Nat
      BY <1>4, <2>2, Busy DEF Execution
    <3> QED
      BY <1>4, <1>5, <2>2, <3>1
  <2>3. CASE v = w \/ u = w
    BY <1>3, <2>1, <2>2, <2>3
  <2>4. CASE v # w /\ u # w
    BY <1>4, <2>1, <2>4 DEF Fenced, TokensDiffer
  <2> QED
    BY <2>3, <2>4
<1>8. HolderRuns'
  <2>1. SUFFICES ASSUME NEW v \in Workers, exec'[v] # Idle, ~LeaseLost(exec[v])'
                 PROVE  steps'[exec'[v].step].state = "RUNNING"
    BY DEF HolderRuns
  <2>2. v = w
    BY <1>4, <2>1
  <2> QED
    BY <1>2, <1>3, <2>2
<1> QED
  BY <1>6, <1>7, <1>8 DEF Fenced

\* a claim that is over at once leaves a token that no execution has
LEMMA FencedTick ==
  ASSUME TypeOK, TypeOK', Fenced, NEW w \in Workers, NEW i \in 1 .. Len(Order), Tick(w, i)
  PROVE  Fenced'
<1>1. run.token \in Nat /\ run'.token \in Nat
  BY RunFields DEF TypeOK
<1>2. run'.token > run.token
  <2>1. PICK e \in Execution, r \in Run :
          /\ e.token = r.token /\ r.token = run.token + 1
          /\ \/ Partial(e, r, Started(steps, Order[i]))
             \/ Complete(e, r, Started(steps, Order[i]))
             \/ Fail(e, r, Started(steps, Order[i]))
    BY TickParts
  <2>2. run'.token >= run.token + 1
    BY <2>1, OutcomeLease
  <2> QED
    BY <1>1, <2>2
<1>3. exec' = exec
  BY TickParts
<1>4. ASSUME NEW v \in Workers, exec[v] # Idle
      PROVE  exec[v].token < run'.token /\ exec[v].token \in Nat
  <2>1. exec[v].token \in Nat /\ exec[v].token <= run.token
    BY <1>4, Busy DEF Fenced, TokensFit, Execution
  <2> QED
    BY <1>1, <1>2, <2>1
<1>5. TokensFit'
  BY <1>1, <1>3, <1>4 DEF TokensFit
<1>6. TokensDiffer'
  BY <1>3 DEF Fenced, TokensDiffer
<1>7. HolderRuns'
  BY <1>1, <1>3, <1>4 DEF HolderRuns, LeaseLost
<1> QED
  BY <1>5, <1>6, <1>7 DEF Fenced

LEMMA DiscardLease ==
  ASSUME NEW r \in Run, NEW e
  PROVE  Discard(r, e).token = r.token /\ (Discard(r, e).owned /\ Discard(r, e).live => r.owned /\ r.live)
BY DEF Discard, Released, Run

\* who leaves and changes neither step nor token
LEMMA FencedLeave ==
  ASSUME TypeOK, Fenced, NEW w \in Workers, Leave(w), UNCHANGED steps, run'.token = run.token,
         run'.owned /\ run'.live => run.owned /\ run.live
  PROVE  Fenced'
<1>1. \A v \in Workers : exec'[v] # Idle => exec'[v] = exec[v]
  BY DEF Leave, TypeOK
<1> QED
  BY <1>1, FencedQuiet

LEMMA FencedRequest ==
  ASSUME TypeOK, TypeOK', Fenced, NEW w \in Workers, NEW d \in Decisions, RequestDecision(w, d)
  PROVE  Fenced'
<1> DEFINE e == exec[w]
           waits == e.state = "RUNNING"
           asked == [run EXCEPT !.doc = Drafted(e),
                                !.state = IF waits THEN "PENDING_DECISION" ELSE @]
<1>1. e \in Execution /\ run \in Run /\ Leave(w)
  <2>1. exec[w].at = "calling"
    BY DEF RequestDecision
  <2> QED
    BY <2>1, Busy, BusyAt DEF RequestDecision, TypeOK
<1>2. asked \in Run /\ asked.token = run.token /\ asked.owned = run.owned /\ asked.live = run.live
  <2>1. Drafted(e) \in Document
    BY <1>1, DraftedType
  <2>2. (IF waits THEN "PENDING_DECISION" ELSE run.state) \in RunStates
    BY <1>1, RunFields DEF RunStates
  <2>3. \A dd \in Document, ss \in RunStates :
          /\ [run EXCEPT !.doc = dd, !.state = ss] \in Run
          /\ [run EXCEPT !.doc = dd, !.state = ss].token = run.token
          /\ [run EXCEPT !.doc = dd, !.state = ss].owned = run.owned
          /\ [run EXCEPT !.doc = dd, !.state = ss].live = run.live
    BY <1>1 DEF Run
  <2> QED
    BY <2>1, <2>2, <2>3
<1>3. IF Stale(e)
      THEN run' = Discard(asked, e) /\ UNCHANGED steps
      ELSE run' = [Released(asked) EXCEPT !.state = IF waits THEN @ ELSE "RUNNING"]
  BY DEF RequestDecision
<1> HIDE DEF asked
<1>4. CASE Stale(e)
  BY <1>1, <1>2, <1>3, <1>4, DiscardLease, FencedLeave
<1>5. CASE ~Stale(e)
  <2>1. run'.token = run.token /\ ~run'.owned
    BY <1>2, <1>3, <1>5 DEF Released, Run
  <2>2. run.token \in Nat
    BY <1>1, RunFields
  <2> QED
    BY <1>1, <2>1, <2>2, FencedOutcome
<1> QED
  BY <1>4, <1>5

LEMMA FencedReturn ==
  ASSUME TypeOK, TypeOK', Fenced, NEW w \in Workers, NEW consumed, Return(w, consumed)
  PROVE  Fenced'
<1>1. Leave(w) /\ exec[w] \in Execution
  BY ReturnParts
<1>2. PICK e \in Execution, r \in Run :
        /\ e.token = exec[w].token
        /\ r.token = run.token /\ r.owned = run.owned /\ r.live = run.live
        /\ \/ run' = Discard(r, e) /\ UNCHANGED <<work, steps>>
           \/ /\ ~LeaseLost(exec[w])
              /\ Partial(e, r, steps) \/ Complete(e, r, steps) \/ Fail(e, r, steps)
  BY ReturnParts
<1>3. CASE run' = Discard(r, e) /\ UNCHANGED <<work, steps>>
  BY <1>1, <1>2, <1>3, DiscardLease, FencedLeave
<1>4. CASE /\ ~LeaseLost(exec[w])
           /\ Partial(e, r, steps) \/ Complete(e, r, steps) \/ Fail(e, r, steps)
  <2>1. e.token = r.token
    BY <1>2, <1>4 DEF LeaseLost
  <2>2. run'.token >= r.token /\ (run'.owned => run'.token > r.token)
    BY <1>4, <2>1, OutcomeLease
  <2> QED
    BY <1>1, <1>2, <2>2, FencedOutcome
<1> QED
  BY <1>2, <1>3, <1>4

\* a failure whose execution has lost the lease and that keeps none
LEMMA LateOutcomeLease ==
  ASSUME NEW e \in Execution, NEW st, Fail(e, run, st), run \in Run, ~run'.live
  PROVE  run'.token = run.token /\ ~run'.owned
<1>1. CASE Exhausted(e, run, st)
  BY <1>1 DEF Exhausted, Released, Run
<1>2. CASE Broken(e, run, st)
  <2> DEFINE final == e.attempt >= 3 \/ e.failure = "stopped"
             to == IF final THEN "TERMINAL_FAILED" ELSE "RETRYABLE_FAILED"
             kept == [run EXCEPT !.doc = e.doc, !.state = Put(to, e.state, run.state)]
  <2>1. kept \in Run /\ kept.token = run.token
    <3>1. e.doc \in Document
      BY DEF Execution
    <3>2. Put(to, e.state, run.state) \in RunStates
      BY PutType DEF Run, RunStates
    <3> QED
      BY <3>1, <3>2, SetRow DEF Run
  <2>2. run' = IF final THEN Released(kept)
               ELSE [kept EXCEPT !.live = TRUE, !.token = e.token + 1]
    BY <1>2 DEF Broken
  <2>3. final
    <3> HIDE DEF kept, final
    <3>1. [kept EXCEPT !.live = TRUE, !.token = e.token + 1].live
      BY <2>1 DEF Run
    <3> QED
      BY <2>2, <3>1
  <2>4. run' = Released(kept)
    BY <2>2, <2>3
  <2> HIDE DEF kept
  <2> QED
    BY <2>1, <2>4 DEF Released, Run
<1> QED
  BY <1>1, <1>2 DEF Fail

LEMMA FencedFailure ==
  ASSUME TypeOK, TypeOK', Fenced, NEW w \in Workers, RecordFailure(w),
         ~LeaseLost(exec[w]) \/ ~run'.live
  PROVE  Fenced'
<1>1. exec[w].at = "failing" /\ Leave(w) /\ Fail(exec[w], run, steps)
  BY DEF RecordFailure
<1>2. exec[w] # Idle /\ exec[w] \in Execution /\ run \in Run /\ run.token \in Nat
  BY <1>1, Busy, BusyAt, RunFields DEF TypeOK
<1>3. CASE ~LeaseLost(exec[w])
  <2>1. exec[w].token = run.token
    BY <1>3 DEF LeaseLost
  <2> QED
    BY <1>1, <1>2, <2>1, OutcomeLease, FencedOutcome
<1>4. CASE ~run'.live
  <2>1. run'.token = run.token /\ ~run'.owned
    BY <1>1, <1>2, <1>4, LateOutcomeLease
  <2> QED
    BY <1>1, <1>2, <2>1, FencedOutcome
<1> QED
  BY <1>3, <1>4

LEMMA FenceIsNext ==
  ASSUME [FenceNext]_fenceVars
  PROVE  [Next]_vars
BY DEF FenceNext, fenceVars, vars

LEMMA FencedStep ==
  ASSUME TypeOK, Fenced, [Next]_vars, ~Reopens
  PROVE  Fenced'
<1>1. TypeOK'
  BY TypeStep
<1>2. run \in Run
  BY DEF TypeOK
<1>3. ASSUME UNCHANGED <<steps, exec>>, run'.token = run.token,
             run'.owned /\ run'.live => run.owned /\ run.live
      PROVE  Fenced'
  BY <1>3, FencedQuiet
<1>4. CASE UNCHANGED vars
  BY <1>3, <1>4 DEF vars
<1>5. ASSUME NEW w \in Workers, CallFails(w, "error") \/ CallFails(w, "cost") PROVE Fenced'
  <2>1. CASE Stale(exec[w])
    BY <1>2, <1>5, <2>1, DiscardLease, FencedLeave DEF CallFails
  <2>2. CASE ~Stale(exec[w])
    <3>1. exec[w] # Idle /\ exec[w] \in Execution
      BY <1>5, Busy, BusyAt DEF CallFails
    <3>2. PICK f \in Failures :
            exec' = [exec EXCEPT ![w] = [exec[w] EXCEPT !.at = "failing", !.failure = f]]
      BY <1>5, <2>2 DEF CallFails, Failures
    <3>3. /\ exec'[w] = [exec[w] EXCEPT !.at = "failing", !.failure = f]
          /\ \A v \in Workers \ {w} : exec'[v] = exec[v]
      BY <3>2 DEF TypeOK
    <3>4. exec'[w].token = exec[w].token /\ exec'[w].step = exec[w].step
      BY <3>1, <3>3 DEF Execution
    <3>5. UNCHANGED <<steps, run>>
      BY <1>5, <2>2 DEF CallFails
    <3> QED
      BY <3>1, <3>3, <3>4, <3>5, FencedQuiet
  <2> QED
    BY <2>1, <2>2
<1>6. ASSUME NEW w \in Workers, CallAgain(w) PROVE Fenced'
  <2>1. exec[w] # Idle /\ exec[w] \in Execution
    BY <1>6, Busy, BusyAt DEF CallAgain
  <2>2. exec' = [exec EXCEPT ![w] = [exec[w] EXCEPT !.doc = Drafted(exec[w])]]
    BY <1>6 DEF CallAgain
  <2>3. /\ exec'[w] = [exec[w] EXCEPT !.doc = Drafted(exec[w])]
        /\ \A v \in Workers \ {w} : exec'[v] = exec[v]
    BY <2>2 DEF TypeOK
  <2>4. exec'[w].token = exec[w].token /\ exec'[w].step = exec[w].step
    BY <2>1, <2>3 DEF Execution
  <2>5. UNCHANGED steps /\ run'.token = run.token /\ run'.owned = run.owned /\ run'.live = run.live
    BY <1>2, <1>6 DEF CallAgain, Run
  <2> QED
    BY <2>1, <2>3, <2>4, <2>5, FencedQuiet
<1>7. ASSUME NEW w \in Workers, Crash(w) PROVE Fenced'
  BY <1>7, FencedLeave DEF Crash
<1>8. ASSUME NEW r \in Run, Resumed(r), UNCHANGED <<steps, exec>>,
             r.token = run.token, r.owned = run.owned, r.live = run.live
      PROVE  Fenced'
  <2>1. run'.token = r.token /\ (run'.live => r.live) /\ run'.owned = r.owned
    BY <1>8 DEF Resumed, Run
  <2> QED
    BY <1>3, <1>8, <2>1
<1>9. CASE LeaseExpires \/ Pause \/ Resume \/ SubmitGuidance \/ UpdatePath
  <2>1. CASE LeaseExpires
    BY <1>2, <1>3, <2>1 DEF LeaseExpires, Run
  <2>2. CASE Pause
    BY <1>3, <2>2 DEF Pause
  <2>3. CASE Resume
    BY <1>2, <1>8, <2>3 DEF Resume
  <2>4. CASE SubmitGuidance
    BY <1>2, <1>3, <2>4 DEF SubmitGuidance, Bumped, Run
  <2>5. CASE UpdatePath
    BY <1>2, <1>3, <2>5 DEF UpdatePath, Bumped, Run
  <2> QED
    BY <1>9, <2>1, <2>2, <2>3, <2>4, <2>5
<1>10. CASE AuthorizeBudget
  <2> DEFINE r == [run EXCEPT !.doc.grant = TRUE, !.doc.pause = FALSE]
  <2>1. r \in Run /\ r.token = run.token /\ r.owned = run.owned /\ r.live = run.live
    BY <1>2 DEF Run, Document
  <2> QED
    BY <1>8, <1>10, <2>1 DEF AuthorizeBudget
<1>11. ASSUME NEW enabled \in BOOLEAN, SetAutoAdvance(enabled) PROVE Fenced'
  BY <1>2, <1>3, <1>11 DEF SetAutoAdvance, Run
<1>12. ASSUME NEW ds, Apply(ds), UNCHANGED <<steps, exec>> PROVE Fenced'
  <2>1. run'.token = run.token /\ run'.owned = run.owned /\ run'.live = run.live
    BY <1>2, <1>12 DEF Apply, Bumped, Run
  <2> QED
    BY <1>3, <1>12, <2>1
<1>13. ASSUME NEW d \in Decisions, ResolveDecision(d) PROVE Fenced'
  BY <1>12, <1>13 DEF ResolveDecision
<1>14. CASE SweepRead \/ SweepApply \/ SweepCrashes \/ RecoveryRefused
  BY <1>3, <1>12, <1>14 DEF SweepRead, SweepApply, SweepCrashes, RecoveryRefused
<1>15. ASSUME NEW w \in Workers, NEW failure, CallFails(w, failure) PROVE Fenced'
  BY <1>5, <1>15 DEF CallFails
<1>16. ASSUME NEW w \in Workers, RecordFailure(w) PROVE Fenced'
  <2>1. ~LeaseLost(exec[w]) \/ ~run'.live
    BY <1>16 DEF Reopens, RecordsLate
  <2> QED
    BY <1>1, <1>16, <2>1, FencedFailure
<1>17. CASE Next
  BY Actions, <1>1, <1>6, <1>7, <1>9, <1>10, <1>11, <1>13, <1>14, <1>15, <1>16, <1>17,
     FencedCall, FencedTick, FencedReturn, FencedRequest
<1> QED
  BY <1>4, <1>17

FenceInv == TypeOK /\ (reopened \/ Fenced)

LEMMA FenceInit ==
  ASSUME Init, reopened = FALSE
  PROVE  FenceInv
BY TypeInit DEF FenceInv, Init, Fenced, TokensFit, TokensDiffer, HolderRuns

LEMMA FenceStep ==
  ASSUME FenceInv, [FenceNext]_fenceVars
  PROVE  FenceInv'
<1>1. TypeOK'
  BY TypeStep, FenceIsNext DEF FenceInv
<1>2. CASE UNCHANGED fenceVars
  <2>1. Fenced => Fenced'
    BY <1>2, FencedQuiet DEF FenceInv, fenceVars, vars
  <2> QED
    BY <1>1, <1>2, <2>1 DEF FenceInv, fenceVars
<1>3. CASE FenceNext
  BY <1>1, <1>3, FencedStep DEF FenceInv, FenceNext
<1> QED
  BY <1>2, <1>3

\* At most one execution would pass the check of its lease, until a failure recorded
\* late by an execution without the lease has kept it.
THEOREM OneHolds == FenceSpec => []OneHolder
<1>1. Init /\ reopened = FALSE => FenceInv
  BY FenceInit
<1>2. FenceInv /\ [FenceNext]_fenceVars => FenceInv'
  BY FenceStep
<1>3. FenceInv => OneHolder
  BY DEF FenceInv, Fenced, TokensDiffer, OneHolder, LeaseLost
<1> QED
  BY <1>1, <1>2, <1>3, PTL DEF FenceSpec

\* of the outcomes, only REVIEW's touches a step other than its own
LEMMA OutcomeKeepsDone ==
  ASSUME NEW e \in Execution, NEW r, NEW st \in [Steps -> Step], NEW s \in Steps,
         Partial(e, r, st) \/ Complete(e, r, st) \/ Fail(e, r, st),
         st[e.step].state # "SUCCEEDED",
         st[s].state = "SUCCEEDED", steps'[s].state # "SUCCEEDED"
  PROVE  s = "PRODUCE" /\ e.step = "REVIEW"
<1>1. e.step \in Steps /\ e.step # s
  BY DEF Execution
<1>2. CASE Partial(e, r, st)
  BY <1>1, <1>2 DEF Partial
<1>3. CASE Complete(e, r, st)
  BY <1>1, <1>3 DEF Complete
<1>4. CASE Exhausted(e, r, st)
  BY <1>1, <1>4 DEF Exhausted
<1>5. CASE Broken(e, r, st)
  BY <1>1, <1>5 DEF Broken
<1> QED
  BY <1>2, <1>3, <1>4, <1>5 DEF Fail

LEMMA DoneStep ==
  ASSUME TypeOK, Fenced, [Next]_vars, NEW s \in Steps,
         steps[s].state = "SUCCEEDED", steps'[s].state # "SUCCEEDED"
  PROVE  \/ s = "PRODUCE" /\ "REVIEW" \in Steps /\ steps["REVIEW"].state # "SUCCEEDED"
         \/ \E w \in Workers : RecordsLate(w) /\ exec[w].step = s
<1>1. steps \in [Steps -> Step] /\ steps' # steps
  BY DEF TypeOK
<1>2. ASSUME NEW w \in Workers, NEW i \in 1 .. Len(Order) PROVE ~Call(w, i)
  BY <1>1, OrderStep DEF Call, MayAdvance, Unfinished, Started, Step
<1>3. ASSUME NEW w \in Workers, NEW i \in 1 .. Len(Order), Tick(w, i)
      PROVE  s = "PRODUCE" /\ "REVIEW" \in Steps /\ steps["REVIEW"].state # "SUCCEEDED"
  <2> DEFINE t == Order[i]
             st == Started(steps, t)
  <2>1. t \in Steps /\ steps[t].state # "SUCCEEDED" /\ st \in [Steps -> Step]
    BY <1>3, TickParts
  <2>2. st[t].state # "SUCCEEDED" /\ st[s].state = "SUCCEEDED"
    BY <1>1, <2>1 DEF Started, Step
  <2>3. PICK e \in Execution, r \in Run :
          e.step = t /\ (Partial(e, r, st) \/ Complete(e, r, st) \/ Fail(e, r, st))
    BY <1>3, TickParts
  <2> HIDE DEF st, t
  <2> QED
    BY <2>1, <2>2, <2>3, OutcomeKeepsDone
<1>4. ASSUME NEW w \in Workers, exec[w] # Idle, ~LeaseLost(exec[w])
      PROVE  exec[w].step \in Steps /\ steps[exec[w].step].state # "SUCCEEDED"
  BY <1>4, Busy DEF Fenced, HolderRuns, Execution
<1>5. ASSUME NEW w \in Workers, NEW consumed \in SUBSET Decisions, Return(w, consumed)
      PROVE  s = "PRODUCE" /\ "REVIEW" \in Steps /\ steps["REVIEW"].state # "SUCCEEDED"
  BY <1>1, <1>4, <1>5, ReturnParts, OutcomeKeepsDone
<1>6. ASSUME NEW w \in Workers, NEW d \in Decisions PROVE ~RequestDecision(w, d)
  <2>1. SUFFICES ASSUME RequestDecision(w, d) PROVE FALSE
    OBVIOUS
  <2>2. exec[w] # Idle /\ exec[w] \in Execution
    BY <2>1, Busy, BusyAt DEF RequestDecision
  <2>3. CASE Stale(exec[w])
    BY <1>1, <2>1, <2>3 DEF RequestDecision
  <2>4. CASE ~Stale(exec[w])
    <3>1. steps[exec[w].step].state # "SUCCEEDED"
      BY <1>4, <2>2, <2>4 DEF Stale
    <3>2. steps' = [steps EXCEPT ![exec[w].step] = [state |-> "PENDING", attempt |-> 0]]
      BY <2>1, <2>4 DEF RequestDecision
    <3> QED
      BY <1>1, <3>1, <3>2
  <2> QED
    BY <2>3, <2>4
<1>7. ASSUME NEW w \in Workers, RecordFailure(w)
      PROVE  \/ s = "PRODUCE" /\ "REVIEW" \in Steps /\ steps["REVIEW"].state # "SUCCEEDED"
             \/ RecordsLate(w) /\ exec[w].step = s
  <2>1. exec[w] # Idle /\ exec[w] \in Execution /\ Fail(exec[w], run, steps)
    BY <1>7, Busy, BusyAt DEF RecordFailure
  <2>2. CASE LeaseLost(exec[w])
    <3>1. s = exec[w].step
      BY <1>1, <2>1 DEF Fail, Exhausted, Broken
    <3> QED
      BY <1>7, <2>2, <3>1 DEF RecordsLate
  <2>3. CASE ~LeaseLost(exec[w])
    BY <1>1, <1>4, <2>1, <2>3, OutcomeKeepsDone
  <2> QED
    BY <2>2, <2>3
<1>8. CASE Next
  <2>1. \/ \E w \in Workers, i \in 1 .. Len(Order) : Call(w, i) \/ Tick(w, i)
        \/ \E w \in Workers, consumed \in SUBSET Decisions : Return(w, consumed)
        \/ \E w \in Workers, d \in Decisions : RequestDecision(w, d)
        \/ \E w \in Workers : RecordFailure(w)
    BY <1>1, <1>8, Actions DEF CallFails, CallAgain, Crash, LeaseExpires, Pause, Resume,
       AuthorizeBudget, SubmitGuidance, UpdatePath, SetAutoAdvance, ResolveDecision,
       SweepRead, SweepApply, SweepCrashes, RecoveryRefused
  <2> QED
    BY <2>1, <1>2, <1>3, <1>5, <1>6, <1>7
<1> QED
  BY <1>1, <1>8 DEF vars

\* Until then, a step that was done is done again only when REVIEW sends the chapter
\* back, or when a failure of that step is recorded late.
THEOREM DoneStays == FenceSpec => DoneStaysDone
<1>1. Init /\ reopened = FALSE => FenceInv
  BY FenceInit
<1>2. FenceInv /\ [FenceNext]_fenceVars => FenceInv'
  BY FenceStep
<1>3. FenceInv /\ [FenceNext]_fenceVars =>
        [\A s \in Steps :
           ~reopened /\ steps[s].state = "SUCCEEDED" /\ steps'[s].state # "SUCCEEDED" =>
             \/ s = "PRODUCE" /\ "REVIEW" \in Steps /\ steps["REVIEW"].state # "SUCCEEDED"
             \/ \E w \in Workers : RecordsLate(w) /\ exec[w].step = s]_fenceVars
  BY FenceIsNext, DoneStep DEF FenceInv
<1> QED
  BY <1>1, <1>2, <1>3, PTL DEF FenceSpec, DoneStaysDone
===============================================================================
