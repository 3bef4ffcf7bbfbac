---------------------------- MODULE RuntimeProofs ----------------------------
(***************************************************************************)
(* Proofs about the outbox, the timers and the loop of the workers, for    *)
(* any number of workers, events, timers, attempts and faults.             *)
(***************************************************************************)
EXTENDS WorkerLoop, TLAPS

-------------------------------------------------------------------------------
(* The outbox *)

\* An event that was not inserted has been touched by nobody, and whoever means
\* to acknowledge an event has completed its handler.
Untouched ==
  \A e \in Events : event[e].status = "NONE" =>
    event[e].attempt = 0 /\ e \notin handled /\ \A w \in Workers : run[w][e] = "idle"

OkIsHandled == \A w \in Workers, e \in Events : run[w][e] = "ok" => e \in handled

\* There is one attempt to spare for every fault, and one for a row that can be
\* claimed: a claim whose lease may be taken over was left by a fault.
Spare(e) ==
  event[e].status \in {"PENDING", "FAILED"} \/
  (event[e].status = "DISPATCHING" /\ ~(event[e].live /\ Working(e)))
Bounded ==
  \A e \in Events :
    /\ event[e].attempt <= MaxAttempts + faults
    /\ Spare(e) => event[e].attempt < MaxAttempts + faults

OutboxInv == OutboxTypeOK /\ Untouched /\ OkIsHandled /\ Bounded

\* What the steps do to a row keeps it a row.
LEMMA RowFacts ==
  ASSUME NEW r \in Row
  PROVE  /\ r.status \in EventStatus /\ r.attempt \in Nat /\ r.live \in BOOLEAN
         /\ r.owner \in Workers \union {NoWorker}
         /\ \A s \in EventStatus : /\ Ended(r, s) \in Row /\ Ended(r, s).status = s
                                   /\ Ended(r, s).attempt = r.attempt
         /\ \A d \in BOOLEAN : [r EXCEPT !.due = d] \in Row
         /\ \A d \in BOOLEAN : [r EXCEPT !.live = d] \in Row
         /\ \A s \in EventStatus, d \in BOOLEAN : [r EXCEPT !.status = s, !.due = d] \in Row
         /\ \A d \in BOOLEAN, n \in Nat : [r EXCEPT !.due = d, !.attempt = n] \in Row
BY DEF Row, Ended

LEMMA EndedFacts ==
  ASSUME NEW r \in Row, NEW s \in EventStatus
  PROVE  Ended(r, s) \in Row /\ Ended(r, s).status = s /\ Ended(r, s).attempt = r.attempt
BY DEF Row, Ended

LEMMA OutboxInitial == OutboxInit => OutboxInv
BY OutboxAssumption DEF OutboxInit, OutboxInv, OutboxTypeOK, Untouched, OkIsHandled, Bounded, Spare,
   Row, RunState, EventStatus

\* A row is inserted by a business transaction, or by a timer that fires.
LEMMA InsertKeeps ==
  ASSUME OutboxInv, NEW e \in Events, event[e].status = "NONE", event' = Inserted(e),
         UNCHANGED <<run, handled, faults>>
  PROVE  OutboxInv'
<1>1. event'[e] = [event[e] EXCEPT !.status = "PENDING", !.due = TRUE]
      /\ \A f \in Events \ {e} : event'[f] = event[f]
  BY DEF OutboxInv, OutboxTypeOK, Inserted
<1>2. OutboxTypeOK'
  BY DEF OutboxInv, OutboxTypeOK, Inserted, Row, EventStatus
<1>3. event'[e].attempt = 0 /\ event'[e].status = "PENDING"
  BY <1>1 DEF OutboxInv, OutboxTypeOK, Untouched, Row
<1> HIDE DEF Inserted
<1>4. run' = run /\ handled' = handled /\ faults' = faults
  OBVIOUS
<1>5. Untouched' /\ OkIsHandled'
  <2>1. Untouched'
    <3> SUFFICES ASSUME NEW f \in Events, event'[f].status = "NONE"
                 PROVE  event'[f].attempt = 0 /\ f \notin handled /\ \A w \in Workers : run[w][f] = "idle"
      BY <1>4 DEF Untouched
    <3>1. f # e
      BY <1>3
    <3> QED
      BY <1>1, <3>1 DEF OutboxInv, Untouched
  <2>2. OkIsHandled'
    BY <1>4 DEF OutboxInv, OkIsHandled
  <2> QED
    BY <2>1, <2>2
<1>6. Bounded'
  <2> SUFFICES ASSUME NEW f \in Events
               PROVE  /\ event'[f].attempt <= MaxAttempts + faults'
                      /\ Spare(f)' => event'[f].attempt < MaxAttempts + faults'
    BY DEF Bounded
  <2>1. faults \in Nat /\ MaxAttempts \in Nat \ {0}
    BY OutboxAssumption DEF OutboxInv, OutboxTypeOK
  <2>2. f # e => (Spare(f)' <=> Spare(f))
    BY <1>1, <1>4 DEF Spare, Working
  <2>3. CASE f # e
    BY <1>1, <1>4, <2>2, <2>3 DEF OutboxInv, Bounded
  <2>4. event'[e].attempt < MaxAttempts + faults /\ event'[e].attempt <= MaxAttempts + faults
    BY <1>3, <2>1
  <2> QED
    BY <1>4, <2>3, <2>4
<1> QED
  BY <1>2, <1>5, <1>6 DEF OutboxInv

LEMMA ClaimKeeps ==
  ASSUME OutboxInv, NEW w \in Workers, Claim(w)
  PROVE  OutboxInv'
<1>1. PICK claimed \in Batches(Claimable, Concurrency) :
       /\ event' = [e \in Events |->
                      IF e \in claimed
                      THEN [status |-> "DISPATCHING", due |-> FALSE, owner |-> w,
                            live |-> TRUE, attempt |-> event[e].attempt + 1]
                      ELSE event[e]]
       /\ run' = [run EXCEPT ![w] = [e \in Events |->
                                        IF e \in claimed THEN "running" ELSE @[e]]]
  BY DEF Claim
<1>2. claimed \subseteq Claimable /\ UNCHANGED <<handled, faults>> /\ Idle(w)
  BY DEF Batches, Claim
<1>3. OutboxTypeOK'
  <2>1. \A e \in Events : event[e] \in Row /\ event[e].attempt \in Nat
    BY DEF OutboxInv, OutboxTypeOK, Row
  <2>2. event' \in [Events -> Row]
    BY <1>1, <2>1 DEF Row, EventStatus
  <2>3. run' \in [Workers -> [Events -> RunState]]
    BY <1>1 DEF OutboxInv, OutboxTypeOK, RunState
  <2> QED
    BY <1>2, <2>2, <2>3 DEF OutboxInv, OutboxTypeOK
<1>4. \A f \in Events, x \in Workers :
        run'[x][f] = IF x = w /\ f \in claimed THEN "running" ELSE run[x][f]
  BY <1>1 DEF OutboxInv, OutboxTypeOK
<1>5. Untouched'
  BY <1>1, <1>2, <1>4 DEF OutboxInv, OutboxTypeOK, Untouched, Claimable
<1>6. OkIsHandled'
  BY <1>2, <1>4 DEF OutboxInv, OkIsHandled
<1>7. Bounded'
  <2> SUFFICES ASSUME NEW e \in Events
               PROVE  /\ event'[e].attempt <= MaxAttempts + faults'
                      /\ Spare(e)' => event'[e].attempt < MaxAttempts + faults'
    BY DEF Bounded
  <2>0. event[e] \in Row /\ event[e].attempt \in Nat /\ faults \in Nat /\ MaxAttempts \in Nat
    BY OutboxAssumption DEF OutboxInv, OutboxTypeOK, Row
  <2>1. CASE e \in claimed
    <3>1. Spare(e)
      BY <1>2, <2>1 DEF Claimable, Spare
    <3>2. event[e].attempt < MaxAttempts + faults
      BY <3>1 DEF OutboxInv, Bounded
    <3>3. event'[e].attempt = event[e].attempt + 1 /\ event'[e].live /\ event'[e].owner = w
          /\ event'[e].status = "DISPATCHING" /\ run'[w][e] = "running"
      BY <1>1, <1>4, <2>1
    <3>4. ~Spare(e)'
      BY <3>3, OutboxAssumption DEF Spare, Working
    <3> QED
      BY <3>2, <3>3, <3>4, <2>0, <1>2
  <2>2. CASE e \notin claimed
    <3>1. event'[e] = event[e] /\ \A x \in Workers : run'[x][e] = run[x][e]
      BY <1>1, <1>4, <2>2
    <3>2. Spare(e)' => Spare(e)
      BY <3>1, <2>0 DEF Spare, Working, Row
    <3> QED
      BY <3>1, <3>2, <1>2 DEF OutboxInv, Bounded
  <2> QED
    BY <2>1, <2>2
<1> QED
  BY <1>3, <1>5, <1>6, <1>7 DEF OutboxInv

LEMMA HandlerEndsKeeps ==
  ASSUME OutboxInv, NEW w \in Workers, NEW e \in Events, HandlerEnds(w, e)
  PROVE  OutboxInv'
<1>1. PICK outcome \in {"ok", "retry", "fatal"} :
       /\ run' = [run EXCEPT ![w][e] = outcome]
       /\ handled' = IF outcome = "ok" THEN handled \union {e} ELSE handled
  BY DEF HandlerEnds
<1>2. UNCHANGED <<event, faults>> /\ run[w][e] = "running"
  BY DEF HandlerEnds
<1>3. \A f \in Events, x \in Workers :
        run'[x][f] = IF x = w /\ f = e THEN outcome ELSE run[x][f]
  BY <1>1 DEF OutboxInv, OutboxTypeOK
<1>4. OutboxTypeOK'
  BY <1>1, <1>2 DEF OutboxInv, OutboxTypeOK, RunState
<1>5. Untouched' /\ OkIsHandled'
  BY <1>1, <1>2, <1>3 DEF OutboxInv, Untouched, OkIsHandled
<1>6. Bounded'
  <2>1. \A f \in Events : event[f] \in Row /\ (Working(f)' <=> Working(f))
    BY <1>2, <1>3 DEF OutboxInv, OutboxTypeOK, Working, Row
  <2> QED
    BY <1>2, <2>1 DEF OutboxInv, Bounded, Spare
<1> QED
  BY <1>4, <1>5, <1>6 DEF OutboxInv

\* The end of one handler, whatever it writes: nothing, or the end of the event,
\* which must be written if this was the handler of the claim.
LEMMA EndKeeps ==
  ASSUME OutboxInv, NEW w \in Workers, NEW e \in Events, NEW row \in Row,
         run[w][e] # "idle", run' = [run EXCEPT ![w][e] = "idle"],
         event' = [event EXCEPT ![e] = row], UNCHANGED <<handled, faults>>,
         row.attempt = event[e].attempt, row.status # "NONE",
         \/ row = event[e] /\ ~(row.status = "DISPATCHING" /\ row.owner = w)
         \/ row.status \in {"DISPATCHED", "DEAD_LETTER"}
         \/ row.status = "FAILED" /\ row.attempt < MaxAttempts
  PROVE  OutboxInv'
<1>1. \A f \in Events, x \in Workers :
        run'[x][f] = IF x = w /\ f = e THEN "idle" ELSE run[x][f]
  BY DEF OutboxInv, OutboxTypeOK
<1>2. event'[e] = row /\ \A f \in Events \ {e} : event'[f] = event[f]
  BY DEF OutboxInv, OutboxTypeOK
<1>3. OutboxTypeOK'
  BY DEF OutboxInv, OutboxTypeOK, RunState
<1>4. Untouched' /\ OkIsHandled'
  BY <1>1, <1>2 DEF OutboxInv, Untouched, OkIsHandled
<1>5. Bounded'
  <2> SUFFICES ASSUME NEW f \in Events
               PROVE  /\ event'[f].attempt <= MaxAttempts + faults'
                      /\ Spare(f)' => event'[f].attempt < MaxAttempts + faults'
    BY DEF Bounded
  <2>0. /\ event[f] \in Row /\ event[f].attempt \in Nat /\ faults \in Nat /\ MaxAttempts \in Nat
        /\ event[f].owner \in Workers \union {NoWorker}
    BY OutboxAssumption DEF OutboxInv, OutboxTypeOK, Row
  <2>1. CASE f # e
    <3>1. Spare(f)' <=> Spare(f)
      BY <1>1, <1>2, <2>0, <2>1 DEF Spare, Working
    <3> QED
      BY <1>2, <2>1, <3>1 DEF OutboxInv, Bounded
  <2>2. CASE f = e /\ row = event[e] /\ ~(row.status = "DISPATCHING" /\ row.owner = w)
    <3>1. Spare(f)' => Spare(f)
      BY <1>1, <1>2, <2>0, <2>2 DEF Spare, Working
    <3> QED
      BY <1>2, <2>2, <3>1 DEF OutboxInv, Bounded
  <2>3. CASE f = e /\ row.status \in {"DISPATCHED", "DEAD_LETTER"}
    BY <1>2, <2>0, <2>3 DEF OutboxInv, Bounded, Spare
  <2>4. CASE f = e /\ row.status = "FAILED" /\ row.attempt < MaxAttempts
    BY <1>2, <2>0, <2>4 DEF OutboxInv, Bounded, Spare
  <2> QED
    BY <2>1, <2>2, <2>3, <2>4
<1> QED
  BY <1>3, <1>4, <1>5 DEF OutboxInv

LEMMA AckKeeps ==
  ASSUME OutboxInv, NEW w \in Workers, NEW e \in Events, Ack(w, e)
  PROVE  OutboxInv'
<1>1. event[e] \in Row /\ event = [event EXCEPT ![e] = event[e]] /\ event[e].status # "NONE"
  BY DEF OutboxInv, OutboxTypeOK, Untouched, Ack
<1>2. CASE event[e].status = "DISPATCHING"
  BY <1>1, <1>2, RowFacts, EndKeeps DEF Ack, EventStatus
<1>3. CASE event[e].status # "DISPATCHING"
  BY <1>1, <1>3, EndKeeps DEF Ack
<1> QED
  BY <1>2, <1>3

LEMMA FailKeeps ==
  ASSUME OutboxInv, NEW w \in Workers, NEW e \in Events, Fail(w, e)
  PROVE  OutboxInv'
<1>1. event[e] \in Row /\ event = [event EXCEPT ![e] = event[e]] /\ event[e].status # "NONE"
      /\ event[e].attempt \in Nat /\ MaxAttempts \in Nat
  BY OutboxAssumption, RowFacts DEF OutboxInv, OutboxTypeOK, Untouched, Fail
<1>2. CASE event[e].status = "DISPATCHING" /\ event[e].owner = w
  <2>1. \/ Verdict(w, e) = "DEAD_LETTER"
        \/ Verdict(w, e) = "FAILED" /\ event[e].attempt < MaxAttempts
    BY <1>1 DEF Verdict
  <2>2. /\ Ended(event[e], Verdict(w, e)) \in Row
        /\ Ended(event[e], Verdict(w, e)).status = Verdict(w, e)
        /\ Ended(event[e], Verdict(w, e)).attempt = event[e].attempt
    <3>1. Verdict(w, e) \in EventStatus
      BY <2>1 DEF EventStatus
    <3> QED
      BY <1>1, <3>1, EndedFacts
  <2>3. /\ event' = [event EXCEPT ![e] = Ended(event[e], Verdict(w, e))]
        /\ run' = [run EXCEPT ![w][e] = "idle"] /\ run[w][e] # "idle"
        /\ UNCHANGED <<handled, faults>>
    BY <1>2 DEF Fail, OutboxInv, OutboxTypeOK
  <2> QED
    BY <2>1, <2>2, <2>3, EndKeeps
<1>3. CASE ~(event[e].status = "DISPATCHING" /\ event[e].owner = w)
  BY <1>1, <1>3, EndKeeps DEF Fail
<1> QED
  BY <1>2, <1>3

LEMMA ReplayKeeps ==
  ASSUME OutboxInv, NEW e \in Events, Replay(e)
  PROVE  OutboxInv'
<1>1. PICK attempt \in {0, event[e].attempt} :
        event' = [event EXCEPT ![e] = [Ended(@, "PENDING") EXCEPT !.due = TRUE, !.attempt = attempt]]
  BY DEF Replay
<1>2. /\ event[e].status = "DEAD_LETTER" /\ UNCHANGED <<run, handled>>
      /\ faults < MaxFaults /\ faults' = faults + 1
  BY DEF Replay, AnotherFault
<1>3. /\ \A f \in Events : event[f] \in Row /\ event[f].attempt \in Nat
      /\ faults \in Nat /\ MaxAttempts \in Nat \ {0} /\ MaxFaults \in Nat
  BY OutboxAssumption DEF OutboxInv, OutboxTypeOK, Row
<1> DEFINE row == [Ended(event[e], "PENDING") EXCEPT !.due = TRUE, !.attempt = attempt]
<1>4. row \in Row /\ row.status = "PENDING" /\ row.attempt = attempt
  <2>1. Ended(event[e], "PENDING") \in Row /\ attempt \in Nat
        /\ Ended(event[e], "PENDING").status = "PENDING"
    BY <1>3, EndedFacts DEF EventStatus
  <2> HIDE DEF Ended
  <2> QED
    BY <2>1 DEF Row
<1> HIDE DEF row
<1>5. event'[e] = row /\ \A f \in Events \ {e} : event'[f] = event[f]
  BY <1>1 DEF OutboxInv, OutboxTypeOK, row
<1>6. OutboxTypeOK'
  BY <1>1, <1>2, <1>3, <1>4 DEF OutboxInv, OutboxTypeOK, row
<1>7. Untouched' /\ OkIsHandled'
  BY <1>2, <1>4, <1>5 DEF OutboxInv, Untouched, OkIsHandled
<1>8. Bounded'
  BY <1>2, <1>3, <1>4, <1>5 DEF OutboxInv, Bounded, Spare, Working
<1> QED
  BY <1>6, <1>7, <1>8 DEF OutboxInv

LEMMA BackoffKeeps ==
  ASSUME OutboxInv, NEW e \in Events, BackoffEnds(e)
  PROVE  OutboxInv'
<1>1. /\ event'[e] = [event[e] EXCEPT !.due = TRUE] /\ event[e].status = "FAILED"
      /\ \A f \in Events \ {e} : event'[f] = event[f]
      /\ UNCHANGED <<run, handled, faults>>
  BY DEF OutboxInv, OutboxTypeOK, BackoffEnds
<1>2. event[e] \in Row /\ event'[e].status = "FAILED" /\ event'[e].attempt = event[e].attempt
  BY <1>1 DEF OutboxInv, OutboxTypeOK, Row
<1>3. OutboxTypeOK'
  BY <1>1, <1>2, RowFacts DEF OutboxInv, OutboxTypeOK, BackoffEnds
<1>4. Untouched' /\ OkIsHandled'
  BY <1>1, <1>2 DEF OutboxInv, Untouched, OkIsHandled
<1>5. Bounded'
  BY <1>1, <1>2 DEF OutboxInv, Bounded, Spare, Working
<1> QED
  BY <1>3, <1>4, <1>5 DEF OutboxInv

LEMMA LeaseEndsKeeps ==
  ASSUME OutboxInv, NEW e \in Events, LeaseEnds(e)
  PROVE  OutboxInv'
<1>1. /\ event'[e] = [event[e] EXCEPT !.live = FALSE] /\ event[e].status = "DISPATCHING"
      /\ \A f \in Events \ {e} : event'[f] = event[f]
      /\ event[e].live /\ UNCHANGED <<run, handled>>
      /\ IF Working(e) THEN faults < MaxFaults /\ faults' = faults + 1 ELSE faults' = faults
  BY DEF OutboxInv, OutboxTypeOK, LeaseEnds, AnotherFault
<1>2. /\ event[e] \in Row /\ event'[e].status = "DISPATCHING" /\ event'[e].attempt = event[e].attempt
      /\ \A f \in Events : event[f].attempt \in Nat
      /\ faults \in Nat /\ MaxAttempts \in Nat /\ MaxFaults \in Nat
  BY <1>1, OutboxAssumption DEF OutboxInv, OutboxTypeOK, Row
<1>3. OutboxTypeOK'
  <2>1. event' \in [Events -> Row]
    BY <1>2, RowFacts DEF OutboxInv, OutboxTypeOK, LeaseEnds
  <2>2. faults' \in 0..MaxFaults
    BY <1>1, <1>2 DEF OutboxInv, OutboxTypeOK
  <2> QED
    BY <1>1, <2>1, <2>2 DEF OutboxInv, OutboxTypeOK
<1>4. Untouched' /\ OkIsHandled'
  BY <1>1, <1>2 DEF OutboxInv, Untouched, OkIsHandled
<1>5. faults <= faults' /\ faults' \in Nat /\ (Working(e) => faults < faults')
  BY <1>1, <1>2
<1>6. Bounded'
  <2> SUFFICES ASSUME NEW f \in Events
               PROVE  /\ event'[f].attempt <= MaxAttempts + faults'
                      /\ Spare(f)' => event'[f].attempt < MaxAttempts + faults'
    BY DEF Bounded
  <2>1. CASE f # e
    <3>1. Spare(f)' <=> Spare(f)
      BY <1>1, <2>1 DEF Spare, Working
    <3> QED
      BY <1>1, <1>2, <1>5, <2>1, <3>1 DEF OutboxInv, Bounded
  <2>2. CASE f = e
    <3>1. ~Working(e) => Spare(e)
      BY <1>1 DEF Spare
    <3>2. event[e].attempt < MaxAttempts + faults'
      BY <1>2, <1>5, <3>1 DEF OutboxInv, Bounded
    <3> QED
      BY <1>2, <1>5, <2>2, <3>2
  <2> QED
    BY <2>1, <2>2
<1> QED
  BY <1>3, <1>4, <1>6 DEF OutboxInv

LEMMA AbandonKeeps ==
  ASSUME OutboxInv, NEW w \in Workers, Abandon(w)
  PROVE  OutboxInv'
<1>1. /\ UNCHANGED <<event, handled>> /\ faults < MaxFaults /\ faults' = faults + 1
      /\ run' = [run EXCEPT ![w] = [e \in Events |-> "idle"]]
  BY DEF Abandon, AnotherFault
<1>2. /\ \A f \in Events : event[f].attempt \in Nat
      /\ faults \in Nat /\ MaxAttempts \in Nat /\ MaxFaults \in Nat
  BY OutboxAssumption DEF OutboxInv, OutboxTypeOK, Row
<1>3. \A f \in Events, x \in Workers : run'[x][f] \in {"idle", run[x][f]}
  BY <1>1 DEF OutboxInv, OutboxTypeOK
<1>4. OutboxTypeOK'
  BY <1>1, <1>2 DEF OutboxInv, OutboxTypeOK, RunState
<1>5. Untouched' /\ OkIsHandled'
  BY <1>1, <1>3 DEF OutboxInv, Untouched, OkIsHandled
<1>6. Bounded'
  BY <1>1, <1>2 DEF OutboxInv, Bounded
<1> QED
  BY <1>4, <1>5, <1>6 DEF OutboxInv
-------------------------------------------------------------------------------
(* The timers *)

\* What the loop relies on: a batch is of timers that its worker still has, and a
\* worker has a batch, or handlers, only in the part of the loop that took them.
TimerInv == TimersTypeOK /\ OneTimerHolder /\ FiredIffEvent
LoopInv  == OutboxInv /\ TimerInv /\ WorkerTypeOK /\ LoopHoldsClaims

\* No step of the outbox inserts a row, but for Emit.
LEMMA OutboxKeepsBirth ==
  ASSUME OutboxInv,
         \/ \E e \in Events : Replay(e) \/ BackoffEnds(e) \/ LeaseEnds(e)
         \/ \E w \in Workers : Claim(w) \/ Abandon(w)
         \/ \E w \in Workers, e \in Events : HandlerEnds(w, e) \/ Ack(w, e) \/ Fail(w, e)
  PROVE  \A f \in Events : event'[f].status = "NONE" <=> event[f].status = "NONE"
<1>0. /\ \A f \in Events : event[f] \in Row
      /\ event \in [Events -> Row]
      /\ \A w \in Workers, e \in Events : run[w][e] # "idle" => event[e].status # "NONE"
  BY DEF OutboxInv, OutboxTypeOK, Untouched
<1>1. ASSUME NEW w \in Workers, Claim(w)
      PROVE  \A f \in Events : event'[f].status = "NONE" <=> event[f].status = "NONE"
  BY <1>0, <1>1 DEF Claim, Batches, Claimable
<1>2. ASSUME NEW w \in Workers, NEW e \in Events, HandlerEnds(w, e) \/ Ack(w, e) \/ Fail(w, e)
      PROVE  \A f \in Events : event'[f].status = "NONE" <=> event[f].status = "NONE"
  <2>1. CASE HandlerEnds(w, e)
    BY <2>1 DEF HandlerEnds
  <2>2. CASE Ack(w, e)
    BY <1>0, <2>2 DEF Ack, Ended, Row
  <2>3. CASE Fail(w, e)
    <3>1. Verdict(w, e) # "NONE"
      BY DEF Verdict
    <3> QED
      BY <1>0, <2>3, <3>1 DEF Fail, Ended, Row
  <2> QED
    BY <1>2, <2>1, <2>2, <2>3
<1>3. ASSUME NEW e \in Events, Replay(e) \/ BackoffEnds(e) \/ LeaseEnds(e)
      PROVE  \A f \in Events : event'[f].status = "NONE" <=> event[f].status = "NONE"
  <2>1. CASE Replay(e)
    <3>1. PICK attempt \in {0, event[e].attempt} :
            event' = [event EXCEPT ![e] = [Ended(@, "PENDING") EXCEPT !.due = TRUE, !.attempt = attempt]]
      BY <2>1 DEF Replay
    <3>2. Ended(event[e], "PENDING") \in Row /\ Ended(event[e], "PENDING").status = "PENDING"
      BY <1>0, EndedFacts DEF EventStatus
    <3> HIDE DEF Ended
    <3>3. event'[e].status = "PENDING"
      BY <1>0, <3>1, <3>2 DEF Row
    <3>4. event[e].status = "DEAD_LETTER" /\ \A f \in Events \ {e} : event'[f] = event[f]
      BY <1>0, <2>1, <3>1 DEF Replay
    <3> QED
      BY <3>3, <3>4
  <2>2. CASE BackoffEnds(e) \/ LeaseEnds(e)
    BY <1>0, <2>2 DEF BackoffEnds, LeaseEnds, Row
  <2> QED
    BY <1>3, <2>1, <2>2
<1>4. ASSUME NEW w \in Workers, Abandon(w)
      PROVE  \A f \in Events : event'[f].status = "NONE" <=> event[f].status = "NONE"
  BY <1>4 DEF Abandon
<1> QED
  BY <1>1, <1>2, <1>3, <1>4

LEMMA TimersInitial == OutboxInit /\ TimersInit => TimerInv
<1> SUFFICES ASSUME OutboxInit, TimersInit PROVE TimerInv
  OBVIOUS
<1>1. TimersTypeOK
  BY DEF TimersInit, TimersTypeOK, TimerStatus
<1>2. OneTimerHolder
  BY DEF TimersInit, OneTimerHolder
<1>3. FiredIffEvent
  <2> SUFFICES ASSUME NEW t \in Timers
               PROVE  timer[t].status # "FIRED" /\ event[TimerEvent[t]].status = "NONE"
    BY DEF FiredIffEvent
  <2>1. TimerEvent[t] \in Events
    BY TimersAssumption
  <2> QED
    BY <2>1 DEF OutboxInit, TimersInit
<1> QED
  BY <1>1, <1>2, <1>3 DEF TimerInv

\* A step that changes no timer, no batch and inserts nothing for a timer.
LEMMA TimersUntouched ==
  ASSUME TimerInv, UNCHANGED timerVars,
         \A t \in Timers : event'[TimerEvent[t]].status = "NONE" <=> event[TimerEvent[t]].status = "NONE"
  PROVE  TimerInv'
BY DEF TimerInv, TimersTypeOK, OneTimerHolder, FiredIffEvent, timerVars

LEMMA SameBirth ==
  ASSUME TimerInv, UNCHANGED timerVars,
         \A f \in Events : event'[f].status = "NONE" <=> event[f].status = "NONE"
  PROVE  TimerInv'
BY TimersAssumption, TimersUntouched

\* One timer is set to a row that is not fired, unless it is claimed.
LEMMA SetTimerKeeps ==
  ASSUME TimerInv, NEW t \in Timers, UNCHANGED <<batch, event>>,
         NEW r \in [status: TimerStatus, due: BOOLEAN, owner: Workers \union {NoWorker}, live: BOOLEAN],
         timer' = [timer EXCEPT ![t] = r],
         timer[t].status # "FIRED", r.status # "FIRED",
         timer[t].status = "CLAIMED" => r.status = "CLAIMED" /\ r.owner = timer[t].owner
  PROVE  TimerInv'
BY DEF TimerInv, TimersTypeOK, OneTimerHolder, FiredIffEvent

LEMMA TimerStepKeeps ==
  ASSUME TimerInv, NEW t \in Timers,
         Schedule(t) \/ Cancel(t) \/ BecomesDue(t) \/ TimerLeaseEnds(t)
  PROVE  TimerInv'
<1> DEFINE Timer == [status: TimerStatus, due: BOOLEAN, owner: Workers \union {NoWorker}, live: BOOLEAN]
<1>1. timer[t] \in Timer /\ UNCHANGED <<batch, event>>
  BY DEF TimerInv, TimersTypeOK, Schedule, Cancel, BecomesDue, TimerLeaseEnds, outboxVars
<1>2. CASE Schedule(t) \/ Cancel(t)
  <2>1. PICK s \in {"PENDING", "CANCELLED"} : timer' = [timer EXCEPT ![t].status = s]
    BY <1>2 DEF Schedule, Cancel
  <2>2. [timer[t] EXCEPT !.status = s] \in Timer /\ [timer[t] EXCEPT !.status = s].status = s
    BY <1>1 DEF TimerStatus
  <2>3. timer' = [timer EXCEPT ![t] = [timer[t] EXCEPT !.status = s]]
    BY <2>1 DEF TimerInv, TimersTypeOK
  <2>4. timer[t].status \in {"NONE", "PENDING"}
    BY <1>2 DEF Schedule, Cancel
  <2> QED
    BY <1>1, <2>2, <2>3, <2>4, SetTimerKeeps
<1>3. CASE BecomesDue(t)
  <2>1. timer' = [timer EXCEPT ![t] = [timer[t] EXCEPT !.due = TRUE]] /\ timer[t].status = "PENDING"
    BY <1>3 DEF BecomesDue, TimerInv, TimersTypeOK
  <2>2. [timer[t] EXCEPT !.due = TRUE] \in Timer /\ [timer[t] EXCEPT !.due = TRUE].status = "PENDING"
    BY <1>1, <2>1
  <2> QED
    BY <1>1, <2>1, <2>2, SetTimerKeeps
<1>4. CASE TimerLeaseEnds(t)
  <2>1. timer' = [timer EXCEPT ![t] = [timer[t] EXCEPT !.live = FALSE]] /\ timer[t].status = "CLAIMED"
    BY <1>4 DEF TimerLeaseEnds, TimerInv, TimersTypeOK
  <2>2. /\ [timer[t] EXCEPT !.live = FALSE] \in Timer
        /\ [timer[t] EXCEPT !.live = FALSE].status = "CLAIMED"
        /\ [timer[t] EXCEPT !.live = FALSE].owner = timer[t].owner
    BY <1>1, <2>1
  <2> QED
    BY <1>1, <2>1, <2>2, SetTimerKeeps
<1> QED
  BY <1>2, <1>3, <1>4

LEMMA ClaimTimersKeeps ==
  ASSUME TimerInv, NEW w \in Workers, ClaimTimers(w, Due)
  PROVE  TimerInv'
<1>1. \A t \in Timers : timer'[t] = IF t \in Due
                 THEN [status |-> "CLAIMED", due |-> TRUE, owner |-> w, live |-> TRUE]
                 ELSE timer[t]
  BY DEF ClaimTimers
<1>2. Due \subseteq Timers /\ batch' = [batch EXCEPT ![w] = Due] /\ event' = event /\ batch[w] = {}
  BY DEF Due, ClaimTimers, outboxVars
<1>3. TimersTypeOK'
  BY <1>2 DEF TimerInv, TimersTypeOK, TimerStatus, ClaimTimers
<1>4. OneTimerHolder'
  BY <1>1, <1>2 DEF TimerInv, TimersTypeOK, OneTimerHolder, Due
<1>5. FiredIffEvent'
  BY <1>1, <1>2 DEF TimerInv, FiredIffEvent, Due
<1> QED
  BY <1>3, <1>4, <1>5 DEF TimerInv

\* The event of a timer that fires has not been inserted before.
LEMMA FireFacts ==
  ASSUME OutboxInv, TimerInv, NEW w \in Workers, NEW t \in Timers, Fire(w, t)
  PROVE  /\ TimerEvent[t] \in Events /\ event[TimerEvent[t]].status = "NONE"
         /\ event' = Inserted(TimerEvent[t]) /\ UNCHANGED <<run, handled, faults>>
BY TimersAssumption DEF TimerInv, FiredIffEvent, Fire, Held

LEMMA FireKeeps ==
  ASSUME OutboxInv, TimerInv, NEW w \in Workers, NEW t \in Timers, Fire(w, t)
  PROVE  TimerInv'
<1>1. /\ timer'[t] = [timer[t] EXCEPT !.status = "FIRED", !.owner = NoWorker, !.live = FALSE]
      /\ \A u \in Timers \ {t} : timer'[u] = timer[u]
      /\ batch' = [batch EXCEPT ![w] = @ \ {t}]
      /\ t \in batch[w] /\ timer[t].status = "CLAIMED" /\ timer[t].owner = w
  BY DEF Fire, Held, TimerInv, TimersTypeOK
<1>2. TimersTypeOK'
  BY DEF Fire, TimerInv, TimersTypeOK, TimerStatus
<1>3. OneTimerHolder'
  BY <1>1 DEF TimerInv, TimersTypeOK, OneTimerHolder
<1>4. event'[TimerEvent[t]].status = "PENDING"
  <2>1. event[TimerEvent[t]] \in Row /\ event' = Inserted(TimerEvent[t]) /\ TimerEvent[t] \in Events
    BY FireFacts DEF OutboxInv, OutboxTypeOK
  <2>2. event'[TimerEvent[t]] = [event[TimerEvent[t]] EXCEPT !.status = "PENDING", !.due = TRUE]
    BY <2>1 DEF Inserted, OutboxInv, OutboxTypeOK
  <2> QED
    BY <2>1, <2>2 DEF Row
<1>5. ASSUME NEW u \in Timers, u # t
      PROVE  event'[TimerEvent[u]] = event[TimerEvent[u]]
  <2>1. TimerEvent[u] \in Events /\ TimerEvent[u] # TimerEvent[t]
    BY <1>5, TimersAssumption
  <2>2. event' = Inserted(TimerEvent[t])
    BY FireFacts
  <2> QED
    BY <2>1, <2>2 DEF Inserted, OutboxInv, OutboxTypeOK
<1>6. timer'[t].status = "FIRED"
  BY <1>1 DEF TimerInv, TimersTypeOK
<1>7. FiredIffEvent'
  <2> SUFFICES ASSUME NEW u \in Timers
               PROVE  (timer'[u].status = "FIRED") <=> (event'[TimerEvent[u]].status # "NONE")
    BY DEF FiredIffEvent
  <2>1. CASE u = t
    BY <1>4, <1>6, <2>1
  <2>2. CASE u # t
    BY <1>1, <1>5, <2>2 DEF TimerInv, FiredIffEvent
  <2> QED
    BY <2>1, <2>2
<1> QED
  BY <1>2, <1>3, <1>7 DEF TimerInv

LEMMA ForgetKeeps ==
  ASSUME TimerInv, NEW w \in Workers, batch' = [batch EXCEPT ![w] = {}], UNCHANGED <<timer, event>>
  PROVE  TimerInv'
BY DEF TimerInv, TimersTypeOK, OneTimerHolder, FiredIffEvent

-------------------------------------------------------------------------------
(* The loop of the workers *)

LEMMA LoopInitial == WorkerInit => LoopInv
<1> SUFFICES ASSUME WorkerInit PROVE LoopInv
  OBVIOUS
<1>1. OutboxInv /\ TimerInv
  BY OutboxInitial, TimersInitial DEF WorkerInit
<1>2. WorkerTypeOK
  BY <1>1 DEF WorkerInit, WorkerTypeOK, OutboxInv, TimerInv, Places
<1>3. LoopHoldsClaims
  BY DEF WorkerInit, TimersInit, OutboxInit, LoopHoldsClaims, Idle
<1> QED
  BY <1>1, <1>2, <1>3 DEF LoopInv

\* A step of one worker: what it does to the rows keeps their invariants, the
\* other workers keep their batches and handlers, and where it goes its own fit.
LEMMA WorkerMoves ==
  ASSUME LoopInv, OutboxInv', TimerInv', NEW w \in Workers, NEW place \in Places,
         Goto(w, place), wlease' \in [Workers -> {"none", "live", "expired"}],
         \A x \in Workers \ {w} : batch'[x] = batch[x] /\ run'[x] = run[x],
         batch'[w] # {} => place = "fire",
         ~Idle(w)' => place = "handle"
  PROVE  LoopInv'
<1>1. /\ pc' \in [Workers -> Places] /\ pc'[w] = place
      /\ \A x \in Workers \ {w} : pc'[x] = pc[x]
  BY DEF LoopInv, WorkerTypeOK, Goto
<1>2. WorkerTypeOK'
  BY <1>1 DEF WorkerTypeOK, OutboxInv, TimerInv
<1>3. LoopHoldsClaims'
  <2> SUFFICES ASSUME NEW x \in Workers
               PROVE  /\ batch'[x] # {} => pc'[x] = "fire"
                      /\ ~(\A e \in Events : run'[x][e] = "idle") => pc'[x] = "handle"
    BY DEF LoopHoldsClaims, Idle, At
  <2>1. CASE x = w
    BY <1>1, <2>1 DEF Idle
  <2>2. CASE x # w
    BY <1>1, <2>2 DEF LoopInv, LoopHoldsClaims, Idle, At
  <2> QED
    BY <2>1, <2>2
<1> QED
  BY <1>2, <1>3 DEF LoopInv

\* A step of the rest of the system, which moves no worker.
LEMMA WorkersStay ==
  ASSUME LoopInv, OutboxInv', TimerInv', UNCHANGED <<run, batch, pc>>,
         wlease' \in [Workers -> {"none", "live", "expired"}]
  PROVE  LoopInv'
BY DEF LoopInv, WorkerTypeOK, LoopHoldsClaims, Idle, At, OutboxInv, TimerInv

LEMMA OutboxStutters ==
  ASSUME OutboxInv, UNCHANGED outboxVars
  PROVE  OutboxInv'
BY DEF OutboxInv, OutboxTypeOK, Untouched, OkIsHandled, Bounded, Spare, Working, outboxVars

LEMMA TimersStutter ==
  ASSUME TimerInv, UNCHANGED <<timer, batch, event>>
  PROVE  TimerInv'
BY DEF TimerInv, TimersTypeOK, OneTimerHolder, FiredIffEvent

LEMMA BusinessKeeps ==
  ASSUME LoopInv, Business
  PROVE  LoopInv'
<1>0. OutboxInv /\ TimerInv
  BY DEF LoopInv
<1>1. ASSUME NEW e \in Events \ TimerEvents, Emit(e), UNCHANGED <<timerVars, workerVars>>
      PROVE  LoopInv'
  <2>1. event[e].status = "NONE" /\ event' = Inserted(e) /\ UNCHANGED <<run, handled, faults>>
    BY <1>1 DEF Emit
  <2>2. OutboxInv'
    BY <1>0, <2>1, InsertKeeps
  <2>3. ASSUME NEW t \in Timers
        PROVE  event'[TimerEvent[t]].status = "NONE" <=> event[TimerEvent[t]].status = "NONE"
    <3>1. TimerEvent[t] \in Events /\ TimerEvent[t] # e
      BY TimersAssumption DEF TimerEvents
    <3> QED
      BY <1>0, <2>1, <3>1 DEF Inserted, OutboxInv, OutboxTypeOK
  <2>4. TimerInv'
    BY <1>0, <1>1, <2>3, TimersUntouched
  <2> QED
    BY <1>1, <2>1, <2>2, <2>4, WorkersStay DEF timerVars, workerVars, LoopInv, WorkerTypeOK
<1>2. ASSUME NEW e \in Events, Replay(e), UNCHANGED <<timerVars, workerVars>>
      PROVE  LoopInv'
  <2>1. OutboxInv'
    BY <1>0, <1>2, ReplayKeeps
  <2>2. \A f \in Events : event'[f].status = "NONE" <=> event[f].status = "NONE"
    BY <1>0, <1>2, OutboxKeepsBirth
  <2>3. TimerInv'
    BY <1>0, <1>2, <2>2, SameBirth
  <2> QED
    BY <1>2, <2>1, <2>3, WorkersStay DEF Replay, timerVars, workerVars, LoopInv, WorkerTypeOK
<1>3. ASSUME NEW t \in Timers, Schedule(t) \/ Cancel(t), UNCHANGED workerVars
      PROVE  LoopInv'
  <2>1. UNCHANGED outboxVars /\ UNCHANGED batch
    BY <1>3 DEF Schedule, Cancel
  <2>2. OutboxInv' /\ TimerInv'
    BY <1>0, <1>3, <2>1, OutboxStutters, TimerStepKeeps
  <2> QED
    BY <1>3, <2>1, <2>2, WorkersStay DEF outboxVars, workerVars, LoopInv, WorkerTypeOK
<1> QED
  BY <1>1, <1>2, <1>3 DEF Business

LEMMA ClockKeeps ==
  ASSUME LoopInv, Clock
  PROVE  LoopInv'
<1>0. OutboxInv /\ TimerInv
  BY DEF LoopInv
<1>1. ASSUME NEW e \in Events, BackoffEnds(e) \/ LeaseEnds(e), UNCHANGED <<timerVars, workerVars>>
      PROVE  LoopInv'
  <2>1. OutboxInv'
    BY <1>0, <1>1, BackoffKeeps, LeaseEndsKeeps
  <2>2. \A f \in Events : event'[f].status = "NONE" <=> event[f].status = "NONE"
    BY <1>0, <1>1, OutboxKeepsBirth
  <2>3. TimerInv'
    BY <1>0, <1>1, <2>2, SameBirth
  <2> QED
    BY <1>1, <2>1, <2>3, WorkersStay
       DEF BackoffEnds, LeaseEnds, timerVars, workerVars, LoopInv, WorkerTypeOK
<1>2. ASSUME NEW t \in Timers, BecomesDue(t) \/ TimerLeaseEnds(t), UNCHANGED workerVars
      PROVE  LoopInv'
  <2>1. UNCHANGED outboxVars /\ UNCHANGED batch
    BY <1>2 DEF BecomesDue, TimerLeaseEnds
  <2>2. OutboxInv' /\ TimerInv'
    BY <1>0, <1>2, <2>1, OutboxStutters, TimerStepKeeps
  <2> QED
    BY <1>2, <2>1, <2>2, WorkersStay DEF outboxVars, workerVars, LoopInv, WorkerTypeOK
<1> QED
  BY <1>1, <1>2 DEF Clock

\* The ticks of the timers.
LEMMA TimerTickKeeps ==
  ASSUME LoopInv, NEW w \in Workers, TakeTimers(w) \/ FireOne(w) \/ FireFails(w)
  PROVE  LoopInv'
<1>0. /\ OutboxInv /\ TimerInv
      /\ wlease \in [Workers -> {"none", "live", "expired"}]
      /\ pc[w] # "handle" => Idle(w)
      /\ batch \in [Workers -> SUBSET Timers]
      /\ pc[w] # "fire" => batch[w] = {}
  BY DEF LoopInv, WorkerTypeOK, TimersTypeOK, LoopHoldsClaims, At
<1>1. CASE TakeTimers(w)
  <2>1. pc[w] = "timers" /\ UNCHANGED <<event, run, handled, faults, wlease>> /\ Idle(w)
    BY <1>0, <1>1 DEF TakeTimers, outboxVars, At
  <2>2. OutboxInv'
    BY <1>0, <2>1, OutboxStutters DEF outboxVars
  <2>3. CASE Due = {}
    <3>1. Goto(w, "dispatch") /\ UNCHANGED <<timer, batch>>
      BY <1>1, <2>3 DEF TakeTimers, timerVars
    <3>2. TimerInv'
      BY <1>0, <2>1, <3>1, TimersStutter
    <3> QED
      BY <1>0, <2>1, <2>2, <3>1, <3>2, WorkerMoves DEF Places, Idle
  <2>4. CASE Due # {}
    <3>1. Goto(w, "fire") /\ ClaimTimers(w, Due)
      BY <1>1, <2>4 DEF TakeTimers
    <3>2. TimerInv'
      BY <1>0, <3>1, ClaimTimersKeeps
    <3>3. \A x \in Workers \ {w} : batch'[x] = batch[x]
      BY <1>0, <3>1 DEF ClaimTimers
    <3> QED
      BY <1>0, <2>1, <2>2, <3>1, <3>2, <3>3, WorkerMoves DEF Places, Idle
  <2> QED
    BY <2>3, <2>4
<1>2. CASE FireOne(w)
  <2>1. PICK t \in batch[w] : Fire(w, t)
    BY <1>2 DEF FireOne
  <2>2. t \in Timers /\ pc[w] = "fire" /\ UNCHANGED <<run, handled, faults, wlease>> /\ Idle(w)
    BY <1>0, <1>2, <2>1 DEF FireOne, Fire, At
  <2>3. /\ TimerEvent[t] \in Events /\ event[TimerEvent[t]].status = "NONE"
        /\ event' = Inserted(TimerEvent[t])
    BY <1>0, <2>1, <2>2, FireFacts
  <2>4. OutboxInv' /\ TimerInv'
    BY <1>0, <2>1, <2>2, <2>3, InsertKeeps, FireKeeps
  <2>5. \A x \in Workers \ {w} : batch'[x] = batch[x]
    BY <1>0, <2>1 DEF Fire
  <2>6. \/ Goto(w, "dispatch") /\ batch'[w] = {}
        \/ Goto(w, "fire")
    BY <1>2 DEF FireOne
  <2>7. Idle(w)'
    BY <2>2 DEF Idle
  <2> QED
    BY <1>0, <2>2, <2>4, <2>5, <2>6, <2>7, WorkerMoves DEF Places
<1>3. CASE FireFails(w)
  <2>1. /\ batch' = [batch EXCEPT ![w] = {}] /\ UNCHANGED <<timer, event, run, handled, faults>>
        /\ Goto(w, "down") /\ wlease' = [wlease EXCEPT ![w] = "none"] /\ pc[w] = "fire"
    BY <1>3 DEF FireFails, FireRaises, Leave, outboxVars, At
  <2>2. OutboxInv' /\ TimerInv'
    BY <1>0, <2>1, OutboxStutters, ForgetKeeps DEF outboxVars
  <2>3. Idle(w)' /\ batch'[w] = {} /\ \A x \in Workers \ {w} : batch'[x] = batch[x]
    BY <1>0, <2>1 DEF Idle
  <2>4. wlease' \in [Workers -> {"none", "live", "expired"}]
    BY <1>0, <2>1
  <2> QED
    BY <2>1, <2>2, <2>3, <2>4, WorkerMoves DEF Places
<1> QED
  BY <1>1, <1>2, <1>3

\* The tick of the dispatcher.
LEMMA DispatchKeeps ==
  ASSUME LoopInv, NEW w \in Workers,
         TakeEvents(w) \/ \E e \in Events : Handle(w, e) \/ Record(w, e)
  PROVE  LoopInv'
<1>0. /\ OutboxInv /\ TimerInv
      /\ wlease \in [Workers -> {"none", "live", "expired"}]
      /\ run \in [Workers -> [Events -> RunState]]
      /\ pc[w] # "handle" => Idle(w)
      /\ pc[w] # "fire" => batch[w] = {}
  BY DEF LoopInv, WorkerTypeOK, OutboxTypeOK, LoopHoldsClaims, At
<1>1. CASE TakeEvents(w)
  <2>1. pc[w] = "dispatch" /\ UNCHANGED <<timer, batch, wlease>>
    BY <1>1 DEF TakeEvents, timerVars, At
  <2>2. CASE Claimable = {}
    <3>1. Goto(w, "beat") /\ UNCHANGED outboxVars
      BY <1>1, <2>2 DEF TakeEvents
    <3>2. OutboxInv' /\ TimerInv'
      BY <1>0, <2>1, <3>1, OutboxStutters, TimersStutter DEF outboxVars
    <3> QED
      BY <1>0, <2>1, <3>1, <3>2, WorkerMoves DEF Places, outboxVars, Idle
  <2>3. CASE Claimable # {}
    <3>1. Goto(w, "handle") /\ Claim(w)
      BY <1>1, <2>3 DEF TakeEvents
    <3>2. \A f \in Events : event'[f].status = "NONE" <=> event[f].status = "NONE"
      BY <1>0, <3>1, OutboxKeepsBirth
    <3>3. OutboxInv' /\ TimerInv'
      BY <1>0, <2>1, <3>1, <3>2, ClaimKeeps, SameBirth DEF timerVars
    <3>4. \A x \in Workers \ {w} : run'[x] = run[x]
      BY <1>0, <3>1 DEF Claim
    <3> QED
      BY <1>0, <2>1, <3>1, <3>3, <3>4, WorkerMoves DEF Places
  <2> QED
    BY <2>2, <2>3
<1>2. ASSUME NEW e \in Events, Handle(w, e)
      PROVE  LoopInv'
  <2>1. /\ HandlerEnds(w, e) /\ pc[w] = "handle"
        /\ UNCHANGED <<timer, batch, pc, wlease>> /\ UNCHANGED timerVars
    BY <1>2 DEF Handle, At, timerVars, workerVars
  <2>2. \A f \in Events : event'[f].status = "NONE" <=> event[f].status = "NONE"
    BY <1>0, <2>1, OutboxKeepsBirth
  <2>3. OutboxInv' /\ TimerInv'
    BY <1>0, <2>1, <2>2, HandlerEndsKeeps, SameBirth
  <2>4. \A x \in Workers \ {w} : run'[x] = run[x]
    BY <1>0, <2>1 DEF HandlerEnds
  <2>5. Goto(w, "handle")
    BY <2>1 DEF Goto, LoopInv, WorkerTypeOK
  <2> QED
    BY <1>0, <2>1, <2>3, <2>4, <2>5, WorkerMoves DEF Places
<1>3. ASSUME NEW e \in Events, Record(w, e)
      PROVE  LoopInv'
  <2>1. /\ Ack(w, e) \/ Fail(w, e)
        /\ pc[w] = "handle"
        /\ UNCHANGED <<timer, batch, wlease>> /\ UNCHANGED timerVars
    BY <1>3 DEF Record, At, timerVars
  <2>2. \A f \in Events : event'[f].status = "NONE" <=> event[f].status = "NONE"
    BY <1>0, <2>1, OutboxKeepsBirth
  <2>3. OutboxInv' /\ TimerInv'
    BY <1>0, <2>1, <2>2, AckKeeps, FailKeeps, SameBirth
  <2>4. \A x \in Workers \ {w} : run'[x] = run[x]
    BY <1>0, <2>1 DEF Ack, Fail
  <2>5. \/ Goto(w, "beat") /\ \A f \in Events : run'[w][f] = "idle"
        \/ Goto(w, "handle")
    BY <1>3 DEF Record
  <2> QED
    BY <1>0, <2>1, <2>3, <2>4, <2>5, WorkerMoves DEF Places, Idle
<1> QED
  BY <1>1, <1>2, <1>3

\* A worker starts, beats, stops or dies.
LEMMA LifeKeeps ==
  ASSUME LoopInv, NEW w \in Workers,
         Start(w) \/ Beat(w) \/ Stop(w) \/ Crash(w) \/ WorkerLeaseEnds(w)
  PROVE  LoopInv'
<1>0. /\ OutboxInv /\ TimerInv
      /\ wlease \in [Workers -> {"none", "live", "expired"}]
      /\ run \in [Workers -> [Events -> RunState]]
      /\ batch \in [Workers -> SUBSET Timers]
      /\ pc[w] # "handle" => Idle(w)
      /\ pc[w] # "fire" => batch[w] = {}
  BY DEF LoopInv, WorkerTypeOK, OutboxTypeOK, TimersTypeOK, LoopHoldsClaims, At
<1>1. CASE Start(w) \/ Beat(w) \/ Stop(w)
  <2>1. /\ UNCHANGED <<timer, batch, event, run>> /\ UNCHANGED outboxVars
        /\ pc[w] \in {"down", "beat"}
        /\ wlease' \in [Workers -> {"none", "live", "expired"}]
    BY <1>0, <1>1 DEF Start, Beat, Stop, Leave, At, outboxVars, timerVars
  <2>2. Goto(w, "timers") \/ Goto(w, "down")
    BY <1>1 DEF Start, Beat, Stop, Leave
  <2>3. OutboxInv' /\ TimerInv'
    BY <1>0, <2>1, OutboxStutters, TimersStutter
  <2>4. Idle(w)' /\ batch'[w] = {}
    BY <1>0, <2>1 DEF Idle
  <2> QED
    BY <2>1, <2>2, <2>3, <2>4, WorkerMoves DEF Places
<1>2. CASE Crash(w)
  <2>1. /\ Abandon(w) /\ batch' = [batch EXCEPT ![w] = {}] /\ UNCHANGED <<timer, event>>
        /\ Goto(w, "down") /\ wlease' = [wlease EXCEPT ![w] = "none"]
    BY <1>2 DEF Crash, Abandon, ForgetBatch, Leave
  <2>2. OutboxInv' /\ TimerInv'
    BY <1>0, <2>1, AbandonKeeps, ForgetKeeps
  <2>3. run' = [run EXCEPT ![w] = [e \in Events |-> "idle"]]
    BY <2>1 DEF Abandon
  <2>4. /\ \A x \in Workers \ {w} : batch'[x] = batch[x] /\ run'[x] = run[x]
        /\ batch'[w] = {} /\ \A e \in Events : run'[w][e] = "idle"
        /\ wlease' \in [Workers -> {"none", "live", "expired"}]
    BY <1>0, <2>1, <2>3
  <2> QED
    BY <2>1, <2>2, <2>4, WorkerMoves DEF Places, Idle
<1>3. CASE WorkerLeaseEnds(w)
  <2>1. /\ UNCHANGED outboxVars /\ UNCHANGED <<timer, batch, event, run, pc>>
        /\ wlease' \in [Workers -> {"none", "live", "expired"}]
    BY <1>0, <1>3 DEF WorkerLeaseEnds, outboxVars, timerVars
  <2>2. OutboxInv' /\ TimerInv'
    BY <1>0, <2>1, OutboxStutters, TimersStutter
  <2> QED
    BY <2>1, <2>2, WorkersStay
<1> QED
  BY <1>1, <1>2, <1>3

LEMMA LoopStep == LoopInv /\ [WorkerNext]_vars => LoopInv'
<1> SUFFICES ASSUME LoopInv, [WorkerNext]_vars PROVE LoopInv'
  OBVIOUS
<1>1. CASE Business \/ Clock
  BY <1>1, BusinessKeeps, ClockKeeps
<1>2. ASSUME NEW w \in Workers, Loop(w) \/ WorkerLeaseEnds(w) \/ Stop(w) \/ Crash(w)
      PROVE  LoopInv'
  BY <1>2, TimerTickKeeps, DispatchKeeps, LifeKeeps DEF Loop
<1>3. CASE UNCHANGED vars
  <2>1. UNCHANGED outboxVars /\ UNCHANGED <<timer, batch, event, run, pc, wlease>>
    BY <1>3 DEF vars, outboxVars, timerVars, workerVars
  <2>2. OutboxInv' /\ TimerInv'
    BY <2>1, OutboxStutters, TimersStutter DEF LoopInv
  <2> QED
    BY <2>1, <2>2, WorkersStay DEF LoopInv, WorkerTypeOK
<1> QED
  BY <1>1, <1>2, <1>3 DEF WorkerNext

\* The state of the workers, the outbox and the timers is always well formed.
THEOREM RuntimeInductive == WorkerSpec => []LoopInv
BY LoopInitial, LoopStep, PTL DEF WorkerSpec

\* Claims are capped by max_attempts but for the faults that happened
\* (dispatcher.py:98).
THEOREM AttemptsAreCapped == WorkerSpec => []AttemptsCapped
<1>1. LoopInv => AttemptsCapped
  BY DEF LoopInv, OutboxInv, Bounded, AttemptsCapped
<1> QED
  BY <1>1, RuntimeInductive, PTL

\* A timer has inserted its event exactly when it is FIRED (timers.py:115).
THEOREM TimersFireOnce == WorkerSpec => []FiredIffEvent
<1>1. LoopInv => FiredIffEvent
  BY DEF LoopInv, TimerInv
<1> QED
  BY <1>1, RuntimeInductive, PTL

-------------------------------------------------------------------------------
(* A failure is recorded by its owner *)

\* The steps that write the row of an event, and what they write there.
LEMMA WhoWrites ==
  ASSUME LoopInv, [WorkerNext]_vars, NEW e \in Events, event'[e] # event[e]
  PROVE  \/ event[e].status = "NONE" /\ event' = Inserted(e)
         \/ \E w \in Workers : Claim(w) \/ Ack(w, e) \/ Fail(w, e)
         \/ Replay(e) \/ BackoffEnds(e) \/ LeaseEnds(e)
<1>0. event \in [Events -> Row] /\ OutboxInv /\ TimerInv
  BY DEF LoopInv, OutboxInv, OutboxTypeOK
<1>1. CASE Business
  BY <1>0, <1>1 DEF Business, Emit, Replay, Schedule, Cancel, Inserted, outboxVars
<1>2. CASE Clock
  BY <1>0, <1>2 DEF Clock, BackoffEnds, LeaseEnds, BecomesDue, TimerLeaseEnds, outboxVars
<1>3. ASSUME NEW w \in Workers, FireOne(w)
      PROVE  event[e].status = "NONE" /\ event' = Inserted(e)
  <2>1. PICK t \in batch[w] : Fire(w, t)
    BY <1>3 DEF FireOne
  <2>2. t \in Timers
    BY <1>0 DEF TimerInv, TimersTypeOK
  <2>3. /\ TimerEvent[t] \in Events /\ event[TimerEvent[t]].status = "NONE"
        /\ event' = Inserted(TimerEvent[t])
    BY <1>0, <2>1, <2>2, FireFacts
  <2>4. TimerEvent[t] = e
    BY <1>0, <2>3 DEF Inserted
  <2> QED
    BY <2>3, <2>4
<1>4. ASSUME NEW w \in Workers, TakeEvents(w)
      PROVE  Claim(w)
  BY <1>4 DEF TakeEvents, outboxVars
<1>5. ASSUME NEW w \in Workers, NEW f \in Events, Handle(w, f) \/ Record(w, f)
      PROVE  Ack(w, e) \/ Fail(w, e)
  BY <1>0, <1>5 DEF Handle, HandlerEnds, Record, Ack, Fail
<1>6. ASSUME NEW w \in Workers,
             \/ Start(w) \/ TakeTimers(w) \/ FireFails(w) \/ Beat(w)
             \/ WorkerLeaseEnds(w) \/ Stop(w) \/ Crash(w)
      PROVE  FALSE
  BY <1>6 DEF Start, TakeTimers, FireFails, FireRaises, Beat, WorkerLeaseEnds, Stop, Crash, Abandon,
     outboxVars
<1>7. CASE UNCHANGED vars
  BY <1>7 DEF vars, outboxVars
<1> QED
  BY <1>1, <1>2, <1>3, <1>4, <1>5, <1>6, <1>7 DEF WorkerNext, Loop

\* Only the worker that holds the claim of an event records its failure
\* (dispatcher.py:287).
THEOREM FailuresAreOwn == WorkerSpec => FailureIsOwn
<1> DEFINE Own(e) ==
      event[e].status = "DISPATCHING" /\ event'[e].status \in {"FAILED", "DEAD_LETTER"}
        => run[event[e].owner][e] \in {"retry", "fatal"}
<1>1. ASSUME LoopInv, [WorkerNext]_vars, NEW e \in Events PROVE Own(e)
  <2> SUFFICES ASSUME event[e].status = "DISPATCHING", event'[e].status \in {"FAILED", "DEAD_LETTER"}
               PROVE  run[event[e].owner][e] \in {"retry", "fatal"}
    OBVIOUS
  <2>0. event \in [Events -> Row] /\ event[e] \in Row
    BY <1>1 DEF LoopInv, OutboxInv, OutboxTypeOK
  <2>1. event'[e] # event[e]
    BY <2>0
  <2>2. \/ event[e].status = "NONE" /\ event' = Inserted(e)
        \/ \E w \in Workers : Claim(w) \/ Ack(w, e) \/ Fail(w, e)
        \/ Replay(e) \/ BackoffEnds(e) \/ LeaseEnds(e)
    BY <1>1, <2>1, WhoWrites
  <2>3. ~Replay(e) /\ ~BackoffEnds(e)
    BY DEF Replay, BackoffEnds
  <2>4. ~LeaseEnds(e)
    BY <2>0 DEF LeaseEnds, Row
  <2>5. ASSUME NEW w \in Workers, Claim(w)
        PROVE  FALSE
    BY <2>0, <2>1, <2>5 DEF Claim
  <2>6. ASSUME NEW w \in Workers, Ack(w, e)
        PROVE  FALSE
    BY <2>0, <2>6 DEF Ack, Ended, Row
  <2>7. ASSUME NEW w \in Workers, Fail(w, e)
        PROVE  run[event[e].owner][e] \in {"retry", "fatal"}
    BY <2>1, <2>7 DEF Fail
  <2> QED
    BY <2>2, <2>3, <2>4, <2>5, <2>6, <2>7
<1>2. LoopInv /\ [WorkerNext]_vars => [\A e \in Events : Own(e)]_outboxVars
  BY <1>1
<1> HIDE DEF Own
<1>3. WorkerSpec => [][\A e \in Events : Own(e)]_outboxVars
  BY <1>2, RuntimeInductive, PTL DEF WorkerSpec
<1> QED
  BY <1>3 DEF FailureIsOwn, Own

-------------------------------------------------------------------------------
(* The outbox is a queue of events *)

QueueView == <<[e \in Events |-> Standing[event[e].status]], handled>>

LEMMA StandingFacts ==
  /\ Standing["NONE"] = "absent" /\ Standing["PENDING"] = "waiting"
  /\ Standing["DISPATCHING"] = "waiting" /\ Standing["FAILED"] = "waiting"
  /\ Standing["DISPATCHED"] = "finished" /\ Standing["DEAD_LETTER"] = "dead"
BY DEF Standing

\* No event changes its standing, and no handler completes.
LEMMA QueueStutters ==
  ASSUME handled' = handled, \A e \in Events : Standing[event'[e].status] = Standing[event[e].status]
  PROVE  UNCHANGED QueueView
BY DEF QueueView

\* One event changes its standing.
LEMMA OneMoves ==
  ASSUME NEW e \in Events, handled' = handled, \A f \in Events \ {e} : event'[f] = event[f],
         NEW from, Standing[event[e].status] = from, NEW to, Standing[event'[e].status] = to
  PROVE  Queue!Move(e, from, to)
BY DEF Queue!Move

\* Only a handler that ends completes an event.
LEMMA WhoHandles ==
  ASSUME LoopInv, [WorkerNext]_vars, handled' # handled
  PROVE  \E w \in Workers, e \in Events : HandlerEnds(w, e)
<1>1. CASE Business \/ Clock
  BY <1>1 DEF Business, Clock, Emit, Replay, Schedule, Cancel, BackoffEnds, LeaseEnds, BecomesDue,
     TimerLeaseEnds, outboxVars
<1>2. ASSUME NEW w \in Workers, Loop(w)
      PROVE  \E e \in Events : HandlerEnds(w, e)
  BY <1>2 DEF Loop, Start, TakeTimers, FireOne, Fire, FireFails, FireRaises, TakeEvents, Claim, Beat,
     Handle, Record, Ack, Fail, outboxVars
<1>3. ASSUME NEW w \in Workers, WorkerLeaseEnds(w) \/ Stop(w) \/ Crash(w)
      PROVE  FALSE
  BY <1>3 DEF WorkerLeaseEnds, Stop, Crash, Abandon, outboxVars
<1>4. CASE UNCHANGED vars
  BY <1>4 DEF vars, outboxVars
<1> QED
  BY <1>1, <1>2, <1>3, <1>4 DEF WorkerNext

LEMMA HandlersWork ==
  ASSUME LoopInv, NEW w \in Workers, NEW e \in Events, HandlerEnds(w, e)
  PROVE  [Queue!QueueNext]_QueueView
<1>1. event' = event /\ handled' \in {handled, handled \union {e}}
  BY DEF HandlerEnds
<1>2. event[e].status \in EventStatus \ {"NONE"}
  BY DEF HandlerEnds, LoopInv, OutboxInv, OutboxTypeOK, Untouched, Row
<1>3. Standing[event[e].status] # "absent"
  BY <1>2, StandingFacts DEF EventStatus
<1>4. CASE handled' = handled
  BY <1>1, <1>4, QueueStutters
<1>5. CASE handled' = handled \union {e}
  <2>1. Queue!Work(e)
    BY <1>1, <1>3, <1>5 DEF Queue!Work
  <2> QED
    BY <2>1 DEF Queue!QueueNext
<1> QED
  BY <1>1, <1>4, <1>5

\* The steps that write a row: it is put, finished, given up or revived, or
\* goes on waiting.
LEMMA RowMoves ==
  ASSUME LoopInv, [WorkerNext]_vars, NEW e \in Events, event'[e] # event[e], handled' = handled
  PROVE  [Queue!QueueNext]_QueueView
<1>0. event \in [Events -> Row] /\ event[e] \in Row /\ OutboxInv
  BY DEF LoopInv, OutboxInv, OutboxTypeOK
<1>1. CASE event[e].status = "NONE" /\ event' = Inserted(e)
  <2>1. event'[e] = [event[e] EXCEPT !.status = "PENDING", !.due = TRUE]
        /\ \A f \in Events \ {e} : event'[f] = event[f]
    BY <1>0, <1>1 DEF Inserted
  <2>2. event'[e].status = "PENDING"
    BY <1>0, <2>1 DEF Row
  <2>3. Queue!Move(e, "absent", "waiting")
    BY <1>1, <2>1, <2>2, OneMoves, StandingFacts
  <2> QED
    BY <2>3 DEF Queue!QueueNext, Queue!Put
<1>2. ASSUME NEW w \in Workers, Claim(w)
      PROVE  UNCHANGED QueueView
  <2> SUFFICES ASSUME NEW f \in Events
               PROVE  Standing[event'[f].status] = Standing[event[f].status]
    BY QueueStutters
  <2>1. \/ event'[f] = event[f]
        \/ event'[f].status = "DISPATCHING" /\ event[f].status \in {"PENDING", "FAILED", "DISPATCHING"}
    BY <1>2 DEF Claim, Batches, Claimable
  <2> QED
    BY <2>1, StandingFacts
<1>3. ASSUME NEW w \in Workers, Ack(w, e)
      PROVE  [Queue!QueueNext]_QueueView
  <2>1. /\ event[e].status = "DISPATCHING" /\ event'[e] = Ended(event[e], "DISPATCHED")
        /\ \A f \in Events \ {e} : event'[f] = event[f]
    BY <1>0, <1>3 DEF Ack
  <2>2. event'[e].status = "DISPATCHED"
    BY <1>0, <2>1, EndedFacts DEF EventStatus
  <2>3. Queue!Move(e, "waiting", "finished")
    BY <2>1, <2>2, OneMoves, StandingFacts
  <2>4. e \in handled
    BY <1>0, <1>3 DEF Ack, OutboxInv, OkIsHandled
  <2> QED
    BY <2>3, <2>4 DEF Queue!QueueNext, Queue!Finish
<1>4. ASSUME NEW w \in Workers, Fail(w, e)
      PROVE  [Queue!QueueNext]_QueueView
  <2>1. /\ event[e].status = "DISPATCHING" /\ event'[e] = Ended(event[e], Verdict(w, e))
        /\ \A f \in Events \ {e} : event'[f] = event[f]
    BY <1>0, <1>4 DEF Fail
  <2>2. Verdict(w, e) \in {"DEAD_LETTER", "FAILED"}
    BY DEF Verdict
  <2>3. event'[e].status = Verdict(w, e)
    <3>1. Verdict(w, e) \in EventStatus
      BY <2>2 DEF EventStatus
    <3> QED
      BY <1>0, <2>1, <3>1, EndedFacts
  <2>4. CASE Verdict(w, e) = "DEAD_LETTER"
    <3>1. Queue!Move(e, "waiting", "dead")
      BY <2>1, <2>3, <2>4, OneMoves, StandingFacts
    <3> QED
      BY <3>1 DEF Queue!QueueNext, Queue!GiveUp
  <2>5. CASE Verdict(w, e) = "FAILED"
    BY <2>1, <2>3, <2>5, StandingFacts, QueueStutters
  <2> QED
    BY <2>2, <2>4, <2>5
<1>5. CASE Replay(e)
  <2>1. PICK attempt \in {0, event[e].attempt} :
          event' = [event EXCEPT ![e] = [Ended(@, "PENDING") EXCEPT !.due = TRUE, !.attempt = attempt]]
    BY <1>5 DEF Replay
  <2>2. Ended(event[e], "PENDING") \in Row /\ Ended(event[e], "PENDING").status = "PENDING"
    BY <1>0, EndedFacts DEF EventStatus
  <2> HIDE DEF Ended
  <2>3. event'[e].status = "PENDING" /\ \A f \in Events \ {e} : event'[f] = event[f]
    BY <1>0, <2>1, <2>2 DEF Row
  <2>4. event[e].status = "DEAD_LETTER"
    BY <1>5 DEF Replay
  <2>5. Queue!Move(e, "dead", "waiting")
    BY <2>3, <2>4, OneMoves, StandingFacts
  <2> QED
    BY <2>5 DEF Queue!QueueNext, Queue!Revive
<1>6. CASE BackoffEnds(e) \/ LeaseEnds(e)
  <2>1. event'[e].status = event[e].status /\ \A f \in Events \ {e} : event'[f] = event[f]
    BY <1>0, <1>6 DEF BackoffEnds, LeaseEnds, Row
  <2> QED
    BY <2>1, QueueStutters
<1> QED
  BY <1>1, <1>2, <1>3, <1>4, <1>5, <1>6, WhoWrites

LEMMA QueueStep == LoopInv /\ [WorkerNext]_vars => [Queue!QueueNext]_QueueView
<1> SUFFICES ASSUME LoopInv, [WorkerNext]_vars PROVE [Queue!QueueNext]_QueueView
  OBVIOUS
<1>1. CASE handled' # handled
  BY <1>1, WhoHandles, HandlersWork
<1>2. CASE handled' = handled /\ \A e \in Events : event'[e] = event[e]
  BY <1>2, QueueStutters
<1>3. CASE handled' = handled /\ \E e \in Events : event'[e] # event[e]
  BY <1>3, RowMoves
<1> QED
  BY <1>1, <1>2, <1>3

LEMMA QueueStarts == WorkerInit => Queue!QueueInit
BY StandingFacts DEF WorkerInit, OutboxInit, Queue!QueueInit

\* The outbox implements the queue of events (dispatcher.py:240).
THEOREM OutboxIsQueue == WorkerSpec => ImplementsQueue
<1>1. LoopInv /\ [WorkerNext]_vars => [Queue!QueueNext]_(Queue!queueVars)
  BY QueueStep DEF QueueView, Queue!queueVars
<1> QED
  BY <1>1, QueueStarts, RuntimeInductive, PTL DEF WorkerSpec, ImplementsQueue, Queue!QueueSpec
===============================================================================
