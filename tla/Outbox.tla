-------------------------------- MODULE Outbox --------------------------------
(***************************************************************************)
(* The durable outbox and its dispatcher (runtime/dispatcher.py), with the *)
(* replay of dead letters (application/outbox_dead_letter_service.py).     *)
(*                                                                         *)
(* An event is a row that a business transaction inserted.  A worker       *)
(* claims due rows under a lease, runs the handler outside any             *)
(* transaction, and then acknowledges or fails the row.  A lease runs out  *)
(* by the clock of the database whatever its worker does, and a worker may *)
(* die with claims in hand; both are steps of the environment here.        *)
(*                                                                         *)
(* Abstracted: payloads, error texts, the length of the backoff delays and *)
(* the order of due rows.                                                  *)
(***************************************************************************)
EXTENDS Integers, FiniteSets

CONSTANTS Workers,      \* worker processes; the id of each start is fresh
          Events,       \* rows of outbox_events
          MaxAttempts,  \* max_attempts of the dispatcher
          Concurrency,  \* dispatch_concurrency, the size of a claim
          MaxFaults,    \* bound: workers that die, handlers that outlive the lease of
                        \* their claim, and replays of dead letters, together
          NoWorker

ASSUME OutboxAssumption ==
  /\ MaxAttempts \in Nat \ {0} /\ Concurrency \in Nat \ {0}
  /\ MaxFaults \in Nat
  /\ NoWorker \notin Workers

VARIABLES
  event,    \* event[e]: the row; "NONE" before it is inserted
  run,      \* run[w][e]: where w's handler of e stands
  handled,  \* history: events whose handler has succeeded at least once
  faults    \* how many faults have happened

outboxVars == <<event, run, handled, faults>>

EventStatus == {"NONE", "PENDING", "DISPATCHING", "FAILED", "DISPATCHED", "DEAD_LETTER"}
RunState == {"idle", "running", "ok", "retry", "fatal"}
Row == [status: EventStatus, due: BOOLEAN, owner: Workers \union {NoWorker}, live: BOOLEAN,
        attempt: Nat]

OutboxTypeOK ==
  /\ event \in [Events -> Row]
  /\ run \in [Workers -> [Events -> RunState]]
  /\ handled \subseteq Events
  /\ faults \in 0..MaxFaults

OutboxInit ==
  /\ event = [e \in Events |->
                [status |-> "NONE", due |-> FALSE, owner |-> NoWorker, live |-> FALSE,
                 attempt |-> 0]]
  /\ run = [w \in Workers |-> [e \in Events |-> "idle"]]
  /\ handled = {}
  /\ faults = 0

-------------------------------------------------------------------------------
Idle(w) == \A e \in Events : run[w][e] = "idle"

AnotherFault == faults < MaxFaults /\ faults' = faults + 1

BadClaimable == {e \in Events : event[e].status \in {"PENDING", "FAILED"} /\ event[e].due}

\* rows of claim_statement: due ones, and expired claims however often tried
Claimable == {e \in Events :
                \/ event[e].status \in {"PENDING", "FAILED"} /\ event[e].due
                \/ event[e].status = "DISPATCHING" /\ ~event[e].live}

Batches(set, limit) == {b \in SUBSET set : b # {} /\ Cardinality(b) <= limit}

Ended(row, status) == [row EXCEPT !.status = status, !.owner = NoWorker, !.live = FALSE]

\* a row as make_outbox_event inserts it
Inserted(e) == [event EXCEPT ![e].status = "PENDING", ![e].due = TRUE]

\* a business transaction commits the event with its own change
Emit(e) ==
  /\ event[e].status = "NONE"
  /\ event' = Inserted(e)
  /\ UNCHANGED <<run, handled, faults>>

\* dispatch_once claims again only after everything it claimed has ended
Claim(w) ==
  /\ Idle(w)
  /\ \E batch \in Batches(Claimable, Concurrency) :
       /\ event' = [e \in Events |->
                      IF e \in batch
                      THEN [status |-> "DISPATCHING", due |-> FALSE, owner |-> w,
                            live |-> TRUE, attempt |-> event[e].attempt + 1]
                      ELSE event[e]]
       /\ run' = [run EXCEPT ![w] = [e \in Events |->
                                        IF e \in batch THEN "running" ELSE @[e]]]
  /\ UNCHANGED <<handled, faults>>

BadHandlerEnds(w, e) ==  \* a retryable error is swallowed
  /\ run[w][e] = "running"
  /\ \E outcome \in {"ok", "retry", "fatal"} :
       /\ run' = [run EXCEPT ![w][e] = IF outcome = "retry" THEN "ok" ELSE outcome]
       /\ handled' = IF outcome = "ok" THEN handled \union {e} ELSE handled
  /\ UNCHANGED <<event, faults>>

\* the handler returns, or raises an error that is retryable or not
HandlerEnds(w, e) ==
  /\ run[w][e] = "running"
  /\ \E outcome \in {"ok", "retry", "fatal"} :
       /\ run' = [run EXCEPT ![w][e] = outcome]
       /\ handled' = IF outcome = "ok" THEN handled \union {e} ELSE handled
  /\ UNCHANGED <<event, faults>>

\* ack: first under the own lease, otherwise any row still DISPATCHING
Ack(w, e) ==
  /\ run[w][e] = "ok"
  /\ event' = IF event[e].status = "DISPATCHING"
              THEN [event EXCEPT ![e] = Ended(@, "DISPATCHED")]
              ELSE event
  /\ run' = [run EXCEPT ![w][e] = "idle"]
  /\ UNCHANGED <<handled, faults>>

BadVerdict(w, e) ==
  IF run[w][e] = "fatal" \/ event[e].attempt > MaxAttempts THEN "DEAD_LETTER" ELSE "FAILED"

Verdict(w, e) ==
  IF run[w][e] = "fatal" \/ event[e].attempt >= MaxAttempts THEN "DEAD_LETTER" ELSE "FAILED"

BadFail(w, e) ==  \* whoever holds the claim by now
  /\ run[w][e] \in {"retry", "fatal"}
  /\ event' = IF event[e].status = "DISPATCHING"
              THEN [event EXCEPT ![e] = Ended(@, Verdict(w, e))]
              ELSE event
  /\ run' = [run EXCEPT ![w][e] = "idle"]
  /\ UNCHANGED <<handled, faults>>

\* fail: only the owner, whether its lease has run out or not
Fail(w, e) ==
  /\ run[w][e] \in {"retry", "fatal"}
  /\ event' = IF event[e].status = "DISPATCHING" /\ event[e].owner = w
              THEN [event EXCEPT ![e] = Ended(@, Verdict(w, e))]
              ELSE event
  /\ run' = [run EXCEPT ![w][e] = "idle"]
  /\ UNCHANGED <<handled, faults>>

\* an operator replays a dead letter, with its attempts reset or not
Replay(e) ==
  /\ event[e].status = "DEAD_LETTER"
  /\ AnotherFault
  /\ \E attempt \in {0, event[e].attempt} :
       event' = [event EXCEPT ![e] = [Ended(@, "PENDING") EXCEPT !.due = TRUE, !.attempt = attempt]]
  /\ UNCHANGED <<run, handled>>

-------------------------------------------------------------------------------
\* the delay after a failure is over
BackoffEnds(e) ==
  /\ event[e].status = "FAILED" /\ ~event[e].due
  /\ event' = [event EXCEPT ![e].due = TRUE]
  /\ UNCHANGED <<run, handled, faults>>

Working(e) == event[e].owner # NoWorker /\ run[event[e].owner][e] # "idle"

\* the lease of a claim runs out; that is a fault while its handler is at work
LeaseEnds(e) ==
  /\ event[e].status = "DISPATCHING" /\ event[e].live
  /\ IF Working(e) THEN AnotherFault ELSE UNCHANGED faults
  /\ event' = [event EXCEPT ![e].live = FALSE]
  /\ UNCHANGED <<run, handled>>

\* w dies: its handlers are gone, its claims stay until their leases run out
Abandon(w) ==
  /\ AnotherFault
  /\ run' = [run EXCEPT ![w] = [e \in Events |-> "idle"]]
  /\ UNCHANGED <<event, handled>>

OutboxNext ==
  \/ \E e \in Events : Emit(e) \/ Replay(e) \/ BackoffEnds(e) \/ LeaseEnds(e)
  \/ \E w \in Workers : Claim(w) \/ Abandon(w)
  \/ \E w \in Workers, e \in Events : HandlerEnds(w, e) \/ Ack(w, e) \/ Fail(w, e)

OutboxSpec == OutboxInit /\ [][OutboxNext]_outboxVars

-------------------------------------------------------------------------------
(***************************************************************************)
(* Properties.                                                             *)
(***************************************************************************)

\* Claims are capped by max_attempts but for workers that died and handlers
\* that outlived their lease, because an expired claim is taken over without
\* looking at its attempts (dispatcher.py:98); replays may keep the count.
AttemptsCapped ==
  \A e \in Events : event[e].attempt <= MaxAttempts + faults

\* A failure is recorded only by the worker that holds the claim: a handler
\* that fails after its event was taken over ends nobody else's work
\* (dispatcher.py:287).
FailureIsOwn ==
  [][\A e \in Events :
       event[e].status = "DISPATCHING" /\ event'[e].status \in {"FAILED", "DEAD_LETTER"}
         => run[event[e].owner][e] \in {"retry", "fatal"}]_outboxVars

\* The row as those who inserted it see it.
Standing ==
  [NONE |-> "absent", PENDING |-> "waiting", DISPATCHING |-> "waiting", FAILED |-> "waiting",
   DISPATCHED |-> "finished", DEAD_LETTER |-> "dead"]

Queue == INSTANCE EventQueue WITH item <- [e \in Events |-> Standing[event[e].status]],
                                  done <- handled

\* The outbox is the queue it promises to be: no event is finished unless a
\* handler has completed for it, although ack finalizes a row that another worker
\* leases by then (dispatcher.py:240), and no late acknowledgement or failure
\* changes what has ended.
ImplementsQueue == Queue!QueueSpec
===============================================================================
