------------------------------ MODULE WorkerLoop ------------------------------
(***************************************************************************)
(* The worker process (worker/main.py, runtime/worker_leases.py): it takes *)
(* a lease under a fresh id, and then turns a single-threaded loop that    *)
(* fires timers, dispatches events and sends a heartbeat.  A heartbeat     *)
(* that comes too late ends the process.                                   *)
(*                                                                         *)
(* A worker is a slot that a container keeps filled: the process that      *)
(* starts in it again has a new id, so acquire never conflicts.  The other *)
(* ticks of the loop touch none of these rows; the time they take shows as *)
(* leases that run out.                                                    *)
(***************************************************************************)
EXTENDS Timers

VARIABLES
  pc,      \* pc[w]: where the loop of w stands
  wlease   \* wlease[w]: the row of worker_leases of the process in slot w

workerVars == <<pc, wlease>>
vars == <<outboxVars, timerVars, workerVars>>

Places == {"down", "timers", "fire", "dispatch", "handle", "beat"}

WorkerTypeOK ==
  /\ OutboxTypeOK
  /\ TimersTypeOK
  /\ pc \in [Workers -> Places]
  /\ wlease \in [Workers -> {"none", "live", "expired"}]

WorkerInit ==
  /\ OutboxInit
  /\ TimersInit
  /\ pc = [w \in Workers |-> "down"]
  /\ wlease = [w \in Workers |-> "none"]

-------------------------------------------------------------------------------
At(w, place) == pc[w] = place
Goto(w, place) == pc' = [pc EXCEPT ![w] = place]

\* serve acquires a lease and enters the loop
Start(w) ==
  /\ At(w, "down")
  /\ Goto(w, "timers")
  /\ wlease' = [wlease EXCEPT ![w] = "live"]
  /\ UNCHANGED <<outboxVars, timerVars>>

BadTakeTimers(w) ==  \* the tick of the timers is left out
  /\ At(w, "timers")
  /\ Goto(w, "dispatch")
  /\ UNCHANGED <<outboxVars, timerVars, wlease>>

\* dispatch_due claims what is due, possibly nothing
TakeTimers(w) ==
  /\ At(w, "timers")
  /\ IF Due = {}
     THEN Goto(w, "dispatch") /\ UNCHANGED timerVars
     ELSE Goto(w, "fire") /\ ClaimTimers(w, Due)
  /\ UNCHANGED <<outboxVars, wlease>>

FireOne(w) ==
  /\ At(w, "fire")
  /\ \E t \in batch[w] : Fire(w, t)
  /\ Goto(w, IF batch'[w] = {} THEN "dispatch" ELSE "fire")
  /\ UNCHANGED wlease

\* the finally of serve gives the worker lease back; that of a process that died
\* stays behind, but nobody asks for it again
Leave(w) == Goto(w, "down") /\ wlease' = [wlease EXCEPT ![w] = "none"]

\* LEASE_LOST of fire is not caught in serve: the worker stops
FireFails(w) ==
  /\ At(w, "fire")
  /\ \E t \in batch[w] : FireRaises(w, t)
  /\ Leave(w)

\* dispatch_once, with or without anything to claim
TakeEvents(w) ==
  /\ At(w, "dispatch")
  /\ IF Claimable = {}
     THEN Goto(w, "beat") /\ UNCHANGED outboxVars
     ELSE Goto(w, "handle") /\ Claim(w)
  /\ UNCHANGED <<timerVars, wlease>>

Handle(w, e) ==
  /\ At(w, "handle")
  /\ HandlerEnds(w, e)
  /\ UNCHANGED <<timerVars, workerVars>>

\* the outcome of a handler is recorded; after the last one the loop goes on
Record(w, e) ==
  /\ At(w, "handle")
  /\ Ack(w, e) \/ Fail(w, e)
  /\ Goto(w, IF \A f \in Events : run'[w][f] = "idle" THEN "beat" ELSE "handle")
  /\ UNCHANGED <<timerVars, wlease>>

\* heartbeat: a lease that has run out is not renewed, and serve ends
Beat(w) ==
  /\ At(w, "beat")
  /\ IF wlease[w] = "live"
     THEN Goto(w, "timers") /\ UNCHANGED wlease
     ELSE Leave(w)
  /\ UNCHANGED <<outboxVars, timerVars>>

\* a stop signal is seen at the end of a turn
Stop(w) ==
  /\ At(w, "beat")
  /\ Leave(w)
  /\ UNCHANGED <<outboxVars, timerVars>>

\* the process dies wherever it stands
Crash(w) ==
  /\ ~At(w, "down")
  /\ Abandon(w)
  /\ ForgetBatch(w)
  /\ Leave(w)

WorkerLeaseEnds(w) ==
  /\ wlease[w] = "live"
  /\ wlease' = [wlease EXCEPT ![w] = "expired"]
  /\ UNCHANGED <<outboxVars, timerVars, pc>>

-------------------------------------------------------------------------------
\* what the rest of the system does to these rows
Business ==
  \/ \E e \in Events \ TimerEvents : Emit(e) /\ UNCHANGED <<timerVars, workerVars>>
  \/ \E e \in Events : Replay(e) /\ UNCHANGED <<timerVars, workerVars>>
  \/ \E t \in Timers : (Schedule(t) \/ Cancel(t)) /\ UNCHANGED workerVars

Clock ==
  \/ \E e \in Events :
       (BackoffEnds(e) \/ LeaseEnds(e)) /\ UNCHANGED <<timerVars, workerVars>>
  \/ \E t \in Timers : (BecomesDue(t) \/ TimerLeaseEnds(t)) /\ UNCHANGED workerVars

Loop(w) ==
  \/ Start(w) \/ TakeTimers(w) \/ FireOne(w) \/ FireFails(w) \/ TakeEvents(w) \/ Beat(w)
  \/ \E e \in Events : Handle(w, e) \/ Record(w, e)

WorkerNext ==
  \/ Business
  \/ Clock
  \/ \E w \in Workers : Loop(w) \/ WorkerLeaseEnds(w) \/ Stop(w) \/ Crash(w)

WorkerSpec == WorkerInit /\ [][WorkerNext]_vars

\* Handlers return, a container is started again (--restart unless-stopped),
\* delays and leases run out by the clock of the database.
FairSpec ==
  /\ WorkerSpec
  /\ \A w \in Workers : WF_vars(Loop(w))
  /\ WF_vars(Clock)

-------------------------------------------------------------------------------
(***************************************************************************)
(* Properties.                                                             *)
(***************************************************************************)

\* A worker works on rows only inside the part of the loop that claimed them,
\* and none is at work in a process that is down.
LoopHoldsClaims ==
  \A w \in Workers :
    /\ batch[w] # {} => At(w, "fire")
    /\ ~Idle(w) => At(w, "handle")

\* Every event is dispatched or ends as a dead letter, whichever workers die
\* with it in hand (dispatcher.py:98).
EventEnds ==
  \A e \in Events : event[e].status = "PENDING"
                      ~> event[e].status \in {"DISPATCHED", "DEAD_LETTER"}

\* A scheduled timer fires or is cancelled unless a worker stopped with it in
\* its batch: one late fire or one crash strands it and the timers behind it.
TimerFires ==
  \A t \in Timers : timer[t].status = "PENDING"
                      ~> (timer[t].status \in {"FIRED", "CANCELLED"} \/ Stranded(t))
===============================================================================
