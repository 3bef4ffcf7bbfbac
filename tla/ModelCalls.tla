------------------------------ MODULE ModelCalls ------------------------------
(***************************************************************************)
(* The call broker of the novel engine (novel/application/production.py)   *)
(* with its two-phase quota (novel/application/ledger.py): reserve, call   *)
(* the model outside any transaction, settle; and the recovery sweep that  *)
(* closes what crashes and timeouts left behind.                           *)
(*                                                                         *)
(* The modelled database is PostgreSQL at READ COMMITTED with ORM updates  *)
(* that write only changed columns and check no row version, so a row read *)
(* by one transaction may be rewritten by another before it is used.  The  *)
(* windows in which that matters are steps of their own: the read and the  *)
(* write of _prepare, of reclaim_expired_calls and of reconcile.           *)
(*                                                                         *)
(* Operators named Bad... are mutated forms of the definition that follows *)
(* them; they are no part of the model and only show that a property sees  *)
(* the mistake they make.                                                  *)
(***************************************************************************)
EXTENDS Integers, Sequences, FiniteSets, Functions

CONSTANTS
  Calls,          \* logical call ids of one chapter
  Workers,        \* executions that may hold a ticket at the same time
  Sweepers,       \* processes that run recover_novel_calls
  Estimate,       \* [Calls -> Nat]: estimate_minor, what an attempt reserves
  Costs,          \* what the provider may charge for an attempt
  Cap,            \* effective_cost_cap of the chapter
  MaxReconciles,  \* reconcile_attempts
  CanLookup,      \* the provider implements lookup_call
  MaxAttempts     \* bound of the model: attempts per logical call

ASSUME CallsAssumption ==
  /\ IsFiniteSet(Calls)
  /\ Estimate \in [Calls -> Nat \ {0}]
  /\ Costs \subseteq Nat \ {0}
  /\ Cap \in Nat
  /\ MaxReconciles \in Nat \ {0}
  /\ CanLookup \in BOOLEAN
  /\ MaxAttempts \in Nat \ {0}

VARIABLES
  att,      \* att[c]: the attempts of c, oldest first; one record stands for the
            \* ModelCall row, its reservation and its CONSUME/RELEASE entries,
            \* which all carry the key id:attempt
  chapter,  \* the committed checkpoint in generation_context.production
  worker,   \* worker[w]: where the execution of a call stands
  sweeper   \* sweeper[s]: where the recovery sweep stands

vars == <<att, chapter, worker, sweeper>>

-------------------------------------------------------------------------------
(* Types *)

Statuses == {"RESERVED", "UNKNOWN", "SUCCEEDED", "FAILED"}

Attempt ==
  [status : Statuses, leased : BOOLEAN, rid : BOOLEAN, count : Nat,
   actual : Nat, output : BOOLEAN,
   hold : {"RESERVED", "SETTLED", "RELEASED"}, settled : Nat,
   consumed : Nat, topup : Nat, released : Nat]

Checkpoint == [committed : Nat, done : SUBSET Calls]

Idle == [at |-> "idle"]

Busy ==
  [at : {"preparing", "calling", "answered"}, call : Calls, no : Nat,
   doomed : BOOLEAN, base : Checkpoint, got : Nat]

Row == [call : Calls, no : Nat \ {0}, rid : BOOLEAN, count : Nat]

Sweeper ==
  [at : {"idle", "reclaiming", "reclaimed", "reconciling"},
   expired : SUBSET (Calls \X Nat), rows : SUBSET Row]

TypeOK ==
  /\ att \in [Calls -> Seq(Attempt)]
  /\ chapter \in Checkpoint
  /\ worker \in [Workers -> {Idle} \cup Busy]
  /\ sweeper \in [Sweepers -> Sweeper]

-------------------------------------------------------------------------------
(* The rows of one attempt *)

Keys == Calls \X (1 .. MaxAttempts)

Amount == [k \in Keys |-> Estimate[k[1]]]

Has(c, n) == n \in 1 .. Len(att[c])

\* the latest attempt of a logical call, 0 when there is none
Latest(c) == Len(att[c])

NewAttempt ==
  [status |-> "RESERVED", leased |-> TRUE, rid |-> FALSE, count |-> 0,
   actual |-> 0, output |-> FALSE, hold |-> "RESERVED", settled |-> 0,
   consumed |-> 0, topup |-> 0, released |-> 0]

\* the call can never be looked up at the provider
Unreconcilable(a) == a.status = "UNKNOWN" /\ ~a.rid

Billed(cost, reserved) == IF cost < reserved THEN cost ELSE reserved

\* ledger.consume finds an entry of another amount under the key, or the
\* conditional update of the reservation touches no row: the transaction fails
Refused(a, reserved, cost) ==
  \/ a.consumed \notin {0, Billed(cost, reserved)}
  \/ a.consumed = 0 /\ a.settled + Billed(cost, reserved) > reserved
  \/ cost > reserved /\ a.topup \notin {0, cost - reserved}

BadConsume(a, reserved, amount) ==  \* no idempotency
  [a EXCEPT !.consumed = a.consumed + amount, !.settled = a.settled + amount,
            !.hold = IF a.settled + amount >= reserved THEN "SETTLED" ELSE a.hold]

Consume(a, reserved, amount) ==
  IF a.consumed # 0 THEN a
  ELSE [a EXCEPT !.consumed = amount, !.settled = a.settled + amount,
                 !.hold = IF a.settled + amount >= reserved THEN "SETTLED" ELSE a.hold]

BadTopUp(a, reserved, cost) == a  \* the excess is lost

TopUp(a, reserved, cost) ==
  IF cost > reserved /\ a.topup = 0 THEN [a EXCEPT !.topup = cost - reserved] ELSE a

Release(a, reserved) ==
  IF reserved - a.settled <= 0 THEN a
  ELSE IF a.hold # "RESERVED" THEN [a EXCEPT !.released = reserved - a.settled]
  ELSE [a EXCEPT !.settled = reserved, !.released = reserved - a.settled,
                 !.hold = IF a.settled > 0 THEN "SETTLED" ELSE "RELEASED"]

Finalize(a, reserved, status, cost, output) ==
  LET closed == [a EXCEPT !.status = status, !.actual = cost, !.leased = FALSE,
                          !.output = a.output \/ output]
      paid   == Consume(closed, reserved, Billed(cost, reserved))
  IN Release(TopUp(paid, reserved, cost), reserved)

\* both put an attempt back to UNKNOWN whatever its status is by now
MarkUnknown(a, rid) ==
  [a EXCEPT !.status = "UNKNOWN", !.leased = FALSE, !.rid = a.rid \/ rid]

BadReap(a) == [a EXCEPT !.status = "EXPIRED", !.leased = FALSE]

Reap(a) == [a EXCEPT !.status = "UNKNOWN", !.leased = FALSE]

Update(c, n, a) == att' = [att EXCEPT ![c][n] = a]

-------------------------------------------------------------------------------
(* Quota: the reservations and entries alone, as the abstract ledger sees them *)

LedgerView ==
  [k \in Keys |->
    IF ~Has(k[1], k[2])
    THEN [phase |-> "free", billed |-> 0, returned |-> 0, extra |-> 0]
    ELSE LET a == att[k[1]][k[2]]
         IN [phase |-> IF a.hold = "RESERVED" THEN "held" ELSE "settled",
             billed |-> a.consumed, returned |-> a.released, extra |-> a.topup]]

Ledger == INSTANCE QuotaLedger WITH
            ledger <- LedgerView, Limits <- 0 .. Cap,
            Charges <- Costs \cup {Estimate[c] : c \in Calls}

OpenKeys == {k \in Keys : Has(k[1], k[2]) /\ att[k[1]][k[2]].hold = "RESERVED"}

Outstanding == Ledger!Total(OpenKeys)

-------------------------------------------------------------------------------
(* The execution of one logical call by a worker *)

Stop(w) == worker' = [worker EXCEPT ![w] = Idle]

Reusable(a) == a.status = "SUCCEEDED" /\ a.output

BadBlocked(a) ==  \* an expired lease is taken for a finished call
  (a.status = "RESERVED" /\ a.leased) \/ (a.status = "UNKNOWN" /\ a.rid)

\* CallUnknown or CallInFlight; reaping an expired lease here is rolled back
Blocked(a) == a.status = "RESERVED" \/ (a.status = "UNKNOWN" /\ a.rid)

\* Everything _prepare decides from the row it has read: refuse, reuse or go on.
StartCall(w, c) ==
  /\ worker[w].at = "idle"
  /\ c \notin chapter.done
  /\ Cap - chapter.committed > 0
  /\ LET n == Latest(c)
         Go(at, doomed, got) ==
           worker' = [worker EXCEPT ![w] = [at |-> at, call |-> c, no |-> n,
                        doomed |-> doomed, base |-> chapter, got |-> got]]
     IN \/ n > 0 /\ Reusable(att[c][n]) /\ Go("answered", FALSE, att[c][n].actual)
        \/ /\ n > 0 => ~Reusable(att[c][n]) /\ ~Blocked(att[c][n])
           /\ Go("preparing", n > 0 /\ Unreconcilable(att[c][n]), 0)
  /\ UNCHANGED <<att, chapter, sweeper>>

BadMayReserve1(w) ==  \* no unique key
  Outstanding + Estimate[worker[w].call] <= Cap - worker[w].base.committed

BadMayReserve2(w) ==  \* reservations in flight are not counted
  /\ Latest(worker[w].call) = worker[w].no
  /\ Estimate[worker[w].call] <= Cap - worker[w].base.committed

MayReserve(w) ==
  /\ Latest(worker[w].call) = worker[w].no
  /\ Outstanding + Estimate[worker[w].call] <= Cap - worker[w].base.committed

\* _prepare commits: the unreconcilable attempt is written off as FAILED and the
\* next one is reserved, with its lease, before the model is called.
Reserve(w) ==
  /\ worker[w].at = "preparing"
  /\ MayReserve(w)
  /\ worker[w].no < MaxAttempts
  /\ LET c == worker[w].call
         n == worker[w].no
         old == IF worker[w].doomed
                THEN [att[c] EXCEPT ![n].status = "FAILED", ![n].leased = FALSE]
                ELSE att[c]
     IN /\ att' = [att EXCEPT ![c] = Append(old, NewAttempt)]
        /\ worker' = [worker EXCEPT ![w].at = "calling", ![w].no = n + 1,
                                    ![w].doomed = FALSE]
  /\ UNCHANGED <<chapter, sweeper>>

\* QuotaExceeded, or the unique keys refuse the attempt another worker inserted:
\* the accounting transaction rolls back.
ReserveFails(w) ==
  /\ worker[w].at = "preparing"
  /\ ~MayReserve(w)
  /\ Stop(w)
  /\ UNCHANGED <<att, chapter, sweeper>>

\* The model answers, however late, and _settle runs.
Settle(w, cost, rid) ==
  LET c == worker[w].call
      n == worker[w].no
      a == [att[c][n] EXCEPT !.rid = rid]
  IN /\ worker[w].at = "calling"
     /\ IF Refused(a, Estimate[c], cost)
        THEN Stop(w) /\ UNCHANGED att
        ELSE /\ Update(c, n, Finalize(a, Estimate[c], "SUCCEEDED", cost, TRUE))
             /\ worker' = [worker EXCEPT ![w].at = "answered", ![w].got = cost]
     /\ UNCHANGED <<chapter, sweeper>>

\* The call raises, perhaps with the provider's request id: _mark_unknown.
CallRaises(w, rid) ==
  LET c == worker[w].call
      n == worker[w].no
  IN /\ worker[w].at = "calling"
     /\ Update(c, n, MarkUnknown(att[c][n], rid))
     /\ Stop(w)
     /\ UNCHANGED <<chapter, sweeper>>

BadSaveCheckpoint(w) ==  \* the cost is kept, the progress is not
  /\ worker[w].at = "answered"
  /\ chapter' = [worker[w].base EXCEPT !.committed = @ + worker[w].got]
  /\ Stop(w)
  /\ UNCHANGED <<att, sweeper>>

\* The caller's checkpoint: the whole production document, from the copy it read.
SaveCheckpoint(w) ==
  /\ worker[w].at = "answered"
  /\ chapter' = [committed |-> worker[w].base.committed + worker[w].got,
                 done |-> worker[w].base.done \cup {worker[w].call}]
  /\ Stop(w)
  /\ UNCHANGED <<att, sweeper>>

\* The process dies (or a sibling of its batch is refused): the ticket is gone.
Crash(w) ==
  /\ worker[w].at # "idle"
  /\ Stop(w)
  /\ UNCHANGED <<att, chapter, sweeper>>

LeaseExpires(c, n) ==
  /\ Has(c, n)
  /\ att[c][n].status = "RESERVED" /\ att[c][n].leased
  /\ Update(c, n, [att[c][n] EXCEPT !.leased = FALSE])
  /\ UNCHANGED <<chapter, worker, sweeper>>

-------------------------------------------------------------------------------
(* recover_novel_calls *)

SweepIdle == [at |-> "idle", expired |-> {}, rows |-> {}]

BadReclaimRead(s) ==  \* takes only what could be looked up
  /\ sweeper[s].at = "idle"
  /\ sweeper' = [sweeper EXCEPT ![s] =
       [SweepIdle EXCEPT !.at = "reclaiming",
          !.expired = {k \in Keys : /\ Has(k[1], k[2]) /\ att[k[1]][k[2]].rid
                                    /\ att[k[1]][k[2]].status = "RESERVED"
                                    /\ ~att[k[1]][k[2]].leased}]]
  /\ UNCHANGED <<att, chapter, worker>>

ReclaimRead(s) ==
  /\ sweeper[s].at = "idle"
  /\ sweeper' = [sweeper EXCEPT ![s] =
       [SweepIdle EXCEPT !.at = "reclaiming",
          !.expired = {k \in Keys : /\ Has(k[1], k[2])
                                    /\ att[k[1]][k[2]].status = "RESERVED"
                                    /\ ~att[k[1]][k[2]].leased}]]
  /\ UNCHANGED <<att, chapter, worker>>

ReclaimCommit(s) ==
  /\ sweeper[s].at = "reclaiming"
  /\ att' = [c \in Calls |-> [n \in 1 .. Len(att[c]) |->
               IF <<c, n>> \in sweeper[s].expired THEN Reap(att[c][n]) ELSE att[c][n]]]
  /\ sweeper' = [sweeper EXCEPT ![s] = [SweepIdle EXCEPT !.at = "reclaimed"]]
  /\ UNCHANGED <<chapter, worker>>

RowOf(k) == [call |-> k[1], no |-> k[2], rid |-> att[k[1]][k[2]].rid,
             count |-> att[k[1]][k[2]].count]

ScanUnknown(s) ==
  /\ sweeper[s].at = "reclaimed"
  /\ sweeper' = [sweeper EXCEPT ![s].at = "reconciling",
       ![s].rows = {RowOf(k) : k \in {j \in Keys :
                      Has(j[1], j[2]) /\ att[j[1]][j[2]].status = "UNKNOWN"}}]
  /\ UNCHANGED <<att, chapter, worker>>

\* What reconcile does to the latest attempt, as row r remembers it: the lookup
\* finds the call (with or without output), or the attempt is counted and, at
\* the limit, settled at the reserved amount.
LookupFinds(c, n, r, cost, output) ==
  /\ CanLookup /\ r.rid
  /\ ~Refused(att[c][n], Estimate[c], cost)
  /\ Update(c, n, Finalize(att[c][n], Estimate[c],
                           IF output THEN "SUCCEEDED" ELSE "FAILED", cost, output))

CountedOut(c, n, r) ==
  LET a == [att[c][n] EXCEPT !.count = r.count + 1]
  IN /\ r.count + 1 >= MaxReconciles
     /\ ~Refused(a, Estimate[c], Estimate[c])
     /\ Update(c, n, Finalize(a, Estimate[c], "FAILED", Estimate[c], FALSE))

BadStillPending(c, n, r) ==  \* the reconciliation is not counted
  /\ r.count + 1 < MaxReconciles
  /\ UNCHANGED att

StillPending(c, n, r) ==
  /\ r.count + 1 < MaxReconciles
  /\ Update(c, n, [att[c][n] EXCEPT !.count = r.count + 1])

\* the copies of the latest attempt in the sweep's session: its scanned row if
\* it has one (the session does not read it again), else the row as it is now
Remembered(s, c) ==
  LET n == Latest(c)
      scanned == {r \in sweeper[s].rows : r.call = c /\ r.no = n}
  IN IF scanned # {} THEN scanned
     ELSE {r \in {RowOf(<<c, n>>)} : att[c][n].status = "UNKNOWN"}

\* One scanned row: reconcile works on the latest attempt of its logical call.
Reconcile(s, row) ==
  LET c == row.call
      n == Latest(c)
      seen == Remembered(s, c)
      left == sweeper[s].rows \ {row}
      Rest(rows) == sweeper' = [sweeper EXCEPT ![s].rows = rows]
  IN /\ sweeper[s].at = "reconciling"
     /\ row \in sweeper[s].rows
     /\ \/ seen = {} /\ Rest(left) /\ UNCHANGED att
        \/ \E r \in seen :
             \/ /\ \/ \E cost \in Costs, output \in BOOLEAN : LookupFinds(c, n, r, cost, output)
                   \/ CountedOut(c, n, r)
                /\ Rest(left \ {r})
             \/ /\ StillPending(c, n, r)
                /\ Rest(IF r \in left
                        THEN (left \ {r}) \cup {[r EXCEPT !.count = r.count + 1]}
                        ELSE left)
     /\ UNCHANGED <<chapter, worker>>

\* The ledger refuses the settlement: the exception ends the whole sweep.
SweepAborts(s, row) ==
  LET c == row.call
      n == Latest(c)
  IN /\ sweeper[s].at = "reconciling"
     /\ row \in sweeper[s].rows
     /\ \E r \in Remembered(s, c) :
          \/ r.count + 1 >= MaxReconciles /\ Refused(att[c][n], Estimate[c], Estimate[c])
          \/ CanLookup /\ r.rid /\ \E cost \in Costs : Refused(att[c][n], Estimate[c], cost)
     /\ sweeper' = [sweeper EXCEPT ![s] = SweepIdle]
     /\ UNCHANGED <<att, chapter, worker>>

SweepEnds(s) ==
  /\ sweeper[s].at = "reconciling"
  /\ sweeper[s].rows = {}
  /\ sweeper' = [sweeper EXCEPT ![s] = SweepIdle]
  /\ UNCHANGED <<att, chapter, worker>>

SweepCrashes(s) ==
  /\ sweeper[s].at # "idle"
  /\ sweeper' = [sweeper EXCEPT ![s] = SweepIdle]
  /\ UNCHANGED <<att, chapter, worker>>

-------------------------------------------------------------------------------
Init ==
  /\ att = [c \in Calls |-> <<>>]
  /\ chapter = [committed |-> 0, done |-> {}]
  /\ worker = [w \in Workers |-> Idle]
  /\ sweeper = [s \in Sweepers |-> SweepIdle]

WorkerStep(w) ==
  \/ \E c \in Calls : StartCall(w, c)
  \/ Reserve(w)
  \/ ReserveFails(w)
  \/ \E cost \in Costs, rid \in BOOLEAN : Settle(w, cost, rid)
  \/ \E rid \in BOOLEAN : CallRaises(w, rid)
  \/ SaveCheckpoint(w)
  \/ Crash(w)

ReconcileOne(s) == \E row \in sweeper[s].rows : Reconcile(s, row) \/ SweepAborts(s, row)

SweeperStep(s) ==
  \/ ReclaimRead(s)
  \/ ReclaimCommit(s)
  \/ ScanUnknown(s)
  \/ ReconcileOne(s)
  \/ SweepEnds(s)
  \/ SweepCrashes(s)

Next ==
  \/ \E w \in Workers : WorkerStep(w)
  \/ \E c \in Calls, n \in 1 .. MaxAttempts : LeaseExpires(c, n)
  \/ \E s \in Sweepers : SweeperStep(s)

Spec == Init /\ [][Next]_vars

\* The worker loop runs the sweep every 30 seconds and survives its exceptions,
\* and leases end with the clock.  A process that is restarted again and again
\* still gets each step of a sweep done from time to time: strong fairness.  The
\* rows are taken oldest first; the model leaves their order open, so no row of
\* its own is promised a turn before the sweep ends or aborts.
SweepFairness(s) ==
  /\ WF_vars(ReclaimRead(s))
  /\ SF_vars(ReclaimCommit(s))
  /\ SF_vars(ScanUnknown(s))
  /\ SF_vars(ReconcileOne(s))
  /\ SF_vars(SweepEnds(s))

Fairness ==
  /\ \A c \in Calls, n \in 1 .. MaxAttempts : WF_vars(LeaseExpires(c, n))
  /\ \A s \in Sweepers : SweepFairness(s)

FairSpec == Spec /\ Fairness

-------------------------------------------------------------------------------
(* Properties *)

Exists(k) == Has(k[1], k[2])

Row1(k) == att[k[1]][k[2]]

Is(k, status) == Exists(k) /\ Row1(k).status = status

(***************************************************************************)
(* OneOpenAttempt: while an attempt is RESERVED no later attempt of the    *)
(* same logical call exists, so the broker never pays for a second try     *)
(* while the first may still be running under its lease or unreclaimed.    *)
(***************************************************************************)
OneOpenAttempt ==
  \A c \in Calls : \A n \in 1 .. Len(att[c]) - 1 : att[c][n].status # "RESERVED"

(***************************************************************************)
(* TicketsDistinct: two executions never hold the ticket of one attempt,   *)
(* whatever they read before they reserved.                                *)
(***************************************************************************)
TicketsDistinct ==
  \A v, w \in Workers :
    v # w /\ worker[v].at = "calling" /\ worker[w].at = "calling"
      => <<worker[v].call, worker[v].no>> # <<worker[w].call, worker[w].no>>

(***************************************************************************)
(* BilledWhenPriced: an attempt with an actual cost has a closed           *)
(* reservation and CONSUME entries, top-up included, that cover the cost,  *)
(* through every overlap of a late answer with a recovery sweep.           *)
(***************************************************************************)
BilledWhenPriced ==
  \A c \in Calls : \A n \in 1 .. Len(att[c]) :
    att[c][n].actual > 0 =>
      /\ att[c][n].hold = "SETTLED"
      /\ att[c][n].consumed + att[c][n].topup >= att[c][n].actual

(***************************************************************************)
(* CeilingHeld: the open reservations of the chapter never exceed its      *)
(* ceiling, however many workers reserve at once.                          *)
(***************************************************************************)
CeilingHeld == Outstanding <= Cap

Spent == [k \in Keys |-> IF Exists(k) THEN Row1(k).consumed + Row1(k).topup ELSE 0]

Recorded == SumFunctionOnSet(Spent, Keys)

(***************************************************************************)
(* CommittedIsRecorded: what the chapter counts as spent is backed by      *)
(* CONSUME entries: a crash between settlement and checkpoint, a reuse or  *)
(* a checkpoint written from an old copy never makes it exceed the ledger. *)
(***************************************************************************)
CommittedIsRecorded == chapter.committed <= Recorded

(***************************************************************************)
(* ImplementsLedger: seen through its reservations and entries alone, the  *)
(* broker is the ledger of QuotaLedger.tla, through crashes, late answers  *)
(* and overlapping sweeps: hold once, split once, one top-up.              *)
(***************************************************************************)
ImplementsLedger == Ledger!LSpec

(***************************************************************************)
(* ReservedIsResolved: an attempt left RESERVED by a crash does not stay   *)
(* so: its lease ends and a sweep reclaims it.                             *)
(***************************************************************************)
ReservedIsResolved ==
  \A k \in Keys :
    Is(k, "RESERVED") ~> ~Is(k, "RESERVED")

\* the ledger refuses what the sweep would book for the attempt
Poisoned(k) ==
  /\ Is(k, "UNKNOWN")
  /\ \/ Refused(Row1(k), Amount[k], Amount[k])
     \/ CanLookup /\ \E cost \in Costs : Refused(Row1(k), Amount[k], cost)

(***************************************************************************)
(* UnknownIsReconciled: the latest attempt of a call does not stay UNKNOWN *)
(* (bounded reconciliation), as long as the ledger accepts what the sweep  *)
(* books for the attempts it meets.                                        *)
(***************************************************************************)
UnknownIsReconciled ==
  \A k \in Keys :
    (Is(k, "UNKNOWN") /\ Latest(k[1]) = k[2])
      ~> (~Is(k, "UNKNOWN") \/ Latest(k[1]) # k[2] \/ \E j \in Keys : Poisoned(j))

-------------------------------------------------------------------------------
(* What the repository says and the code does not do *)

(***************************************************************************)
(* NoDanglingHold: a finished attempt has a closed reservation             *)
(* (production.py: 查到结果就必须结清, 不留悬账).                          *)
(***************************************************************************)
NoDanglingHold ==
  \A c \in Calls : \A n \in 1 .. Len(att[c]) :
    att[c][n].status \in {"SUCCEEDED", "FAILED"} => att[c][n].hold # "RESERVED"
===============================================================================
