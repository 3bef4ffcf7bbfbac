--------------------------- MODULE ModelCallsProofs ---------------------------
(***************************************************************************)
(* Theorems about the call broker, for any number of calls, workers and    *)
(* sweepers, any estimates, costs and ceiling.                             *)
(***************************************************************************)
EXTENDS ModelCalls, SumsProofs, SequenceTheorems

(***************************************************************************)
(* What holds of the rows of one attempt that reserved the amount e: while *)
(* the reservation is open nothing was booked on it; once it is settled    *)
(* its amount is split exactly, a top-up only follows a full consumption,  *)
(* and the entries cover the actual cost.                                  *)
(***************************************************************************)
AttemptOK(a, e) ==
  /\ a.hold \in {"RESERVED", "SETTLED"}
  /\ a.hold = "RESERVED" =>
       a.settled = 0 /\ a.consumed = 0 /\ a.topup = 0 /\ a.released = 0 /\ a.actual = 0
  /\ a.hold = "SETTLED" =>
       /\ a.settled = e
       /\ a.consumed > 0
       /\ a.consumed + a.released = e
       /\ a.topup > 0 => a.released = 0
       /\ a.actual <= a.consumed + a.topup

(***************************************************************************)
(* What a settlement does to the rows of an attempt, as the ledger sees it.*)
(***************************************************************************)
SettledAs(a, b, e, cost) ==
  /\ b.hold = "SETTLED"
  /\ \/ /\ a.hold = "RESERVED"
        /\ b.consumed = Billed(cost, e)
        /\ b.released = e - Billed(cost, e)
        /\ b.topup = cost - Billed(cost, e)
     \/ /\ a.hold = "SETTLED"
        /\ b.consumed = a.consumed /\ b.released = a.released
        /\ \/ b.topup = a.topup
           \/ a.topup = 0 /\ a.released = 0 /\ cost > e /\ b.topup = cost - e

-------------------------------------------------------------------------------
(* Lemmas about the operators on one attempt *)

(* What is billed to a reservation is positive and within it. *)
LEMMA BilledFact ==
  ASSUME NEW e \in Nat \ {0}, NEW cost \in Nat \ {0}
  PROVE  /\ Billed(cost, e) \in Nat \ {0}
         /\ Billed(cost, e) <= e /\ Billed(cost, e) <= cost
         /\ Billed(cost, e) < e => cost = Billed(cost, e)
         /\ cost <= e => cost = Billed(cost, e)
         /\ cost > e => Billed(cost, e) = e
BY DEF Billed

(* A settlement the ledger does not refuse keeps the rows consistent. *)
LEMMA FinalizeFact ==
  ASSUME NEW e \in Nat \ {0}, NEW cost \in Nat \ {0}, NEW a \in Attempt,
         NEW status \in Statuses, NEW output \in BOOLEAN,
         AttemptOK(a, e), ~Refused(a, e, cost),
         NEW final, final = Finalize(a, e, status, cost, output)
  PROVE  /\ final \in Attempt
         /\ AttemptOK(final, e)
         /\ SettledAs(a, final, e, cost)
         /\ final.status = status /\ final.actual = cost
<1> DEFINE closed == [a EXCEPT !.status = status, !.actual = cost, !.leased = FALSE,
                               !.output = a.output \/ output]
           amount == Billed(cost, e)
           paid == Consume(closed, e, amount)
           topped == TopUp(paid, e, cost)
           b == Release(topped, e)
<1>1. /\ amount \in Nat \ {0} /\ amount <= e /\ amount <= cost
      /\ amount < e => cost = amount
      /\ cost <= e => cost = amount
      /\ cost > e => amount = e
  BY BilledFact
<1>2. /\ closed \in Attempt /\ closed.status = status /\ closed.actual = cost
      /\ closed.hold = a.hold /\ closed.settled = a.settled
      /\ closed.consumed = a.consumed /\ closed.topup = a.topup
      /\ closed.released = a.released
  BY DEF Attempt
<1>3. final = b
  BY DEF Finalize
<1> HIDE DEF amount, closed
<1>4. CASE a.hold = "RESERVED"
  <2>1. a.settled = 0 /\ a.consumed = 0 /\ a.topup = 0 /\ a.released = 0
    BY <1>4 DEF AttemptOK
  <2>2. /\ paid \in Attempt /\ paid.status = status /\ paid.actual = cost
        /\ paid.consumed = amount /\ paid.settled = amount
        /\ paid.topup = 0 /\ paid.released = 0
        /\ paid.hold = IF amount >= e THEN "SETTLED" ELSE "RESERVED"
    <3> DEFINE hold == IF amount >= e THEN "SETTLED" ELSE "RESERVED"
    <3>1. closed.settled + amount = amount
      BY <1>1, <1>2, <2>1
    <3>2. paid = [closed EXCEPT !.consumed = amount, !.settled = amount, !.hold = hold]
      BY <1>2, <1>4, <2>1, <3>1 DEF Consume
    <3>3. hold \in {"RESERVED", "SETTLED"}
      OBVIOUS
    <3> HIDE DEF hold
    <3>4. /\ paid \in Attempt /\ paid.status = status /\ paid.actual = cost
          /\ paid.consumed = amount /\ paid.settled = amount
          /\ paid.topup = 0 /\ paid.released = 0 /\ paid.hold = hold
      BY <1>1, <1>2, <2>1, <3>2, <3>3 DEF Attempt
    <3> QED
      BY <3>4 DEF hold
  <2> HIDE DEF paid
  <2>3. /\ topped \in Attempt /\ topped.status = status /\ topped.actual = cost
        /\ topped.consumed = amount /\ topped.settled = amount
        /\ topped.topup = cost - amount /\ topped.released = 0
        /\ topped.hold = IF amount >= e THEN "SETTLED" ELSE "RESERVED"
    BY <1>1, <2>2 DEF TopUp, Attempt
  <2> HIDE DEF topped
  <2>4. /\ b \in Attempt /\ b.status = status /\ b.actual = cost
        /\ b.consumed = amount /\ b.settled = e /\ b.topup = cost - amount
        /\ b.released = e - amount /\ b.hold = "SETTLED"
    <3>1. CASE amount = e
      <4>1. b = topped /\ e - amount = 0
        BY <1>1, <2>3, <3>1 DEF Release
      <4> QED
        BY <1>1, <2>3, <3>1, <4>1
    <3>2. CASE amount < e
      <4>1. e - amount \in Nat /\ ~(e - amount <= 0) /\ ~(amount >= e) /\ amount > 0
        BY <1>1, <3>2
      <4>2. b = [topped EXCEPT !.settled = e, !.released = e - amount, !.hold = "SETTLED"]
        BY <2>3, <4>1 DEF Release
      <4> QED
        BY <2>3, <4>1, <4>2 DEF Attempt
    <3> QED
      BY <1>1, <3>1, <3>2
  <2> HIDE DEF b
  <2>5. AttemptOK(b, e)
    BY <1>1, <2>4 DEF AttemptOK
  <2>6. SettledAs(a, b, e, cost)
    BY <1>4, <2>4 DEF SettledAs, amount
  <2> QED
    BY <1>3, <2>4, <2>5, <2>6
<1>5. CASE a.hold = "SETTLED"
  <2>1. /\ a.settled = e /\ a.consumed > 0 /\ a.consumed + a.released = e
        /\ a.topup > 0 => a.released = 0
        /\ a.consumed \in Nat /\ a.released \in Nat /\ a.topup \in Nat
    BY <1>5 DEF AttemptOK, Attempt
  <2>2. /\ a.consumed = amount
        /\ cost > e => a.topup \in {0, cost - e}
    BY <2>1 DEF Refused, amount
  <2>3. paid = closed
    BY <1>2, <2>1 DEF Consume
  <2> HIDE DEF paid
  <2>4. /\ topped \in Attempt /\ topped.status = status /\ topped.actual = cost
        /\ topped.consumed = a.consumed /\ topped.settled = e
        /\ topped.released = a.released /\ topped.hold = "SETTLED"
        /\ \/ topped.topup = a.topup
           \/ a.topup = 0 /\ a.released = 0 /\ cost > e /\ topped.topup = cost - e
        /\ cost > e => topped.topup = cost - e
    <3>1. CASE cost > e /\ a.topup = 0
      BY <1>1, <1>2, <1>5, <2>1, <2>2, <2>3, <3>1 DEF TopUp, Attempt
    <3>2. CASE ~(cost > e /\ a.topup = 0)
      BY <1>1, <1>2, <1>5, <2>1, <2>2, <2>3, <3>2 DEF TopUp
    <3> QED
      BY <3>1, <3>2
  <2> HIDE DEF topped
  <2>5. b = topped
    BY <2>4 DEF Release
  <2> HIDE DEF b
  <2>6. AttemptOK(b, e)
    BY <1>1, <2>1, <2>2, <2>4, <2>5 DEF AttemptOK, Attempt
  <2>7. SettledAs(a, b, e, cost)
    BY <1>5, <2>4, <2>5 DEF SettledAs
  <2> QED
    BY <1>3, <2>4, <2>5, <2>6, <2>7
<1> QED
  BY <1>4, <1>5 DEF AttemptOK

-------------------------------------------------------------------------------
(* The inductive invariant *)

RowsOK ==
  \A c \in Calls : \A n \in 1 .. Len(att[c]) : AttemptOK(att[c][n], Estimate[c])

LengthOK == \A c \in Calls : Len(att[c]) <= MaxAttempts

(***************************************************************************)
(* What the memory x of an execution owes to the rows: the attempt it      *)
(* speaks of exists, and the one _prepare has read and decided to go past  *)
(* was not RESERVED, which no row becomes again; and it went on only with  *)
(* some budget left.                                                       *)
(***************************************************************************)
Fits(x) ==
  x.at # "idle" =>
    /\ x.no <= Len(att[x.call])
    /\ x.at = "calling" => x.no >= 1
    /\ x.at = "preparing" =>
         /\ x.doomed => x.no >= 1
         /\ x.no >= 1 => att[x.call][x.no].status # "RESERVED"
         /\ x.base.committed < Cap

WorkersOK == \A w \in Workers : Fits(worker[w])

SweepersOK == \A s \in Sweepers : \A r \in sweeper[s].rows : r.no <= Len(att[r.call])

IInv ==
  /\ TypeOK /\ RowsOK /\ LengthOK /\ WorkersOK /\ SweepersOK
  /\ OneOpenAttempt /\ TicketsDistinct

(***************************************************************************)
(* A step that opens no attempt: every row stays consistent and none turns *)
(* RESERVED.  All actions but Reserve are of this kind.                    *)
(***************************************************************************)
OpensNone ==
  /\ att' \in [Calls -> Seq(Attempt)]
  /\ \A c \in Calls :
       /\ Len(att'[c]) = Len(att[c])
       /\ \A n \in 1 .. Len(att[c]) :
            /\ AttemptOK(att'[c][n], Estimate[c])
            /\ att'[c][n].status = "RESERVED" => att[c][n].status = "RESERVED"

(* A step that leaves the rows alone opens none. *)
LEMMA SameOpensNone ==
  ASSUME IInv, UNCHANGED att
  PROVE  OpensNone
BY DEF IInv, TypeOK, RowsOK, OpensNone

(* The row of an attempt is well typed and consistent. *)
LEMMA RowFact ==
  ASSUME IInv, NEW c \in Calls, NEW n \in 1 .. Len(att[c])
  PROVE  att[c][n] \in Attempt /\ AttemptOK(att[c][n], Estimate[c])
BY ElementOfSeq DEF IInv, TypeOK, RowsOK

(* Rewriting one row consistently, without reserving it, opens none. *)
LEMMA UpdateOpensNone ==
  ASSUME IInv, NEW c \in Calls, NEW n \in 1 .. Len(att[c]), NEW a \in Attempt,
         AttemptOK(a, Estimate[c]),
         a.status = "RESERVED" => att[c][n].status = "RESERVED",
         Update(c, n, a)
  PROVE  OpensNone
<1>1. att \in [Calls -> Seq(Attempt)] /\ att[c] \in Seq(Attempt)
  BY DEF IInv, TypeOK
<1> DEFINE new == [att[c] EXCEPT ![n] = a]
<1>2. /\ new \in Seq(Attempt) /\ Len(new) = Len(att[c])
      /\ \A m \in 1 .. Len(att[c]) : new[m] = IF m = n THEN a ELSE att[c][m]
  BY <1>1, ExceptSeq
<1>3. att' = [att EXCEPT ![c] = new]
  BY <1>1 DEF Update
<1> HIDE DEF new
<1>4. att'[c] = new /\ \A d \in Calls : d # c => att'[d] = att[d]
  BY <1>1, <1>3
<1>5. att' \in [Calls -> Seq(Attempt)]
  BY <1>1, <1>2, <1>3
<1>6. ASSUME NEW d \in Calls
      PROVE  /\ Len(att'[d]) = Len(att[d])
             /\ \A m \in 1 .. Len(att[d]) :
                  /\ AttemptOK(att'[d][m], Estimate[d])
                  /\ att'[d][m].status = "RESERVED" => att[d][m].status = "RESERVED"
  <2>1. CASE d = c
    BY <1>2, <1>4, <2>1 DEF IInv, RowsOK
  <2>2. CASE d # c
    BY <1>4, <2>2 DEF IInv, RowsOK
  <2> QED
    BY <2>1, <2>2
<1> QED
  BY <1>5, <1>6 DEF OpensNone

(***************************************************************************)
(* A step that opens no attempt keeps the invariant, if it hands out no    *)
(* ticket and what it writes to the memory of workers and sweepers fits.   *)
(***************************************************************************)
LEMMA OpensNoneKeeps ==
  ASSUME IInv, OpensNone, chapter' \in Checkpoint,
         worker' \in [Workers -> {Idle} \cup Busy], sweeper' \in [Sweepers -> Sweeper],
         \A w \in Workers : \/ worker'[w] = worker[w]
                            \/ worker'[w].at # "calling" /\ Fits(worker'[w]),
         \A s \in Sweepers : \A r \in sweeper'[s].rows : r.no <= Len(att[r.call])
  PROVE  IInv'
<1>1. TypeOK'
  BY DEF OpensNone, TypeOK
<1>2. RowsOK' /\ LengthOK'
  BY DEF OpensNone, RowsOK, LengthOK, IInv
<1>3. ASSUME NEW w \in Workers PROVE Fits(worker[w])'
  <2>1. Fits(worker'[w])
    BY DEF IInv, WorkersOK
  <2>2. worker'[w] = Idle \/ worker'[w] \in Busy
    OBVIOUS
  <2>3. CASE worker'[w] = Idle
    BY <2>3 DEF Fits, Idle
  <2>4. CASE worker'[w] \in Busy
    <3>1. worker'[w].call \in Calls /\ worker'[w].no \in Nat
      BY <2>4 DEF Busy
    <3> QED
      BY <2>1, <3>1 DEF Fits, OpensNone, IInv, TypeOK
  <2> QED
    BY <2>2, <2>3, <2>4
<1>4. SweepersOK'
  <2> SUFFICES ASSUME NEW s \in Sweepers, NEW r \in sweeper'[s].rows
               PROVE  r.no <= Len(att'[r.call])
    BY DEF SweepersOK
  <2>1. r \in Row
    BY DEF Sweeper
  <2> QED
    BY <2>1 DEF Row, OpensNone
<1>5. OneOpenAttempt'
  <2> SUFFICES ASSUME NEW c \in Calls, NEW n \in 1 .. Len(att'[c]) - 1
               PROVE  att'[c][n].status # "RESERVED"
    BY DEF OneOpenAttempt
  <2>1. Len(att'[c]) = Len(att[c]) /\ Len(att[c]) \in Nat
    BY LenProperties DEF OpensNone, IInv, TypeOK
  <2>2. n \in 1 .. Len(att[c]) - 1 /\ n \in 1 .. Len(att[c])
    BY <2>1
  <2>3. att[c][n].status # "RESERVED"
    BY <2>2 DEF IInv, OneOpenAttempt
  <2> QED
    BY <2>2, <2>3 DEF OpensNone
<1>6. TicketsDistinct'
  BY DEF TicketsDistinct, IInv
<1> QED
  BY <1>1, <1>2, <1>3, <1>4, <1>5, <1>6 DEF IInv, WorkersOK

-------------------------------------------------------------------------------
(* The actions of a worker *)

(* An execution that stops forgets its call and changes no row. *)
LEMMA StopKeeps ==
  ASSUME IInv, OpensNone, NEW w \in Workers, Stop(w), chapter' \in Checkpoint,
         UNCHANGED sweeper
  PROVE  IInv'
<1>1. worker' = [worker EXCEPT ![w] = Idle] /\ worker \in [Workers -> {Idle} \cup Busy]
  BY DEF Stop, IInv, TypeOK
<1>2. \A v \in Workers : \/ worker'[v] = worker[v]
                         \/ worker'[v].at # "calling" /\ Fits(worker'[v])
  BY <1>1 DEF Idle, Fits
<1> QED
  BY <1>1, <1>2, OpensNoneKeeps DEF IInv, TypeOK, SweepersOK

(* What a busy worker remembers is well typed. *)
LEMMA BusyFact ==
  ASSUME IInv, NEW w \in Workers, worker[w].at # "idle"
  PROVE  worker[w] \in Busy /\ worker[w].call \in Calls /\ worker[w].no \in Nat
BY DEF IInv, TypeOK, Idle, Busy

LEMMA StartCallKeeps ==
  ASSUME IInv, NEW w \in Workers, NEW c \in Calls, StartCall(w, c)
  PROVE  IInv'
<1> DEFINE n == Latest(c)
           go(at, doomed, got) == [at |-> at, call |-> c, no |-> n,
                                   doomed |-> doomed, base |-> chapter, got |-> got]
<1>1. n \in Nat /\ n = Len(att[c])
  BY LenProperties DEF Latest, IInv, TypeOK
<1>2. chapter \in Checkpoint
  BY DEF IInv, TypeOK
<1>3. PICK x \in Busy : worker' = [worker EXCEPT ![w] = x] /\ x.at # "calling" /\ Fits(x)
  <2>1. CASE n > 0 /\ Reusable(att[c][n]) /\ worker' = [worker EXCEPT ![w] = go("answered", FALSE, att[c][n].actual)]
    <3>1. att[c][n].actual \in Nat
      BY <1>1, <2>1, RowFact DEF Attempt
    <3>2. go("answered", FALSE, att[c][n].actual) \in Busy
      BY <1>1, <1>2, <3>1 DEF Busy
    <3>3. Fits(go("answered", FALSE, att[c][n].actual))
      BY <1>1 DEF Fits
    <3>4. go("answered", FALSE, att[c][n].actual).at # "calling"
      OBVIOUS
    <3> HIDE DEF go
    <3> QED
      BY <2>1, <3>2, <3>3, <3>4
  <2>2. CASE /\ n > 0 => ~Reusable(att[c][n]) /\ ~Blocked(att[c][n])
             /\ worker' = [worker EXCEPT ![w] = go("preparing", n > 0 /\ Unreconcilable(att[c][n]), 0)]
    <3> DEFINE doomed == n > 0 /\ Unreconcilable(att[c][n])
    <3>1. doomed \in BOOLEAN /\ (doomed => n >= 1)
      BY <1>1 DEF Unreconcilable
    <3>2. n >= 1 => att[c][n].status # "RESERVED"
      BY <1>1, <2>2 DEF Blocked
    <3> HIDE DEF doomed
    <3>3. go("preparing", doomed, 0) \in Busy
      BY <1>1, <1>2, <3>1 DEF Busy
    <3>4. chapter.committed < Cap
      BY <1>2, CallsAssumption DEF StartCall, Checkpoint
    <3>5. Fits(go("preparing", doomed, 0))
      BY <1>1, <3>1, <3>2, <3>4 DEF Fits
    <3> QED
      BY <2>2, <3>3, <3>5 DEF doomed
  <2> QED
    BY <2>1, <2>2 DEF StartCall
<1>4. worker' \in [Workers -> {Idle} \cup Busy]
  BY <1>3 DEF IInv, TypeOK
<1>5. \A v \in Workers : \/ worker'[v] = worker[v]
                         \/ worker'[v].at # "calling" /\ Fits(worker'[v])
  BY <1>3 DEF IInv, TypeOK
<1>6. UNCHANGED <<att, chapter, sweeper>>
  BY DEF StartCall
<1> QED
  BY <1>4, <1>5, <1>6, SameOpensNone, OpensNoneKeeps DEF IInv, TypeOK, SweepersOK

LEMMA SettleKeeps ==
  ASSUME IInv, NEW w \in Workers, NEW cost \in Costs, NEW rid \in BOOLEAN,
         Settle(w, cost, rid)
  PROVE  IInv'
<1> DEFINE c == worker[w].call
           n == worker[w].no
           a == [att[c][n] EXCEPT !.rid = rid]
           b == Finalize(a, Estimate[c], "SUCCEEDED", cost, TRUE)
<1>1. /\ worker[w].at = "calling" /\ worker[w] \in Busy /\ c \in Calls
      /\ n \in 1 .. Len(att[c])
  BY BusyFact DEF Settle, IInv, WorkersOK, Fits
<1>2. att[c][n] \in Attempt /\ AttemptOK(att[c][n], Estimate[c])
  BY <1>1, RowFact
<1>3. a \in Attempt /\ AttemptOK(a, Estimate[c])
  BY <1>2 DEF Attempt, AttemptOK
<1>4. Estimate[c] \in Nat \ {0} /\ cost \in Nat \ {0}
  BY <1>1, CallsAssumption
<1>5. UNCHANGED <<chapter, sweeper>>
  BY DEF Settle
<1>6. CASE Refused(a, Estimate[c], cost)
  BY <1>5, <1>6, StopKeeps, SameOpensNone DEF Settle, IInv, TypeOK
<1>7. CASE ~Refused(a, Estimate[c], cost)
  <2> DEFINE x == [worker[w] EXCEPT !.at = "answered", !.got = cost]
  <2>1. Update(c, n, b) /\ worker' = [worker EXCEPT ![w] = x]
    BY <1>7 DEF Settle
  <2>2. b \in Attempt /\ AttemptOK(b, Estimate[c]) /\ b.status = "SUCCEEDED"
    <3> HIDE DEF a
    <3>1. "SUCCEEDED" \in Statuses /\ TRUE \in BOOLEAN
      BY DEF Statuses
    <3>2. ASSUME NEW output \in BOOLEAN,
                 NEW f, f = Finalize(a, Estimate[c], "SUCCEEDED", cost, output)
          PROVE  f \in Attempt /\ AttemptOK(f, Estimate[c]) /\ f.status = "SUCCEEDED"
      BY <1>3, <1>4, <1>7, <3>1, <3>2, FinalizeFact
    <3> QED
      BY <3>1, <3>2, Zenon
  <2>3. OpensNone
    BY <1>1, <2>1, <2>2, UpdateOpensNone
  <2>4. x \in Busy /\ x.at = "answered" /\ x.call = c /\ x.no = n
    BY <1>1, <1>4 DEF Busy
  <2>5. Fits(x)
    BY <1>1, <2>4 DEF Fits
  <2>6. worker' \in [Workers -> {Idle} \cup Busy]
    BY <2>1, <2>4 DEF IInv, TypeOK
  <2>7. \A v \in Workers : \/ worker'[v] = worker[v]
                           \/ worker'[v].at # "calling" /\ Fits(worker'[v])
    BY <2>1, <2>4, <2>5 DEF IInv, TypeOK
  <2> QED
    BY <1>5, <2>3, <2>6, <2>7, OpensNoneKeeps DEF IInv, TypeOK, SweepersOK
<1> QED
  BY <1>6, <1>7

LEMMA CallRaisesKeeps ==
  ASSUME IInv, NEW w \in Workers, NEW rid \in BOOLEAN, CallRaises(w, rid)
  PROVE  IInv'
<1> DEFINE c == worker[w].call
           n == worker[w].no
           b == MarkUnknown(att[c][n], rid)
<1>1. c \in Calls /\ n \in 1 .. Len(att[c])
  BY BusyFact DEF CallRaises, IInv, WorkersOK, Fits
<1>2. att[c][n] \in Attempt /\ AttemptOK(att[c][n], Estimate[c])
  BY <1>1, RowFact
<1>3. b \in Attempt /\ AttemptOK(b, Estimate[c]) /\ b.status = "UNKNOWN"
  BY <1>2 DEF MarkUnknown, Attempt, AttemptOK, Statuses
<1>4. OpensNone
  BY <1>1, <1>3, UpdateOpensNone DEF CallRaises
<1> QED
  BY <1>4, StopKeeps DEF CallRaises, IInv, TypeOK

LEMMA SaveCheckpointKeeps ==
  ASSUME IInv, NEW w \in Workers, SaveCheckpoint(w)
  PROVE  IInv'
<1>1. worker[w] \in Busy
  BY BusyFact DEF SaveCheckpoint
<1>2. chapter' \in Checkpoint
  BY <1>1 DEF SaveCheckpoint, Busy, Checkpoint
<1> QED
  BY <1>2, StopKeeps, SameOpensNone DEF SaveCheckpoint

(* A worker that dies, or whose accounting transaction rolls back. *)
LEMMA ForgetKeeps ==
  ASSUME IInv, NEW w \in Workers, Crash(w) \/ ReserveFails(w)
  PROVE  IInv'
BY StopKeeps, SameOpensNone DEF Crash, ReserveFails, IInv, TypeOK

(***************************************************************************)
(* Reserve is the one action that opens an attempt.  It may, because the   *)
(* attempt _prepare read is still the latest and was not RESERVED; and the *)
(* number it takes is beyond every ticket handed out.                      *)
(***************************************************************************)
LEMMA ReserveKeeps ==
  ASSUME IInv, NEW w \in Workers, Reserve(w)
  PROVE  IInv'
<1> DEFINE c == worker[w].call
           n == worker[w].no
           old == IF worker[w].doomed
                  THEN [att[c] EXCEPT ![n].status = "FAILED", ![n].leased = FALSE]
                  ELSE att[c]
           x == [worker[w] EXCEPT !.at = "calling", !.no = n + 1, !.doomed = FALSE]
<1>1. /\ worker[w] \in Busy /\ c \in Calls /\ n \in Nat
      /\ Len(att[c]) = n /\ n < MaxAttempts /\ MaxAttempts \in Nat
      /\ worker[w].doomed => n >= 1
      /\ n >= 1 => att[c][n].status # "RESERVED"
  BY BusyFact, CallsAssumption DEF Reserve, MayReserve, Latest, IInv, WorkersOK, Fits
<1>2. att \in [Calls -> Seq(Attempt)] /\ att[c] \in Seq(Attempt)
  BY <1>1 DEF IInv, TypeOK
<1>3. /\ old \in Seq(Attempt) /\ Len(old) = n
      /\ \A m \in 1 .. n : AttemptOK(old[m], Estimate[c]) /\ old[m].status # "RESERVED"
  <2>1. \A m \in 1 .. n : AttemptOK(att[c][m], Estimate[c]) /\ att[c][m].status # "RESERVED"
    <3> SUFFICES ASSUME NEW m \in 1 .. n
                 PROVE  AttemptOK(att[c][m], Estimate[c]) /\ att[c][m].status # "RESERVED"
      OBVIOUS
    <3>1. CASE m = n
      BY <1>1, <3>1 DEF IInv, RowsOK
    <3>2. CASE m # n
      <4>1. m \in 1 .. Len(att[c]) - 1
        BY <1>1, <3>2
      <4> QED
        BY <1>1, <4>1 DEF IInv, RowsOK, OneOpenAttempt
    <3> QED
      BY <3>1, <3>2
  <2>2. CASE ~worker[w].doomed
    BY <1>1, <1>2, <2>1, <2>2
  <2>3. CASE worker[w].doomed
    <3> DEFINE a == [att[c][n] EXCEPT !.status = "FAILED", !.leased = FALSE]
    <3>1. n \in 1 .. Len(att[c])
      BY <1>1, <2>3
    <3>2. att[c][n] \in Attempt /\ AttemptOK(att[c][n], Estimate[c])
      BY <1>1, <3>1, RowFact
    <3>3. a \in Attempt /\ AttemptOK(a, Estimate[c]) /\ a.status # "RESERVED"
      BY <3>2 DEF Attempt, Statuses, AttemptOK
    <3>4. old = [att[c] EXCEPT ![n] = a]
      BY <1>2, <2>3, <3>1, ExceptSeq
    <3> HIDE DEF a, old
    <3>5. /\ old \in Seq(Attempt) /\ Len(old) = Len(att[c])
          /\ \A m \in 1 .. Len(att[c]) : old[m] = IF m = n THEN a ELSE att[c][m]
      BY <1>2, <3>1, <3>3, <3>4, ExceptSeq
    <3> QED
      BY <1>1, <2>1, <3>3, <3>5
  <2> QED
    BY <2>2, <2>3
<1>4. NewAttempt \in Attempt /\ AttemptOK(NewAttempt, Estimate[c])
  BY DEF NewAttempt, Attempt, Statuses, AttemptOK
<1>5. /\ att' = [att EXCEPT ![c] = Append(old, NewAttempt)]
      /\ worker' = [worker EXCEPT ![w] = x]
      /\ UNCHANGED <<chapter, sweeper>>
  BY DEF Reserve
<1> HIDE DEF old
<1>6. /\ att'[c] \in Seq(Attempt) /\ Len(att'[c]) = n + 1
      /\ \A m \in 1 .. n : att'[c][m] = old[m]
      /\ att'[c][n + 1] = NewAttempt
  BY <1>1, <1>2, <1>3, <1>4, <1>5, AppendProperties
<1>7. \A d \in Calls : d # c => att'[d] = att[d]
  BY <1>2, <1>5
<1>8. x \in Busy /\ x.at = "calling" /\ x.call = c /\ x.no = n + 1
  <2>0. PICK m \in Nat : m = n + 1
    BY <1>1
  <2> DEFINE y == [worker[w] EXCEPT !.at = "calling", !.no = m]
  <2>1. y \in Busy /\ y.at = "calling" /\ y.call = c /\ y.no = n + 1
    BY <1>1, <2>0 DEF Busy
  <2>2. x = [y EXCEPT !.doomed = FALSE]
    BY <1>1, <2>0 DEF Busy
  <2> HIDE DEF y, x
  <2> QED
    BY <2>1, <2>2 DEF Busy
<1> HIDE DEF x
<1>9. TypeOK'
  BY <1>1, <1>2, <1>5, <1>6, <1>8 DEF IInv, TypeOK
<1>10. RowsOK' /\ LengthOK' /\ OneOpenAttempt'
  <2> SUFFICES ASSUME NEW d \in Calls
               PROVE  /\ \A m \in 1 .. Len(att'[d]) : AttemptOK(att'[d][m], Estimate[d])
                      /\ Len(att'[d]) <= MaxAttempts
                      /\ \A m \in 1 .. Len(att'[d]) - 1 : att'[d][m].status # "RESERVED"
    BY DEF RowsOK, LengthOK, OneOpenAttempt
  <2>1. CASE d = c
    <3>1. \A m \in 1 .. n + 1 : m \in 1 .. n \/ m = n + 1
      BY <1>1
    <3>2. 1 .. Len(att'[c]) = 1 .. n + 1 /\ 1 .. Len(att'[c]) - 1 = 1 .. n
      BY <1>1, <1>6
    <3>3. \A m \in 1 .. n : AttemptOK(att'[c][m], Estimate[c]) /\ att'[c][m].status # "RESERVED"
      BY <1>3, <1>6
    <3>4. AttemptOK(att'[c][n + 1], Estimate[c])
      BY <1>4, <1>6
    <3>5. \A m \in 1 .. Len(att'[c]) : AttemptOK(att'[c][m], Estimate[c])
      BY <3>1, <3>2, <3>3, <3>4
    <3>6. Len(att'[c]) <= MaxAttempts
      BY <1>1, <1>6
    <3> QED
      BY <2>1, <3>2, <3>3, <3>5, <3>6
  <2>2. CASE d # c
    BY <1>7, <2>2 DEF IInv, RowsOK, LengthOK, OneOpenAttempt
  <2> QED
    BY <2>1, <2>2
<1>11. \A v \in Workers : v # w => worker'[v] = worker[v]
  BY <1>5 DEF IInv, TypeOK
<1>12. worker'[w] = x
  BY <1>5 DEF IInv, TypeOK
<1>13. WorkersOK'
  <2> SUFFICES ASSUME NEW v \in Workers PROVE Fits(worker[v])'
    BY DEF WorkersOK
  <2>1. CASE v = w
    BY <1>1, <1>6, <1>8, <1>12, <2>1 DEF Fits
  <2>2. CASE v # w
    <3>1. worker'[v] = worker[v] /\ Fits(worker[v])
      BY <1>11, <2>2 DEF IInv, WorkersOK
    <3>2. CASE worker[v].at = "idle"
      BY <3>1, <3>2 DEF Fits
    <3>3. CASE worker[v].at # "idle" /\ worker[v].call # c
      BY <1>7, <3>1, <3>3, BusyFact DEF Fits
    <3>4. CASE worker[v].at # "idle" /\ worker[v].call = c
      <4>1. worker[v].no \in Nat /\ worker[v].no <= n
        BY <1>1, <3>1, <3>4, BusyFact DEF Fits
      <4>2. worker[v].no <= Len(att'[c])
        BY <1>1, <1>6, <4>1
      <4>3. worker[v].no >= 1 => att'[c][worker[v].no].status # "RESERVED"
        BY <1>3, <1>6, <4>1
      <4>4. /\ worker[v].at = "calling" => worker[v].no >= 1
            /\ worker[v].at = "preparing" => /\ worker[v].doomed => worker[v].no >= 1
                                            /\ worker[v].base.committed < Cap
        BY <3>1, <3>4 DEF Fits
      <4> QED
        BY <3>1, <3>4, <4>2, <4>3, <4>4 DEF Fits
    <3> QED
      BY <3>2, <3>3, <3>4
  <2> QED
    BY <2>1, <2>2
<1>14. SweepersOK'
  <2> SUFFICES ASSUME NEW s \in Sweepers, NEW r \in sweeper[s].rows
               PROVE  r.no <= Len(att'[r.call])
    BY <1>5 DEF SweepersOK
  <2>1. r.call \in Calls /\ r.no \in Nat /\ r.no <= Len(att[r.call])
    BY DEF IInv, TypeOK, Sweeper, Row, SweepersOK
  <2>2. CASE r.call = c
    BY <1>1, <1>6, <2>1, <2>2
  <2>3. CASE r.call # c
    BY <1>7, <2>1, <2>3
  <2> QED
    BY <2>2, <2>3
<1>15. TicketsDistinct'
  <2> SUFFICES ASSUME NEW u \in Workers, NEW v \in Workers, u # v,
                      worker'[u].at = "calling", worker'[v].at = "calling"
               PROVE  <<worker'[u].call, worker'[u].no>> # <<worker'[v].call, worker'[v].no>>
    BY DEF TicketsDistinct
  <2>1. ASSUME NEW y \in Workers, y # w, worker[y].at = "calling"
        PROVE  worker[y].call = c => worker[y].no \in Nat /\ worker[y].no <= n
    BY <1>1, <2>1, BusyFact DEF IInv, WorkersOK, Fits
  <2>2. CASE u # w /\ v # w
    BY <1>11, <2>2 DEF IInv, TicketsDistinct
  <2>3. CASE u = w
    BY <1>1, <1>8, <1>11, <1>12, <2>1, <2>3
  <2>4. CASE v = w
    BY <1>1, <1>8, <1>11, <1>12, <2>1, <2>4
  <2> QED
    BY <2>2, <2>3, <2>4
<1> QED
  BY <1>9, <1>10, <1>13, <1>14, <1>15 DEF IInv

-------------------------------------------------------------------------------
(* The clock and the sweepers *)

(* A step of a sweep keeps the invariant if the rows it remembers exist. *)
LEMMA SweepKeeps ==
  ASSUME IInv, OpensNone, NEW s \in Sweepers, NEW x \in Sweeper,
         sweeper' = [sweeper EXCEPT ![s] = x],
         \A r \in x.rows : r.no <= Len(att[r.call]),
         UNCHANGED <<chapter, worker>>
  PROVE  IInv'
<1>1. sweeper' \in [Sweepers -> Sweeper]
  BY DEF IInv, TypeOK
<1>2. \A t \in Sweepers : \A r \in sweeper'[t].rows : r.no <= Len(att[r.call])
  <2> SUFFICES ASSUME NEW t \in Sweepers
               PROVE  \A r \in sweeper'[t].rows : r.no <= Len(att[r.call])
    OBVIOUS
  <2>1. CASE t = s
    BY <2>1 DEF IInv, TypeOK
  <2>2. CASE t # s
    BY <2>2 DEF IInv, TypeOK, SweepersOK
  <2> QED
    BY <2>1, <2>2
<1> QED
  BY <1>1, <1>2, OpensNoneKeeps DEF IInv, TypeOK

LEMMA LeaseExpiresKeeps ==
  ASSUME IInv, NEW c \in Calls, NEW n \in 1 .. MaxAttempts, LeaseExpires(c, n)
  PROVE  IInv'
<1> DEFINE a == [att[c][n] EXCEPT !.leased = FALSE]
<1>1. n \in 1 .. Len(att[c])
  BY DEF LeaseExpires, Has
<1>2. att[c][n] \in Attempt /\ AttemptOK(att[c][n], Estimate[c])
  BY <1>1, RowFact
<1>3. a \in Attempt /\ AttemptOK(a, Estimate[c]) /\ a.status = att[c][n].status
  BY <1>2 DEF Attempt, AttemptOK
<1>4. OpensNone
  BY <1>1, <1>3, UpdateOpensNone DEF LeaseExpires
<1> QED
  BY <1>4, OpensNoneKeeps DEF LeaseExpires, IInv, TypeOK, SweepersOK

(* An idle sweep remembers nothing. *)
LEMMA SweepIdleFact == SweepIdle \in Sweeper /\ SweepIdle.rows = {}
BY DEF SweepIdle, Sweeper

(* The scanned row of an existing attempt. *)
LEMMA RowOfFact ==
  ASSUME IInv, NEW k \in Keys, Has(k[1], k[2])
  PROVE  RowOf(k) \in Row /\ RowOf(k).call = k[1] /\ RowOf(k).no = k[2]
<1>1. k[1] \in Calls /\ k[2] \in 1 .. Len(att[k[1]]) /\ k[2] \in Nat \ {0}
  BY CallsAssumption DEF Keys, Has
<1>2. att[k[1]][k[2]] \in Attempt
  BY <1>1, RowFact
<1> QED
  BY <1>1, <1>2 DEF RowOf, Row, Attempt

LEMMA SweepEndKeeps ==
  ASSUME IInv, NEW s \in Sweepers,
         SweepEnds(s) \/ SweepCrashes(s) \/ (\E row \in sweeper[s].rows : SweepAborts(s, row))
  PROVE  IInv'
<1>1. sweeper' = [sweeper EXCEPT ![s] = SweepIdle] /\ UNCHANGED <<att, chapter, worker>>
  BY DEF SweepEnds, SweepCrashes, SweepAborts
<1> QED
  BY <1>1, SweepIdleFact, SameOpensNone, SweepKeeps

LEMMA ReclaimReadKeeps ==
  ASSUME IInv, NEW s \in Sweepers, ReclaimRead(s)
  PROVE  IInv'
<1> DEFINE expired == {k \in Keys : /\ Has(k[1], k[2])
                                    /\ att[k[1]][k[2]].status = "RESERVED"
                                    /\ ~att[k[1]][k[2]].leased}
           x == [SweepIdle EXCEPT !.at = "reclaiming", !.expired = expired]
<1>1. Keys \subseteq Calls \X Nat
  BY CallsAssumption DEF Keys
<1>2. expired \subseteq Calls \X Nat
  BY <1>1
<1>3. sweeper' = [sweeper EXCEPT ![s] = x] /\ UNCHANGED <<att, chapter, worker>>
  BY DEF ReclaimRead
<1> HIDE DEF expired
<1>4. x \in Sweeper /\ x.rows = {}
  BY <1>2 DEF SweepIdle, Sweeper
<1> QED
  BY <1>3, <1>4, SameOpensNone, SweepKeeps

LEMMA ReclaimCommitKeeps ==
  ASSUME IInv, NEW s \in Sweepers, ReclaimCommit(s)
  PROVE  IInv'
<1> DEFINE reaped(c) == [n \in 1 .. Len(att[c]) |->
             IF <<c, n>> \in sweeper[s].expired THEN Reap(att[c][n]) ELSE att[c][n]]
           x == [SweepIdle EXCEPT !.at = "reclaimed"]
<1>1. att' = [c \in Calls |-> reaped(c)]
  BY DEF ReclaimCommit
<1>2. ASSUME NEW c \in Calls
      PROVE  /\ reaped(c) \in Seq(Attempt) /\ Len(reaped(c)) = Len(att[c])
             /\ \A n \in 1 .. Len(att[c]) :
                  /\ AttemptOK(reaped(c)[n], Estimate[c])
                  /\ reaped(c)[n].status = "RESERVED" => att[c][n].status = "RESERVED"
  <2>1. Len(att[c]) \in Nat
    BY LenProperties DEF IInv, TypeOK
  <2>2. ASSUME NEW n \in 1 .. Len(att[c])
        PROVE  /\ reaped(c)[n] \in Attempt /\ AttemptOK(reaped(c)[n], Estimate[c])
               /\ reaped(c)[n].status = "RESERVED" => att[c][n].status = "RESERVED"
    <3>1. att[c][n] \in Attempt /\ AttemptOK(att[c][n], Estimate[c])
      BY RowFact
    <3>2. /\ Reap(att[c][n]) \in Attempt /\ AttemptOK(Reap(att[c][n]), Estimate[c])
          /\ Reap(att[c][n]).status = "UNKNOWN"
      BY <3>1 DEF Reap, Attempt, Statuses, AttemptOK
    <3>3. reaped(c)[n] = Reap(att[c][n]) \/ reaped(c)[n] = att[c][n]
      OBVIOUS
    <3> HIDE DEF reaped
    <3> QED
      BY <3>1, <3>2, <3>3
  <2>3. reaped(c) \in Seq(Attempt) /\ Len(reaped(c)) = Len(att[c])
    <3> DEFINE m == Len(att[c])
               e(n) == IF <<c, n>> \in sweeper[s].expired THEN Reap(att[c][n]) ELSE att[c][n]
    <3>1. \A n \in 1 .. m : e(n) \in Attempt
      BY <2>2
    <3>2. reaped(c) = [n \in 1 .. m |-> e(n)]
      OBVIOUS
    <3> HIDE DEF m, e, reaped
    <3>3. [n \in 1 .. m |-> e(n)] \in Seq(Attempt) /\ Len([n \in 1 .. m |-> e(n)]) = m
      BY <2>1, <3>1, IsASeq, LenProperties DEF m
    <3> QED
      BY <3>2, <3>3 DEF m
  <2> QED
    BY <2>2, <2>3
<1>3. sweeper' = [sweeper EXCEPT ![s] = x] /\ UNCHANGED <<chapter, worker>>
  BY DEF ReclaimCommit
<1>4. x \in Sweeper /\ x.rows = {}
  BY DEF SweepIdle, Sweeper
<1> HIDE DEF reaped
<1>5. OpensNone
  BY <1>1, <1>2 DEF OpensNone
<1> QED
  BY <1>3, <1>4, <1>5, SweepKeeps

LEMMA ScanUnknownKeeps ==
  ASSUME IInv, NEW s \in Sweepers, ScanUnknown(s)
  PROVE  IInv'
<1> DEFINE found == {j \in Keys : Has(j[1], j[2]) /\ att[j[1]][j[2]].status = "UNKNOWN"}
           rows == {RowOf(k) : k \in found}
           x == [sweeper[s] EXCEPT !.at = "reconciling", !.rows = rows]
<1>1. \A r \in rows : r \in Row /\ r.no <= Len(att[r.call])
  <2> SUFFICES ASSUME NEW k \in found
               PROVE  RowOf(k) \in Row /\ RowOf(k).no <= Len(att[RowOf(k).call])
    OBVIOUS
  <2>1. k \in Keys /\ Has(k[1], k[2])
    OBVIOUS
  <2> QED
    BY <2>1, RowOfFact DEF Has
<1>2. /\ sweeper' = [sweeper EXCEPT ![s].at = "reconciling", ![s].rows = rows]
      /\ UNCHANGED <<att, chapter, worker>>
  BY DEF ScanUnknown
<1> HIDE DEF rows
<1>3. sweeper \in [Sweepers -> Sweeper]
  BY DEF IInv, TypeOK
<1>4. sweeper' = [sweeper EXCEPT ![s] = x]
  BY <1>2, <1>3
<1>5. x \in Sweeper /\ x.rows = rows
  BY <1>1, <1>3 DEF Sweeper
<1> QED
  BY <1>1, <1>2, <1>4, <1>5, SameOpensNone, SweepKeeps

(* What reconcile writes to the latest attempt opens none. *)
LEMMA LookupOpensNone ==
  ASSUME IInv, NEW c \in Calls, NEW n \in 1 .. Len(att[c]), NEW r,
         NEW cost \in Costs, NEW output \in BOOLEAN, LookupFinds(c, n, r, cost, output)
  PROVE  OpensNone
<1> DEFINE status == IF output THEN "SUCCEEDED" ELSE "FAILED"
<1>1. att[c][n] \in Attempt /\ AttemptOK(att[c][n], Estimate[c])
  BY RowFact
<1>2. Estimate[c] \in Nat \ {0} /\ cost \in Nat \ {0}
  BY CallsAssumption
<1>3. status \in Statuses /\ status # "RESERVED"
  BY DEF Statuses
<1>4. PICK b : b = Finalize(att[c][n], Estimate[c], status, cost, output)
  OBVIOUS
<1>5. ~Refused(att[c][n], Estimate[c], cost) /\ Update(c, n, b)
  BY <1>4 DEF LookupFinds
<1> HIDE DEF status
<1>6. b \in Attempt /\ AttemptOK(b, Estimate[c]) /\ b.status = status
  BY <1>1, <1>2, <1>3, <1>4, <1>5, FinalizeFact
<1> QED
  BY <1>3, <1>5, <1>6, UpdateOpensNone

LEMMA CountedOutOpensNone ==
  ASSUME IInv, NEW c \in Calls, NEW n \in 1 .. Len(att[c]), NEW r \in Row,
         CountedOut(c, n, r)
  PROVE  OpensNone
<1> DEFINE a == [att[c][n] EXCEPT !.count = r.count + 1]
<1>1. att[c][n] \in Attempt /\ AttemptOK(att[c][n], Estimate[c])
  BY RowFact
<1>2. Estimate[c] \in Nat \ {0}
  BY CallsAssumption
<1>3. a \in Attempt /\ AttemptOK(a, Estimate[c])
  <2>1. PICK m \in Nat : m = r.count + 1
    BY DEF Row
  <2>2. a = [att[c][n] EXCEPT !.count = m]
    BY <2>1
  <2> HIDE DEF a
  <2> QED
    BY <1>1, <2>2 DEF Attempt, AttemptOK
<1>4. /\ ~Refused(a, Estimate[c], Estimate[c])
      /\ Update(c, n, Finalize(a, Estimate[c], "FAILED", Estimate[c], FALSE))
  BY DEF CountedOut
<1> HIDE DEF a
<1>5. ASSUME NEW output \in BOOLEAN,
             NEW f, f = Finalize(a, Estimate[c], "FAILED", Estimate[c], output)
      PROVE  f \in Attempt /\ AttemptOK(f, Estimate[c]) /\ f.status = "FAILED"
  <2>1. "FAILED" \in Statuses
    BY DEF Statuses
  <2> QED
    BY <1>2, <1>3, <1>4, <1>5, <2>1, FinalizeFact
<1>6. PICK b : b = Finalize(a, Estimate[c], "FAILED", Estimate[c], FALSE)
  OBVIOUS
<1>7. FALSE \in BOOLEAN
  OBVIOUS
<1>8. b \in Attempt /\ AttemptOK(b, Estimate[c]) /\ b.status = "FAILED"
  BY <1>5, <1>6, <1>7, Zenon
<1>9. Update(c, n, b) /\ b.status # "RESERVED"
  BY <1>4, <1>6, <1>8
<1> QED
  BY <1>8, <1>9, UpdateOpensNone

LEMMA StillPendingOpensNone ==
  ASSUME IInv, NEW c \in Calls, NEW n \in 1 .. Len(att[c]), NEW r \in Row,
         StillPending(c, n, r)
  PROVE  OpensNone
<1> DEFINE a == [att[c][n] EXCEPT !.count = r.count + 1]
<1>1. att[c][n] \in Attempt /\ AttemptOK(att[c][n], Estimate[c])
  BY RowFact
<1>2. a \in Attempt /\ AttemptOK(a, Estimate[c]) /\ a.status = att[c][n].status
  <2>1. PICK m \in Nat : m = r.count + 1
    BY DEF Row
  <2>2. a = [att[c][n] EXCEPT !.count = m]
    BY <2>1
  <2> HIDE DEF a
  <2> QED
    BY <1>1, <2>2 DEF Attempt, AttemptOK
<1>3. Update(c, n, a)
  BY DEF StillPending
<1> HIDE DEF a
<1> QED
  BY <1>2, <1>3, UpdateOpensNone

(* Reconcile works on an existing attempt, whose copies are well typed. *)
LEMMA ReconcileFact ==
  ASSUME IInv, NEW s \in Sweepers, NEW row \in sweeper[s].rows
  PROVE  LET c == row.call
             n == Latest(c)
         IN /\ c \in Calls /\ n \in 1 .. Len(att[c]) /\ n = Len(att[c])
            /\ \A r \in Remembered(s, c) : r \in Row /\ r.call = c /\ r.no = n
<1> DEFINE c == row.call
           n == Latest(c)
<1>1. sweeper \in [Sweepers -> Sweeper]
  BY DEF IInv, TypeOK
<1>2. \A r \in sweeper[s].rows : r \in Row /\ r.no <= Len(att[r.call])
  BY <1>1 DEF Sweeper, IInv, SweepersOK
<1>3. c \in Calls /\ n \in 1 .. Len(att[c]) /\ n = Len(att[c]) /\ n <= MaxAttempts
  <2>1. c \in Calls /\ row.no \in Nat \ {0} /\ row.no <= Len(att[c])
    BY <1>2 DEF Row
  <2>2. Len(att[c]) \in Nat /\ Len(att[c]) <= MaxAttempts
    BY <2>1, LenProperties DEF IInv, TypeOK, LengthOK
  <2> QED
    BY <2>1, <2>2 DEF Latest
<1>4. \A r \in Remembered(s, c) : r \in Row /\ r.call = c /\ r.no = n
  <2>1. <<c, n>> \in Keys /\ Has(c, n)
    BY <1>3, CallsAssumption DEF Keys, Has
  <2>2. RowOf(<<c, n>>) \in Row /\ RowOf(<<c, n>>).call = c /\ RowOf(<<c, n>>).no = n
    BY <2>1, RowOfFact
  <2> QED
    BY <1>2, <2>2 DEF Remembered
<1> QED
  BY <1>3, <1>4

LEMMA ReconcileKeeps ==
  ASSUME IInv, NEW s \in Sweepers, NEW row \in sweeper[s].rows, Reconcile(s, row)
  PROVE  IInv'
<1> DEFINE c == row.call
           n == Latest(c)
           seen == Remembered(s, c)
           left == sweeper[s].rows \ {row}
           x(rows) == [sweeper[s] EXCEPT !.rows = rows]
<1>1. sweeper \in [Sweepers -> Sweeper] /\ UNCHANGED <<chapter, worker>>
  BY DEF Reconcile, IInv, TypeOK
<1>2. \A r \in sweeper[s].rows : r \in Row /\ r.no <= Len(att[r.call])
  BY <1>1 DEF Sweeper, IInv, SweepersOK
<1>3. c \in Calls /\ n \in 1 .. Len(att[c]) /\ n = Len(att[c])
  BY ReconcileFact
<1>4. \A r \in seen : r \in Row /\ r.call = c /\ r.no = n
  BY ReconcileFact
<1>5. ASSUME OpensNone, NEW rows, \A r \in rows : r \in Row /\ r.no <= Len(att[r.call]),
             sweeper' = [sweeper EXCEPT ![s].rows = rows]
      PROVE  IInv'
  <2>1. sweeper' = [sweeper EXCEPT ![s] = x(rows)]
    BY <1>1, <1>5
  <2>2. x(rows) \in Sweeper /\ x(rows).rows = rows
    BY <1>1, <1>5 DEF Sweeper
  <2> QED
    BY <1>1, <1>5, <2>1, <2>2, SweepKeeps
<1>6. CASE seen = {} /\ sweeper' = [sweeper EXCEPT ![s].rows = left] /\ UNCHANGED att
  BY <1>2, <1>5, <1>6, SameOpensNone
<1>7. ASSUME NEW r \in seen, OpensNone, sweeper' = [sweeper EXCEPT ![s].rows = left \ {r}]
      PROVE  IInv'
  BY <1>2, <1>5, <1>7
<1>8. ASSUME NEW r \in seen, StillPending(c, n, r),
             sweeper' = [sweeper EXCEPT ![s].rows =
                           IF r \in left
                           THEN (left \ {r}) \cup {[r EXCEPT !.count = r.count + 1]}
                           ELSE left]
      PROVE  IInv'
  <2> DEFINE q == [r EXCEPT !.count = r.count + 1]
             rows == IF r \in left THEN (left \ {r}) \cup {q} ELSE left
  <2>1. q \in Row /\ q.no = n /\ q.call = c
    BY <1>4, <1>8 DEF Row
  <2>2. OpensNone
    BY <1>3, <1>4, <1>8, StillPendingOpensNone
  <2> HIDE DEF q
  <2>3. \A p \in rows : p \in Row /\ p.no <= Len(att[p.call])
    BY <1>2, <1>3, <2>1
  <2>4. sweeper' = [sweeper EXCEPT ![s].rows = rows]
    BY <1>8 DEF q
  <2> HIDE DEF rows
  <2> QED
    BY <1>5, <2>2, <2>3, <2>4
<1>9. ASSUME NEW r \in seen, sweeper' = [sweeper EXCEPT ![s].rows = left \ {r}],
             \/ \E cost \in Costs, output \in BOOLEAN : LookupFinds(c, n, r, cost, output)
             \/ CountedOut(c, n, r)
      PROVE  IInv'
  <2>1. OpensNone
    BY <1>3, <1>4, <1>9, LookupOpensNone, CountedOutOpensNone
  <2> QED
    BY <1>7, <1>9, <2>1
<1> QED
  BY <1>6, <1>8, <1>9 DEF Reconcile

-------------------------------------------------------------------------------
(* The theorems *)

LEMMA InitIInv == Init => IInv
<1> SUFFICES ASSUME Init PROVE IInv
  OBVIOUS
<1>1. \A c \in Calls : att[c] = <<>> /\ Len(att[c]) = 0
  BY EmptySeq DEF Init
<1>2. TypeOK
  BY EmptySeq, SweepIdleFact DEF Init, TypeOK, Checkpoint
<1>3. RowsOK /\ LengthOK /\ OneOpenAttempt
  BY <1>1, CallsAssumption DEF RowsOK, LengthOK, OneOpenAttempt
<1>4. WorkersOK /\ SweepersOK /\ TicketsDistinct
  BY SweepIdleFact DEF Init, WorkersOK, Fits, SweepersOK, TicketsDistinct, Idle
<1> QED
  BY <1>2, <1>3, <1>4 DEF IInv

LEMMA NextIInv == IInv /\ [Next]_vars => IInv'
<1> SUFFICES ASSUME IInv, [Next]_vars PROVE IInv'
  OBVIOUS
<1>1. ASSUME NEW w \in Workers, WorkerStep(w) PROVE IInv'
  BY <1>1, StartCallKeeps, ReserveKeeps, SettleKeeps, CallRaisesKeeps,
     SaveCheckpointKeeps, ForgetKeeps DEF WorkerStep
<1>2. ASSUME NEW c \in Calls, NEW n \in 1 .. MaxAttempts, LeaseExpires(c, n) PROVE IInv'
  BY <1>2, LeaseExpiresKeeps
<1>3. ASSUME NEW s \in Sweepers, SweeperStep(s) PROVE IInv'
  BY <1>3, ReclaimReadKeeps, ReclaimCommitKeeps, ScanUnknownKeeps, ReconcileKeeps,
     SweepEndKeeps DEF SweeperStep, ReconcileOne
<1>4. CASE UNCHANGED vars
  BY <1>4, SameOpensNone, OpensNoneKeeps DEF vars, IInv, TypeOK, SweepersOK
<1> QED
  BY <1>1, <1>2, <1>3, <1>4 DEF Next

(***************************************************************************)
(* The strengthened invariant holds in every state of the broker.          *)
(***************************************************************************)
THEOREM Invariance == Spec => []IInv
BY InitIInv, NextIInv, PTL DEF Spec

(***************************************************************************)
(* The rows, the checkpoint and the memories of the processes are well     *)
(* typed.                                                                  *)
(***************************************************************************)
THEOREM TypeCorrect == Spec => []TypeOK
<1>1. IInv => TypeOK
  BY DEF IInv
<1> QED
  BY <1>1, Invariance, PTL

(***************************************************************************)
(* The broker never opens a second attempt while one is RESERVED.          *)
(***************************************************************************)
THEOREM OneOpenAttemptHolds == Spec => []OneOpenAttempt
<1>1. IInv => OneOpenAttempt
  BY DEF IInv
<1> QED
  BY <1>1, Invariance, PTL

(***************************************************************************)
(* No two executions hold the ticket of one attempt.                       *)
(***************************************************************************)
THEOREM TicketsDistinctHolds == Spec => []TicketsDistinct
<1>1. IInv => TicketsDistinct
  BY DEF IInv
<1> QED
  BY <1>1, Invariance, PTL

(***************************************************************************)
(* An attempt with an actual cost is settled and its entries cover it.     *)
(***************************************************************************)
THEOREM BilledWhenPricedHolds == Spec => []BilledWhenPriced
<1>1. IInv => BilledWhenPriced
  <2> SUFFICES ASSUME IInv, NEW c \in Calls, NEW n \in 1 .. Len(att[c]), att[c][n].actual > 0
               PROVE  /\ att[c][n].hold = "SETTLED"
                      /\ att[c][n].consumed + att[c][n].topup >= att[c][n].actual
    BY DEF BilledWhenPriced
  <2>1. att[c][n] \in Attempt /\ AttemptOK(att[c][n], Estimate[c])
    BY RowFact
  <2> QED
    BY <2>1 DEF Attempt, AttemptOK
<1> QED
  BY <1>1, Invariance, PTL

-------------------------------------------------------------------------------
(***************************************************************************)
(* The call broker implements the abstract quota ledger: whatever crashes, *)
(* answers late or sweeps twice, the reservations and entries only move as *)
(* QuotaLedger lets them.                                                  *)
(***************************************************************************)

View(a) ==
  [phase |-> IF a.hold = "RESERVED" THEN "held" ELSE "settled",
   billed |-> a.consumed, returned |-> a.released, extra |-> a.topup]

Nothing == [phase |-> "free", billed |-> 0, returned |-> 0, extra |-> 0]

(* The view of a key, before and after a step. *)
LEMMA ViewFact ==
  /\ LedgerView = [k \in Keys |->
       IF ~Has(k[1], k[2]) THEN Nothing ELSE View(att[k[1]][k[2]])]
  /\ LedgerView' = [k \in Keys |->
       IF ~(k[2] \in 1 .. Len(att'[k[1]])) THEN Nothing ELSE View(att'[k[1]][k[2]])]
BY DEF LedgerView, View, Nothing, Has

(* The key of an attempt. *)
LEMMA KeyFact ==
  ASSUME IInv, NEW c \in Calls, NEW n \in 1 .. Len(att[c])
  PROVE  /\ <<c, n>> \in Keys /\ Amount[<<c, n>>] = Estimate[c] /\ Has(c, n)
         /\ LedgerView[<<c, n>>] = View(att[c][n])
<1>1. n \in 1 .. MaxAttempts
  BY LenProperties, CallsAssumption DEF IInv, TypeOK, LengthOK
<1>2. <<c, n>> \in Keys /\ Has(c, n)
  BY <1>1 DEF Keys, Has
<1> QED
  BY <1>2, ViewFact DEF Amount

(* A step that changes no reservation and no entry is a stutter. *)
LEMMA SameView ==
  ASSUME \A c \in Calls :
           /\ Len(att'[c]) = Len(att[c])
           /\ \A n \in 1 .. Len(att[c]) : View(att'[c][n]) = View(att[c][n])
  PROVE  LedgerView' = LedgerView
<1>1. ASSUME NEW k \in Keys
      PROVE  (IF ~(k[2] \in 1 .. Len(att'[k[1]])) THEN Nothing ELSE View(att'[k[1]][k[2]]))
             = (IF ~Has(k[1], k[2]) THEN Nothing ELSE View(att[k[1]][k[2]]))
  BY DEF Keys, Has
<1> QED
  BY <1>1, ViewFact

(* A step that rewrites one row changes the view of its key alone. *)
LEMMA UpdateView ==
  ASSUME IInv, NEW c \in Calls, NEW n \in 1 .. Len(att[c]), NEW b \in Attempt,
         Update(c, n, b)
  PROVE  LedgerView' = [LedgerView EXCEPT ![<<c, n>>] = View(b)]
<1>1. att \in [Calls -> Seq(Attempt)] /\ att[c] \in Seq(Attempt)
  BY DEF IInv, TypeOK
<1> DEFINE new == [att[c] EXCEPT ![n] = b]
<1>2. /\ Len(new) = Len(att[c])
      /\ \A m \in 1 .. Len(att[c]) : new[m] = IF m = n THEN b ELSE att[c][m]
  BY <1>1, ExceptSeq
<1>3. att' = [att EXCEPT ![c] = new]
  BY <1>1 DEF Update
<1> HIDE DEF new
<1>4. att'[c] = new /\ \A d \in Calls : d # c => att'[d] = att[d]
  BY <1>1, <1>3
<1>5. ASSUME NEW k \in Keys
      PROVE  (IF ~(k[2] \in 1 .. Len(att'[k[1]])) THEN Nothing ELSE View(att'[k[1]][k[2]]))
             = IF k = <<c, n>> THEN View(b)
               ELSE IF ~Has(k[1], k[2]) THEN Nothing ELSE View(att[k[1]][k[2]])
  <2>1. k[1] \in Calls /\ k = <<k[1], k[2]>>
    BY DEF Keys
  <2>2. CASE k[1] # c
    BY <1>4, <2>1, <2>2 DEF Has
  <2>3. CASE k[1] = c
    BY <1>2, <1>4, <2>1, <2>3 DEF Has
  <2> QED
    BY <2>2, <2>3
<1> QED
  BY <1>5, ViewFact, KeyFact

(***************************************************************************)
(* A settlement of the broker is a settlement of the ledger the first      *)
(* time, and afterwards nothing or the extra cost.                         *)
(***************************************************************************)
LEMMA SettlementRefines ==
  ASSUME IInv, NEW c \in Calls, NEW n \in 1 .. Len(att[c]), NEW a, NEW b \in Attempt,
         NEW cost \in Costs \cup {Estimate[d] : d \in Calls},
         View(a) = View(att[c][n]), a.hold \in {"RESERVED", "SETTLED"},
         SettledAs(a, b, Estimate[c], cost), Update(c, n, b)
  PROVE  [Ledger!LNext]_LedgerView
<1> DEFINE k == <<c, n>>
<1>1. k \in Keys /\ Amount[k] = Estimate[c] /\ LedgerView[k] = View(a)
  BY KeyFact
<1>2. LedgerView' = [LedgerView EXCEPT ![k] = View(b)]
  BY UpdateView
<1>3. LedgerView = [j \in Keys |-> LedgerView[j]]
  BY ViewFact
<1> HIDE DEF k
<1>4. CASE a.hold = "RESERVED"
  <2>1. LedgerView[k].phase = "held"
    BY <1>1, <1>4 DEF View
  <2>2. View(b) = [phase |-> "settled",
                   billed |-> Billed(cost, Amount[k]),
                   returned |-> Amount[k] - Billed(cost, Amount[k]),
                   extra |-> cost - Billed(cost, Amount[k])]
    BY <1>1, <1>4 DEF SettledAs, View
  <2>3. Ledger!Settle(k, cost)
    BY <1>2, <2>1, <2>2 DEF Ledger!Settle, Billed
  <2> QED
    BY <1>1, <2>3 DEF Ledger!LNext
<1>5. CASE a.hold = "SETTLED" /\ b.topup = a.topup
  <2>1. View(b) = LedgerView[k]
    BY <1>1, <1>5 DEF SettledAs, View
  <2> QED
    BY <1>1, <1>2, <1>3, <2>1
<1>6. CASE /\ a.hold = "SETTLED" /\ a.topup = 0 /\ a.released = 0
           /\ cost > Estimate[c] /\ b.topup = cost - Estimate[c]
           /\ b.consumed = a.consumed /\ b.released = a.released
  <2>1. /\ LedgerView[k].phase = "settled" /\ LedgerView[k].returned = 0
        /\ LedgerView[k].extra = 0
    BY <1>1, <1>6 DEF View
  <2>2. View(b) = [LedgerView[k] EXCEPT !.extra = cost - Amount[k]]
    BY <1>1, <1>6 DEF SettledAs, View
  <2>3. LedgerView' = [LedgerView EXCEPT ![k].extra = cost - Amount[k]]
    BY <1>2, <2>2
  <2>4. Ledger!AddExtra(k, cost)
    BY <1>1, <1>6, <2>1, <2>3 DEF Ledger!AddExtra
  <2> QED
    BY <1>1, <2>4 DEF Ledger!LNext
<1> QED
  BY <1>4, <1>5, <1>6 DEF SettledAs

(* A reservation of the broker is a hold of the ledger, under its limit. *)
LEMMA ReserveRefines ==
  ASSUME IInv, NEW w \in Workers, Reserve(w)
  PROVE  [Ledger!LNext]_LedgerView
<1> DEFINE c == worker[w].call
           n == worker[w].no
           old == IF worker[w].doomed
                  THEN [att[c] EXCEPT ![n].status = "FAILED", ![n].leased = FALSE]
                  ELSE att[c]
           limit == Cap - worker[w].base.committed
           k == <<c, n + 1>>
<1>1. /\ worker[w] \in Busy /\ c \in Calls /\ n \in Nat
      /\ Len(att[c]) = n /\ n < MaxAttempts /\ MaxAttempts \in Nat
      /\ worker[w].doomed => n >= 1
      /\ worker[w].base.committed \in Nat /\ worker[w].base.committed < Cap /\ Cap \in Nat
      /\ Outstanding + Estimate[c] <= limit
  BY BusyFact, CallsAssumption
     DEF Reserve, MayReserve, Latest, IInv, WorkersOK, Fits, Busy, Checkpoint
<1>2. att \in [Calls -> Seq(Attempt)] /\ att[c] \in Seq(Attempt)
  BY <1>1 DEF IInv, TypeOK
<1>3. att' = [att EXCEPT ![c] = Append(old, NewAttempt)]
  BY DEF Reserve
<1>4. old \in Seq(Attempt) /\ Len(old) = n /\ \A m \in 1 .. n : View(old[m]) = View(att[c][m])
  <2>1. CASE ~worker[w].doomed
    BY <1>1, <1>2, <2>1
  <2>2. CASE worker[w].doomed
    <3> DEFINE a == [att[c][n] EXCEPT !.status = "FAILED", !.leased = FALSE]
    <3>1. n \in 1 .. Len(att[c])
      BY <1>1, <2>2
    <3>2. att[c][n] \in Attempt
      BY <1>1, <3>1, RowFact
    <3>3. a \in Attempt /\ View(a) = View(att[c][n])
      BY <3>2 DEF Attempt, Statuses, View
    <3>4. old = [att[c] EXCEPT ![n] = a]
      BY <1>2, <2>2, <3>1, ExceptSeq
    <3> HIDE DEF a, old
    <3>5. /\ old \in Seq(Attempt) /\ Len(old) = Len(att[c])
          /\ \A m \in 1 .. Len(att[c]) : old[m] = IF m = n THEN a ELSE att[c][m]
      BY <1>2, <3>1, <3>3, <3>4, ExceptSeq
    <3> QED
      BY <1>1, <3>3, <3>5
  <2> QED
    BY <2>1, <2>2
<1> HIDE DEF old
<1>5. NewAttempt \in Attempt /\ View(NewAttempt) = [Nothing EXCEPT !.phase = "held"]
  BY DEF NewAttempt, Attempt, Statuses, View, Nothing
<1>6. /\ Len(att'[c]) = n + 1
      /\ \A m \in 1 .. n : View(att'[c][m]) = View(att[c][m])
      /\ View(att'[c][n + 1]) = [Nothing EXCEPT !.phase = "held"]
  <2>1. /\ Len(att'[c]) = n + 1
        /\ \A m \in 1 .. n : att'[c][m] = old[m]
        /\ att'[c][n + 1] = NewAttempt
    BY <1>1, <1>2, <1>3, <1>4, <1>5, AppendProperties
  <2> QED
    BY <1>4, <1>5, <2>1
<1>7. \A d \in Calls : d # c => att'[d] = att[d]
  BY <1>2, <1>3
<1>8. k \in Keys /\ ~Has(c, n + 1) /\ LedgerView[k] = Nothing /\ Amount[k] = Estimate[c]
  <2>1. k \in Keys /\ ~Has(c, n + 1)
    BY <1>1 DEF Keys, Has
  <2> QED
    BY <2>1, ViewFact DEF Amount
<1>9. LedgerView' = [LedgerView EXCEPT ![k].phase = "held"]
  <2>1. ASSUME NEW j \in Keys
        PROVE  (IF ~(j[2] \in 1 .. Len(att'[j[1]])) THEN Nothing ELSE View(att'[j[1]][j[2]]))
               = IF j = k THEN [Nothing EXCEPT !.phase = "held"]
                 ELSE IF ~Has(j[1], j[2]) THEN Nothing ELSE View(att[j[1]][j[2]])
    <3>1. j[1] \in Calls /\ j[2] \in Nat /\ j = <<j[1], j[2]>>
      BY <1>1 DEF Keys
    <3>2. CASE j[1] # c
      BY <1>7, <3>1, <3>2 DEF Has
    <3>3. CASE j[1] = c /\ j[2] = n + 1
      BY <1>1, <1>6, <3>1, <3>3
    <3>4. CASE j[1] = c /\ j[2] # n + 1
      BY <1>1, <1>6, <3>1, <3>4 DEF Has
    <3> QED
      BY <3>2, <3>3, <3>4
  <2> HIDE DEF k
  <2> QED
    BY <1>8, <2>1, ViewFact
<1>10. Ledger!HeldKeys = OpenKeys
  <2>1. ASSUME NEW j \in Keys
        PROVE  LedgerView[j].phase = "held"
               <=> Has(j[1], j[2]) /\ att[j[1]][j[2]].hold = "RESERVED"
    BY ViewFact DEF View, Nothing
  <2> QED
    BY <2>1 DEF Ledger!HeldKeys, OpenKeys
<1>11. Ledger!HeldTotal + Amount[k] <= limit
  BY <1>1, <1>8, <1>10 DEF Ledger!HeldTotal, Outstanding
<1>12. limit \in 0 .. Cap
  BY <1>1
<1> HIDE DEF k, limit
<1>13. Ledger!Hold(k, limit)
  BY <1>8, <1>9, <1>11 DEF Ledger!Hold, Ledger!Free, Nothing
<1> QED
  BY <1>8, <1>12, <1>13 DEF Ledger!LNext

(* A step that rewrites one row without touching its view is a stutter. *)
LEMMA QuietUpdate ==
  ASSUME IInv, NEW c \in Calls, NEW n \in 1 .. Len(att[c]), NEW b \in Attempt,
         View(b) = View(att[c][n]), Update(c, n, b)
  PROVE  UNCHANGED LedgerView
<1>1. LedgerView' = [LedgerView EXCEPT ![<<c, n>>] = View(b)]
  BY UpdateView
<1>2. <<c, n>> \in Keys /\ LedgerView[<<c, n>>] = View(b)
  BY KeyFact
<1> QED
  BY <1>1, <1>2, ViewFact

LEMMA SettleRefines ==
  ASSUME IInv, NEW w \in Workers, NEW cost \in Costs, NEW rid \in BOOLEAN,
         Settle(w, cost, rid)
  PROVE  [Ledger!LNext]_LedgerView
<1> DEFINE c == worker[w].call
           n == worker[w].no
           a == [att[c][n] EXCEPT !.rid = rid]
<1>1. /\ worker[w].at = "calling" /\ c \in Calls /\ n \in 1 .. Len(att[c])
  BY BusyFact DEF Settle, IInv, WorkersOK, Fits
<1>2. att[c][n] \in Attempt /\ AttemptOK(att[c][n], Estimate[c])
  BY <1>1, RowFact
<1>3. /\ a \in Attempt /\ AttemptOK(a, Estimate[c]) /\ View(a) = View(att[c][n])
      /\ a.hold \in {"RESERVED", "SETTLED"}
  BY <1>2 DEF Attempt, AttemptOK, View
<1>4. Estimate[c] \in Nat \ {0} /\ cost \in Nat \ {0}
  BY <1>1, CallsAssumption
<1>5. CASE UNCHANGED att
  BY <1>5, SameView
<1>6. CASE /\ ~Refused(a, Estimate[c], cost)
           /\ Update(c, n, Finalize(a, Estimate[c], "SUCCEEDED", cost, TRUE))
  <2> HIDE DEF a
  <2>1. "SUCCEEDED" \in Statuses /\ TRUE \in BOOLEAN
    BY DEF Statuses
  <2>2. ASSUME NEW output \in BOOLEAN,
               NEW f, f = Finalize(a, Estimate[c], "SUCCEEDED", cost, output)
        PROVE  f \in Attempt /\ SettledAs(a, f, Estimate[c], cost)
    BY <1>3, <1>4, <1>6, <2>1, <2>2, FinalizeFact
  <2>3. PICK b : b = Finalize(a, Estimate[c], "SUCCEEDED", cost, TRUE)
    OBVIOUS
  <2>4. b \in Attempt /\ SettledAs(a, b, Estimate[c], cost)
    BY <2>1, <2>2, <2>3, Zenon
  <2>5. Update(c, n, b)
    BY <1>6, <2>3
  <2> QED
    BY <1>1, <1>3, <2>4, <2>5, SettlementRefines
<1> QED
  BY <1>5, <1>6 DEF Settle

LEMMA ReconcileRefines ==
  ASSUME IInv, NEW s \in Sweepers, NEW row \in sweeper[s].rows, Reconcile(s, row)
  PROVE  [Ledger!LNext]_LedgerView
<1> DEFINE c == row.call
           n == Latest(c)
           seen == Remembered(s, c)
           old == att[c][n]
<1>1. /\ c \in Calls /\ n \in 1 .. Len(att[c])
      /\ \A r \in seen : r \in Row
  BY ReconcileFact
<1>2. old \in Attempt /\ AttemptOK(old, Estimate[c])
  BY <1>1, RowFact
<1>3. Estimate[c] \in Nat \ {0} /\ Costs \subseteq Nat \ {0}
  BY <1>1, CallsAssumption
<1>4. old.hold \in {"RESERVED", "SETTLED"}
  BY <1>2 DEF AttemptOK
<1>5. CASE UNCHANGED att
  BY <1>5, SameView
<1>6. ASSUME NEW r \in seen, NEW cost \in Costs, NEW output \in BOOLEAN,
             LookupFinds(c, n, r, cost, output)
      PROVE  [Ledger!LNext]_LedgerView
  <2> DEFINE status == IF output THEN "SUCCEEDED" ELSE "FAILED"
  <2>1. status \in Statuses
    BY DEF Statuses
  <2>2. PICK b : b = Finalize(old, Estimate[c], status, cost, output)
    OBVIOUS
  <2>3. ~Refused(old, Estimate[c], cost) /\ Update(c, n, b)
    BY <1>6, <2>2 DEF LookupFinds
  <2> HIDE DEF status
  <2>4. b \in Attempt /\ SettledAs(old, b, Estimate[c], cost)
    BY <1>2, <1>3, <2>1, <2>2, <2>3, FinalizeFact
  <2> QED
    BY <1>1, <1>4, <2>3, <2>4, SettlementRefines
<1>7. ASSUME NEW r \in seen, CountedOut(c, n, r)
      PROVE  [Ledger!LNext]_LedgerView
  <2> DEFINE a == [old EXCEPT !.count = r.count + 1]
  <2>1. /\ a \in Attempt /\ AttemptOK(a, Estimate[c]) /\ View(a) = View(old)
        /\ a.hold \in {"RESERVED", "SETTLED"}
    <3>1. PICK m \in Nat : m = r.count + 1
      BY <1>1 DEF Row
    <3>2. a = [old EXCEPT !.count = m]
      BY <3>1
    <3> HIDE DEF a, old
    <3> QED
      BY <1>2, <1>4, <3>2 DEF Attempt, AttemptOK, View
  <2>2. /\ ~Refused(a, Estimate[c], Estimate[c])
        /\ Update(c, n, Finalize(a, Estimate[c], "FAILED", Estimate[c], FALSE))
    BY <1>7 DEF CountedOut
  <2> HIDE DEF a
  <2>3. ASSUME NEW output \in BOOLEAN,
               NEW f, f = Finalize(a, Estimate[c], "FAILED", Estimate[c], output)
        PROVE  f \in Attempt /\ SettledAs(a, f, Estimate[c], Estimate[c])
    <3>1. "FAILED" \in Statuses
      BY DEF Statuses
    <3> QED
      BY <1>3, <2>1, <2>2, <2>3, <3>1, FinalizeFact
  <2>4. PICK b : b = Finalize(a, Estimate[c], "FAILED", Estimate[c], FALSE)
    OBVIOUS
  <2>5. FALSE \in BOOLEAN
    OBVIOUS
  <2>6. b \in Attempt /\ SettledAs(a, b, Estimate[c], Estimate[c])
    BY <2>3, <2>4, <2>5, Zenon
  <2>7. Update(c, n, b) /\ Estimate[c] \in {Estimate[d] : d \in Calls}
    BY <1>1, <2>2, <2>4
  <2> QED
    BY <1>1, <2>1, <2>6, <2>7, SettlementRefines
<1>8. ASSUME NEW r \in seen, StillPending(c, n, r)
      PROVE  [Ledger!LNext]_LedgerView
  <2> DEFINE a == [old EXCEPT !.count = r.count + 1]
  <2>1. PICK m \in Nat : m = r.count + 1
    BY <1>1 DEF Row
  <2>2. a = [old EXCEPT !.count = m] /\ Update(c, n, a)
    BY <1>8, <2>1 DEF StillPending
  <2> HIDE DEF a, old
  <2>3. a \in Attempt /\ View(a) = View(old)
    BY <1>2, <2>2 DEF Attempt, View
  <2> QED
    BY <1>1, <2>2, <2>3, QuietUpdate DEF old
<1> QED
  BY <1>5, <1>6, <1>7, <1>8 DEF Reconcile

(* The remaining steps change no reservation and no entry. *)
LEMMA QuietSteps ==
  ASSUME IInv
  PROVE  /\ \A w \in Workers, rid \in BOOLEAN : CallRaises(w, rid) => UNCHANGED LedgerView
         /\ \A c \in Calls, n \in 1 .. MaxAttempts :
              LeaseExpires(c, n) => UNCHANGED LedgerView
         /\ \A s \in Sweepers : ReclaimCommit(s) => UNCHANGED LedgerView
<1>1. ASSUME NEW w \in Workers, NEW rid \in BOOLEAN, CallRaises(w, rid)
      PROVE  UNCHANGED LedgerView
  <2> DEFINE c == worker[w].call
             n == worker[w].no
             b == MarkUnknown(att[c][n], rid)
  <2>1. c \in Calls /\ n \in 1 .. Len(att[c])
    BY <1>1, BusyFact DEF CallRaises, IInv, WorkersOK, Fits
  <2>2. att[c][n] \in Attempt
    BY <2>1, RowFact
  <2>3. b \in Attempt /\ View(b) = View(att[c][n])
    BY <2>2 DEF MarkUnknown, Attempt, Statuses, View
  <2> QED
    BY <1>1, <2>1, <2>3, QuietUpdate DEF CallRaises
<1>2. ASSUME NEW c \in Calls, NEW n \in 1 .. MaxAttempts, LeaseExpires(c, n)
      PROVE  UNCHANGED LedgerView
  <2> DEFINE b == [att[c][n] EXCEPT !.leased = FALSE]
  <2>1. n \in 1 .. Len(att[c])
    BY <1>2 DEF LeaseExpires, Has
  <2>2. att[c][n] \in Attempt
    BY <2>1, RowFact
  <2>3. b \in Attempt /\ View(b) = View(att[c][n])
    BY <2>2 DEF Attempt, View
  <2> QED
    BY <1>2, <2>1, <2>3, QuietUpdate DEF LeaseExpires
<1>3. ASSUME NEW s \in Sweepers, ReclaimCommit(s)
      PROVE  UNCHANGED LedgerView
  <2> DEFINE reaped(c) == [n \in 1 .. Len(att[c]) |->
               IF <<c, n>> \in sweeper[s].expired THEN Reap(att[c][n]) ELSE att[c][n]]
  <2>1. att' = [c \in Calls |-> reaped(c)]
    BY <1>3 DEF ReclaimCommit
  <2>2. ASSUME NEW c \in Calls
        PROVE  /\ Len(reaped(c)) = Len(att[c])
               /\ \A n \in 1 .. Len(att[c]) : View(reaped(c)[n]) = View(att[c][n])
    <3>1. Len(att[c]) \in Nat
      BY LenProperties DEF IInv, TypeOK
    <3>2. ASSUME NEW n \in 1 .. Len(att[c]) PROVE View(reaped(c)[n]) = View(att[c][n])
      <4>1. att[c][n] \in Attempt
        BY RowFact
      <4>2. View(Reap(att[c][n])) = View(att[c][n])
        BY <4>1 DEF Reap, Attempt, View
      <4>3. reaped(c)[n] = Reap(att[c][n]) \/ reaped(c)[n] = att[c][n]
        OBVIOUS
      <4> HIDE DEF reaped
      <4> QED
        BY <4>2, <4>3
    <3>3. Len(reaped(c)) = Len(att[c])
      BY <3>1
    <3> QED
      BY <3>2, <3>3
  <2> HIDE DEF reaped
  <2>3. \A c \in Calls : att'[c] = reaped(c)
    BY <2>1
  <2> QED
    BY <2>2, <2>3, SameView
<1> QED
  BY <1>1, <1>2, <1>3

LEMMA InitRefines == Init => Ledger!LInit
<1> SUFFICES ASSUME Init PROVE Ledger!LInit
  OBVIOUS
<1>1. ASSUME NEW k \in Keys PROVE ~Has(k[1], k[2])
  <2>1. k[1] \in Calls
    BY DEF Keys
  <2>2. Len(att[k[1]]) = 0
    BY <2>1, EmptySeq DEF Init
  <2> QED
    BY <2>2 DEF Has
<1> QED
  BY <1>1, ViewFact DEF Ledger!LInit, Ledger!Free, Nothing

LEMMA NextRefines == IInv /\ [Next]_vars => [Ledger!LNext]_LedgerView
<1> SUFFICES ASSUME IInv, [Next]_vars PROVE [Ledger!LNext]_LedgerView
  OBVIOUS
<1>1. ASSUME UNCHANGED att PROVE [Ledger!LNext]_LedgerView
  BY <1>1, SameView
<1>2. ASSUME NEW w \in Workers, WorkerStep(w) PROVE [Ledger!LNext]_LedgerView
  <2>1. CASE \E c \in Calls : StartCall(w, c)
    BY <1>1, <2>1 DEF StartCall
  <2>2. CASE Reserve(w)
    BY <2>2, ReserveRefines
  <2>3. CASE \E cost \in Costs, rid \in BOOLEAN : Settle(w, cost, rid)
    BY <2>3, SettleRefines
  <2>4. CASE \E rid \in BOOLEAN : CallRaises(w, rid)
    BY <2>4, QuietSteps
  <2>5. CASE ReserveFails(w) \/ SaveCheckpoint(w) \/ Crash(w)
    BY <1>1, <2>5 DEF ReserveFails, SaveCheckpoint, Crash
  <2> QED
    BY <1>2, <2>1, <2>2, <2>3, <2>4, <2>5 DEF WorkerStep
<1>3. ASSUME NEW c \in Calls, NEW n \in 1 .. MaxAttempts, LeaseExpires(c, n)
      PROVE  [Ledger!LNext]_LedgerView
  BY <1>3, QuietSteps
<1>4. ASSUME NEW s \in Sweepers, SweeperStep(s) PROVE [Ledger!LNext]_LedgerView
  <2>1. CASE ReclaimCommit(s)
    BY <2>1, QuietSteps
  <2>2. ASSUME NEW row \in sweeper[s].rows, Reconcile(s, row)
        PROVE  [Ledger!LNext]_LedgerView
    BY <2>2, ReconcileRefines
  <2>3. CASE \/ ReclaimRead(s) \/ ScanUnknown(s) \/ SweepEnds(s) \/ SweepCrashes(s)
             \/ \E row \in sweeper[s].rows : SweepAborts(s, row)
    BY <1>1, <2>3 DEF ReclaimRead, ScanUnknown, SweepEnds, SweepCrashes, SweepAborts
  <2> QED
    BY <1>4, <2>1, <2>2, <2>3 DEF SweeperStep, ReconcileOne
<1>5. CASE UNCHANGED vars
  BY <1>1, <1>5 DEF vars
<1> QED
  BY <1>2, <1>3, <1>4, <1>5 DEF Next

(***************************************************************************)
(* The broker implements the ledger.                                       *)
(***************************************************************************)
THEOREM Refinement == Spec => ImplementsLedger
<1>1. Init => Ledger!LInit
  BY InitRefines
<1>2. IInv /\ [Next]_vars => [Ledger!LNext]_LedgerView
  BY NextRefines
<1> QED
  BY <1>1, <1>2, Invariance, PTL DEF Spec, ImplementsLedger, Ledger!LSpec

-------------------------------------------------------------------------------
(***************************************************************************)
(* The sums: the open reservations against the ceiling, and what the       *)
(* chapter counts as spent against the entries.                            *)
(***************************************************************************)

(* The keys are finitely many, and each reserves an amount. *)
LEMMA KeysFinite == IsFiniteSet(Keys) /\ \A k \in Keys : Amount[k] \in Nat
<1>1. IsFiniteSet(1 .. MaxAttempts)
  BY CallsAssumption, FS_Interval
<1>2. IsFiniteSet(Keys)
  BY <1>1, CallsAssumption, FS_Product DEF Keys
<1>3. \A k \in Keys : Amount[k] \in Nat
  BY CallsAssumption DEF Keys, Amount
<1> QED
  BY <1>2, <1>3

(* The open keys are those the ledger sees as held, before and after a step. *)
LEMMA HeldIsOpen ==
  /\ OpenKeys = {k \in Keys : LedgerView[k].phase = "held"}
  /\ OpenKeys' = {k \in Keys : LedgerView'[k].phase = "held"}
  /\ Ledger!HeldKeys = OpenKeys
<1>1. \A k \in Keys :
        /\ LedgerView[k].phase = "held"
             <=> Has(k[1], k[2]) /\ att[k[1]][k[2]].hold = "RESERVED"
        /\ LedgerView'[k].phase = "held"
             <=> k[2] \in 1 .. Len(att'[k[1]]) /\ att'[k[1]][k[2]].hold = "RESERVED"
  BY ViewFact DEF View, Nothing
<1> QED
  BY <1>1 DEF OpenKeys, Has, Ledger!HeldKeys

(* The ledger adds up as the broker does. *)
LEMMA LedgerSum == ASSUME NEW keys PROVE Ledger!Total(keys) = SumFunctionOnSet(Amount, keys)
BY DEF Ledger!Total, Ledger!SumFunctionOnSet, Ledger!FoldFunctionOnSet, Ledger!MapThenFoldSet,
       SumFunctionOnSet, FoldFunctionOnSet, MapThenFoldSet

(* Holding fits the limit it is given, and nothing else opens a reservation. *)
LEMMA CeilingStep ==
  ASSUME CeilingHeld, [Ledger!LNext]_LedgerView
  PROVE  CeilingHeld'
<1> DEFINE held == OpenKeys
           total(keys) == SumFunctionOnSet(Amount, keys)
<1>1. /\ Outstanding = total(held) /\ Outstanding' = total(held')
      /\ Ledger!HeldTotal = total(held)
  BY HeldIsOpen, LedgerSum DEF Outstanding, Ledger!HeldTotal
<1>2. /\ IsFiniteSet(held) /\ held \in SUBSET Keys /\ held' \in SUBSET Keys
      /\ \A k \in held : Amount[k] \in Nat
  BY KeysFinite, FS_Subset DEF OpenKeys
<1>3. LedgerView = [k \in Keys |-> LedgerView[k]]
  BY ViewFact
<1>4. total(held) \in Nat /\ Cap \in Nat
  BY <1>2, SumNat, CallsAssumption
<1>5. ASSUME held' \subseteq held PROVE CeilingHeld'
  <2>1. IsFiniteSet(held') /\ \A k \in held' : Amount[k] \in Nat
    BY <1>2, <1>5, FS_Subset
  <2>2. total(held') \in Nat
    BY <2>1, SumNat
  <2>3. total(held') <= total(held)
    <3> HIDE DEF held
    <3> QED
      BY <1>2, <1>5, SumPart
  <2> HIDE DEF held, total
  <2> QED
    BY <1>1, <1>4, <2>2, <2>3 DEF CeilingHeld
<1>6. ASSUME NEW k \in Keys, NEW limit \in 0 .. Cap, Ledger!Hold(k, limit)
      PROVE  CeilingHeld'
  <2>1. k \notin held /\ held' = held \cup {k}
    BY <1>3, <1>6, HeldIsOpen DEF Ledger!Hold, Ledger!Free
  <2>2. total(held') = Amount[k] + total(held)
    <3>1. \A j \in held \cup {k} : Amount[j] \in Int
      BY <1>2, KeysFinite
    <3> HIDE DEF held
    <3> QED
      BY <1>2, <2>1, <3>1, SumAdd
  <2>3. total(held) + Amount[k] <= limit
    BY <1>1, <1>6 DEF Ledger!Hold
  <2> HIDE DEF held, total
  <2> QED
    BY <1>1, <1>4, <2>2, <2>3, KeysFinite DEF CeilingHeld
<1>7. ASSUME NEW k \in Keys, NEW cost, Ledger!Settle(k, cost)
      PROVE  CeilingHeld'
  <2>1. held' \subseteq held
    BY <1>3, <1>7, HeldIsOpen DEF Ledger!Settle
  <2> QED
    BY <1>5, <2>1
<1>8. ASSUME NEW k \in Keys, NEW cost, Ledger!AddExtra(k, cost)
      PROVE  CeilingHeld'
  <2>1. held' \subseteq held
    BY <1>3, <1>8, HeldIsOpen DEF Ledger!AddExtra
  <2> QED
    BY <1>5, <2>1
<1>9. CASE UNCHANGED LedgerView
  <2>1. held' \subseteq held
    BY <1>9, HeldIsOpen
  <2> QED
    BY <1>5, <2>1
<1> QED
  BY <1>6, <1>7, <1>8, <1>9 DEF Ledger!LNext

(***************************************************************************)
(* The open reservations of the chapter stay within its ceiling, however   *)
(* many workers reserve at once and whatever they read before: each hold   *)
(* is admitted beside all that is open.                                    *)
(***************************************************************************)
THEOREM CeilingIsHeld == Spec => []CeilingHeld
<1>1. Init => CeilingHeld
  <2> SUFFICES ASSUME Init PROVE CeilingHeld
    OBVIOUS
  <2>1. Ledger!LInit
    BY InitRefines
  <2>2. OpenKeys = {}
    BY <2>1, HeldIsOpen DEF Ledger!LInit, Ledger!Free
  <2>3. Outstanding = 0
    BY <2>2, SumEmpty, LedgerSum DEF Outstanding
  <2> QED
    BY <2>3, CallsAssumption DEF CeilingHeld
<1>2. IInv /\ CeilingHeld /\ [Next]_vars => CeilingHeld'
  BY NextRefines, CeilingStep
<1> QED
  BY <1>1, <1>2, Invariance, PTL DEF Spec

(* What the ledger has of each attempt, before and after a step. *)
LEMMA SpentFact ==
  /\ Spent = [k \in Keys |-> LedgerView[k].billed + LedgerView[k].extra]
  /\ Spent' = [k \in Keys |-> LedgerView'[k].billed + LedgerView'[k].extra]
<1>1. ASSUME NEW k \in Keys
      PROVE  /\ (IF Has(k[1], k[2]) THEN att[k[1]][k[2]].consumed + att[k[1]][k[2]].topup ELSE 0)
                  = LedgerView[k].billed + LedgerView[k].extra
             /\ (IF k[2] \in 1 .. Len(att'[k[1]])
                 THEN att'[k[1]][k[2]].consumed + att'[k[1]][k[2]].topup ELSE 0)
                  = LedgerView'[k].billed + LedgerView'[k].extra
  BY ViewFact DEF View, Nothing
<1> QED
  BY <1>1 DEF Spent, Exists, Row1, Has

(* It is an amount, and nothing before a reservation is settled. *)
LEMMA SpentTypes ==
  ASSUME IInv
  PROVE  /\ \A k \in Keys : /\ LedgerView[k].billed \in Nat /\ LedgerView[k].extra \in Nat
                            /\ Spent[k] \in Nat
         /\ \A k \in Keys : LedgerView[k].phase # "settled" => Spent[k] = 0
<1> SUFFICES ASSUME NEW k \in Keys
             PROVE  /\ LedgerView[k].billed \in Nat /\ LedgerView[k].extra \in Nat
                    /\ Spent[k] \in Nat
                    /\ LedgerView[k].phase # "settled" => Spent[k] = 0
  OBVIOUS
<1>1. CASE ~Has(k[1], k[2])
  BY <1>1, ViewFact, SpentFact DEF Nothing
<1>2. CASE Has(k[1], k[2])
  <2>1. k[1] \in Calls /\ k[2] \in 1 .. Len(att[k[1]])
    BY <1>2 DEF Keys, Has
  <2>2. att[k[1]][k[2]] \in Attempt /\ AttemptOK(att[k[1]][k[2]], Estimate[k[1]])
    BY <2>1, RowFact
  <2>3. LedgerView[k] = View(att[k[1]][k[2]])
    BY <1>2, ViewFact
  <2> QED
    BY <2>2, <2>3, SpentFact DEF View, Attempt, AttemptOK
<1> QED
  BY <1>1, <1>2

LEMMA SpentIsNat == IInv => \A k \in Keys : Spent[k] \in Nat
BY SpentTypes

(* No step takes back what was booked. *)
LEMMA SpentGrows ==
  ASSUME IInv, [Next]_vars
  PROVE  \A k \in Keys : Spent[k] \in Nat /\ Spent'[k] \in Nat /\ Spent[k] <= Spent'[k]
<1>1. [Ledger!LNext]_LedgerView /\ IInv'
  BY NextRefines, NextIInv
<1>2. \A k \in Keys : /\ LedgerView[k].billed \in Nat /\ LedgerView[k].extra \in Nat
                      /\ Spent[k] \in Nat /\ Spent[k] = LedgerView[k].billed + LedgerView[k].extra
                      /\ Spent'[k] = LedgerView'[k].billed + LedgerView'[k].extra
                      /\ LedgerView[k].phase # "settled" => Spent[k] = 0
  BY SpentTypes, SpentFact
<1>3. (IInv => \A k \in Keys : Spent[k] \in Nat)'
  BY SpentIsNat, PTL
<1>4. \A k \in Keys : Spent'[k] \in Nat
  BY <1>1, <1>3
<1>5. LedgerView = [k \in Keys |-> LedgerView[k]]
  BY ViewFact
<1>6. ASSUME NEW j \in Keys, NEW cost \in Costs \cup {Estimate[c] : c \in Calls},
             Ledger!AddExtra(j, cost), NEW k \in Keys
      PROVE  Spent[k] <= Spent'[k]
  <2>1. LedgerView' = [LedgerView EXCEPT ![j].extra = cost - Amount[j]] /\ LedgerView[j].extra = 0
    BY <1>6 DEF Ledger!AddExtra
  <2>2. cost \in Nat /\ cost > Amount[j] /\ Amount[j] \in Nat
    BY <1>6, CallsAssumption, KeysFinite DEF Ledger!AddExtra
  <2>3. CASE k # j
    <3>1. LedgerView'[k] = LedgerView[k]
      BY <1>5, <2>1, <2>3
    <3> QED
      BY <1>2, <3>1
  <2>4. CASE k = j
    <3>1. LedgerView[k] = View(att[k[1]][k[2]])
      BY <1>6, <2>4, ViewFact DEF Ledger!AddExtra, Nothing
    <3>2. LedgerView'[k].billed = LedgerView[k].billed /\ LedgerView'[k].extra = cost - Amount[j]
      BY <1>5, <2>1, <2>4, <3>1 DEF View
    <3> QED
      BY <1>2, <2>1, <2>2, <2>4, <3>2
  <2> QED
    BY <2>3, <2>4
<1>7. ASSUME NEW j \in Keys, NEW cost, Ledger!Settle(j, cost), NEW k \in Keys
      PROVE  Spent[k] <= Spent'[k]
  <2>1. LedgerView[j].phase = "held" /\ (k # j => LedgerView'[k] = LedgerView[k])
    BY <1>5, <1>7 DEF Ledger!Settle
  <2>2. CASE k # j
    BY <1>2, <2>1, <2>2
  <2>3. CASE k = j
    <3>1. Spent[k] = 0
      BY <1>2, <2>1, <2>3
    <3> QED
      BY <1>4, <3>1
  <2> QED
    BY <2>2, <2>3
<1>8. ASSUME NEW j \in Keys, NEW limit, Ledger!Hold(j, limit), NEW k \in Keys
      PROVE  Spent[k] <= Spent'[k]
  <2>1. LedgerView[j].phase = "free" /\ (k # j => LedgerView'[k] = LedgerView[k])
    BY <1>5, <1>8 DEF Ledger!Hold, Ledger!Free
  <2>2. CASE k # j
    BY <1>2, <2>1, <2>2
  <2>3. CASE k = j
    <3>1. Spent[k] = 0
      BY <1>2, <2>1, <2>3
    <3> QED
      BY <1>4, <3>1
  <2> QED
    BY <2>2, <2>3
<1>9. ASSUME UNCHANGED LedgerView, NEW k \in Keys PROVE Spent[k] <= Spent'[k]
  BY <1>2, <1>9
<1>10. \A k \in Keys : Spent[k] <= Spent'[k]
  BY <1>1, <1>6, <1>7, <1>8, <1>9 DEF Ledger!LNext
<1> QED
  BY <1>2, <1>4, <1>10

-------------------------------------------------------------------------------
(* The checkpoint and its copies *)

KeysOf(done) == {k \in Keys : k[1] \in done}

\* What a copy of the checkpoint counts is booked on attempts of the calls it has done.
Covered(doc, spent) == doc.committed <= SumFunctionOnSet(spent, KeysOf(doc.done))

(***************************************************************************)
(* What the memory x of an execution relies on: its copy is covered and    *)
(* lacks the call it works on, and the cost it was answered is booked on   *)
(* an attempt of that call; so the two can be added.                       *)
(***************************************************************************)
Backed(x, spent) ==
  x.at # "idle" =>
    /\ Covered(x.base, spent)
    /\ x.call \notin x.base.done
    /\ x.at = "answered" => <<x.call, x.no>> \in Keys /\ x.got <= spent[<<x.call, x.no>>]

DocsOK ==
  /\ Covered(chapter, Spent)
  /\ \A w \in Workers : Backed(worker[w], Spent)

(* The keys of some calls are finitely many. *)
LEMMA KeysOfFinite ==
  ASSUME NEW done PROVE IsFiniteSet(KeysOf(done)) /\ KeysOf(done) \in SUBSET Keys
BY KeysFinite, FS_Subset DEF KeysOf

(* What is covered stays so while the entries grow. *)
LEMMA CoveredStays ==
  ASSUME NEW f, NEW g, \A k \in Keys : f[k] \in Nat /\ g[k] \in Nat /\ f[k] <= g[k],
         NEW doc \in Checkpoint, Covered(doc, f)
  PROVE  Covered(doc, g)
<1> DEFINE keys == KeysOf(doc.done)
<1>1. IsFiniteSet(keys) /\ \A k \in keys : f[k] \in Nat /\ g[k] \in Nat /\ f[k] <= g[k]
  BY KeysOfFinite
<1>2. SumFunctionOnSet(f, keys) <= SumFunctionOnSet(g, keys)
  <2> HIDE DEF keys
  <2> QED
    BY <1>1, SumMonotone
<1>3. SumFunctionOnSet(f, keys) \in Nat /\ SumFunctionOnSet(g, keys) \in Nat
  BY <1>1, SumNat
<1>4. doc.committed \in Nat /\ doc.committed <= SumFunctionOnSet(f, keys)
  BY DEF Covered, Checkpoint
<1> HIDE DEF keys
<1>5. doc.committed <= SumFunctionOnSet(g, keys)
  BY <1>2, <1>3, <1>4
<1> QED
  BY <1>5 DEF Covered, keys

(* So is what an execution relies on. *)
LEMMA BackedStays ==
  ASSUME NEW f, NEW g, \A k \in Keys : f[k] \in Nat /\ g[k] \in Nat /\ f[k] <= g[k],
         NEW x \in {Idle} \cup Busy, Backed(x, f)
  PROVE  Backed(x, g)
<1>1. CASE x.at = "idle"
  BY <1>1 DEF Backed
<1>2. CASE x.at # "idle"
  <2>1. x \in Busy /\ x.base \in Checkpoint /\ x.got \in Nat
    BY <1>2 DEF Idle, Busy
  <2>2. Covered(x.base, g)
    BY <1>2, <2>1, CoveredStays DEF Backed
  <2>3. ASSUME x.at = "answered" PROVE x.got <= g[<<x.call, x.no>>]
    BY <1>2, <2>1, <2>3 DEF Backed
  <2> QED
    BY <1>2, <2>2, <2>3 DEF Backed
<1> QED
  BY <1>1, <1>2

(* A checkpoint of one call more counts what was booked for that call. *)
LEMMA CoveredTogether ==
  ASSUME NEW f, \A k \in Keys : f[k] \in Nat,
         NEW x \in Busy, Backed(x, f), x.at = "answered"
  PROVE  Covered([committed |-> x.base.committed + x.got,
                  done |-> x.base.done \cup {x.call}], f)
<1> DEFINE old == KeysOf(x.base.done)
           own == KeysOf({x.call})
           key == <<x.call, x.no>>
<1>1. /\ x.base.committed \in Nat /\ x.got \in Nat
      /\ x.base.committed <= SumFunctionOnSet(f, old)
      /\ x.call \notin x.base.done /\ key \in Keys /\ x.got <= f[key]
  BY DEF Busy, Checkpoint, Backed, Covered
<1>2. old \cap own = {} /\ old \cup own = KeysOf(x.base.done \cup {x.call})
  BY <1>1 DEF KeysOf
<1>3. /\ IsFiniteSet(old) /\ IsFiniteSet(own)
      /\ \A k \in old \cup own : f[k] \in Int
      /\ \A k \in old : f[k] \in Nat
      /\ \A k \in own : f[k] \in Nat
  BY KeysOfFinite
<1>4. key \in own
  BY <1>1 DEF KeysOf
<1> HIDE DEF old, own
<1>5. SumFunctionOnSet(f, old \cup own) = SumFunctionOnSet(f, old) + SumFunctionOnSet(f, own)
  BY <1>2, <1>3, SumUnion
<1>6. f[key] <= SumFunctionOnSet(f, own)
  <2> HIDE DEF key
  <2> QED
    BY <1>3, <1>4, SumElement
<1>7. /\ SumFunctionOnSet(f, old) \in Nat /\ SumFunctionOnSet(f, own) \in Nat
      /\ f[key] \in Nat
  BY <1>1, <1>3, SumNat
<1> HIDE DEF key
<1>8. x.base.committed + x.got <= SumFunctionOnSet(f, old \cup own)
  BY <1>1, <1>5, <1>6, <1>7
<1>9. x.base.committed + x.got <= SumFunctionOnSet(f, KeysOf(x.base.done \cup {x.call}))
  BY <1>2, <1>8
<1> QED
  BY <1>9 DEF Covered

(***************************************************************************)
(* A step keeps the copies covered, if what it newly writes to the chapter *)
(* and to the memory of the executions is.                                 *)
(***************************************************************************)
LEMMA DocsFollow ==
  ASSUME IInv, DocsOK, [Next]_vars,
         chapter' = chapter \/ Covered(chapter', Spent'),
         \A w \in Workers : worker'[w] = worker[w] \/ Backed(worker'[w], Spent')
  PROVE  DocsOK'
<1>1. \A k \in Keys : Spent[k] \in Nat /\ Spent'[k] \in Nat /\ Spent[k] <= Spent'[k]
  BY SpentGrows
<1>2. Covered(chapter, Spent')
  BY <1>1, CoveredStays DEF IInv, TypeOK, DocsOK
<1>3. ASSUME NEW w \in Workers PROVE Backed(worker[w], Spent')
  <2>1. worker[w] \in {Idle} \cup Busy /\ Backed(worker[w], Spent)
    BY DEF IInv, TypeOK, DocsOK
  <2> QED
    BY <1>1, <2>1, BackedStays
<1>4. Covered(chapter', Spent')
  BY <1>2
<1>5. ASSUME NEW w \in Workers PROVE Backed(worker'[w], Spent')
  BY <1>3
<1> QED
  BY <1>4, <1>5 DEF DocsOK

(* The copy an execution starts from is the chapter's own. *)
LEMMA StartCallCovers ==
  ASSUME IInv, DocsOK, [Next]_vars, NEW w \in Workers, NEW c \in Calls, StartCall(w, c)
  PROVE  DocsOK'
<1> DEFINE n == Latest(c)
           go(at, doomed, got) == [at |-> at, call |-> c, no |-> n,
                                   doomed |-> doomed, base |-> chapter, got |-> got]
<1>1. Spent' = Spent /\ chapter' = chapter
  BY DEF StartCall, Spent, Exists, Row1, Has
<1>2. n \in Nat /\ n = Len(att[c]) /\ c \notin chapter.done /\ Covered(chapter, Spent)
  BY LenProperties DEF Latest, IInv, TypeOK, DocsOK, StartCall
<1>3. PICK x : worker' = [worker EXCEPT ![w] = x] /\ Backed(x, Spent)
  <2>1. CASE n > 0 /\ Reusable(att[c][n]) /\ worker' = [worker EXCEPT ![w] = go("answered", FALSE, att[c][n].actual)]
    <3>1. n \in 1 .. Len(att[c])
      BY <1>2, <2>1
    <3>2. <<c, n>> \in Keys /\ Has(c, n)
      BY <3>1, KeyFact
    <3>3. att[c][n] \in Attempt /\ AttemptOK(att[c][n], Estimate[c])
      BY <3>1, RowFact
    <3>4. Spent[<<c, n>>] = att[c][n].consumed + att[c][n].topup
      BY <3>2 DEF Spent, Exists, Row1
    <3>5. att[c][n].actual <= Spent[<<c, n>>]
      BY <3>3, <3>4 DEF AttemptOK, Attempt
    <3>6. Backed(go("answered", FALSE, att[c][n].actual), Spent)
      BY <1>2, <3>2, <3>5 DEF Backed
    <3> HIDE DEF go
    <3> QED
      BY <2>1, <3>6
  <2>2. CASE worker' = [worker EXCEPT ![w] = go("preparing", n > 0 /\ Unreconcilable(att[c][n]), 0)]
    <3> DEFINE doomed == n > 0 /\ Unreconcilable(att[c][n])
    <3> HIDE DEF doomed
    <3>1. Backed(go("preparing", doomed, 0), Spent)
      BY <1>2 DEF Backed
    <3> QED
      BY <2>2, <3>1 DEF doomed
  <2> QED
    BY <2>1, <2>2 DEF StartCall
<1>4. \A v \in Workers : worker'[v] = worker[v] \/ Backed(worker'[v], Spent')
  BY <1>1, <1>3 DEF IInv, TypeOK
<1> QED
  BY <1>1, <1>4, DocsFollow

(* A ticket relies on what its preparation relied on. *)
LEMMA ReserveCovers ==
  ASSUME IInv, DocsOK, [Next]_vars, NEW w \in Workers, Reserve(w)
  PROVE  DocsOK'
<1> DEFINE x == [worker[w] EXCEPT !.at = "calling", !.no = worker[w].no + 1, !.doomed = FALSE]
<1>1. worker[w] \in Busy /\ Backed(worker[w], Spent) /\ worker[w].at = "preparing"
  BY BusyFact DEF Reserve, DocsOK
<1>2. x.at = "calling" /\ x.base = worker[w].base /\ x.call = worker[w].call
  BY <1>1 DEF Busy
<1>3. worker' = [worker EXCEPT ![w] = x] /\ chapter' = chapter
  BY DEF Reserve
<1> HIDE DEF x
<1>4. Backed(x, Spent)
  BY <1>1, <1>2 DEF Backed
<1>5. \A k \in Keys : Spent[k] \in Nat /\ Spent'[k] \in Nat /\ Spent[k] <= Spent'[k]
  BY SpentGrows
<1>6. worker[w].base \in Checkpoint
  BY <1>1 DEF Busy
<1>7. Covered(x.base, Spent')
  BY <1>1, <1>2, <1>4, <1>5, <1>6, CoveredStays DEF Backed
<1>8. Backed(x, Spent')
  BY <1>2, <1>4, <1>7 DEF Backed
<1>9. \A v \in Workers : worker'[v] = worker[v] \/ Backed(worker'[v], Spent')
  BY <1>3, <1>8 DEF IInv, TypeOK
<1> QED
  BY <1>3, <1>9, DocsFollow

(* The answer of a model is booked when it is handed on. *)
LEMMA SettleCovers ==
  ASSUME IInv, DocsOK, [Next]_vars, NEW w \in Workers, NEW cost \in Costs,
         NEW rid \in BOOLEAN, Settle(w, cost, rid)
  PROVE  DocsOK'
<1> DEFINE c == worker[w].call
           n == worker[w].no
           a == [att[c][n] EXCEPT !.rid = rid]
<1>1. /\ worker[w].at = "calling" /\ worker[w] \in Busy /\ c \in Calls
      /\ n \in 1 .. Len(att[c])
  BY BusyFact DEF Settle, IInv, WorkersOK, Fits
<1>2. att[c][n] \in Attempt /\ AttemptOK(att[c][n], Estimate[c])
  BY <1>1, RowFact
<1>3. a \in Attempt /\ AttemptOK(a, Estimate[c])
  BY <1>2 DEF Attempt, AttemptOK
<1>4. Estimate[c] \in Nat \ {0} /\ cost \in Nat \ {0}
  BY <1>1, CallsAssumption
<1>5. chapter' = chapter
  BY DEF Settle
<1>6. CASE Stop(w)
  <2>1. \A v \in Workers : worker'[v] = worker[v] \/ Backed(worker'[v], Spent')
    BY <1>6 DEF Stop, Idle, Backed, IInv, TypeOK
  <2> QED
    BY <1>5, <2>1, DocsFollow
<1>7. CASE /\ ~Refused(a, Estimate[c], cost)
           /\ Update(c, n, Finalize(a, Estimate[c], "SUCCEEDED", cost, TRUE))
           /\ worker' = [worker EXCEPT ![w].at = "answered", ![w].got = cost]
  <2> DEFINE x == [worker[w] EXCEPT !.at = "answered", !.got = cost]
  <2>1. PICK b : b = Finalize(a, Estimate[c], "SUCCEEDED", cost, TRUE)
    OBVIOUS
  <2>2. b \in Attempt /\ AttemptOK(b, Estimate[c]) /\ b.hold = "SETTLED" /\ b.actual = cost
    <3> HIDE DEF a
    <3>1. "SUCCEEDED" \in Statuses /\ TRUE \in BOOLEAN
      BY DEF Statuses
    <3>2. ASSUME NEW output \in BOOLEAN,
                 NEW f, f = Finalize(a, Estimate[c], "SUCCEEDED", cost, output)
          PROVE  /\ f \in Attempt /\ AttemptOK(f, Estimate[c]) /\ f.actual = cost
                 /\ SettledAs(a, f, Estimate[c], cost)
      BY <1>3, <1>4, <1>7, <3>1, <3>2, FinalizeFact
    <3>3. /\ b \in Attempt /\ AttemptOK(b, Estimate[c]) /\ b.actual = cost
          /\ SettledAs(a, b, Estimate[c], cost)
      BY <2>1, <3>1, <3>2, Zenon
    <3> QED
      BY <3>3 DEF SettledAs
  <2>3. Update(c, n, b)
    BY <1>7, <2>1
  <2>4. <<c, n>> \in Keys /\ LedgerView'[<<c, n>>] = View(b)
    <3>1. <<c, n>> \in Keys
      BY <1>1, KeyFact
    <3>2. LedgerView' = [LedgerView EXCEPT ![<<c, n>>] = View(b)]
      BY <1>1, <2>2, <2>3, UpdateView
    <3>3. LedgerView = [k \in Keys |-> LedgerView[k]]
      BY ViewFact
    <3> QED
      BY <3>1, <3>2, <3>3
  <2>5. cost <= Spent'[<<c, n>>]
    <3>1. Spent'[<<c, n>>] = b.consumed + b.topup
      BY <2>4, SpentFact DEF View
    <3> QED
      BY <1>4, <2>2, <3>1 DEF AttemptOK, Attempt
  <2>6. /\ x.at = "answered" /\ x.base = worker[w].base /\ x.call = c /\ x.no = n
        /\ x.got = cost
    BY <1>1 DEF Busy
  <2>7. worker' = [worker EXCEPT ![w] = x]
    BY <1>7
  <2> HIDE DEF x
  <2>8. Backed(worker[w], Spent) /\ worker[w].base \in Checkpoint
    BY <1>1 DEF DocsOK, Busy
  <2>9. \A k \in Keys : Spent[k] \in Nat /\ Spent'[k] \in Nat /\ Spent[k] <= Spent'[k]
    BY SpentGrows
  <2>10. Covered(worker[w].base, Spent')
    BY <1>1, <2>8, <2>9, CoveredStays DEF Backed
  <2>11. Backed(x, Spent')
    BY <1>1, <2>4, <2>5, <2>6, <2>8, <2>10 DEF Backed
  <2>12. \A v \in Workers : worker'[v] = worker[v] \/ Backed(worker'[v], Spent')
    BY <2>7, <2>11 DEF IInv, TypeOK
  <2> QED
    BY <1>5, <2>12, DocsFollow
<1> QED
  BY <1>6, <1>7 DEF Settle

(* A checkpoint counts what its copy did and what its execution was answered. *)
LEMMA SaveCheckpointCovers ==
  ASSUME IInv, DocsOK, [Next]_vars, NEW w \in Workers, SaveCheckpoint(w)
  PROVE  DocsOK'
<1>1. worker[w] \in Busy /\ Backed(worker[w], Spent) /\ worker[w].at = "answered"
  BY BusyFact DEF SaveCheckpoint, DocsOK
<1>2. Spent' = Spent
  BY DEF SaveCheckpoint, Spent, Exists, Row1, Has
<1>3. \A k \in Keys : Spent[k] \in Nat
  BY SpentIsNat
<1>4. chapter' = [committed |-> worker[w].base.committed + worker[w].got,
                  done |-> worker[w].base.done \cup {worker[w].call}]
  BY DEF SaveCheckpoint
<1>5. \A x \in Busy : Backed(x, Spent) /\ x.at = "answered" =>
        Covered([committed |-> x.base.committed + x.got,
                 done |-> x.base.done \cup {x.call}], Spent)
  BY <1>3, CoveredTogether
<1>6. Covered(chapter', Spent')
  BY <1>1, <1>2, <1>4, <1>5
<1>7. \A v \in Workers : worker'[v] = worker[v] \/ Backed(worker'[v], Spent')
  BY DEF SaveCheckpoint, Stop, Idle, Backed, IInv, TypeOK
<1> QED
  BY <1>6, <1>7, DocsFollow

(* The other steps of a worker end its execution. *)
LEMMA StopCovers ==
  ASSUME IInv, DocsOK, [Next]_vars, NEW w \in Workers, Stop(w), UNCHANGED chapter
  PROVE  DocsOK'
<1>1. \A v \in Workers : worker'[v] = worker[v] \/ Backed(worker'[v], Spent')
  BY DEF Stop, Idle, Backed, IInv, TypeOK
<1> QED
  BY <1>1, DocsFollow

LEMMA NextCovers == IInv /\ DocsOK /\ [Next]_vars => DocsOK'
<1> SUFFICES ASSUME IInv, DocsOK, [Next]_vars PROVE DocsOK'
  OBVIOUS
<1>1. ASSUME UNCHANGED <<chapter, worker>> PROVE DocsOK'
  BY <1>1, DocsFollow
<1>2. ASSUME NEW w \in Workers, WorkerStep(w) PROVE DocsOK'
  <2>1. CASE \E c \in Calls : StartCall(w, c)
    BY <2>1, StartCallCovers
  <2>2. CASE Reserve(w)
    BY <2>2, ReserveCovers
  <2>3. CASE \E cost \in Costs, rid \in BOOLEAN : Settle(w, cost, rid)
    BY <2>3, SettleCovers
  <2>4. CASE SaveCheckpoint(w)
    BY <2>4, SaveCheckpointCovers
  <2>5. CASE ReserveFails(w) \/ Crash(w) \/ \E rid \in BOOLEAN : CallRaises(w, rid)
    BY <2>5, StopCovers DEF ReserveFails, Crash, CallRaises
  <2> QED
    BY <1>2, <2>1, <2>2, <2>3, <2>4, <2>5 DEF WorkerStep
<1>3. ASSUME NEW c \in Calls, NEW n \in 1 .. MaxAttempts, LeaseExpires(c, n) PROVE DocsOK'
  BY <1>1, <1>3 DEF LeaseExpires
<1>4. ASSUME NEW s \in Sweepers, SweeperStep(s) PROVE DocsOK'
  BY <1>1, <1>4
     DEF SweeperStep, ReclaimRead, ReclaimCommit, ScanUnknown, ReconcileOne, Reconcile,
         SweepAborts, SweepEnds, SweepCrashes
<1>5. CASE UNCHANGED vars
  BY <1>1, <1>5 DEF vars
<1> QED
  BY <1>2, <1>3, <1>4, <1>5 DEF Next

(***************************************************************************)
(* What the chapter counts as spent is on the ledger: a crash between the  *)
(* settlement and the checkpoint, the reuse of an answer or a checkpoint   *)
(* written from an old copy never makes it count more than was booked.     *)
(***************************************************************************)
THEOREM CommittedStaysRecorded == Spec => []CommittedIsRecorded
<1>1. Init => DocsOK
  <2> SUFFICES ASSUME Init PROVE DocsOK
    OBVIOUS
  <2>1. KeysOf({}) = {} /\ chapter = [committed |-> 0, done |-> {}]
    BY DEF KeysOf, Init
  <2>2. Covered(chapter, Spent)
    BY <2>1, SumEmpty DEF Covered
  <2> QED
    BY <2>2 DEF Init, DocsOK, Backed, Idle
<1>2. IInv /\ DocsOK /\ [Next]_vars => DocsOK'
  BY NextCovers
<1>3. IInv /\ DocsOK => CommittedIsRecorded
  <2> SUFFICES ASSUME IInv, DocsOK PROVE CommittedIsRecorded
    OBVIOUS
  <2> DEFINE done == KeysOf(chapter.done)
  <2>1. \A k \in Keys : Spent[k] \in Nat
    BY SpentIsNat
  <2>2. IsFiniteSet(done) /\ done \in SUBSET Keys /\ \A k \in done : Spent[k] \in Nat
    BY <2>1, KeysOfFinite
  <2>3. chapter.committed <= SumFunctionOnSet(Spent, done) /\ chapter.committed \in Nat
    BY DEF DocsOK, Covered, IInv, TypeOK, Checkpoint
  <2> HIDE DEF done
  <2>4. SumFunctionOnSet(Spent, done) <= Recorded
    BY <2>1, <2>2, KeysFinite, SumPart DEF Recorded
  <2>5. SumFunctionOnSet(Spent, done) \in Nat /\ Recorded \in Nat
    BY <2>1, <2>2, KeysFinite, SumNat DEF Recorded
  <2> QED
    BY <2>3, <2>4, <2>5 DEF CommittedIsRecorded
<1> QED
  BY <1>1, <1>2, <1>3, Invariance, PTL DEF Spec
===============================================================================
