------------------------------ MODULE CoreProofs ------------------------------
(***************************************************************************)
(* Theorems about the core: the scheduler's reservations, the hard budget  *)
(* of agent turns and the execution of works.  The three are independent   *)
(* of each other; each part gives the inductive invariant of one of them,  *)
(* a lemma for each kind of step, and the properties that follow.          *)
(***************************************************************************)
EXTENDS Scheduler, Budget, WorkExecution, SumsProofs

\* A set whose members are all the same has one at most.
LEMMA AtMostOne ==
  ASSUME NEW S, \A a, b \in S : a = b
  PROVE  Cardinality(S) <= 1
<1>1. CASE S = {}
  BY <1>1, FS_EmptySet
<1>2. CASE S # {}
  <2>1. PICK a : S = {a}
    BY <1>2
  <2>2. Cardinality({a}) = 1
    BY FS_Singleton
  <2> QED
    BY <2>1, <2>2
<1> QED
  BY <1>1, <1>2

-------------------------------------------------------------------------------
(***************************************************************************)
(* The scheduler                                                           *)
(***************************************************************************)

\* The invariant of the scheduler: the books, and who may hold more than once, are
\* inductive together with the types.
SchedulerInv == SchedulerTypeOK /\ HeldIsReserved /\ HoldsTwiceOnlyResumed

\* what the reservations of r come to, entry by entry
Promised(r) == [e \in Entries |-> holds[e][r] * Request[e][r]]

\* The arithmetic of a number of reservations h and a quantity q.
LEMMA Products ==
  \A h, q \in Nat : /\ h * q \in Nat /\ (h + 1) * q = h * q + q /\ 0 * q = 0 /\ h * 0 = 0
                    /\ h > 0 => h - 1 \in Nat /\ (h - 1) * q = h * q - q
OBVIOUS

\* Whatever the reservations of one entry become, the sum becomes what it was
\* and the difference.
LEMMA HeldFollows ==
  ASSUME SchedulerTypeOK, SchedulerTypeOK', HeldIsReserved,
         NEW r \in Resources, NEW e \in Entries, NEW d \in Int,
         \A f \in Entries \ {e} : holds'[f][r] = holds[f][r],
         holds'[e][r] * Request[e][r] = holds[e][r] * Request[e][r] + d,
         quota'[r].held = quota[r].held + d, ledger'[r] = ledger[r] + d
  PROVE  /\ quota'[r].held = SumFunctionOnSet(Promised(r)', Entries)
         /\ ledger'[r] = quota'[r].held
<1>1. \A f \in Entries : Promised(r)[f] \in Int /\ Promised(r)'[f] \in Int
  BY Products, SchedulerAssumption DEF Promised, SchedulerTypeOK
<1>2. /\ \A f \in Entries \ {e} : Promised(r)[f] = Promised(r)'[f]
      /\ Promised(r)'[e] = Promised(r)[e] + d
  BY DEF Promised
<1>3. SumFunctionOnSet(Promised(r)', Entries)
        = SumFunctionOnSet(Promised(r), Entries) - Promised(r)[e] + Promised(r)'[e]
  BY <1>1, <1>2, SumUpdate, SchedulerAssumption
<1>4. quota[r].held = SumFunctionOnSet(Promised(r), Entries) /\ ledger[r] = quota[r].held
  BY DEF HeldIsReserved, Promised
<1>5. SumFunctionOnSet(Promised(r), Entries) \in Int
  BY <1>1, SumInt, SchedulerAssumption
<1>6. Promised(r)[e] \in Int /\ Promised(r)'[e] \in Int
  BY <1>1
<1> QED
  BY <1>2, <1>3, <1>4, <1>5, <1>6

\* Limits, checkpoints and the queue are not what the books count.
LEMMA HeldUnchanged ==
  ASSUME HeldIsReserved, UNCHANGED <<holds, ledger>>,
         \A r \in Resources : quota'[r].held = quota[r].held
  PROVE  HeldIsReserved'
BY DEF HeldIsReserved

\* Nothing is held at first.
LEMMA SchedulerInitial == SchedulerInit => SchedulerInv
<1> SUFFICES ASSUME SchedulerInit PROVE SchedulerInv
  OBVIOUS
<1>1. SchedulerTypeOK
  BY SchedulerAssumption DEF SchedulerInit, SchedulerTypeOK
<1>2. HeldIsReserved
  <2> SUFFICES ASSUME NEW r \in Resources
               PROVE  /\ quota[r].held = SumFunctionOnSet(Promised(r), Entries)
                      /\ ledger[r] = quota[r].held
    BY DEF HeldIsReserved, Promised
  <2>1. \A e \in Entries : Promised(r)[e] = 0
    BY Products, SchedulerAssumption DEF Promised, SchedulerInit
  <2>2. SumFunctionOnSet(Promised(r), Entries) = 0
    BY <2>1, SumZero, SchedulerAssumption
  <2> QED
    BY <2>2 DEF SchedulerInit
<1>3. HoldsTwiceOnlyResumed
  BY DEF SchedulerInit, HoldsTwiceOnlyResumed
<1> QED
  BY <1>1, <1>2, <1>3 DEF SchedulerInv

\* What a preemption gives back.
LEMMA GivenBackType ==
  ASSUME SchedulerTypeOK, NEW e \in Entries, NEW r \in Resources
  PROVE  GivenBack(e, r) \in Nat
BY Products, SchedulerAssumption DEF SchedulerTypeOK, GivenBack

\* Every step keeps the types.
LEMMA SchedulerTypes ==
  ASSUME SchedulerTypeOK, [SchedulerNext]_schedulerVars
  PROVE  SchedulerTypeOK'
<1> USE DEF SchedulerTypeOK
<1>1. CASE Schedule
  <2>1. PICK e \in Entries : ScheduleOnce(e)
    BY <1>1 DEF Schedule
  <2>2. \A r \in Resources : Request[e][r] \in Nat
    BY SchedulerAssumption
  <2>3. ASSUME NEW r \in Resources
        PROVE  [quota[r] EXCEPT !.held = @ + Request[e][r]] \in [limit: Limits, held: Nat]
    BY <2>2
  <2>4. [r \in Resources |-> IF Asks(e, r) THEN holds[e][r] + 1 ELSE holds[e][r]]
          \in [Resources -> Nat]
    OBVIOUS
  <2>5. quota' \in [Resources -> [limit: Limits, held: Nat]]
    BY <2>1, <2>3 DEF ScheduleOnce
  <2>6. holds' \in [Entries -> [Resources -> Nat]]
    BY <2>1, <2>4 DEF ScheduleOnce
  <2>7. ledger' \in [Resources -> Int]
    BY <2>1, <2>2 DEF ScheduleOnce
  <2> QED
    BY <2>1, <2>5, <2>6, <2>7 DEF ScheduleOnce
<1>2. ASSUME NEW r \in Resources, SetLimit(r) PROVE SchedulerTypeOK'
  BY <1>2 DEF SetLimit
<1>3. ASSUME NEW e \in Entries, Enqueue(e) \/ SaveCheckpoint(e) \/ Resume(e) PROVE SchedulerTypeOK'
  BY <1>3 DEF Enqueue, SaveCheckpoint, Resume
<1>4. ASSUME NEW e \in Entries, PreemptLooks(e) \/ PreemptFails(e) PROVE SchedulerTypeOK'
  BY <1>4 DEF PreemptLooks, PreemptFails
<1>5. ASSUME NEW e \in Entries, PreemptEnds(e) PROVE SchedulerTypeOK'
  <2>1. \A r \in Resources : GivenBack(e, r) \in Nat
    BY GivenBackType
  <2>2. ASSUME NEW r \in Resources
        PROVE  [quota[r] EXCEPT !.held = @ - GivenBack(e, r)] \in [limit: Limits, held: Nat]
    <3>1. quota[r] \in [limit: Limits, held: Nat] /\ quota[r].held >= GivenBack(e, r)
      BY <1>5 DEF PreemptEnds
    <3>2. quota[r].held - GivenBack(e, r) \in Nat
      BY <2>1, <3>1
    <3> QED
      BY <3>1, <3>2
  <2>3. quota' \in [Resources -> [limit: Limits, held: Nat]]
    BY <1>5, <2>2 DEF PreemptEnds
  <2>4. holds' \in [Entries -> [Resources -> Nat]]
    BY <1>5 DEF PreemptEnds
  <2>5. ledger' \in [Resources -> Int]
    BY <1>5, <2>1 DEF PreemptEnds
  <2> QED
    BY <1>5, <2>3, <2>4, <2>5 DEF PreemptEnds
<1>6. ASSUME NEW e \in Entries, Dispatch(e) \/ OperationEnds(e) PROVE SchedulerTypeOK'
  BY <1>6 DEF Dispatch, OperationEnds
<1>7. ASSUME NEW e \in Entries, NEW r \in Resources, Release(e, r) PROVE SchedulerTypeOK'
  <2>1. Request[e][r] \in Nat
    BY SchedulerAssumption
  <2>2. [quota[r] EXCEPT !.held = @ - Request[e][r]] \in [limit: Limits, held: Nat]
    BY <1>7, <2>1 DEF Release
  <2>3. quota' \in [Resources -> [limit: Limits, held: Nat]]
    BY <1>7, <2>2 DEF Release
  <2>4. [holds[e] EXCEPT ![r] = @ - 1] \in [Resources -> Nat]
    BY <1>7 DEF Release
  <2>5. holds' \in [Entries -> [Resources -> Nat]]
    BY <1>7, <2>4 DEF Release
  <2>6. ledger' \in [Resources -> Int]
    BY <1>7, <2>1 DEF Release
  <2> QED
    BY <1>7, <2>3, <2>5, <2>6 DEF Release
<1>8. CASE UNCHANGED schedulerVars
  BY <1>8 DEF schedulerVars
<1> QED
  BY <1>1, <1>2, <1>3, <1>4, <1>5, <1>6, <1>7, <1>8 DEF SchedulerNext

\* Every step keeps the books: a decision adds what the entry asks for, and what ends
\* gives back what it held.
LEMMA HeldStep ==
  ASSUME SchedulerInv, SchedulerTypeOK', [SchedulerNext]_schedulerVars
  PROVE  HeldIsReserved'
<1> USE DEF SchedulerInv
<1>1. ASSUME NEW e \in Entries, ScheduleOnce(e) PROVE HeldIsReserved'
  <2> SUFFICES ASSUME NEW r \in Resources
               PROVE  /\ quota'[r].held = SumFunctionOnSet(Promised(r)', Entries)
                      /\ ledger'[r] = quota'[r].held
    BY DEF HeldIsReserved, Promised
  <2>1. Request[e][r] \in Nat /\ holds[e][r] \in Nat
    BY SchedulerAssumption DEF SchedulerTypeOK
  <2>2. /\ \A f \in Entries \ {e} : holds'[f][r] = holds[f][r]
        /\ holds'[e][r] = IF Asks(e, r) THEN holds[e][r] + 1 ELSE holds[e][r]
        /\ quota'[r].held = quota[r].held + Request[e][r]
        /\ ledger'[r] = ledger[r] + Request[e][r]
    BY <1>1 DEF ScheduleOnce, SchedulerTypeOK
  <2>3. holds'[e][r] * Request[e][r] = holds[e][r] * Request[e][r] + Request[e][r]
    <3>1. CASE Asks(e, r)
      BY <2>1, <2>2, <3>1, Products
    <3>2. CASE ~Asks(e, r)
      BY <2>1, <2>2, <3>2, Products DEF Asks
    <3> QED
      BY <3>1, <3>2
  <2> QED
    BY <2>1, <2>2, <2>3, HeldFollows
<1>2. ASSUME NEW e \in Entries, NEW s \in Resources, Release(e, s) PROVE HeldIsReserved'
  <2> SUFFICES ASSUME NEW r \in Resources
               PROVE  /\ quota'[r].held = SumFunctionOnSet(Promised(r)', Entries)
                      /\ ledger'[r] = quota'[r].held
    BY DEF HeldIsReserved, Promised
  <2> DEFINE d == IF r = s THEN 0 - Request[e][r] ELSE 0
  <2>1. Request[e][r] \in Nat /\ holds[e][r] \in Nat /\ quota[r].held \in Nat /\ ledger[r] \in Int
    BY SchedulerAssumption DEF SchedulerTypeOK
  <2>2. /\ \A f \in Entries \ {e} : holds'[f][r] = holds[f][r]
        /\ holds'[e][r] = IF r = s THEN holds[e][r] - 1 ELSE holds[e][r]
        /\ r = s => holds[e][r] > 0
        /\ quota'[r].held = quota[r].held + d
        /\ ledger'[r] = ledger[r] + d
    BY <1>2, <2>1 DEF Release, SchedulerTypeOK
  <2>3. holds'[e][r] * Request[e][r] = holds[e][r] * Request[e][r] + d /\ d \in Int
    <3>1. holds[e][r] * Request[e][r] \in Nat
      BY <2>1, Products
    <3>2. r = s => (holds[e][r] - 1) * Request[e][r] = holds[e][r] * Request[e][r] - Request[e][r]
      BY <2>1, <2>2, Products
    <3> QED
      BY <2>1, <2>2, <3>1, <3>2
  <2> HIDE DEF d
  <2> QED
    BY <2>2, <2>3, HeldFollows
<1>3. ASSUME NEW e \in Entries, PreemptEnds(e) PROVE HeldIsReserved'
  <2> SUFFICES ASSUME NEW r \in Resources
               PROVE  /\ quota'[r].held = SumFunctionOnSet(Promised(r)', Entries)
                      /\ ledger'[r] = quota'[r].held
    BY DEF HeldIsReserved, Promised
  <2> DEFINE d == 0 - GivenBack(e, r)
  <2>1. /\ Request[e][r] \in Nat /\ quota[r].held \in Nat /\ ledger[r] \in Int
        /\ GivenBack(e, r) \in Nat /\ d \in Int
    BY GivenBackType, SchedulerAssumption DEF SchedulerTypeOK
  <2>2. /\ \A f \in Entries \ {e} : holds'[f][r] = holds[f][r]
        /\ holds'[e][r] = 0
        /\ quota'[r].held = quota[r].held + d
        /\ ledger'[r] = ledger[r] + d
    BY <1>3, <2>1 DEF PreemptEnds, SchedulerTypeOK
  <2>3. holds'[e][r] * Request[e][r] = holds[e][r] * Request[e][r] + d
    BY <2>1, <2>2, Products DEF GivenBack
  <2> HIDE DEF d
  <2> QED
    BY <2>1, <2>2, <2>3, HeldFollows
<1>4. ASSUME NEW r \in Resources, SetLimit(r) PROVE HeldIsReserved'
  BY <1>4, HeldUnchanged DEF SetLimit, SchedulerTypeOK
<1>5. ASSUME NEW e \in Entries,
             \/ Enqueue(e) \/ SaveCheckpoint(e) \/ Resume(e) \/ PreemptLooks(e) \/ PreemptFails(e)
             \/ Dispatch(e) \/ OperationEnds(e)
      PROVE  HeldIsReserved'
  BY <1>5, HeldUnchanged DEF Enqueue, SaveCheckpoint, Resume, PreemptLooks, PreemptFails,
     Dispatch, OperationEnds
<1>6. CASE UNCHANGED schedulerVars
  BY <1>6, HeldUnchanged DEF schedulerVars
<1> QED
  BY <1>1, <1>2, <1>3, <1>4, <1>5, <1>6 DEF SchedulerNext, Schedule

\* Only a resume queues an entry that may hold.
LEMMA TwiceStep ==
  ASSUME SchedulerInv, [SchedulerNext]_schedulerVars
  PROVE  HoldsTwiceOnlyResumed'
<1> SUFFICES ASSUME NEW e \in Entries \ resumed', NEW r \in Resources
             PROVE  holds'[e][r] <= IF entry'[e] = "SCHEDULED" THEN 1 ELSE 0
  BY DEF HoldsTwiceOnlyResumed
<1>0. /\ holds[e][r] \in Nat /\ holds \in [Entries -> [Resources -> Nat]]
      /\ entry \in [Entries -> {"NONE", "QUEUED", "SCHEDULED"}]
      /\ e \notin resumed => holds[e][r] <= IF entry[e] = "SCHEDULED" THEN 1 ELSE 0
  BY DEF SchedulerInv, SchedulerTypeOK, HoldsTwiceOnlyResumed
<1>1. ASSUME NEW f \in Entries, ScheduleOnce(f)
      PROVE  holds'[e][r] <= IF entry'[e] = "SCHEDULED" THEN 1 ELSE 0
  <2>1. entry[f] = "QUEUED" /\ resumed' = resumed
    BY <1>1 DEF ScheduleOnce, IsFirst, Candidates
  <2> QED
    BY <1>0, <1>1, <2>1 DEF ScheduleOnce
<1>2. ASSUME NEW f \in Entries, NEW s \in Resources, Release(f, s)
      PROVE  holds'[e][r] <= IF entry'[e] = "SCHEDULED" THEN 1 ELSE 0
  BY <1>0, <1>2 DEF Release
<1>3. ASSUME NEW f \in Entries, PreemptEnds(f)
      PROVE  holds'[e][r] <= IF entry'[e] = "SCHEDULED" THEN 1 ELSE 0
  BY <1>0, <1>3 DEF PreemptEnds
<1>4. ASSUME NEW s \in Resources, SetLimit(s)
      PROVE  holds'[e][r] <= IF entry'[e] = "SCHEDULED" THEN 1 ELSE 0
  BY <1>0, <1>4 DEF SetLimit
<1>5. ASSUME NEW f \in Entries,
             \/ Enqueue(f) \/ SaveCheckpoint(f) \/ Resume(f) \/ PreemptLooks(f) \/ PreemptFails(f)
             \/ Dispatch(f) \/ OperationEnds(f)
      PROVE  holds'[e][r] <= IF entry'[e] = "SCHEDULED" THEN 1 ELSE 0
  BY <1>0, <1>5 DEF Enqueue, SaveCheckpoint, Resume, PreemptLooks, PreemptFails,
     Dispatch, OperationEnds
<1>6. CASE UNCHANGED schedulerVars
  BY <1>0, <1>6 DEF schedulerVars
<1> QED
  BY <1>1, <1>2, <1>3, <1>4, <1>5, <1>6 DEF SchedulerNext, Schedule

\* Every step keeps the invariant.
LEMMA SchedulerStep ==
  SchedulerInv /\ [SchedulerNext]_schedulerVars => SchedulerInv'
BY SchedulerTypes, HeldStep, TwiceStep DEF SchedulerInv

\* Only a decision raises what is held.
LEMMA AllOrNoneStep ==
  ASSUME SchedulerTypeOK, [SchedulerNext]_schedulerVars,
         NEW r \in Resources, quota'[r].held > quota[r].held
  PROVE  \E e \in Entries :
           /\ entry[e] = "QUEUED" /\ entry'[e] = "SCHEDULED"
           /\ \A s \in Resources :
                /\ quota'[s].held = quota[s].held + Request[e][s]
                /\ Asks(e, s) => quota'[s].held <= quota'[s].limit
<1>0. quota \in [Resources -> [limit: Limits, held: Nat]]
      /\ entry \in [Entries -> {"NONE", "QUEUED", "SCHEDULED"}]
  BY DEF SchedulerTypeOK
<1>1. Schedule
  <2>1. ~ (UNCHANGED schedulerVars)
    BY <1>0 DEF schedulerVars
  <2>2. ASSUME NEW s \in Resources, SetLimit(s) PROVE FALSE
    BY <1>0, <2>2 DEF SetLimit
  <2>3. ASSUME NEW e \in Entries,
               \/ Enqueue(e) \/ SaveCheckpoint(e) \/ Resume(e) \/ PreemptLooks(e)
               \/ PreemptFails(e) \/ Dispatch(e) \/ OperationEnds(e)
        PROVE  FALSE
    BY <1>0, <2>3 DEF Enqueue, SaveCheckpoint, Resume, PreemptLooks, PreemptFails,
       Dispatch, OperationEnds
  <2>4. ASSUME NEW e \in Entries, PreemptEnds(e) PROVE FALSE
    BY <1>0, <2>4, GivenBackType DEF PreemptEnds
  <2>5. ASSUME NEW e \in Entries, NEW s \in Resources, Release(e, s) PROVE FALSE
    BY <1>0, <2>5, SchedulerAssumption DEF Release
  <2> QED
    BY <2>1, <2>2, <2>3, <2>4, <2>5 DEF SchedulerNext
<1>2. PICK e \in Entries : ScheduleOnce(e)
  BY <1>1 DEF Schedule
<1>3. entry[e] = "QUEUED" /\ entry'[e] = "SCHEDULED" /\ Fits(e)
  BY <1>0, <1>2 DEF ScheduleOnce, IsFirst, Candidates
<1>4. ASSUME NEW s \in Resources
      PROVE  /\ quota'[s].held = quota[s].held + Request[e][s]
             /\ Asks(e, s) => quota'[s].held <= quota'[s].limit
  BY <1>0, <1>2, <1>3 DEF ScheduleOnce, Fits
<1> QED
  BY <1>3, <1>4

\* The invariant of the scheduler holds in every state (scheduler_service.py:230).
THEOREM SchedulerInductive == SchedulerSpec => []SchedulerInv
BY SchedulerInitial, SchedulerStep, PTL DEF SchedulerSpec

\* The books of the scheduler agree at all times: what a quota says is held, and
\* what the ledger says, is the sum of the reservations that are held, whatever
\* releases, preemptions and resumes have crossed (scheduler_service.py:358).
THEOREM HeldStaysReserved == SchedulerSpec => []HeldIsReserved
BY SchedulerInductive, PTL DEF SchedulerInv

\* An entry that was never resumed from a checkpoint holds once at most, and
\* nothing while it queues (scheduler_service.py:649).
THEOREM TwiceOnlyAfterResume == SchedulerSpec => []HoldsTwiceOnlyResumed
BY SchedulerInductive, PTL DEF SchedulerInv

\* What is held grows by decisions only, for one entry in all its resources,
\* within the limits of the moment (scheduler_service.py:230).
THEOREM DecisionsHoldAllOrNone == SchedulerSpec => HoldsAllOrNone
<1>1. SchedulerInv /\ [SchedulerNext]_schedulerVars =>
        [\A r \in Resources : quota'[r].held > quota[r].held =>
           \E e \in Entries :
             /\ entry[e] = "QUEUED" /\ entry'[e] = "SCHEDULED"
             /\ \A s \in Resources :
                  /\ quota'[s].held = quota[s].held + Request[e][s]
                  /\ Asks(e, s) => quota'[s].held <= quota'[s].limit]_schedulerVars
  BY AllOrNoneStep DEF SchedulerInv
<1> QED
  BY <1>1, SchedulerInductive, PTL DEF SchedulerSpec, HoldsAllOrNone

-------------------------------------------------------------------------------
(***************************************************************************)
(* The budget                                                              *)
(***************************************************************************)

\* what a hold that is over says
Over == {"SETTLED", "RELEASED"}

\* A key is taken when the earlier epochs of its turn are over: so at most one is
\* live, whoever else is about to take one.
InOrder ==
  \A t \in Turns, n \in Epochs :
    row[t][n].status # "NONE" => \A m \in Epochs : m < n => row[t][m].status \in Over

\* An agent about to hold knows the earlier epochs of its turn to be over.
AgentsKnow ==
  \A x \in AgentRuns :
    /\ agent[x].pc # "idle" => agent[x].turn \in Turns /\ agent[x].epoch \in Epochs
    /\ agent[x].pc = "hold" =>
         /\ agent[x].amount \in Amounts
         /\ \A m \in Epochs : m < agent[x].epoch => row[agent[x].turn][m].status \in Over

\* What is over holds nothing, a hold is of an amount that was estimated, and a row
\* has an account.
RowsHold ==
  \A t \in Turns, n \in Epochs :
    /\ row[t][n].status \notin Live => row[t][n].amount = 0
    /\ row[t][n].amount \in Amounts \union {0}
    /\ row[t][n].status # "NONE" => account.open

\* The holds there may be, what each holds, and their balance with the account.
Rows == Turns \X Epochs
AmountOf == [h \in Rows |-> row[h[1]][h[2]].amount]

Held == SumFunctionOnSet(AmountOf, Rows)

\* what the account reserves beyond the holds: one hold whose update missed
Stuck == account.reserved - Held

Balanced ==
  /\ Stuck \in Amounts \union {0}
  /\ Stuck > 0 => account.rounded
  /\ ~account.open => account.spent = 0 /\ account.reserved = 0
  /\ direct = 0 => account.spent <= entries /\ entries <= account.spent + Stuck

\* The invariant of the budget.  The order of the keys and what the agents know of it
\* make the holds of a turn exclusive; the balance makes what is settled be held.
BudgetInv == BudgetTypeOK /\ InOrder /\ AgentsKnow /\ RowsHold /\ Balanced /\ HardBudget

\* The sums are of finitely many holds, of natural amounts.
LEMMA RowsFinite == IsFiniteSet(Rows)
<1>1. IsFiniteSet(Epochs)
  BY BudgetAssumption, FS_Interval DEF Epochs
<1> QED
  BY <1>1, BudgetAssumption, FS_Product DEF Rows

LEMMA AmountTypes == BudgetTypeOK => \A h \in Rows : AmountOf[h] \in Nat
BY DEF BudgetTypeOK, Rows, AmountOf

\* The numbers the balance is about.
LEMMA BalanceTypes ==
  ASSUME BudgetTypeOK, Balanced
  PROVE  Held \in Nat /\ account.reserved \in Nat /\ Stuck \in Nat /\ account.reserved = Held + Stuck
<1>1. Held \in Nat
  BY AmountTypes, RowsFinite, SumNat DEF Held
<1>2. account.reserved \in Nat
  BY DEF BudgetTypeOK
<1>3. Stuck \in Nat
  BY BudgetAssumption DEF Balanced
<1> QED
  BY <1>1, <1>2, <1>3 DEF Stuck

\* The holds together are no less than each.
LEMMA CoversRow ==
  ASSUME BudgetTypeOK, NEW t \in Turns, NEW n \in Epochs
  PROVE  row[t][n].amount \in Nat /\ Held >= row[t][n].amount
<1>1. <<t, n>> \in Rows /\ AmountOf[<<t, n>>] = row[t][n].amount
  BY DEF Rows, AmountOf
<1>2. AmountOf[<<t, n>>] <= Held
  BY <1>1, AmountTypes, RowsFinite, SumElement DEF Held
<1>3. AmountOf[<<t, n>>] \in Nat /\ Held \in Nat
  BY <1>1, AmountTypes, RowsFinite, SumNat DEF Held
<1> QED
  BY <1>1, <1>2, <1>3

\* One row changes: the sum changes by the difference.
LEMMA SumFollows ==
  ASSUME BudgetTypeOK, BudgetTypeOK', NEW t \in Turns, NEW n \in Epochs,
         \A s \in Turns, m \in Epochs : <<s, m>> # <<t, n>> => row'[s][m] = row[s][m]
  PROVE  Held' = Held - row[t][n].amount + row'[t][n].amount
<1>1. <<t, n>> \in Rows /\ AmountOf[<<t, n>>] = row[t][n].amount
      /\ AmountOf'[<<t, n>>] = row'[t][n].amount
  BY DEF Rows, AmountOf
<1>2. \A h \in Rows : AmountOf[h] \in Int /\ AmountOf'[h] \in Int
  BY DEF BudgetTypeOK, Rows, AmountOf
<1>3. \A h \in Rows \ {<<t, n>>} : AmountOf[h] = AmountOf'[h]
  BY DEF Rows, AmountOf
<1> QED
  BY <1>1, <1>2, <1>3, RowsFinite, SumUpdate DEF Held

\* A step of the agents alone disturbs nothing of the books.
LEMMA BooksStay ==
  ASSUME BudgetInv, UNCHANGED <<row, account, entries, direct>>
  PROVE  InOrder' /\ RowsHold' /\ Balanced' /\ HardBudget'
BY DEF BudgetInv, InOrder, RowsHold, Balanced, Stuck, Held, AmountOf, HardBudget

\* No account is open at first.
LEMMA BudgetInitial == BudgetInit => BudgetInv
<1> SUFFICES ASSUME BudgetInit PROVE BudgetInv
  OBVIOUS
<1>1. BudgetTypeOK
  BY BudgetAssumption DEF BudgetInit, BudgetTypeOK, RowStatus, AgentPlaces, NoRun, RunAt, Epochs
<1>2. InOrder /\ AgentsKnow /\ RowsHold
  BY DEF BudgetInit, InOrder, AgentsKnow, RowsHold, NoRun, RunAt
<1>3. \A h \in Rows : AmountOf[h] = 0
  BY DEF BudgetInit, Rows, AmountOf
<1>4. Held = 0
  BY <1>3, RowsFinite, SumZero DEF Held
<1> QED
  BY <1>1, <1>2, <1>4 DEF BudgetInv, BudgetInit, Balanced, Stuck, HardBudget

\* the types of an agent and of a hold
AgentRecord == [pc: AgentPlaces, turn: Turns \union {NoTurn}, epoch: 0..MaxEpochs, amount: Nat, cost: Nat]
HoldRecord == [status: RowStatus, amount: Nat]

\* What an agent that goes on, starts or stops does to its own record.
LEMMA RunTypes ==
  /\ NoRun \in AgentRecord
  /\ \A r \in AgentRecord, pc \in AgentPlaces : [r EXCEPT !.pc = pc] \in AgentRecord
  /\ \A r \in AgentRecord, pc \in AgentPlaces, cost \in Nat :
       [r EXCEPT !.pc = pc, !.cost = cost] \in AgentRecord
  /\ \A r \in AgentRecord, pc \in AgentPlaces, amount \in Nat :
       [r EXCEPT !.pc = pc, !.amount = amount] \in AgentRecord
<1>1. NoRun \in AgentRecord
  BY BudgetAssumption DEF AgentRecord, NoRun, RunAt, AgentPlaces
<1>2. ASSUME NEW r \in AgentRecord, NEW pc \in AgentPlaces PROVE [r EXCEPT !.pc = pc] \in AgentRecord
  BY DEF AgentRecord
<1>3. ASSUME NEW r \in AgentRecord, NEW pc \in AgentPlaces, NEW cost \in Nat
      PROVE  [r EXCEPT !.pc = pc, !.cost = cost] \in AgentRecord
  BY DEF AgentRecord
<1>4. ASSUME NEW r \in AgentRecord, NEW pc \in AgentPlaces, NEW amount \in Nat
      PROVE  [r EXCEPT !.pc = pc, !.amount = amount] \in AgentRecord
  BY DEF AgentRecord
<1> QED
  BY <1>1, <1>2, <1>3, <1>4

\* An agent that starts on an epoch of a turn.
LEMMA RunAtTypes ==
  ASSUME NEW pc \in AgentPlaces, NEW t \in Turns, NEW n \in Epochs, NEW a \in Nat
  PROVE  /\ RunAt(pc, t, n, a) \in AgentRecord /\ RunAt(pc, t, n, a).pc = pc
         /\ RunAt(pc, t, n, a).turn = t /\ RunAt(pc, t, n, a).epoch = n
         /\ RunAt(pc, t, n, a).amount = a
BY BudgetAssumption DEF AgentRecord, Epochs, RunAt

\* A row that is changed stays a row, and the others are left alone.
LEMMA RowTypes ==
  ASSUME BudgetTypeOK, NEW t \in Turns, NEW n \in Epochs, NEW new \in HoldRecord,
         row' = [row EXCEPT ![t][n] = new]
  PROVE  /\ row' \in [Turns -> [Epochs -> HoldRecord]]
         /\ row'[t][n] = new
         /\ \A s \in Turns, m \in Epochs : <<s, m>> # <<t, n>> => row'[s][m] = row[s][m]
BY DEF BudgetTypeOK, HoldRecord

\* Agents that go on or stop still know what they knew, while what is over stays so.
LEMMA AgentsFollow ==
  ASSUME AgentsKnow,
         \A t \in Turns, n \in Epochs : row[t][n].status \in Over => row'[t][n].status \in Over,
         \A x \in AgentRuns :
           \/ agent'[x].pc = "idle"
           \/ /\ agent'[x].turn = agent[x].turn /\ agent'[x].epoch = agent[x].epoch
              /\ agent[x].pc # "idle"
              /\ agent'[x].pc = "hold" => agent[x].pc = "hold" /\ agent'[x].amount = agent[x].amount
  PROVE  AgentsKnow'
<1> SUFFICES ASSUME NEW x \in AgentRuns, agent'[x].pc # "idle"
             PROVE  /\ agent'[x].turn \in Turns /\ agent'[x].epoch \in Epochs
                    /\ agent'[x].pc = "hold" =>
                         /\ agent'[x].amount \in Amounts
                         /\ \A m \in Epochs :
                              m < agent'[x].epoch => row'[agent'[x].turn][m].status \in Over
  BY DEF AgentsKnow
<1>1. /\ agent'[x].turn = agent[x].turn /\ agent'[x].epoch = agent[x].epoch
      /\ agent[x].pc # "idle"
      /\ agent'[x].pc = "hold" => agent[x].pc = "hold" /\ agent'[x].amount = agent[x].amount
  OBVIOUS
<1>2. agent[x].turn \in Turns /\ agent[x].epoch \in Epochs
  BY <1>1 DEF AgentsKnow
<1> QED
  BY <1>1, <1>2 DEF AgentsKnow

\* An agent goes to another place, or stops, and changes nothing else of its record.
Moves(x) ==
  /\ \A y \in AgentRuns \ {x} : agent'[y] = agent[y]
  /\ \/ agent'[x] = NoRun
     \/ /\ agent'[x].turn = agent[x].turn /\ agent'[x].epoch = agent[x].epoch
        /\ agent'[x].pc # "hold"

\* One agent moves, and all know what they knew.
LEMMA MovesFollow ==
  ASSUME BudgetTypeOK, AgentsKnow, NEW x \in AgentRuns, agent[x].pc # "idle", Moves(x),
         \A t \in Turns, n \in Epochs : row[t][n].status \in Over => row'[t][n].status \in Over
  PROVE  AgentsKnow'
<1>1. \A y \in AgentRuns :
           \/ agent'[y].pc = "idle"
           \/ /\ agent'[y].turn = agent[y].turn /\ agent'[y].epoch = agent[y].epoch
              /\ agent[y].pc # "idle"
              /\ agent'[y].pc = "hold" => agent[y].pc = "hold" /\ agent'[y].amount = agent[y].amount
  BY DEF Moves, NoRun, RunAt
<1> QED
  BY <1>1, AgentsFollow

\* A live row is claimed, settled or released: what is over stays so.
LEMMA LiveRowMoves ==
  ASSUME BudgetInv, NEW x \in AgentRuns, agent[x].pc # "idle", MyRow(x).status \in Live,
         NEW s \in {"CLAIMED", "SETTLED", "RELEASED"}, SetMyRow(x, s), account'.open = account.open
  PROVE  /\ row' \in [Turns -> [Epochs -> HoldRecord]]
         /\ agent[x].turn \in Turns /\ agent[x].epoch \in Epochs /\ account.open
         /\ row'[agent[x].turn][agent[x].epoch]
              = [status |-> s, amount |-> IF s \in Live THEN MyRow(x).amount ELSE 0]
         /\ \A t \in Turns, n \in Epochs : <<t, n>> # MyKey(x) => row'[t][n] = row[t][n]
         /\ \A t \in Turns, n \in Epochs : row[t][n].status \in Over => row'[t][n].status \in Over
         /\ InOrder' /\ RowsHold'
<1> DEFINE t == agent[x].turn
           n == agent[x].epoch
           new == [status |-> s, amount |-> IF s \in Live THEN row[t][n].amount ELSE 0]
<1>1. t \in Turns /\ n \in Epochs
  BY DEF BudgetInv, AgentsKnow
<1>2. row[t][n] \in HoldRecord
  BY <1>1 DEF BudgetInv, BudgetTypeOK, HoldRecord
<1>3. new \in HoldRecord
  BY <1>2 DEF HoldRecord, RowStatus
<1>4. row' = [row EXCEPT ![t][n] = new]
  BY DEF SetMyRow
<1>5. /\ row' \in [Turns -> [Epochs -> HoldRecord]]
      /\ row'[t][n] = new
      /\ \A u \in Turns, m \in Epochs : <<u, m>> # <<t, n>> => row'[u][m] = row[u][m]
  <2> HIDE DEF t, n, new
  <2> QED
    BY <1>1, <1>3, <1>4, RowTypes DEF BudgetInv
<1>6. row[t][n].status \in Live /\ row[t][n].status # "NONE" /\ row[t][n].status \notin Over
  BY DEF MyRow, Live, Over
<1>7. account.open
  BY <1>1, <1>6 DEF BudgetInv, RowsHold
<1>8. \A u \in Turns, m \in Epochs :
        /\ row[u][m].status \in Over => row'[u][m].status \in Over
        /\ row'[u][m].status # "NONE" => row[u][m].status # "NONE"
  BY <1>1, <1>5, <1>6
<1>9. InOrder'
  BY <1>8 DEF BudgetInv, InOrder
<1>10. RowsHold'
  <2> SUFFICES ASSUME NEW u \in Turns, NEW m \in Epochs
               PROVE  /\ row'[u][m].status \notin Live => row'[u][m].amount = 0
                      /\ row'[u][m].amount \in Amounts \union {0}
    BY <1>7 DEF RowsHold
  <2>1. CASE <<u, m>> = <<t, n>>
    <3>1. row[t][n].amount \in Amounts \union {0}
      BY <1>1 DEF BudgetInv, RowsHold
    <3> QED
      BY <1>5, <2>1, <3>1
  <2>2. CASE <<u, m>> # <<t, n>>
    BY <1>5, <2>2 DEF BudgetInv, RowsHold
  <2> QED
    BY <2>1, <2>2
<1> QED
  BY <1>1, <1>5, <1>7, <1>8, <1>9, <1>10 DEF MyRow, MyKey

\* The first free key comes after keys that are over.
LEMMA FirstFree ==
  ASSUME BudgetInv, NEW t \in Turns, LiveEpochs(t) = {}, FreeEpochs(t) # {}
  PROVE  /\ Min(FreeEpochs(t)) \in Epochs
         /\ \A m \in Epochs : m < Min(FreeEpochs(t)) => row[t][m].status \in Over
<1> DEFINE F == FreeEpochs(t)
<1>1. F # {} /\ F \in SUBSET Nat /\ F \subseteq Epochs /\ Epochs \subseteq Nat
  BY BudgetAssumption DEF FreeEpochs, Epochs
<1>2. PICK k \in F : \A m \in F : k <= m
  <2> HIDE DEF F
  <2> QED
    BY <1>1, LeastNumber
<1>3. Min(F) \in F /\ \A m \in F : Min(F) <= m
  BY <1>2 DEF Min
<1>4. ASSUME NEW m \in Epochs, m < Min(F) PROVE row[t][m].status \in Over
  <2>1. m \notin F
    BY <1>1, <1>3, <1>4
  <2>2. row[t][m].status # "NONE" /\ row[t][m].status \notin Live
    BY <2>1 DEF FreeEpochs, LiveEpochs
  <2>3. row[t][m].status \in RowStatus
    BY DEF BudgetInv, BudgetTypeOK
  <2> QED
    BY <2>2, <2>3 DEF RowStatus, Live, Over
<1> QED
  BY <1>1, <1>3, <1>4

\* An agent resolves the hold of its turn: the live one, or the first free epoch, before
\* which every one is over.
LEMMA ResolveKeeps == ASSUME BudgetInv, NEW x \in AgentRuns, Resolve(x) PROVE BudgetInv'
<1>1. PICK t \in Turns, amount \in Amounts :
        \/ \E n \in LiveEpochs(t) :
             agent' = [agent EXCEPT ![x] = RunAt("claim", t, n, 0)]
        \/ /\ LiveEpochs(t) = {} /\ FreeEpochs(t) # {}
           /\ agent' = [agent EXCEPT ![x] = RunAt("hold", t, Min(FreeEpochs(t)), amount)]
  BY DEF Resolve
<1>2. PICK new \in AgentRecord :
        /\ agent' = [agent EXCEPT ![x] = new]
        /\ new.turn \in Turns /\ new.epoch \in Epochs
        /\ new.pc = "hold" =>
             /\ new.amount \in Amounts
             /\ \A m \in Epochs : m < new.epoch => row[new.turn][m].status \in Over
  <2>1. CASE \E n \in LiveEpochs(t) :
               agent' = [agent EXCEPT ![x] = RunAt("claim", t, n, 0)]
    <3>1. PICK n \in LiveEpochs(t) :
            agent' = [agent EXCEPT ![x] = RunAt("claim", t, n, 0)]
      BY <2>1
    <3> DEFINE r == RunAt("claim", t, n, 0)
    <3>2. n \in Epochs /\ "claim" \in AgentPlaces
      BY DEF LiveEpochs, AgentPlaces
    <3>3. r \in AgentRecord /\ r.turn = t /\ r.epoch = n /\ r.pc = "claim"
      BY <3>2, RunAtTypes
    <3> HIDE DEF r
    <3> QED
      BY <3>1, <3>2, <3>3 DEF r
  <2>2. CASE /\ LiveEpochs(t) = {} /\ FreeEpochs(t) # {}
             /\ agent' = [agent EXCEPT ![x] = RunAt("hold", t, Min(FreeEpochs(t)), amount)]
    <3> DEFINE k == Min(FreeEpochs(t))
               r == RunAt("hold", t, k, amount)
    <3>1. k \in Epochs /\ \A m \in Epochs : m < k => row[t][m].status \in Over
      BY <2>2, FirstFree
    <3>2. amount \in Nat /\ "hold" \in AgentPlaces
      BY BudgetAssumption DEF AgentPlaces
    <3>3. agent' = [agent EXCEPT ![x] = r]
      BY <2>2
    <3> HIDE DEF k
    <3>4. r \in AgentRecord /\ r.turn = t /\ r.epoch = k /\ r.amount = amount
      BY <3>1, <3>2, RunAtTypes
    <3> HIDE DEF r
    <3> QED
      BY <3>1, <3>3, <3>4
  <2> QED
    BY <1>1, <2>1, <2>2
<1>3. UNCHANGED <<row, account, entries, left, direct, crashes>>
  BY DEF Resolve
<1>4. BudgetTypeOK'
  BY <1>2, <1>3 DEF BudgetInv, BudgetTypeOK, AgentRecord
<1>5. AgentsKnow'
  <2> SUFFICES ASSUME NEW y \in AgentRuns
               PROVE  /\ agent'[y].pc # "idle" => agent'[y].turn \in Turns /\ agent'[y].epoch \in Epochs
                      /\ agent'[y].pc = "hold" =>
                           /\ agent'[y].amount \in Amounts
                           /\ \A m \in Epochs :
                                m < agent'[y].epoch => row[agent'[y].turn][m].status \in Over
    BY <1>3 DEF AgentsKnow
  <2>1. agent'[y] = IF y = x THEN new ELSE agent[y]
    BY <1>2 DEF BudgetInv, BudgetTypeOK
  <2> QED
    BY <1>2, <2>1 DEF BudgetInv, AgentsKnow
<1> QED
  BY <1>3, <1>4, <1>5, BooksStay DEF BudgetInv

\* The other steps of an agent move it, or stop it.
LEMMA AgentMoves ==
  ASSUME BudgetTypeOK, NEW x \in AgentRuns, NEW new \in AgentRecord, agent' = [agent EXCEPT ![x] = new],
         \/ new = NoRun
         \/ new.turn = agent[x].turn /\ new.epoch = agent[x].epoch /\ new.pc # "hold"
  PROVE  agent' \in [AgentRuns -> AgentRecord] /\ Moves(x)
BY DEF BudgetTypeOK, AgentRecord, Moves

\* The record of an agent.
LEMMA MyRecord ==
  ASSUME BudgetTypeOK, NEW x \in AgentRuns
  PROVE  agent[x] \in AgentRecord /\ agent \in [AgentRuns -> AgentRecord]
BY DEF BudgetTypeOK, AgentRecord

\* Stopping and going on are moves.
LEMMA StopsMoves ==
  ASSUME BudgetTypeOK, NEW x \in AgentRuns, AgentStops(x)
  PROVE  agent' \in [AgentRuns -> AgentRecord] /\ Moves(x)
BY RunTypes, AgentMoves DEF AgentStops

LEMMA ToMoves ==
  ASSUME BudgetTypeOK, NEW x \in AgentRuns, NEW pc \in AgentPlaces \ {"hold"}, AgentTo(x, pc)
  PROVE  agent' \in [AgentRuns -> AgentRecord] /\ Moves(x)
<1> DEFINE new == [agent[x] EXCEPT !.pc = pc]
<1>1. new \in AgentRecord
  BY MyRecord, RunTypes
<1>2. new.turn = agent[x].turn /\ new.epoch = agent[x].epoch /\ new.pc = pc
  BY MyRecord DEF AgentRecord
<1>3. agent' = [agent EXCEPT ![x] = new]
  BY DEF AgentTo
<1> HIDE DEF new
<1> QED
  BY <1>1, <1>2, <1>3, AgentMoves

\* Each step keeps the invariant: the call of the model and the death of an agent
\* touch no row,
LEMMA CallKeeps == ASSUME BudgetInv, NEW x \in AgentRuns, Call(x) PROVE BudgetInv'
<1>1. agent[x].pc # "idle" /\ UNCHANGED <<row, account, entries, left, direct, crashes>>
  BY DEF Call, AgentAt
<1>2. agent' \in [AgentRuns -> AgentRecord] /\ Moves(x)
  <2>1. ASSUME NEW cost \in Costs,
               agent' = [agent EXCEPT ![x].pc = "settle", ![x].cost = cost]
        PROVE  agent' \in [AgentRuns -> AgentRecord] /\ Moves(x)
    <3> DEFINE new == [agent[x] EXCEPT !.pc = "settle", !.cost = cost]
    <3>1. new \in AgentRecord /\ new.turn = agent[x].turn /\ new.epoch = agent[x].epoch
          /\ new.pc = "settle"
      BY MyRecord, BudgetAssumption DEF AgentRecord, AgentPlaces, BudgetInv
    <3>2. agent' = [agent EXCEPT ![x] = new]
      BY <2>1, MyRecord DEF BudgetInv
    <3> HIDE DEF new
    <3> QED
      BY <3>1, <3>2, AgentMoves DEF BudgetInv
  <2>2. ASSUME AgentTo(x, "release") PROVE agent' \in [AgentRuns -> AgentRecord] /\ Moves(x)
    BY <2>2, ToMoves DEF BudgetInv, AgentPlaces
  <2> QED
    BY <2>1, <2>2 DEF Call
<1>3. BudgetTypeOK'
  BY <1>1, <1>2 DEF BudgetInv, BudgetTypeOK, AgentRecord
<1>4. AgentsKnow'
  BY <1>1, <1>2, MovesFollow DEF BudgetInv
<1> QED
  BY <1>1, <1>3, <1>4, BooksStay DEF BudgetInv

LEMMA DiesKeeps == ASSUME BudgetInv, NEW x \in AgentRuns, AgentDies(x) PROVE BudgetInv'
<1>1. agent[x].pc # "idle" /\ UNCHANGED <<row, account, entries, direct>>
  BY DEF AgentDies, AgentAt
<1>2. agent' \in [AgentRuns -> AgentRecord] /\ Moves(x)
  BY StopsMoves DEF AgentDies, BudgetInv
<1>3. left' \subseteq Turns \X Epochs
  <2>1. agent[x].turn \in Turns /\ agent[x].epoch \in Epochs
    BY <1>1 DEF BudgetInv, AgentsKnow
  <2> QED
    BY <2>1 DEF AgentDies, MyKey, BudgetInv, BudgetTypeOK
<1>4. crashes' \in 0..MaxCrashes
  BY BudgetAssumption DEF AgentDies, BudgetInv, BudgetTypeOK
<1>5. BudgetTypeOK'
  BY <1>1, <1>2, <1>3, <1>4 DEF BudgetInv, BudgetTypeOK, AgentRecord
<1>6. AgentsKnow'
  BY <1>1, <1>2, MovesFollow DEF BudgetInv
<1> QED
  BY <1>1, <1>5, <1>6, BooksStay DEF BudgetInv

\* a cost recorded beside the account changes the entries alone,
LEMMA RecordKeeps == ASSUME BudgetInv, RecordCost PROVE BudgetInv'
<1>1. UNCHANGED <<row, account, agent, left, crashes>> /\ direct' = direct + 1
  BY DEF RecordCost
<1>2. BudgetTypeOK'
  BY BudgetAssumption DEF RecordCost, BudgetInv, BudgetTypeOK
<1>3. InOrder' /\ AgentsKnow' /\ RowsHold' /\ HardBudget'
  BY <1>1 DEF BudgetInv, InOrder, AgentsKnow, RowsHold, HardBudget
<1>4. Balanced'
  BY <1>1 DEF BudgetInv, BudgetTypeOK, Balanced, Stuck, Held, AmountOf
<1> QED
  BY <1>2, <1>3, <1>4 DEF BudgetInv

\* a claim leaves the amount of the hold alone,
LEMMA ClaimKeeps == ASSUME BudgetInv, NEW x \in AgentRuns, Claim(x) PROVE BudgetInv'
<1>1. agent[x].pc # "idle" /\ UNCHANGED <<account, entries, left, direct, crashes>>
  BY DEF Claim, AgentAt
<1>2. CASE MyRow(x).status \in Live
  <2>1. SetMyRow(x, "CLAIMED") /\ AgentTo(x, "call")
    BY <1>2 DEF Claim
  <2> DEFINE t == agent[x].turn
             n == agent[x].epoch
  <2>2. /\ row' \in [Turns -> [Epochs -> HoldRecord]] /\ t \in Turns /\ n \in Epochs
        /\ row'[t][n] = [status |-> "CLAIMED", amount |-> row[t][n].amount]
        /\ \A u \in Turns, m \in Epochs : <<u, m>> # <<t, n>> => row'[u][m] = row[u][m]
        /\ \A u \in Turns, m \in Epochs : row[u][m].status \in Over => row'[u][m].status \in Over
        /\ InOrder' /\ RowsHold'
    BY <1>1, <1>2, <2>1, LiveRowMoves DEF MyRow, MyKey, Live
  <2>3. agent' \in [AgentRuns -> AgentRecord] /\ Moves(x)
    BY <2>1, ToMoves DEF BudgetInv, AgentPlaces
  <2>4. BudgetTypeOK'
    BY <1>1, <2>2, <2>3 DEF BudgetInv, BudgetTypeOK, AgentRecord, HoldRecord
  <2>5. AgentsKnow'
    BY <1>1, <2>2, <2>3, MovesFollow DEF BudgetInv
  <2>6. Held' = Held
    <3>1. Held' = Held - row[t][n].amount + row'[t][n].amount
      <4> HIDE DEF t, n
      <4> QED
        BY <2>2, <2>4, SumFollows DEF BudgetInv
    <3>2. row[t][n].amount \in Nat /\ Held \in Nat
      BY <2>2, BalanceTypes DEF BudgetInv, BudgetTypeOK
    <3> QED
      BY <2>2, <3>1, <3>2
  <2>7. Balanced' /\ HardBudget'
    BY <1>1, <2>6 DEF BudgetInv, Balanced, Stuck, HardBudget
  <2> QED
    BY <2>2, <2>4, <2>5, <2>7 DEF BudgetInv
<1>3. CASE MyRow(x).status \notin Live
  <2>1. AgentStops(x) /\ UNCHANGED row
    BY <1>3 DEF Claim
  <2>2. agent' \in [AgentRuns -> AgentRecord] /\ Moves(x)
    BY <2>1, StopsMoves DEF BudgetInv
  <2>3. BudgetTypeOK'
    BY <1>1, <2>1, <2>2 DEF BudgetInv, BudgetTypeOK, AgentRecord
  <2>4. AgentsKnow'
    BY <1>1, <2>1, <2>2, MovesFollow DEF BudgetInv
  <2> QED
    BY <1>1, <2>1, <2>3, <2>4, BooksStay DEF BudgetInv
<1> QED
  BY <1>2, <1>3

\* the type of an account
AccountRecord == [open: BOOLEAN, spent: Nat, reserved: Nat, rounded: BOOLEAN]

\* What the conditional update writes.
LEMMA LessTypes ==
  ASSUME BudgetTypeOK, NEW amount \in Nat, NEW cost \in Nat, account.reserved >= amount
  PROVE  /\ Less(amount, cost) \in AccountRecord
         /\ Less(amount, cost).open = account.open
         /\ Less(amount, cost).reserved = account.reserved - amount
         /\ Less(amount, cost).spent = account.spent + cost
         /\ Less(amount, cost).rounded = (account.rounded /\ account.reserved > amount)
<1>1. account \in AccountRecord
  BY DEF BudgetTypeOK, AccountRecord
<1>2. account.reserved - amount \in Nat /\ account.spent + cost \in Nat
  BY <1>1 DEF AccountRecord
<1>3. (account.rounded /\ account.reserved > amount) \in BOOLEAN
  OBVIOUS
<1>4. PICK r \in Nat, p \in Nat, b \in BOOLEAN :
        /\ r = account.reserved - amount /\ p = account.spent + cost
        /\ b = (account.rounded /\ account.reserved > amount)
  BY <1>2, <1>3, Zenon
<1> DEFINE a == [account EXCEPT !.reserved = r, !.spent = p, !.rounded = b]
<1>5. Less(amount, cost) = a
  BY <1>4, Zenon DEF Less
<1>6. a \in AccountRecord /\ a.open = account.open /\ a.reserved = r /\ a.spent = p /\ a.rounded = b
  BY <1>1 DEF AccountRecord
<1> HIDE DEF a
<1> QED
  BY <1>4, <1>5, <1>6, Zenon

\* A hold is over, and the update of the account has found it or has missed it.
Ends(t, n, cost) ==
  \E applied \in GiveBack(row[t][n].amount) :
    account' = IF applied THEN Less(row[t][n].amount, cost) ELSE account

\* The account stays one.
LEMMA EndsTypes ==
  ASSUME BudgetTypeOK, NEW t \in Turns, NEW n \in Epochs, NEW cost \in Nat, Ends(t, n, cost)
  PROVE  account' \in AccountRecord /\ account'.open = account.open
<1>1. row[t][n].amount \in Nat
  BY DEF BudgetTypeOK
<1>2. CASE account' = account
  BY <1>2 DEF BudgetTypeOK, AccountRecord
<1>3. CASE account.reserved >= row[t][n].amount /\ account' = Less(row[t][n].amount, cost)
  BY <1>1, <1>3, LessTypes
<1> QED
  BY <1>2, <1>3 DEF Ends, GiveBack, Covers

\* The account covers what is over; when its update misses, that was the last hold,
\* and nothing else was stuck.
LEMMA EndsBalance ==
  ASSUME BudgetInv, BudgetTypeOK', NEW t \in Turns, NEW n \in Epochs, NEW cost \in Nat,
         cost <= row[t][n].amount, Ends(t, n, cost), row[t][n].status \in Live,
         row'[t][n].amount = 0,
         \A u \in Turns, m \in Epochs : <<u, m>> # <<t, n>> => row'[u][m] = row[u][m],
         entries' = entries + cost, direct' = direct
  PROVE  Balanced' /\ HardBudget'
<1> DEFINE amount == row[t][n].amount
<1>1. amount \in Nat /\ Held >= amount /\ amount \in Amounts \union {0}
  BY CoversRow DEF BudgetInv, RowsHold
<1>2. Held \in Nat /\ account.reserved \in Nat /\ Stuck \in Nat /\ account.reserved = Held + Stuck
  BY BalanceTypes DEF BudgetInv
<1>3. Held' = Held - amount
  <2>1. Held' = Held - amount + row'[t][n].amount
    <3> HIDE DEF amount
    <3> QED
      BY SumFollows DEF BudgetInv, amount
  <2> QED
    BY <1>1, <1>2, <2>1
<1>4. account.open /\ account.spent \in Nat /\ entries \in Nat /\ Limit \in Nat
  BY BudgetAssumption DEF BudgetInv, RowsHold, Live, BudgetTypeOK
<1>5. /\ Stuck \in Amounts \union {0} /\ (Stuck > 0 => account.rounded)
      /\ direct = 0 => account.spent <= entries /\ entries <= account.spent + Stuck
      /\ account.spent + account.reserved <= Limit
  BY <1>4 DEF BudgetInv, Balanced, HardBudget
<1> HIDE DEF amount
<1>6. CASE account.reserved >= amount /\ account' = Less(amount, cost)
  <2>1. /\ account'.open = account.open
        /\ account'.reserved = account.reserved - amount
        /\ account'.spent = account.spent + cost
        /\ account'.rounded = (account.rounded /\ account.reserved > amount)
    BY <1>1, <1>6, LessTypes DEF BudgetInv
  <2>2. Stuck' = Stuck
    BY <1>1, <1>2, <1>3, <2>1 DEF Stuck
  <2>3. Stuck > 0 => account.reserved > amount
    BY <1>1, <1>2
  <2>4. Stuck' \in Amounts \union {0} /\ (Stuck' > 0 => account'.rounded)
    BY <1>5, <2>1, <2>2, <2>3
  <2>5. direct' = 0 => account'.spent <= entries' /\ entries' <= account'.spent + Stuck'
    BY <1>2, <1>4, <1>5, <2>1, <2>2
  <2>6. account'.open /\ account'.spent + account'.reserved <= Limit
    BY <1>1, <1>2, <1>4, <1>5, <2>1 DEF amount
  <2> QED
    BY <2>4, <2>5, <2>6 DEF Balanced, HardBudget
<1>7. CASE Misses(amount) /\ account' = account
  <2>1. account.rounded /\ amount > 0 /\ account.reserved = amount
    BY <1>1, <1>2, <1>7 DEF Misses
  <2>2. Stuck = 0 /\ Held = amount
    BY <1>1, <1>2, <2>1
  <2>3. Stuck' = amount
    BY <1>1, <1>2, <1>3, <1>7, <2>1, <2>2 DEF Stuck
  <2>4. Stuck' \in Amounts \union {0} /\ account'.rounded
    BY <1>1, <1>7, <2>1, <2>3
  <2>5. direct' = 0 => account'.spent <= entries' /\ entries' <= account'.spent + Stuck'
    BY <1>1, <1>4, <1>5, <1>7, <2>2, <2>3 DEF amount
  <2> QED
    BY <1>4, <1>5, <1>7, <2>4, <2>5 DEF Balanced, HardBudget
<1> QED
  BY <1>6, <1>7 DEF Ends, GiveBack, Covers, amount

\* a settlement turns a hold into a cost it covers,
LEMMA SettleKeeps == ASSUME BudgetInv, NEW x \in AgentRuns, Settle(x) PROVE BudgetInv'
<1> DEFINE t == agent[x].turn
           n == agent[x].epoch
           amount == row[t][n].amount
           cost == agent[x].cost
<1>1. /\ agent[x].pc # "idle" /\ UNCHANGED <<direct, crashes>>
      /\ agent' \in [AgentRuns -> AgentRecord] /\ Moves(x)
  BY StopsMoves DEF Settle, AgentAt, BudgetInv
<1>2. t \in Turns /\ n \in Epochs /\ amount \in Nat /\ cost \in Nat
  BY <1>1 DEF BudgetInv, AgentsKnow, BudgetTypeOK
<1>3. CASE row[t][n].status = "CLAIMED" /\ cost <= amount
  <2>1. /\ SetMyRow(x, "SETTLED") /\ left' = left \ {MyKey(x)} /\ entries' = entries + cost
        /\ Ends(t, n, cost)
    BY <1>3 DEF Settle, MyRow, Ends
  <2>2. account' \in AccountRecord /\ account'.open = account.open
    BY <1>2, <2>1, EndsTypes DEF BudgetInv
  <2>3. entries \in Nat
    BY DEF BudgetInv, BudgetTypeOK
  <2>5. /\ row' \in [Turns -> [Epochs -> HoldRecord]] /\ account.open
        /\ row'[t][n] = [status |-> "SETTLED", amount |-> 0]
        /\ \A u \in Turns, m \in Epochs : <<u, m>> # <<t, n>> => row'[u][m] = row[u][m]
        /\ \A u \in Turns, m \in Epochs : row[u][m].status \in Over => row'[u][m].status \in Over
        /\ InOrder' /\ RowsHold'
    BY <1>1, <1>3, <2>1, <2>2, LiveRowMoves DEF MyRow, MyKey, Live
  <2>6. BudgetTypeOK'
    BY <1>1, <1>2, <2>1, <2>2, <2>3, <2>5
       DEF BudgetInv, BudgetTypeOK, AgentRecord, HoldRecord, AccountRecord
  <2>7. AgentsKnow'
    BY <1>1, <2>5, MovesFollow DEF BudgetInv
  <2>8. Balanced' /\ HardBudget'
    <3>1. row'[t][n].amount = 0 /\ row[t][n].status \in Live
      BY <1>3, <2>5 DEF Live
    <3> HIDE DEF t, n
    <3> QED
      BY <1>1, <1>2, <1>3, <2>1, <2>5, <2>6, <3>1, EndsBalance DEF amount
  <2> QED
    BY <2>5, <2>6, <2>7, <2>8 DEF BudgetInv
<1>4. CASE ~(row[t][n].status = "CLAIMED" /\ cost <= amount)
  <2>1. UNCHANGED <<row, account, entries>>
        /\ left' = IF MyRow(x).status \in Live THEN left \union {MyKey(x)} ELSE left
    BY <1>4 DEF Settle, MyRow
  <2>2. left' \subseteq Turns \X Epochs
    BY <1>2, <2>1 DEF MyKey, BudgetInv, BudgetTypeOK
  <2>3. BudgetTypeOK'
    BY <1>1, <2>1, <2>2 DEF BudgetInv, BudgetTypeOK, AgentRecord
  <2>4. AgentsKnow'
    BY <1>1, <2>1, MovesFollow DEF BudgetInv
  <2> QED
    BY <1>1, <2>1, <2>3, <2>4, BooksStay DEF BudgetInv
<1> QED
  BY <1>3, <1>4

\* a release gives the hold back,
LEMMA ReleaseKeeps == ASSUME BudgetInv, NEW x \in AgentRuns, ReleaseHold(x) PROVE BudgetInv'
<1> DEFINE t == agent[x].turn
           n == agent[x].epoch
           amount == row[t][n].amount
<1>1. /\ agent[x].pc # "idle" /\ UNCHANGED <<entries, direct, crashes>>
      /\ agent' \in [AgentRuns -> AgentRecord] /\ Moves(x)
  BY StopsMoves DEF ReleaseHold, AgentAt, BudgetInv
<1>2. t \in Turns /\ n \in Epochs /\ amount \in Nat
  BY <1>1 DEF BudgetInv, AgentsKnow, BudgetTypeOK
<1>3. CASE row[t][n].status = "CLAIMED"
  <2>1. /\ SetMyRow(x, "RELEASED") /\ left' = left \ {MyKey(x)}
        /\ Ends(t, n, 0)
    BY <1>3 DEF ReleaseHold, MyRow, Ends
  <2>2. account' \in AccountRecord /\ account'.open = account.open
    BY <1>2, <2>1, EndsTypes DEF BudgetInv
  <2>5. /\ row' \in [Turns -> [Epochs -> HoldRecord]] /\ account.open
        /\ row'[t][n] = [status |-> "RELEASED", amount |-> 0]
        /\ \A u \in Turns, m \in Epochs : <<u, m>> # <<t, n>> => row'[u][m] = row[u][m]
        /\ \A u \in Turns, m \in Epochs : row[u][m].status \in Over => row'[u][m].status \in Over
        /\ InOrder' /\ RowsHold'
    BY <1>1, <1>3, <2>1, <2>2, LiveRowMoves DEF MyRow, MyKey, Live
  <2>6. BudgetTypeOK'
    BY <1>1, <1>2, <2>1, <2>2, <2>5
       DEF BudgetInv, BudgetTypeOK, AgentRecord, HoldRecord, AccountRecord
  <2>7. AgentsKnow'
    BY <1>1, <2>5, MovesFollow DEF BudgetInv
  <2>8. Balanced' /\ HardBudget'
    <3>1. row'[t][n].amount = 0 /\ row[t][n].status \in Live
      BY <1>3, <2>5 DEF Live
    <3>2. entries' = entries + 0 /\ 0 <= row[t][n].amount
      BY <1>1, <1>2 DEF BudgetInv, BudgetTypeOK
    <3> HIDE DEF t, n
    <3> QED
      BY <1>1, <1>2, <2>1, <2>5, <2>6, <3>1, <3>2, EndsBalance
  <2> QED
    BY <2>5, <2>6, <2>7, <2>8 DEF BudgetInv
<1>4. CASE row[t][n].status # "CLAIMED"
  <2>1. UNCHANGED <<row, account, left>>
    BY <1>4 DEF ReleaseHold, MyRow
  <2>2. BudgetTypeOK'
    BY <1>1, <2>1 DEF BudgetInv, BudgetTypeOK, AgentRecord
  <2>3. AgentsKnow'
    BY <1>1, <2>1, MovesFollow DEF BudgetInv
  <2> QED
    BY <1>1, <2>1, <2>2, <2>3, BooksStay DEF BudgetInv
<1> QED
  BY <1>3, <1>4

\* and a new hold is the only live one of its turn, within the limit.
LEMMA HoldKeeps == ASSUME BudgetInv, NEW x \in AgentRuns, Hold(x) PROVE BudgetInv'
<1> DEFINE t == agent[x].turn
           n == agent[x].epoch
           amount == agent[x].amount
<1>1. agent[x].pc = "hold" /\ UNCHANGED <<entries, left, direct, crashes>>
  BY DEF Hold, AgentAt
<1>2. t \in Turns /\ n \in Epochs /\ amount \in Nat /\ amount \in Amounts
  BY <1>1 DEF BudgetInv, AgentsKnow, BudgetTypeOK
<1>3. CASE Admitted(amount) /\ row[t][n].status = "NONE"
  <2> DEFINE new == [status |-> "RESERVED", amount |-> amount]
  <2>1. /\ account' = [Opened EXCEPT !.reserved = @ + amount, !.rounded = Opened.reserved > 0]
        /\ row' = [row EXCEPT ![t][n] = new]
        /\ agent' = [agent EXCEPT ![x].pc = "claim", ![x].amount = 0]
    BY <1>3 DEF Hold, MyRow
  <2>2. /\ Opened \in AccountRecord /\ Opened.open
        /\ Opened.reserved = account.reserved
        /\ direct = 0 => Opened.spent <= entries /\ entries <= Opened.spent + Stuck
    <3>1. Stuck \in Nat /\ entries \in Nat
      BY BalanceTypes DEF BudgetInv, BudgetTypeOK
    <3>2. CASE account.open
      BY <3>2 DEF Opened, BudgetInv, BudgetTypeOK, Balanced, AccountRecord
    <3>3. CASE ~account.open
      BY <3>1, <3>3 DEF Opened, BudgetInv, Balanced, AccountRecord
    <3> QED
      BY <3>2, <3>3
  <2>3. /\ account' \in AccountRecord /\ account'.open
        /\ account'.reserved = account.reserved + amount
        /\ account'.spent = Opened.spent
        /\ account'.rounded = (account.reserved > 0)
    <3> HIDE DEF amount
    <3>1. Opened.reserved + amount \in Nat /\ (Opened.reserved > 0) \in BOOLEAN
      BY <1>2, <2>2 DEF AccountRecord
    <3> QED
      BY <2>1, <2>2, <3>1 DEF AccountRecord
  <2>4. new \in HoldRecord
    BY <1>2 DEF HoldRecord, RowStatus
  <2>5. /\ row' \in [Turns -> [Epochs -> HoldRecord]] /\ row'[t][n] = new
        /\ \A u \in Turns, m \in Epochs : <<u, m>> # <<t, n>> => row'[u][m] = row[u][m]
    <3> HIDE DEF t, n, new
    <3> QED
      BY <1>2, <2>1, <2>4, RowTypes DEF BudgetInv
  <2>6. agent' \in [AgentRuns -> AgentRecord] /\ Moves(x)
    <3> DEFINE to == [agent[x] EXCEPT !.pc = "claim", !.amount = 0]
    <3>1. to \in AgentRecord /\ to.turn = t /\ to.epoch = n /\ to.pc = "claim"
      BY MyRecord DEF AgentRecord, AgentPlaces, BudgetInv
    <3>2. agent' = [agent EXCEPT ![x] = to]
      BY <2>1, MyRecord DEF BudgetInv
    <3> HIDE DEF to
    <3> QED
      BY <3>1, <3>2, AgentMoves DEF BudgetInv
  <2>7. BudgetTypeOK'
    BY <1>1, <2>3, <2>5, <2>6 DEF BudgetInv, BudgetTypeOK, AgentRecord, HoldRecord, AccountRecord
  <2>8. \A u \in Turns, m \in Epochs : row[u][m].status \in Over => row'[u][m].status \in Over
    BY <1>2, <1>3, <2>5 DEF Over
  <2>9. AgentsKnow'
    BY <1>1, <2>6, <2>8, MovesFollow DEF BudgetInv
  <2>10. InOrder'
    <3> SUFFICES ASSUME NEW u \in Turns, NEW k \in Epochs, row'[u][k].status # "NONE",
                        NEW m \in Epochs, m < k
                 PROVE  row'[u][m].status \in Over
      BY DEF InOrder
    <3>1. CASE u = t /\ k = n
      <4>1. row[t][m].status \in Over
        BY <1>1, <3>1 DEF BudgetInv, AgentsKnow
      <4> QED
        BY <2>8, <3>1, <4>1
    <3>2. CASE ~(u = t /\ k = n)
      <4>1. row[u][k].status # "NONE"
        BY <2>5, <3>2
      <4>2. row[u][m].status \in Over
        BY <4>1 DEF BudgetInv, InOrder
      <4> QED
        BY <2>8, <4>2
    <3> QED
      BY <3>1, <3>2
  <2>11. RowsHold'
    <3> SUFFICES ASSUME NEW u \in Turns, NEW m \in Epochs
                 PROVE  /\ row'[u][m].status \notin Live => row'[u][m].amount = 0
                        /\ row'[u][m].amount \in Amounts \union {0}
      BY <2>3 DEF RowsHold
    <3>1. CASE <<u, m>> = <<t, n>>
      BY <1>2, <2>5, <3>1 DEF Live
    <3>2. CASE <<u, m>> # <<t, n>>
      BY <2>5, <3>2 DEF BudgetInv, RowsHold
    <3> QED
      BY <3>1, <3>2
  <2>12. Balanced'
    <3>1. row[t][n].amount = 0 /\ row'[t][n].amount = amount
      BY <1>2, <1>3, <2>5 DEF BudgetInv, RowsHold, Live
    <3>2. Held' = Held - row[t][n].amount + row'[t][n].amount
      <4> HIDE DEF t, n, new
      <4> QED
        BY <1>2, <2>5, <2>7, SumFollows DEF BudgetInv
    <3>3. Held \in Nat /\ account.reserved \in Nat /\ Stuck \in Nat /\ account.reserved = Held + Stuck
      BY BalanceTypes DEF BudgetInv
    <3>4. Stuck' = Stuck
      <4> HIDE DEF t, n, amount, new
      <4>1. Held' = Held + amount
        BY <1>2, <3>1, <3>2, <3>3
      <4>2. Stuck' = account'.reserved - Held'
        BY Zenon DEF Stuck
      <4>3. (account.reserved + amount) - (Held + amount) = Stuck
        BY <1>2, <3>3
      <4> QED
        BY <2>3, <4>1, <4>2, <4>3, Zenon
    <3>5. Stuck > 0 => account'.rounded
      <4>1. Stuck > 0 => account.reserved > 0
        BY <3>3
      <4> QED
        BY <2>3, <4>1, Zenon
    <3>6. Stuck \in Amounts \union {0}
      BY DEF BudgetInv, Balanced
    <3> QED
      BY <1>1, <2>2, <2>3, <3>4, <3>5, <3>6 DEF Balanced
  <2>13. HardBudget'
    BY <1>2, <1>3, <2>2, <2>3, BudgetAssumption DEF HardBudget, Admitted, AccountRecord
  <2> QED
    BY <2>7, <2>9, <2>10, <2>11, <2>12, <2>13 DEF BudgetInv
<1>4. CASE ~(Admitted(amount) /\ row[t][n].status = "NONE")
  <2>1. AgentStops(x) /\ UNCHANGED <<account, row>>
    BY <1>4 DEF Hold, MyRow
  <2>2. agent' \in [AgentRuns -> AgentRecord] /\ Moves(x)
    BY <2>1, StopsMoves DEF BudgetInv
  <2>3. BudgetTypeOK'
    BY <1>1, <2>1, <2>2 DEF BudgetInv, BudgetTypeOK, AgentRecord
  <2>4. AgentsKnow'
    BY <1>1, <2>1, <2>2, MovesFollow DEF BudgetInv
  <2> QED
    BY <1>1, <2>1, <2>3, <2>4, BooksStay DEF BudgetInv
<1> QED
  BY <1>3, <1>4

\* Every step keeps the invariant.
LEMMA BudgetStep == BudgetInv /\ [BudgetNext]_budgetVars => BudgetInv'
<1> SUFFICES ASSUME BudgetInv, [BudgetNext]_budgetVars PROVE BudgetInv'
  OBVIOUS
<1>1. CASE RecordCost
  BY <1>1, RecordKeeps
<1>2. ASSUME NEW x \in AgentRuns, Resolve(x) \/ Step(x) \/ AgentDies(x) PROVE BudgetInv'
  BY <1>2, ResolveKeeps, HoldKeeps, ClaimKeeps, CallKeeps, SettleKeeps, ReleaseKeeps, DiesKeeps
     DEF Step
<1>3. CASE UNCHANGED budgetVars
  <2>1. BudgetTypeOK' /\ AgentsKnow'
    BY <1>3 DEF budgetVars, BudgetInv, BudgetTypeOK, AgentsKnow
  <2> QED
    BY <1>3, <2>1, BooksStay DEF budgetVars, BudgetInv
<1> QED
  BY <1>1, <1>2, <1>3 DEF BudgetNext

\* The strengthened invariant of the budget holds in every state (budget_ledger.py:224).
THEOREM BudgetInductive == BudgetSpec => []BudgetInv
BY BudgetInitial, BudgetStep, PTL DEF BudgetSpec

\* A turn has one live hold at most, however its executions overlap, die and come
\* back (budget_ledger.py:224).
THEOREM TurnsHoldOnce == BudgetSpec => []OneLiveHold
<1>1. BudgetInv => OneLiveHold
  <2> SUFFICES ASSUME BudgetInv, NEW t \in Turns PROVE Cardinality(LiveEpochs(t)) <= 1
    BY DEF OneLiveHold, LiveEpochs
  <2>1. ASSUME NEW k \in LiveEpochs(t), NEW n \in LiveEpochs(t) PROVE k = n
    <3>1. k \in Nat /\ n \in Nat
      BY BudgetAssumption DEF LiveEpochs, Epochs
    <3>2. ~(k < n) /\ ~(n < k)
      BY DEF LiveEpochs, BudgetInv, InOrder, Live, Over
    <3> QED
      BY <3>1, <3>2
  <2> QED
    BY <2>1, AtMostOne
<1> QED
  BY <1>1, BudgetInductive, PTL

\* What the account reserves is the sum of the live holds, but for one hold at most
\* that rounding made its update miss, and of what the entries say it lacks the cost of
\* that one, while nothing is recorded beside it (budget_ledger.py:336, 365).
THEOREM AccountStaysBalanced == BudgetSpec => []AccountIsHolds
<1>1. BudgetInv => AccountIsHolds
  <2> SUFFICES ASSUME BudgetInv PROVE AccountIsHolds
    OBVIOUS
  <2> DEFINE LiveRows == {h \in Rows : row[h[1]][h[2]].status \in Live}
  <2>1. \A h \in Rows : AmountOf[h] \in Int
    BY AmountTypes DEF BudgetInv
  <2>2. \A h \in Rows \ LiveRows : AmountOf[h] = 0
    BY DEF BudgetInv, RowsHold, Rows, AmountOf
  <2>3. SumFunctionOnSet(AmountOf, LiveRows) = SumFunctionOnSet(AmountOf, Rows)
    <3>1. LiveRows \in SUBSET Rows
      OBVIOUS
    <3> HIDE DEF LiveRows
    <3> QED
      BY <2>1, <2>2, <3>1, RowsFinite, SumSupport
  <2> QED
    <3>1. AccountIsHolds <=>
            /\ account.reserved - SumFunctionOnSet(AmountOf, LiveRows) \in {0} \union Amounts
            /\ account.reserved - SumFunctionOnSet(AmountOf, LiveRows) > 0 => account.rounded
            /\ direct = 0 =>
                 /\ account.spent <= entries
                 /\ entries <= account.spent
                                 + (account.reserved - SumFunctionOnSet(AmountOf, LiveRows))
      BY DEF AccountIsHolds, AmountOf, Rows
    <3> HIDE DEF LiveRows
    <3> QED
      BY <2>3, <3>1 DEF BudgetInv, Balanced, Stuck, Held
<1> QED
  BY <1>1, BudgetInductive, PTL

\* The hard budget is never exceeded by what was settled and what is held together
\* (budget_ledger.py:408).
THEOREM BudgetIsHard == BudgetSpec => []HardBudget
BY BudgetInductive, PTL DEF BudgetInv

-------------------------------------------------------------------------------
(***************************************************************************)
(* The execution of works                                                  *)
(***************************************************************************)

\* the work has an executed run
Done(runs, w) == \E n \in Attempts : runs[w][n] = "EXECUTED"

\* the execution e has started its work
HasStarted(e) == e.pc \notin {"idle", "goal", "ready", "create", "start"}
\* where a started execution has not reported the run yet
Working == {"request_permit", "queue", "claim", "call", "mark_failed", "mark_unknown",
            "mark_executed"}
\* what a work says whose run was executed
Judged == {"EVALUATING", "ACCEPTED", "REJECTED"}

(***************************************************************************)
(* What an execution e may rely on.  Before it has started the work, only  *)
(* its version protects it: when it is still that of the work, its status  *)
(* is what was read, and no run was executed meanwhile.  From the start on *)
(* the work is its own: nobody moves it but this execution.                *)
(***************************************************************************)
Knows(e, works, runs) ==
  e.pc # "idle" =>
    /\ e.work \in Works /\ e.attempt \in Attempts
    /\ e.version <= works[e.work].version
    /\ e.pc \in {"goal", "ready"} /\ e.version = works[e.work].version =>
         /\ e.status = works[e.work].status
         /\ Done(runs, e.work) => e.status = "RUNNING"
    /\ e.pc \in {"create", "start"} /\ e.version = works[e.work].version =>
         works[e.work].status = "READY"
    /\ e.pc \in Working =>
         /\ e.version = works[e.work].version /\ works[e.work].status = "RUNNING"
         /\ ~Done(runs, e.work)
    /\ e.pc = "request_evaluation" =>
         /\ e.version = works[e.work].version /\ works[e.work].status = "RUNNING"
         /\ Done(runs, e.work)
    /\ e.pc = "judge" =>
         e.version = works[e.work].version /\ works[e.work].status = "EVALUATING"
    /\ e.pc \in {"look", "achieve"} => works[e.work].status = "ACCEPTED"
    /\ e.pc = "achieve" => \A w \in Works : works[w].status = "ACCEPTED"

\* Every execution knows what it relies on.
ExecutionsKnow == \A x \in Agents : Knows(exec[x], work, run)

\* No two executions have started one work.
Exclusive ==
  \A x, y \in Agents : HasStarted(exec[x]) /\ HasStarted(exec[y]) /\ Mine(x) = Mine(y) => x = y

\* A verdict rests on the one executed run, and a work with an executed run is on
\* its way to a verdict.
VerdictsRest ==
  \A w \in Works :
    /\ Done(run, w) => work[w].status \in Judged \union {"RUNNING"}
    /\ work[w].status \in Judged => Done(run, w)
    /\ \A n, m \in Attempts : run[w][n] = "EXECUTED" /\ run[w][m] = "EXECUTED" => n = m

\* The reclaim holds a run it has read in one of the statuses it advances.
ReclaimKnows ==
  reclaim # NoReclaim =>
    /\ reclaim.work \in Works /\ reclaim.attempt \in Attempts
    /\ reclaim.status \in {"CREATED", "PERMIT_PENDING", "QUEUED"}

\* The strengthened invariant of the execution.
ExecutionInv ==
  WorkExecutionTypeOK /\ ExecutionsKnow /\ Exclusive /\ VerdictsRest /\ ReclaimKnows

-------------------------------------------------------------------------------
(* What the transition tables allow. *)

LEMMA GoalMoves ==
  \A t \in GoalTransitions : /\ t[3] \in GoalStatus
                             /\ t[3] = "ACHIEVED" => t[2] = "achieve"
BY DEF GoalTransitions, GoalStatus, GoalTerminal

\* No work leaves ACCEPTED, and each command the service gives has one outcome.
LEMMA WorkMoves ==
  \A t \in WorkTransitions :
    /\ t[1] \in WorkStatus /\ t[3] \in WorkStatus /\ t[1] # "ACCEPTED"
    /\ t[2] \in {"make_ready", "retry"} =>
         t[1] \in {"PLANNED", "REJECTED", "UNKNOWN"} /\ t[3] = "READY"
    /\ t[2] = "start" => t[1] = "READY" /\ t[3] = "RUNNING"
    /\ t[2] = "request_evaluation" => t[1] = "RUNNING" /\ t[3] = "EVALUATING"
    /\ t[2] = "accept" => t[3] = "ACCEPTED"
    /\ t[2] = "reject" => t[3] = "REJECTED"
    /\ t[2] = "mark_unknown" => t[1] = "RUNNING" /\ t[3] = "UNKNOWN"
BY DEF WorkTransitions, WorkStatus

\* No run leaves EXECUTED, and only mark_executed leads there.
LEMMA RunMoves ==
  \A t \in RunTransitions :
    /\ t[1] \in RunStatus \ {"EXECUTED"} /\ t[3] \in RunStatus
    /\ t[3] = "EXECUTED" => t[2] = "mark_executed"
    /\ t[2] = "mark_executed" => t[1] = "RUNNING" /\ t[3] = "EXECUTED"
    /\ t[2] = "request_permit" => t[3] = "PERMIT_PENDING"
    /\ t[2] = "queue" => t[3] = "QUEUED"
    /\ t[2] = "claim" => t[3] = "RUNNING"
BY DEF RunTransitions, RunStatus

-------------------------------------------------------------------------------
(* Types *)

LEMMA ExecutionFacts ==
  ASSUME ExecutionInv, NEW x \in Agents
  PROVE  /\ exec[x] \in Execution /\ exec \in [Agents -> Execution]
         /\ Knows(exec[x], work, run)
         /\ exec[x].pc # "idle" => Mine(x) \in Works /\ exec[x].attempt \in Attempts
BY DEF ExecutionInv, WorkExecutionTypeOK, ExecutionsKnow, Knows, Mine

\* An agent without an execution relies on nothing.
LEMMA IdleKnows ==
  /\ NoExecution \in Execution /\ NoExecution.pc = "idle" /\ ~HasStarted(NoExecution)
  /\ \A works, runs : Knows(NoExecution, works, runs)
BY ExecutionAssumption
   DEF NoExecution, Execution, Places, GoalStatus, WorkStatus, Knows, HasStarted

\* An execution that leaves is forgotten, and its work is one of the works.
LEMMA LeaveTypes ==
  ASSUME ExecutionInv, NEW x \in Agents, Leave(x)
  PROVE  exec' = [exec EXCEPT ![x] = NoExecution] /\ stranded' \subseteq Works
<1>1. Started(x) => Mine(x) \in Works
  BY ExecutionFacts DEF Started
<1> QED
  BY <1>1 DEF Leave, ExecutionInv, WorkExecutionTypeOK

\* What it knows depends on which runs are executed only.
LEMMA KnowsSame ==
  ASSUME NEW e, NEW works, NEW f, NEW g,
         \A w \in Works, n \in Attempts : f[w][n] = "EXECUTED" <=> g[w][n] = "EXECUTED",
         Knows(e, works, f)
  PROVE  Knows(e, works, g)
<1>1. \A w \in Works : Done(f, w) <=> Done(g, w)
  BY DEF Done
<1> QED
  BY <1>1 DEF Knows

(***************************************************************************)
(* A step that moves no work and executes no run keeps the invariant, if   *)
(* it lets one execution go on to a place that fits.                       *)
(***************************************************************************)
LEMMA ExecutionMoves ==
  ASSUME ExecutionInv, UNCHANGED work, run' \in [Works -> [Attempts -> RunStatus]],
         \A w \in Works, n \in Attempts : run'[w][n] = "EXECUTED" <=> run[w][n] = "EXECUTED",
         NEW x \in Agents, NEW new \in Execution, exec' = [exec EXCEPT ![x] = new],
         Knows(new, work, run), HasStarted(new) => HasStarted(exec[x]) /\ new.work = Mine(x)
  PROVE  exec' \in [Agents -> Execution] /\ ExecutionsKnow' /\ Exclusive' /\ VerdictsRest'
<1>1. /\ exec \in [Agents -> Execution] /\ exec' \in [Agents -> Execution]
      /\ \A y \in Agents : exec'[y] = IF y = x THEN new ELSE exec[y]
  BY DEF ExecutionInv, WorkExecutionTypeOK
<1>2. ASSUME NEW y \in Agents PROVE Knows(exec'[y], work', run')
  <2>1. Knows(exec'[y], work, run)
    BY <1>1 DEF ExecutionInv, ExecutionsKnow
  <2> QED
    BY <2>1, KnowsSame
<1>3. Exclusive'
  BY <1>1 DEF ExecutionInv, Exclusive, Mine
<1>4. \A w \in Works : Done(run', w) <=> Done(run, w)
  BY DEF Done
<1>5. VerdictsRest'
  BY <1>4 DEF ExecutionInv, VerdictsRest
<1> QED
  BY <1>1, <1>2, <1>3, <1>5 DEF ExecutionsKnow

(* So does one that lets no execution go on. *)
LEMMA ExecutionsStay ==
  ASSUME ExecutionInv, UNCHANGED <<work, exec>>, run' \in [Works -> [Attempts -> RunStatus]],
         \A w \in Works, n \in Attempts : run'[w][n] = "EXECUTED" <=> run[w][n] = "EXECUTED"
  PROVE  ExecutionsKnow' /\ Exclusive' /\ VerdictsRest'
<1>1. ASSUME NEW y \in Agents PROVE Knows(exec'[y], work', run')
  BY KnowsSame DEF ExecutionInv, ExecutionsKnow
<1>2. \A w \in Works : Done(run', w) <=> Done(run, w)
  BY DEF Done
<1> QED
  BY <1>1, <1>2 DEF ExecutionInv, ExecutionsKnow, Exclusive, VerdictsRest, Mine

(***************************************************************************)
(* A step that moves a work keeps it, if no other execution has started    *)
(* the work: those that have not are told apart by its version from now.   *)
(***************************************************************************)
LEMMA WorkMovesOn ==
  ASSUME ExecutionInv, UNCHANGED run, NEW x \in Agents, NEW w \in Works, NEW s \in WorkStatus,
         work[w].status # "ACCEPTED",
         work' = [work EXCEPT ![w] = [status |-> s, version |-> work[w].version + 1]],
         NEW new \in Execution, exec' = [exec EXCEPT ![x] = new],
         Knows(new, work', run), HasStarted(new) => new.work = w,
         \A y \in Agents : y # x /\ Mine(y) = w => ~HasStarted(exec[y]),
         Done(run, w) => s \in Judged \union {"RUNNING"},
         s \in Judged => Done(run, w)
  PROVE  /\ exec' \in [Agents -> Execution] /\ ExecutionsKnow' /\ Exclusive' /\ VerdictsRest'
         /\ work' \in [Works -> [status: WorkStatus, version: Nat]]
<1>1. /\ exec \in [Agents -> Execution] /\ exec' \in [Agents -> Execution]
      /\ \A y \in Agents : exec'[y] = IF y = x THEN new ELSE exec[y]
      /\ work \in [Works -> [status: WorkStatus, version: Nat]]
  BY DEF ExecutionInv, WorkExecutionTypeOK
<1>2. /\ work' \in [Works -> [status: WorkStatus, version: Nat]]
      /\ work'[w].status = s /\ work'[w].version = work[w].version + 1
      /\ \A v \in Works : v # w => work'[v] = work[v]
  BY <1>1
<1>3. ASSUME NEW y \in Agents, y # x PROVE Knows(exec[y], work', run)
  <2>1. Knows(exec[y], work, run) /\ exec[y] \in Execution
    BY ExecutionFacts
  <2>2. exec[y].pc # "achieve"
    BY <2>1 DEF Knows
  <2>3. CASE exec[y].work # w
    BY <1>2, <2>1, <2>2, <2>3 DEF Knows
  <2>4. CASE exec[y].work = w /\ exec[y].pc # "idle"
    <3>1. exec[y].pc \in {"goal", "ready", "create", "start"}
      BY <1>3, <2>4 DEF Mine, HasStarted
    <3>2. exec[y].version <= work[w].version /\ exec[y].version \in Nat /\ work[w].version \in Nat
      BY <1>1, <2>1, <2>4 DEF Knows, Execution
    <3>3. exec[y].version <= work'[w].version /\ exec[y].version # work'[w].version
      BY <1>2, <3>2
    <3> QED
      BY <2>1, <2>4, <3>1, <3>3 DEF Knows, Working
  <2>5. CASE exec[y].pc = "idle"
    BY <2>5 DEF Knows
  <2> QED
    BY <2>3, <2>4, <2>5
<1>4. ExecutionsKnow'
  <2> SUFFICES ASSUME NEW y \in Agents PROVE Knows(exec'[y], work', run')
    BY DEF ExecutionsKnow
  <2> QED
    BY <1>1, <1>3
<1>5. Exclusive'
  BY <1>1 DEF ExecutionInv, Exclusive, Mine
<1>6. VerdictsRest'
  BY <1>2 DEF ExecutionInv, VerdictsRest
<1> QED
  BY <1>1, <1>2, <1>4, <1>5, <1>6

\* Nothing runs at first.
LEMMA ExecutionInitial == WorkExecutionInit => ExecutionInv
<1> SUFFICES ASSUME WorkExecutionInit PROVE ExecutionInv
  OBVIOUS
<1>1. WorkExecutionTypeOK
  BY IdleKnows, ExecutionAssumption
     DEF WorkExecutionInit, WorkExecutionTypeOK, GoalStatus, WorkStatus, RunStatus, NoReclaim
<1>2. ExecutionsKnow /\ Exclusive /\ ReclaimKnows
  BY IdleKnows DEF WorkExecutionInit, ExecutionsKnow, Exclusive, ReclaimKnows
<1>3. VerdictsRest
  BY DEF WorkExecutionInit, VerdictsRest, Done, Judged
<1> QED
  BY <1>1, <1>2, <1>3 DEF ExecutionInv

\* The goal goes on as its table allows.
LEMMA GoalTypes ==
  ASSUME ExecutionInv, NEW command, MoveGoal(command)
  PROVE  /\ goal' \in [status: GoalStatus, version: Nat]
         /\ goal'.status = "ACHIEVED" => command = "achieve"
<1>1. PICK t \in GoalTransitions :
        t[2] = command /\ goal' = [status |-> t[3], version |-> goal.version + 1]
  BY DEF MoveGoal
<1>2. goal.version \in Nat
  BY DEF ExecutionInv, WorkExecutionTypeOK
<1> QED
  BY <1>1, <1>2, GoalMoves

\* An execution that leaves, while all else stays.
LEMMA LeaveKeeps ==
  ASSUME ExecutionInv, NEW x \in Agents, Leave(x), UNCHANGED <<work, run, reclaim>>,
         goal' \in [status: GoalStatus, version: Nat], incidents' \in 0..MaxIncidents
  PROVE  ExecutionInv'
<1>1. exec' = [exec EXCEPT ![x] = NoExecution] /\ stranded' \subseteq Works
  BY LeaveTypes
<1>2. run' \in [Works -> [Attempts -> RunStatus]]
  BY DEF ExecutionInv, WorkExecutionTypeOK
<1>3. exec' \in [Agents -> Execution] /\ ExecutionsKnow' /\ Exclusive' /\ VerdictsRest'
  BY <1>1, <1>2, IdleKnows, ExecutionMoves
<1> QED
  BY <1>1, <1>3 DEF ExecutionInv, WorkExecutionTypeOK, ReclaimKnows

\* One that goes on, while all but the goal stays.
LEMMA GoesOnKeeps ==
  ASSUME ExecutionInv, NEW x \in Agents, NEW new \in Execution,
         exec' = [exec EXCEPT ![x] = new], Knows(new, work, run),
         HasStarted(new) => HasStarted(exec[x]) /\ new.work = Mine(x),
         UNCHANGED <<work, run, reclaim, stranded, incidents>>,
         goal' \in [status: GoalStatus, version: Nat]
  PROVE  ExecutionInv'
<1>1. run' \in [Works -> [Attempts -> RunStatus]]
  BY DEF ExecutionInv, WorkExecutionTypeOK
<1>2. exec' \in [Agents -> Execution] /\ ExecutionsKnow' /\ Exclusive' /\ VerdictsRest'
  BY <1>1, ExecutionMoves
<1> QED
  BY <1>2 DEF ExecutionInv, WorkExecutionTypeOK, ReclaimKnows

\* A new execution reads the goal and the work: it knows what it read.
LEMMA BeginKeeps == ASSUME ExecutionInv, NEW x \in Agents, Begin(x) PROVE ExecutionInv'
<1>1. PICK w \in Works, n \in Attempts :
        /\ \A m \in Attempts : run[w][m] # "EXECUTED"
        /\ exec' = [exec EXCEPT ![x] = [pc |-> "goal", work |-> w, attempt |-> n, goal |-> goal,
                    status |-> work[w].status, version |-> work[w].version, accepted |-> FALSE]]
  BY DEF Begin
<1> DEFINE new == [pc |-> "goal", work |-> w, attempt |-> n, goal |-> goal,
                   status |-> work[w].status, version |-> work[w].version, accepted |-> FALSE]
<1>2. work[w] \in [status: WorkStatus, version: Nat] /\ goal \in [status: GoalStatus, version: Nat]
  BY DEF ExecutionInv, WorkExecutionTypeOK
<1>3. n \in 0..MaxAttempts
  BY ExecutionAssumption DEF Attempts
<1>4. new \in Execution /\ ~HasStarted(new)
  BY <1>2, <1>3 DEF Execution, Places, HasStarted
<1>5. Knows(new, work, run)
  BY <1>1, <1>2 DEF Knows, Working, Done
<1>6. UNCHANGED <<goal, work, run, reclaim, stranded, incidents>>
  BY DEF Begin
<1> HIDE DEF new
<1> QED
  BY <1>1, <1>2, <1>4, <1>5, <1>6, GoesOnKeeps DEF new

\* The goal is no part of what the executions of works rely on.
LEMMA ActivateKeeps == ASSUME ExecutionInv, NEW x \in Agents, ActivateGoal(x) PROVE ExecutionInv'
<1> DEFINE seen == exec[x].goal
<1>1. /\ At(x, "goal") /\ UNCHANGED <<work, run, reclaim, incidents>>
      /\ goal \in [status: GoalStatus, version: Nat] /\ incidents \in 0..MaxIncidents
      /\ exec[x] \in Execution /\ exec[x].pc = "goal" /\ Knows(exec[x], work, run)
  BY ExecutionFacts DEF ActivateGoal, At, ExecutionInv, WorkExecutionTypeOK
<1>2. CASE Leave(x) /\ UNCHANGED goal
  BY <1>1, <1>2, LeaveKeeps
<1>3. CASE exec' = [exec EXCEPT ![x].pc = "ready", ![x].goal = NoExecution.goal]
           /\ UNCHANGED <<goal, stranded>>
  <2> DEFINE new == [exec[x] EXCEPT !.pc = "ready", !.goal = NoExecution.goal]
  <2>1. /\ new \in Execution /\ new.pc = "ready" /\ new.work = exec[x].work
        /\ new.attempt = exec[x].attempt /\ new.version = exec[x].version
        /\ new.status = exec[x].status
    BY <1>1, IdleKnows DEF Execution, Places
  <2>2. exec' = [exec EXCEPT ![x] = new]
    BY <1>3
  <2> HIDE DEF new
  <2>3. Knows(new, work, run) /\ ~HasStarted(new)
    BY <1>1, <2>1 DEF Knows, HasStarted, Working
  <2> QED
    BY <1>1, <1>3, <2>1, <2>2, <2>3, GoesOnKeeps
<1>4. CASE /\ MoveGoal(Activation[seen.status])
           /\ exec' = [exec EXCEPT ![x].goal = goal']
           /\ UNCHANGED stranded
  <2>1. goal' \in [status: GoalStatus, version: Nat]
    BY <1>4, GoalTypes
  <2> DEFINE new == [exec[x] EXCEPT !.goal = goal']
  <2>2. /\ new \in Execution /\ new.pc = "goal" /\ new.work = exec[x].work
        /\ new.attempt = exec[x].attempt /\ new.version = exec[x].version
        /\ new.status = exec[x].status
    BY <1>1, <2>1 DEF Execution
  <2>3. exec' = [exec EXCEPT ![x] = new]
    BY <1>4
  <2> HIDE DEF new
  <2>4. Knows(new, work, run) /\ ~HasStarted(new)
    BY <1>1, <2>2 DEF Knows, HasStarted, Working
  <2> QED
    BY <1>1, <1>4, <2>1, <2>2, <2>3, <2>4, GoesOnKeeps
<1> QED
  BY <1>2, <1>3, <1>4 DEF ActivateGoal

\* A work that no execution has started.
LEMMA NoneStarted ==
  ASSUME ExecutionInv, NEW w \in Works, work[w].status \in {"PLANNED", "READY", "REJECTED", "UNKNOWN"}
  PROVE  \A y \in Agents : Mine(y) = w => ~HasStarted(exec[y])
<1> SUFFICES ASSUME NEW y \in Agents, Mine(y) = w, HasStarted(exec[y]) PROVE FALSE
  OBVIOUS
<1>1. Knows(exec[y], work, run) /\ exec[y] \in Execution
  BY ExecutionFacts
<1>2. exec[y].pc \in Working \union {"request_evaluation", "judge", "look", "achieve"}
  BY <1>1 DEF Execution, Places, HasStarted, Working
<1>3. exec[y].work = w /\ exec[y].pc # "idle"
  BY <1>2 DEF Mine, Working
<1> QED
  BY <1>1, <1>2, <1>3 DEF Knows

\* Where a work was moved to, when its command was accepted.
LEMMA MovedWork ==
  ASSUME ExecutionInv, NEW w \in Works, NEW command, MoveWork(w, command)
  PROVE  \E t \in WorkTransitions :
           /\ t[2] = command /\ t[1] = work[w].status
           /\ work' = [work EXCEPT ![w] = [status |-> t[3], version |-> work[w].version + 1]]
BY DEF MoveWork, ExecutionInv, WorkExecutionTypeOK

\* A work made ready has no execution that started it, and its version leaves those
\* behind that read it before.
LEMMA ReadyKeeps == ASSUME ExecutionInv, NEW x \in Agents, ReadyWork(x) PROVE ExecutionInv'
<1> DEFINE w == Mine(x)
<1>1. /\ UNCHANGED <<goal, run, reclaim, incidents>>
      /\ goal \in [status: GoalStatus, version: Nat] /\ incidents \in 0..MaxIncidents
      /\ exec[x] \in Execution /\ exec[x].pc = "ready" /\ Knows(exec[x], work, run)
      /\ w \in Works /\ w = exec[x].work /\ exec[x].attempt \in Attempts
      /\ work[w] \in [status: WorkStatus, version: Nat]
  BY ExecutionFacts DEF ReadyWork, At, ExecutionInv, WorkExecutionTypeOK, Mine
<1>2. CASE Leave(x) /\ UNCHANGED work
  BY <1>1, <1>2, LeaveKeeps
<1>3. CASE exec[x].status = "READY" /\ Goto(x, "create") /\ UNCHANGED <<work, stranded>>
  <2> DEFINE new == [exec[x] EXCEPT !.pc = "create"]
  <2>1. /\ new \in Execution /\ new.pc = "create" /\ new.work = exec[x].work
        /\ new.attempt = exec[x].attempt /\ new.version = exec[x].version
        /\ new.status = exec[x].status
    BY <1>1 DEF Execution, Places
  <2>2. exec' = [exec EXCEPT ![x] = new]
    BY <1>3 DEF Goto
  <2> HIDE DEF new
  <2>3. Knows(new, work, run) /\ ~HasStarted(new)
    BY <1>1, <1>3, <2>1 DEF Knows, HasStarted, Working
  <2> QED
    BY <1>1, <1>3, <2>1, <2>2, <2>3, GoesOnKeeps
<1>4. CASE /\ exec[x].status \in DOMAIN Readying
           /\ CanMoveWork(w, Readying[exec[x].status], exec[x].version)
           /\ MoveWork(w, Readying[exec[x].status])
           /\ exec' = [exec EXCEPT ![x].pc = "create", ![x].status = "READY", ![x].version = @ + 1]
           /\ UNCHANGED stranded
  <2>1. Readying[exec[x].status] \in {"make_ready", "retry"}
    BY <1>4 DEF Readying
  <2>2. PICK t \in WorkTransitions :
           /\ t[2] = Readying[exec[x].status] /\ t[1] = work[w].status
           /\ work' = [work EXCEPT ![w] = [status |-> t[3], version |-> work[w].version + 1]]
    <3>1. PICK command : command = Readying[exec[x].status]
      OBVIOUS
    <3>2. w \in Works /\ MoveWork(w, command)
      BY <1>1, <1>4, <3>1
    <3> HIDE DEF w
    <3>3. \E t \in WorkTransitions :
            /\ t[2] = command /\ t[1] = work[w].status
            /\ work' = [work EXCEPT ![w] = [status |-> t[3], version |-> work[w].version + 1]]
      BY <3>2, MovedWork
    <3> QED
      BY <3>1, <3>3
  <2>3. /\ work[w].status \in {"PLANNED", "REJECTED", "UNKNOWN"}
        /\ work' = [work EXCEPT ![w] = [status |-> "READY", version |-> work[w].version + 1]]
    BY <2>1, <2>2, WorkMoves
  <2>4. exec[x].version = work[w].version
    BY <1>4 DEF CanMoveWork
  <2>5. ~Done(run, w)
    <3> HIDE DEF w
    <3>1. exec[x].status = work[w].status /\ (Done(run, w) => exec[x].status = "RUNNING")
      BY <1>1, <2>4 DEF Knows
    <3> QED
      BY <2>3, <3>1
  <2> DEFINE new == [exec[x] EXCEPT !.pc = "create", !.status = "READY",
                                    !.version = exec[x].version + 1]
  <2>6. /\ new \in Execution /\ new.pc = "create" /\ new.work = w
        /\ new.attempt = exec[x].attempt /\ new.version = work[w].version + 1
    <3>1. exec[x].version + 1 \in Nat /\ "READY" \in WorkStatus /\ "create" \in Places
      BY <1>1 DEF Execution, WorkStatus, Places
    <3> QED
      BY <1>1, <2>4, <3>1 DEF Execution
  <2>7. exec' = [exec EXCEPT ![x] = new]
    BY <1>4
  <2>8. work'[w] = [status |-> "READY", version |-> work[w].version + 1]
    BY <1>1, <2>3 DEF ExecutionInv, WorkExecutionTypeOK
  <2> HIDE DEF new
  <2>9. Knows(new, work', run) /\ ~HasStarted(new)
    BY <1>1, <2>6, <2>8 DEF Knows, HasStarted, Working
  <2>10. \A y \in Agents : y # x /\ Mine(y) = w => ~HasStarted(exec[y])
    BY <1>1, <2>3, NoneStarted
  <2>11. /\ exec' \in [Agents -> Execution] /\ ExecutionsKnow' /\ Exclusive' /\ VerdictsRest'
         /\ work' \in [Works -> [status: WorkStatus, version: Nat]]
    <3>1. "READY" \in WorkStatus /\ "READY" \notin Judged /\ work[w].status # "ACCEPTED"
      BY <2>3 DEF WorkStatus, Judged
    <3> HIDE DEF w
    <3> QED
      BY <1>1, <2>3, <2>5, <2>6, <2>7, <2>9, <2>10, <3>1, WorkMovesOn
  <2> QED
    BY <1>1, <1>4, <2>11 DEF ExecutionInv, WorkExecutionTypeOK, ReclaimKnows
<1> QED
  BY <1>2, <1>3, <1>4 DEF ReadyWork

(***************************************************************************)
(* A transition of the work on the way: what has to be shown of a command  *)
(* that takes the work of x to s and x to the place next.                  *)
(***************************************************************************)
MovesOn(x, w, next, s) ==
  /\ \A y \in Agents : y # x /\ Mine(y) = w => ~HasStarted(exec[y])
  /\ Done(run, w) => s \in Judged \union {"RUNNING"}
  /\ s \in Judged => Done(run, w)
  /\ \A works : \A e \in Execution :
       /\ e.pc = next /\ e.pc # "idle" /\ e.work = w /\ e.attempt = exec[x].attempt
       /\ e.version = work[w].version + 1
       /\ works[w] = [status |-> s, version |-> work[w].version + 1]
       => Knows(e, works, run)

\* A command on the work of x, when its version is still what x has.
LEMMA WorkStepKeeps ==
  ASSUME ExecutionInv, NEW x \in Agents, NEW place \in Places \ {"idle"}, NEW command,
         NEW next \in Places, WorkStep(x, place, command, next),
         NEW s \in WorkStatus, \A t \in WorkTransitions : t[2] = command => t[3] = s,
         NEW w, w = Mine(x),
         CanMoveWork(w, command, exec[x].version) => MovesOn(x, w, next, s)
  PROVE  ExecutionInv'
<1>1. /\ UNCHANGED <<goal, run, reclaim, incidents>>
      /\ goal \in [status: GoalStatus, version: Nat] /\ incidents \in 0..MaxIncidents
      /\ exec[x] \in Execution /\ exec[x].pc = place
      /\ w \in Works /\ w = exec[x].work
      /\ work[w] \in [status: WorkStatus, version: Nat]
  BY ExecutionFacts DEF WorkStep, At, ExecutionInv, WorkExecutionTypeOK, Mine
<1>2. CASE Leave(x) /\ UNCHANGED work
  BY <1>1, <1>2, LeaveKeeps
<1>3. CASE /\ CanMoveWork(w, command, exec[x].version)
           /\ MoveWork(w, command)
           /\ exec' = [exec EXCEPT ![x] = IF next = "idle" THEN NoExecution
                                          ELSE OneOn(exec[x], next)]
           /\ UNCHANGED stranded
  <2>1. PICK t \in WorkTransitions :
          /\ t[2] = command /\ t[1] = work[w].status
          /\ work' = [work EXCEPT ![w] = [status |-> t[3], version |-> work[w].version + 1]]
    <3>1. w \in Works /\ MoveWork(w, command)
      BY <1>1, <1>3
    <3> QED
      BY <3>1, MovedWork
  <2>2. /\ work[w].status # "ACCEPTED"
        /\ work' = [work EXCEPT ![w] = [status |-> s, version |-> work[w].version + 1]]
    BY <2>1, WorkMoves
  <2>3. work'[w] = [status |-> s, version |-> work[w].version + 1]
    BY <1>1, <2>2 DEF ExecutionInv, WorkExecutionTypeOK
  <2>4. exec[x].version = work[w].version
    BY <1>3 DEF CanMoveWork
  <2> DEFINE on == OneOn(exec[x], next)
  <2>5. /\ on \in Execution /\ on.pc = next /\ on.work = w /\ on.attempt = exec[x].attempt
        /\ on.version = work[w].version + 1
    <3>1. exec[x].version + 1 \in Nat
      BY <1>1 DEF Execution
    <3> QED
      BY <1>1, <2>4, <3>1 DEF Execution, OneOn
  <2>6. PICK new \in Execution :
          /\ exec' = [exec EXCEPT ![x] = new]
          /\ Knows(new, work', run) /\ (HasStarted(new) => new.work = w)
    <3>1. CASE next = "idle"
      BY <1>3, <3>1, IdleKnows
    <3>2. CASE next # "idle"
      <4>1. exec' = [exec EXCEPT ![x] = on]
        BY <1>3, <3>2
      <4> HIDE DEF on
      <4>2. Knows(on, work', run)
        BY <1>3, <2>3, <2>5, <3>2 DEF MovesOn
      <4> QED
        BY <2>5, <4>1, <4>2
    <3> QED
      BY <3>1, <3>2
  <2>7. /\ exec' \in [Agents -> Execution] /\ ExecutionsKnow' /\ Exclusive' /\ VerdictsRest'
        /\ work' \in [Works -> [status: WorkStatus, version: Nat]]
    BY <1>1, <1>3, <2>2, <2>6, WorkMovesOn DEF MovesOn
  <2> QED
    BY <1>1, <1>3, <2>7 DEF ExecutionInv, WorkExecutionTypeOK, ReclaimKnows
<1> QED
  BY <1>2, <1>3 DEF WorkStep

\* The start is the one that the version let through.
LEMMA StartKeeps == ASSUME ExecutionInv, NEW x \in Agents, StartWork(x) PROVE ExecutionInv'
<1>1. PICK w : w = Mine(x)
  OBVIOUS
<1>2. /\ exec[x].pc = "start" /\ w \in Works /\ exec[x].attempt \in Attempts
      /\ work[w] \in [status: WorkStatus, version: Nat]
  BY <1>1, ExecutionFacts DEF StartWork, WorkStep, At, ExecutionInv, WorkExecutionTypeOK
<1>3. ASSUME CanMoveWork(w, "start", exec[x].version)
      PROVE  MovesOn(x, w, "request_permit", "RUNNING")
  <2>1. work[w].status = "READY"
    BY <1>3, WorkMoves DEF CanMoveWork
  <2>2. ~Done(run, w)
    BY <1>2, <2>1 DEF ExecutionInv, VerdictsRest, Judged
  <2>3. ASSUME NEW e \in Execution, NEW works,
               e.pc = "request_permit", e.work = w, e.attempt = exec[x].attempt,
               e.version = work[w].version + 1,
               works[w] = [status |-> "RUNNING", version |-> work[w].version + 1]
        PROVE  Knows(e, works, run)
    BY <1>2, <2>2, <2>3 DEF Knows, Working
  <2> QED
    BY <1>2, <2>1, <2>2, <2>3, NoneStarted DEF MovesOn, Judged
<1>4. /\ "start" \in Places \ {"idle"} /\ "request_permit" \in Places /\ "RUNNING" \in WorkStatus
      /\ "RUNNING" \notin Judged
  BY DEF Places, WorkStatus, Judged
<1>5. \A t \in WorkTransitions : t[2] = "start" => t[3] = "RUNNING"
  BY WorkMoves
<1>6. WorkStep(x, "start", "start", "request_permit")
  BY DEF StartWork
<1> QED
  BY <1>1, <1>3, <1>4, <1>5, <1>6, WorkStepKeeps

\* A work that its execution has started is its own.
LEMMA StartedAlone ==
  ASSUME ExecutionInv, NEW x \in Agents, HasStarted(exec[x])
  PROVE  \A y \in Agents : y # x /\ Mine(y) = Mine(x) => ~HasStarted(exec[y])
BY DEF ExecutionInv, Exclusive

\* A work whose call failed has no executed run when it is marked as unknown,
LEMMA UnknownKeeps ==
  ASSUME ExecutionInv, NEW x \in Agents, WorkStep(x, "mark_unknown", "mark_unknown", "idle")
  PROVE  ExecutionInv'
<1>1. PICK w : w = Mine(x)
  OBVIOUS
<1>2. exec[x].pc = "mark_unknown" /\ w \in Works /\ Knows(exec[x], work, run)
  BY <1>1, ExecutionFacts DEF WorkStep, At
<1>3. ~Done(run, w) /\ HasStarted(exec[x])
  BY <1>1, <1>2 DEF Knows, Working, Mine, HasStarted
<1>4. \A y \in Agents : y # x /\ Mine(y) = w => ~HasStarted(exec[y])
  BY <1>1, <1>3, StartedAlone
<1>5. /\ "mark_unknown" \in Places \ {"idle"} /\ "idle" \in Places /\ "UNKNOWN" \in WorkStatus
      /\ "UNKNOWN" \notin Judged
  BY DEF Places, WorkStatus, Judged
<1>6. \A t \in WorkTransitions : t[2] = "mark_unknown" => t[3] = "UNKNOWN"
  BY WorkMoves
<1>7. MovesOn(x, w, "idle", "UNKNOWN")
  BY <1>3, <1>4, <1>5 DEF MovesOn
<1> QED
  BY <1>1, <1>5, <1>6, <1>7, WorkStepKeeps

\* one that goes to evaluation has one,
LEMMA EvaluateKeeps ==
  ASSUME ExecutionInv, NEW x \in Agents,
         WorkStep(x, "request_evaluation", "request_evaluation", "judge")
  PROVE  ExecutionInv'
<1>1. PICK w : w = Mine(x)
  OBVIOUS
<1>2. /\ exec[x].pc = "request_evaluation" /\ w \in Works /\ Knows(exec[x], work, run)
      /\ exec[x].attempt \in Attempts /\ work[w] \in [status: WorkStatus, version: Nat]
  BY <1>1, ExecutionFacts DEF WorkStep, At, ExecutionInv, WorkExecutionTypeOK
<1>3. Done(run, w) /\ HasStarted(exec[x])
  BY <1>1, <1>2 DEF Knows, Mine, HasStarted
<1>4. \A y \in Agents : y # x /\ Mine(y) = w => ~HasStarted(exec[y])
  BY <1>1, <1>3, StartedAlone
<1>5. /\ "request_evaluation" \in Places \ {"idle"} /\ "judge" \in Places
      /\ "EVALUATING" \in WorkStatus /\ "EVALUATING" \in Judged
  BY DEF Places, WorkStatus, Judged
<1>6. \A t \in WorkTransitions : t[2] = "request_evaluation" => t[3] = "EVALUATING"
  BY WorkMoves
<1>7. ASSUME NEW e \in Execution, NEW works,
             e.pc = "judge", e.work = w, e.attempt = exec[x].attempt,
             e.version = work[w].version + 1,
             works[w] = [status |-> "EVALUATING", version |-> work[w].version + 1]
      PROVE  Knows(e, works, run)
  BY <1>2, <1>7 DEF Knows, Working
<1>8. MovesOn(x, w, "judge", "EVALUATING")
  BY <1>3, <1>4, <1>5, <1>7 DEF MovesOn
<1> QED
  BY <1>1, <1>5, <1>6, <1>8, WorkStepKeeps

\* an accepted one is left by no transition,
LEMMA AcceptKeeps ==
  ASSUME ExecutionInv, NEW x \in Agents, WorkStep(x, "judge", "accept", "look")
  PROVE  ExecutionInv'
<1>1. PICK w : w = Mine(x)
  OBVIOUS
<1>2. /\ exec[x].pc = "judge" /\ w \in Works /\ Knows(exec[x], work, run)
      /\ exec[x].attempt \in Attempts /\ work[w] \in [status: WorkStatus, version: Nat]
  BY <1>1, ExecutionFacts DEF WorkStep, At, ExecutionInv, WorkExecutionTypeOK
<1>3. Done(run, w) /\ HasStarted(exec[x])
  BY <1>1, <1>2 DEF Knows, Mine, HasStarted, ExecutionInv, VerdictsRest, Judged
<1>4. \A y \in Agents : y # x /\ Mine(y) = w => ~HasStarted(exec[y])
  BY <1>1, <1>3, StartedAlone
<1>5. /\ "judge" \in Places \ {"idle"} /\ "look" \in Places
      /\ "ACCEPTED" \in WorkStatus /\ "ACCEPTED" \in Judged
  BY DEF Places, WorkStatus, Judged
<1>6. \A t \in WorkTransitions : t[2] = "accept" => t[3] = "ACCEPTED"
  BY WorkMoves
<1>7. ASSUME NEW e \in Execution, NEW works,
             e.pc = "look", e.work = w, e.attempt = exec[x].attempt,
             e.version = work[w].version + 1,
             works[w] = [status |-> "ACCEPTED", version |-> work[w].version + 1]
      PROVE  Knows(e, works, run)
  BY <1>2, <1>7 DEF Knows, Working
<1>8. MovesOn(x, w, "look", "ACCEPTED")
  BY <1>3, <1>4, <1>5, <1>7 DEF MovesOn
<1> QED
  BY <1>1, <1>5, <1>6, <1>8, WorkStepKeeps

\* and a rejected one may be made ready again.
LEMMA RejectKeeps ==
  ASSUME ExecutionInv, NEW x \in Agents, WorkStep(x, "judge", "reject", "idle")
  PROVE  ExecutionInv'
<1>1. PICK w : w = Mine(x)
  OBVIOUS
<1>2. exec[x].pc = "judge" /\ w \in Works /\ Knows(exec[x], work, run)
  BY <1>1, ExecutionFacts DEF WorkStep, At
<1>3. Done(run, w) /\ HasStarted(exec[x])
  BY <1>1, <1>2 DEF Knows, Mine, HasStarted, ExecutionInv, VerdictsRest, Judged
<1>4. \A y \in Agents : y # x /\ Mine(y) = w => ~HasStarted(exec[y])
  BY <1>1, <1>3, StartedAlone
<1>5. /\ "judge" \in Places \ {"idle"} /\ "idle" \in Places
      /\ "REJECTED" \in WorkStatus /\ "REJECTED" \in Judged
  BY DEF Places, WorkStatus, Judged
<1>6. \A t \in WorkTransitions : t[2] = "reject" => t[3] = "REJECTED"
  BY WorkMoves
<1>7. MovesOn(x, w, "idle", "REJECTED")
  BY <1>3, <1>4, <1>5 DEF MovesOn
<1> QED
  BY <1>1, <1>5, <1>6, <1>7, WorkStepKeeps

-------------------------------------------------------------------------------
(* The runs *)

\* A run that is moved, but not to EXECUTED nor from it.
LEMMA RunMoved ==
  ASSUME ExecutionInv, NEW w \in Works, NEW n \in Attempts,
         run[w][n] # "EXECUTED", NEW s \in RunStatus \ {"EXECUTED"},
         run' = [run EXCEPT ![w][n] = s]
  PROVE  /\ run' \in [Works -> [Attempts -> RunStatus]]
         /\ \A v \in Works, m \in Attempts : run'[v][m] = "EXECUTED" <=> run[v][m] = "EXECUTED"
BY DEF ExecutionInv, WorkExecutionTypeOK

\* Where a run was moved to.
LEMMA MovedRun ==
  ASSUME NEW w \in Works, NEW n \in Attempts, NEW command, MoveRun(w, n, command)
  PROVE  \E t \in RunTransitions :
           t[2] = command /\ t[1] = run[w][n] /\ run' = [run EXCEPT ![w][n] = t[3]]
BY DEF MoveRun

\* Without an executed run there is none after a transition, but mark_executed.
LEMMA RunMovedOn ==
  ASSUME ExecutionInv, NEW w \in Works, NEW n \in Attempts, NEW command,
         command # "mark_executed", MoveRun(w, n, command)
  PROVE  /\ run' \in [Works -> [Attempts -> RunStatus]]
         /\ \A v \in Works, m \in Attempts : run'[v][m] = "EXECUTED" <=> run[v][m] = "EXECUTED"
<1>1. PICK t \in RunTransitions :
        t[2] = command /\ t[1] = run[w][n] /\ run' = [run EXCEPT ![w][n] = t[3]]
  BY MovedRun
<1>2. run[w][n] # "EXECUTED" /\ t[3] \in RunStatus \ {"EXECUTED"}
  BY <1>1, RunMoves
<1> QED
  BY <1>1, <1>2, RunMoved

\* A created run is not an executed one.
LEMMA CreateKeeps == ASSUME ExecutionInv, NEW x \in Agents, CreateRun(x) PROVE ExecutionInv'
<1> DEFINE w == Mine(x)
           n == exec[x].attempt
<1>1. /\ UNCHANGED <<goal, work, reclaim, incidents>>
      /\ goal \in [status: GoalStatus, version: Nat] /\ incidents \in 0..MaxIncidents
      /\ exec[x] \in Execution /\ exec[x].pc = "create" /\ Knows(exec[x], work, run)
      /\ w \in Works /\ w = exec[x].work /\ n \in Attempts
  BY ExecutionFacts DEF CreateRun, At, ExecutionInv, WorkExecutionTypeOK, Mine
<1>2. CASE Leave(x) /\ UNCHANGED run
  BY <1>1, <1>2, LeaveKeeps
<1>3. CASE /\ run[w][n] = "NONE"
           /\ run' = [run EXCEPT ![w][n] = "CREATED"]
           /\ Goto(x, "start")
           /\ UNCHANGED stranded
  <2>1. /\ run' \in [Works -> [Attempts -> RunStatus]]
        /\ \A v \in Works, m \in Attempts : run'[v][m] = "EXECUTED" <=> run[v][m] = "EXECUTED"
    <3>1. "CREATED" \in RunStatus \ {"EXECUTED"}
      BY DEF RunStatus
    <3> HIDE DEF w, n
    <3> QED
      BY <1>1, <1>3, <3>1, RunMoved
  <2> DEFINE new == [exec[x] EXCEPT !.pc = "start"]
  <2>2. /\ new \in Execution /\ new.pc = "start" /\ new.work = exec[x].work
        /\ new.attempt = exec[x].attempt /\ new.version = exec[x].version
        /\ new.status = exec[x].status
    BY <1>1 DEF Execution, Places
  <2>3. exec' = [exec EXCEPT ![x] = new]
    BY <1>3 DEF Goto
  <2> HIDE DEF new
  <2>4. Knows(new, work, run) /\ ~HasStarted(new)
    BY <1>1, <2>2 DEF Knows, HasStarted, Working
  <2>5. exec' \in [Agents -> Execution] /\ ExecutionsKnow' /\ Exclusive' /\ VerdictsRest'
    BY <1>1, <2>1, <2>2, <2>3, <2>4, ExecutionMoves
  <2> QED
    BY <1>1, <1>3, <2>1, <2>5 DEF ExecutionInv, WorkExecutionTypeOK, ReclaimKnows
<1> QED
  BY <1>2, <1>3 DEF CreateRun

\* A run is advanced, but not to its end.
LEMMA RunStepKeeps ==
  ASSUME ExecutionInv, NEW x \in Agents, NEW command \in Working \ {"mark_executed"},
         NEW next \in Working, RunStep(x, command, next)
  PROVE  ExecutionInv'
<1> DEFINE w == Mine(x)
           n == exec[x].attempt
<1>1. /\ UNCHANGED <<goal, work, reclaim, incidents>>
      /\ goal \in [status: GoalStatus, version: Nat] /\ incidents \in 0..MaxIncidents
      /\ exec[x] \in Execution /\ exec[x].pc = command /\ Knows(exec[x], work, run)
      /\ w \in Works /\ w = exec[x].work /\ n \in Attempts
  BY ExecutionFacts DEF RunStep, At, ExecutionInv, WorkExecutionTypeOK, Mine, Working
<1>2. CASE Leave(x) /\ UNCHANGED run
  BY <1>1, <1>2, LeaveKeeps
<1>3. CASE MoveRun(w, n, command) /\ Goto(x, next) /\ UNCHANGED stranded
  <2>1. /\ run' \in [Works -> [Attempts -> RunStatus]]
        /\ \A v \in Works, m \in Attempts : run'[v][m] = "EXECUTED" <=> run[v][m] = "EXECUTED"
    <3> HIDE DEF w, n
    <3> QED
      BY <1>1, <1>3, RunMovedOn
  <2> DEFINE new == [exec[x] EXCEPT !.pc = next]
  <2>2. /\ new \in Execution /\ new.pc = next /\ new.work = exec[x].work
        /\ new.attempt = exec[x].attempt /\ new.version = exec[x].version
        /\ new.status = exec[x].status
    BY <1>1 DEF Execution, Places, Working
  <2>3. exec' = [exec EXCEPT ![x] = new]
    BY <1>3 DEF Goto
  <2> HIDE DEF new
  <2>4. Knows(new, work, run) /\ HasStarted(exec[x])
    BY <1>1, <2>2 DEF Knows, HasStarted, Working
  <2>5. exec' \in [Agents -> Execution] /\ ExecutionsKnow' /\ Exclusive' /\ VerdictsRest'
    BY <1>1, <2>1, <2>2, <2>3, <2>4, ExecutionMoves
  <2> QED
    BY <1>1, <1>3, <2>1, <2>5 DEF ExecutionInv, WorkExecutionTypeOK, ReclaimKnows
<1> QED
  BY <1>2, <1>3 DEF RunStep

(***************************************************************************)
(* The run of the one execution that has started the work is marked as     *)
(* executed: it is the first, and those that read the work before it was   *)
(* started find its version changed, or RUNNING.                           *)
(***************************************************************************)
LEMMA ExecutedKeeps ==
  ASSUME ExecutionInv, NEW x \in Agents, RunStep(x, "mark_executed", "request_evaluation")
  PROVE  ExecutionInv'
<1> DEFINE w == Mine(x)
           n == exec[x].attempt
<1>1. /\ UNCHANGED <<goal, work, reclaim, incidents>>
      /\ goal \in [status: GoalStatus, version: Nat] /\ incidents \in 0..MaxIncidents
      /\ exec[x] \in Execution /\ exec[x].pc = "mark_executed" /\ Knows(exec[x], work, run)
      /\ w \in Works /\ w = exec[x].work /\ n \in Attempts
      /\ run \in [Works -> [Attempts -> RunStatus]] /\ exec \in [Agents -> Execution]
  BY ExecutionFacts DEF RunStep, At, ExecutionInv, WorkExecutionTypeOK, Mine
<1>2. CASE Leave(x) /\ UNCHANGED run
  BY <1>1, <1>2, LeaveKeeps
<1>3. CASE MoveRun(w, n, "mark_executed") /\ Goto(x, "request_evaluation") /\ UNCHANGED stranded
  <2>1. run' = [run EXCEPT ![w][n] = "EXECUTED"]
    <3>1. PICK t \in RunTransitions :
            t[2] = "mark_executed" /\ t[1] = run[w][n] /\ run' = [run EXCEPT ![w][n] = t[3]]
      <4> HIDE DEF w, n
      <4>1. PICK command : command = "mark_executed"
        OBVIOUS
      <4>2. w \in Works /\ n \in Attempts /\ MoveRun(w, n, command)
        BY <1>1, <1>3, <4>1
      <4> QED
        BY <4>1, <4>2, MovedRun
    <3> QED
      BY <3>1, RunMoves
  <2>2. work[w].status = "RUNNING" /\ ~Done(run, w) /\ HasStarted(exec[x])
    BY <1>1 DEF Knows, Working, HasStarted
  <2> DEFINE new == [exec[x] EXCEPT !.pc = "request_evaluation"]
  <2>3. /\ new \in Execution /\ new.pc = "request_evaluation" /\ new.work = exec[x].work
        /\ new.attempt = exec[x].attempt /\ new.version = exec[x].version
        /\ new.status = exec[x].status
    BY <1>1 DEF Execution, Places
  <2>4. exec' = [exec EXCEPT ![x] = new]
    BY <1>3 DEF Goto
  <2> HIDE DEF new, w, n
  <2>5. /\ run' \in [Works -> [Attempts -> RunStatus]]
        /\ run'[w][n] = "EXECUTED"
        /\ \A m \in Attempts : m # n => run'[w][m] = run[w][m]
        /\ \A v \in Works : v # w => run'[v] = run[v]
    <3>1. "EXECUTED" \in RunStatus
      BY DEF RunStatus
    <3> QED
      BY <1>1, <2>1, <3>1
  <2>6. Done(run', w) /\ \A v \in Works : v # w => (Done(run', v) <=> Done(run, v))
    BY <1>1, <2>5 DEF Done
  <2>7. ASSUME NEW y \in Agents, y # x PROVE Knows(exec[y], work, run')
    <3>1. Knows(exec[y], work, run) /\ exec[y] \in Execution
      BY ExecutionFacts
    <3>2. CASE exec[y].work # w
      BY <2>6, <3>1, <3>2 DEF Knows
    <3>3. CASE exec[y].work = w
      <4>1. ~HasStarted(exec[y])
        BY <2>2, <2>7, <3>3, StartedAlone DEF w, Mine
      <4>2. exec[y].pc \in {"idle", "goal", "ready", "create", "start"}
        BY <4>1 DEF HasStarted
      <4> QED
        BY <2>2, <3>1, <3>3, <4>2 DEF Knows, Working
    <3> QED
      BY <3>2, <3>3
  <2>8. Knows(new, work, run')
    BY <1>1, <2>2, <2>3, <2>6 DEF Knows, Working
  <2>9. /\ exec' \in [Agents -> Execution]
        /\ \A y \in Agents : exec'[y] = IF y = x THEN new ELSE exec[y]
    BY <1>1, <2>3, <2>4
  <2>10. ExecutionsKnow'
    BY <1>1, <2>7, <2>8, <2>9 DEF ExecutionsKnow
  <2>11. Exclusive'
    BY <2>2, <2>3, <2>9 DEF ExecutionInv, Exclusive, Mine
  <2>12. VerdictsRest'
    <3> SUFFICES ASSUME NEW v \in Works
                 PROVE  /\ Done(run', v) => work[v].status \in Judged \union {"RUNNING"}
                        /\ work[v].status \in Judged => Done(run', v)
                        /\ \A m, k \in Attempts :
                             run'[v][m] = "EXECUTED" /\ run'[v][k] = "EXECUTED" => m = k
      BY <1>1 DEF VerdictsRest
    <3>1. CASE v = w
      BY <2>2, <2>5, <2>6, <3>1 DEF Done
    <3>2. CASE v # w
      BY <2>5, <2>6, <3>2 DEF ExecutionInv, VerdictsRest
    <3> QED
      BY <3>1, <3>2
  <2> QED
    BY <1>1, <1>3, <2>5, <2>9, <2>10, <2>11, <2>12
       DEF ExecutionInv, WorkExecutionTypeOK, ReclaimKnows
<1> QED
  BY <1>2, <1>3 DEF RunStep

\* The models answer or fail: nothing stored changes.
LEMMA ModelCallKeeps == ASSUME ExecutionInv, NEW x \in Agents, CallModels(x) PROVE ExecutionInv'
<1>1. /\ UNCHANGED <<goal, work, run, reclaim, stranded, incidents>>
      /\ goal \in [status: GoalStatus, version: Nat]
      /\ exec[x] \in Execution /\ exec[x].pc = "call" /\ Knows(exec[x], work, run)
  BY ExecutionFacts DEF CallModels, At, ExecutionInv, WorkExecutionTypeOK
<1>2. PICK new \in Execution :
        /\ exec' = [exec EXCEPT ![x] = new]
        /\ new.pc \in {"mark_failed", "mark_executed"} /\ new.work = exec[x].work
        /\ new.attempt = exec[x].attempt /\ new.version = exec[x].version
  <2>1. CASE Goto(x, "mark_failed")
    <3> DEFINE new == [exec[x] EXCEPT !.pc = "mark_failed"]
    <3>1. /\ new \in Execution /\ new.pc = "mark_failed" /\ new.work = exec[x].work
          /\ new.attempt = exec[x].attempt /\ new.version = exec[x].version
      BY <1>1 DEF Execution, Places
    <3>2. exec' = [exec EXCEPT ![x] = new]
      BY <2>1 DEF Goto
    <3> HIDE DEF new
    <3> QED
      BY <3>1, <3>2
  <2>2. ASSUME NEW verdict \in BOOLEAN,
               exec' = [exec EXCEPT ![x].pc = "mark_executed", ![x].accepted = verdict]
        PROVE  \E new \in Execution :
                 /\ exec' = [exec EXCEPT ![x] = new]
                 /\ new.pc \in {"mark_failed", "mark_executed"} /\ new.work = exec[x].work
                 /\ new.attempt = exec[x].attempt /\ new.version = exec[x].version
    <3> DEFINE new == [exec[x] EXCEPT !.pc = "mark_executed", !.accepted = verdict]
    <3>1. /\ new \in Execution /\ new.pc = "mark_executed" /\ new.work = exec[x].work
          /\ new.attempt = exec[x].attempt /\ new.version = exec[x].version
      BY <1>1 DEF Execution, Places
    <3>2. exec' = [exec EXCEPT ![x] = new]
      BY <2>2
    <3> HIDE DEF new
    <3> QED
      BY <3>1, <3>2
  <2> QED
    BY <2>1, <2>2 DEF CallModels
<1>3. Knows(new, work, run) /\ HasStarted(exec[x]) /\ new.work = Mine(x)
  BY <1>1, <1>2 DEF Knows, HasStarted, Working, Mine
<1> QED
  BY <1>1, <1>2, <1>3, GoesOnKeeps

\* The execution looks whether every work is accepted: none of them leaves that.
LEMMA LookKeeps == ASSUME ExecutionInv, NEW x \in Agents, LookComplete(x) PROVE ExecutionInv'
<1>1. /\ UNCHANGED <<goal, work, run, reclaim, incidents>>
      /\ goal \in [status: GoalStatus, version: Nat] /\ incidents \in 0..MaxIncidents
      /\ exec[x] \in Execution /\ exec[x].pc = "look" /\ Knows(exec[x], work, run)
  BY ExecutionFacts DEF LookComplete, At, ExecutionInv, WorkExecutionTypeOK
<1>2. CASE Leave(x)
  BY <1>1, <1>2, LeaveKeeps
<1>3. CASE /\ Complete
           /\ exec' = [exec EXCEPT ![x].pc = "achieve", ![x].goal = goal] /\ UNCHANGED stranded
  <2> DEFINE new == [exec[x] EXCEPT !.pc = "achieve", !.goal = goal]
  <2>1. /\ new \in Execution /\ new.pc = "achieve" /\ new.work = exec[x].work
        /\ new.attempt = exec[x].attempt /\ new.version = exec[x].version
    BY <1>1 DEF Execution, Places
  <2>2. exec' = [exec EXCEPT ![x] = new]
    BY <1>3
  <2> HIDE DEF new
  <2>3. Knows(new, work, run) /\ HasStarted(exec[x]) /\ new.work = Mine(x)
    BY <1>1, <1>3, <2>1 DEF Knows, HasStarted, Working, Mine, Complete
  <2> QED
    BY <1>1, <1>3, <2>1, <2>2, <2>3, GoesOnKeeps
<1> QED
  BY <1>2, <1>3 DEF LookComplete

\* The goal is achieved.
LEMMA AchieveKeeps == ASSUME ExecutionInv, NEW x \in Agents, Achieve(x) PROVE ExecutionInv'
<1>1. /\ UNCHANGED <<work, run, reclaim, incidents>> /\ Leave(x)
      /\ goal \in [status: GoalStatus, version: Nat] /\ incidents \in 0..MaxIncidents
  BY DEF Achieve, ExecutionInv, WorkExecutionTypeOK
<1>2. goal' \in [status: GoalStatus, version: Nat]
  BY <1>1, GoalTypes DEF Achieve
<1> QED
  BY <1>1, <1>2, LeaveKeeps

\* The reclaim reads a run before it advances it, and never moves one to its end.
LEMMA ReclaimReadsKeeps == ASSUME ExecutionInv, ReclaimReads PROVE ExecutionInv'
<1>1. PICK w \in Works, n \in Attempts :
        reclaim' = [work |-> w, attempt |-> n, status |-> "CREATED"]
  BY DEF ReclaimReads
<1>2. UNCHANGED <<goal, work, run, exec, stranded, incidents>>
  BY DEF ReclaimReads
<1>3. ExecutionsKnow' /\ Exclusive' /\ VerdictsRest'
  BY <1>2, ExecutionsStay DEF ExecutionInv, WorkExecutionTypeOK
<1>4. n \in 0..MaxAttempts /\ "CREATED" \in RunStatus
  BY ExecutionAssumption DEF Attempts, RunStatus
<1> QED
  BY <1>1, <1>2, <1>3, <1>4 DEF ExecutionInv, WorkExecutionTypeOK, ReclaimKnows

LEMMA ReclaimAdvancesKeeps == ASSUME ExecutionInv, ReclaimAdvances PROVE ExecutionInv'
<1> DEFINE w == reclaim.work
           n == reclaim.attempt
<1>1. /\ UNCHANGED <<goal, work, exec, stranded, incidents>> /\ reclaim # NoReclaim
      /\ w \in Works /\ n \in Attempts
      /\ reclaim.status \in {"CREATED", "PERMIT_PENDING", "QUEUED"}
      /\ reclaim \in [work: Works \union {NoWork}, attempt: 0..MaxAttempts, status: RunStatus]
  BY DEF ReclaimAdvances, ExecutionInv, WorkExecutionTypeOK, ReclaimKnows
<1>2. CASE reclaim' = NoReclaim /\ UNCHANGED run
  <2>1. ExecutionsKnow' /\ Exclusive' /\ VerdictsRest'
    BY <1>1, <1>2, ExecutionsStay DEF ExecutionInv, WorkExecutionTypeOK
  <2>2. NoReclaim \in [work: Works \union {NoWork}, attempt: 0..MaxAttempts, status: RunStatus]
    BY ExecutionAssumption DEF NoReclaim, RunStatus
  <2> QED
    BY <1>1, <1>2, <2>1, <2>2 DEF ExecutionInv, WorkExecutionTypeOK, ReclaimKnows
<1>3. CASE /\ MoveRun(w, n, AdvancedBy[reclaim.status])
           /\ reclaim' = IF run'[w][n] = "RUNNING" THEN NoReclaim
                         ELSE [reclaim EXCEPT !.status = run'[w][n]]
  <2>1. PICK command : command = AdvancedBy[reclaim.status]
    OBVIOUS
  <2>2. command \in {"request_permit", "queue", "claim"}
    BY <1>1, <2>1 DEF AdvancedBy
  <2>3. MoveRun(w, n, command)
    BY <1>3, <2>1
  <2>4. PICK t \in RunTransitions :
          t[2] = command /\ t[1] = run[w][n] /\ run' = [run EXCEPT ![w][n] = t[3]]
    <3> HIDE DEF w, n
    <3> QED
      BY <1>1, <2>3, MovedRun
  <2>5. t[3] \in {"PERMIT_PENDING", "QUEUED", "RUNNING"}
    BY <2>2, <2>4, RunMoves
  <2>6. run'[w][n] = t[3]
    BY <1>1, <2>4 DEF ExecutionInv, WorkExecutionTypeOK
  <2>7. /\ run' \in [Works -> [Attempts -> RunStatus]]
        /\ \A v \in Works, m \in Attempts : run'[v][m] = "EXECUTED" <=> run[v][m] = "EXECUTED"
    <3> HIDE DEF w, n
    <3> QED
      BY <1>1, <2>2, <2>3, RunMovedOn
  <2>8. ExecutionsKnow' /\ Exclusive' /\ VerdictsRest'
    BY <1>1, <2>7, ExecutionsStay
  <2>9. /\ reclaim' \in [work: Works \union {NoWork}, attempt: 0..MaxAttempts, status: RunStatus]
        /\ ReclaimKnows'
    <3>1. CASE t[3] = "RUNNING"
      BY <1>3, <2>6, <3>1, ExecutionAssumption DEF NoReclaim, RunStatus, ReclaimKnows
    <3>2. CASE t[3] # "RUNNING"
      <4>1. reclaim' = [reclaim EXCEPT !.status = t[3]] /\ t[3] \in RunStatus
        BY <1>3, <2>5, <2>6, <3>2 DEF RunStatus
      <4>2. /\ reclaim' \in [work: Works \union {NoWork}, attempt: 0..MaxAttempts, status: RunStatus]
            /\ reclaim'.work = w /\ reclaim'.attempt = n /\ reclaim'.status = t[3]
        BY <1>1, <4>1
      <4> QED
        BY <1>1, <2>5, <3>2, <4>2 DEF ReclaimKnows
    <3> QED
      BY <3>1, <3>2
  <2> QED
    BY <1>1, <2>7, <2>8, <2>9 DEF ExecutionInv, WorkExecutionTypeOK
<1> QED
  BY <1>2, <1>3 DEF ReclaimAdvances

\* An operator moves the goal; a death leaves the work as it is.
LEMMA OperateKeeps == ASSUME ExecutionInv, Operate PROVE ExecutionInv'
<1>1. /\ UNCHANGED <<work, run, exec, reclaim, stranded>>
      /\ incidents' \in 0..MaxIncidents
  BY ExecutionAssumption DEF Operate, Incident, ExecutionInv, WorkExecutionTypeOK
<1>2. goal' \in [status: GoalStatus, version: Nat]
  BY GoalTypes DEF Operate
<1>3. ExecutionsKnow' /\ Exclusive' /\ VerdictsRest'
  BY <1>1, ExecutionsStay DEF ExecutionInv, WorkExecutionTypeOK
<1> QED
  BY <1>1, <1>2, <1>3 DEF ExecutionInv, WorkExecutionTypeOK, ReclaimKnows

LEMMA CrashKeeps == ASSUME ExecutionInv, Crash PROVE ExecutionInv'
<1>1. /\ UNCHANGED <<goal, work, run>> /\ incidents' \in 0..MaxIncidents
      /\ goal \in [status: GoalStatus, version: Nat]
  BY ExecutionAssumption DEF Crash, Incident, ExecutionInv, WorkExecutionTypeOK
<1>2. ASSUME NEW x \in Agents, Leave(x), UNCHANGED reclaim PROVE ExecutionInv'
  BY <1>1, <1>2, LeaveKeeps
<1>3. CASE reclaim' = NoReclaim /\ UNCHANGED <<exec, stranded>>
  <2>1. ExecutionsKnow' /\ Exclusive' /\ VerdictsRest'
    BY <1>1, <1>3, ExecutionsStay DEF ExecutionInv, WorkExecutionTypeOK
  <2>2. NoReclaim \in [work: Works \union {NoWork}, attempt: 0..MaxAttempts, status: RunStatus]
    BY ExecutionAssumption DEF NoReclaim, RunStatus
  <2> QED
    BY <1>1, <1>3, <2>1, <2>2 DEF ExecutionInv, WorkExecutionTypeOK, ReclaimKnows
<1> QED
  BY <1>2, <1>3 DEF Crash

\* Every step keeps the invariant.
LEMMA ExecutionStep == ExecutionInv /\ [WorkExecutionNext]_vars => ExecutionInv'
<1> SUFFICES ASSUME ExecutionInv, [WorkExecutionNext]_vars PROVE ExecutionInv'
  OBVIOUS
<1>1. CASE Reclaim \/ Operate \/ Crash
  BY <1>1, ReclaimReadsKeeps, ReclaimAdvancesKeeps, OperateKeeps, CrashKeeps DEF Reclaim
<1>2. ASSUME NEW x \in Agents, Execute(x) PROVE ExecutionInv'
  <2>1. CASE AdvanceRun(x)
    <3>1. /\ {"request_permit", "queue", "claim"} \subseteq Working \ {"mark_executed"}
          /\ {"queue", "claim", "call"} \subseteq Working
      BY DEF Working
    <3> QED
      BY <2>1, <3>1, RunStepKeeps DEF AdvanceRun
  <2>2. CASE Fail(x)
    <3>1. "mark_failed" \in Working \ {"mark_executed"} /\ "mark_unknown" \in Working
      BY DEF Working
    <3> QED
      BY <2>2, <3>1, RunStepKeeps, UnknownKeeps DEF Fail
  <2>3. CASE Finish(x)
    BY <2>3, ExecutedKeeps, EvaluateKeeps, AcceptKeeps, RejectKeeps DEF Finish
  <2>4. CASE \/ ActivateGoal(x) \/ ReadyWork(x) \/ CreateRun(x) \/ StartWork(x)
             \/ CallModels(x) \/ LookComplete(x) \/ Achieve(x)
    BY <2>4, ActivateKeeps, ReadyKeeps, CreateKeeps, StartKeeps, ModelCallKeeps, LookKeeps,
       AchieveKeeps
  <2> QED
    BY <1>2, <2>1, <2>2, <2>3, <2>4 DEF Execute
<1>3. ASSUME NEW x \in Agents, Begin(x) PROVE ExecutionInv'
  BY <1>3, BeginKeeps
<1>4. CASE UNCHANGED vars
  <2>1. ExecutionsKnow' /\ Exclusive' /\ VerdictsRest'
    BY <1>4, ExecutionsStay DEF vars, ExecutionInv, WorkExecutionTypeOK
  <2> QED
    BY <1>4, <2>1 DEF vars, ExecutionInv, WorkExecutionTypeOK, ReclaimKnows
<1> QED
  BY <1>1, <1>2, <1>3, <1>4 DEF WorkExecutionNext

(* The strengthened invariant holds in every state of the execution. *)
THEOREM ExecutionInductive == WorkExecutionSpec => []ExecutionInv
BY ExecutionInitial, ExecutionStep, PTL DEF WorkExecutionSpec

(***************************************************************************)
(* However calls for one work overlap, die and are overtaken, one of them  *)
(* at most asks the models, and a verdict rests on exactly one executed    *)
(* run (execution_service.py:185).                                         *)
(***************************************************************************)
THEOREM WorksExecuteOnce == WorkExecutionSpec => []OneExecution
<1>1. ExecutionInv => OneExecution
  <2> SUFFICES ASSUME ExecutionInv, NEW w \in Works
               PROVE  /\ Cardinality({x \in Agents : Mine(x) = w /\ Started(x)
                                   /\ work[w].status \in {"RUNNING", "EVALUATING"}}) <= 1
                      /\ Cardinality({n \in Attempts : run[w][n] = "EXECUTED"}) <= 1
                      /\ work[w].status \in {"EVALUATING", "ACCEPTED", "REJECTED"}
                           => \E n \in Attempts : run[w][n] = "EXECUTED"
    BY DEF OneExecution
  <2> DEFINE users == {x \in Agents : Mine(x) = w /\ Started(x)
                                   /\ work[w].status \in {"RUNNING", "EVALUATING"}}
             executed == {n \in Attempts : run[w][n] = "EXECUTED"}
  <2>1. \A x, y \in users : x = y
    BY DEF ExecutionInv, Exclusive, Started, HasStarted
  <2>2. \A n, m \in executed : n = m
    BY DEF ExecutionInv, VerdictsRest
  <2>3. Cardinality(users) <= 1 /\ Cardinality(executed) <= 1
    <3> HIDE DEF users, executed
    <3> QED
      BY <2>1, <2>2, AtMostOne
  <2>4. work[w].status \in {"EVALUATING", "ACCEPTED", "REJECTED"}
          => \E n \in Attempts : run[w][n] = "EXECUTED"
    BY DEF ExecutionInv, VerdictsRest, Judged, Done
  <2> QED
    BY <2>3, <2>4
<1> QED
  BY <1>1, ExecutionInductive, PTL

\* A work that is accepted stays so, and no step but achieve achieves the goal.
LEMMA AchievedStep ==
  ASSUME "achieve" \notin OperatorCommands, ExecutionInv, AchievedIsComplete,
         [WorkExecutionNext]_vars
  PROVE  AchievedIsComplete'
<1>1. ASSUME UNCHANGED work, goal' = goal \/ goal'.status # "ACHIEVED" PROVE AchievedIsComplete'
  BY <1>1 DEF AchievedIsComplete
<1>2. ASSUME NEW w \in Works, NEW command, MoveWork(w, command), UNCHANGED goal
      PROVE  AchievedIsComplete'
  <2>1. work[w].status # "ACCEPTED"
    BY <1>2, WorkMoves DEF MoveWork
  <2> QED
    BY <1>2, <2>1 DEF AchievedIsComplete
<1>3. ASSUME NEW x \in Agents, NEW place, NEW command, NEW next,
             place # "idle", WorkStep(x, place, command, next)
      PROVE  AchievedIsComplete'
  <2>1. Mine(x) \in Works /\ UNCHANGED goal
    BY <1>3, ExecutionFacts DEF WorkStep, At
  <2>2. UNCHANGED work \/ MoveWork(Mine(x), command)
    BY <1>3 DEF WorkStep
  <2> QED
    BY <1>1, <1>2, <2>1, <2>2
<1>4. ASSUME NEW x \in Agents, ActivateGoal(x) PROVE AchievedIsComplete'
  <2>1. UNCHANGED work
    BY <1>4 DEF ActivateGoal
  <2>2. CASE UNCHANGED goal
    BY <1>1, <2>1, <2>2
  <2>3. CASE exec[x].goal.status \in DOMAIN Activation /\ MoveGoal(Activation[exec[x].goal.status])
    <3>1. PICK command : command = Activation[exec[x].goal.status]
      OBVIOUS
    <3>2. command \in {"qualify", "activate"}
      BY <2>3, <3>1 DEF Activation
    <3>3. MoveGoal(command)
      BY <2>3, <3>1
    <3>4. goal'.status # "ACHIEVED"
      BY <3>2, <3>3, GoalTypes
    <3> QED
      BY <1>1, <2>1, <3>4
  <2> QED
    BY <1>4, <2>2, <2>3 DEF ActivateGoal
<1>5. ASSUME NEW x \in Agents, Achieve(x) PROVE AchievedIsComplete'
  <2>1. Knows(exec[x], work, run) /\ exec[x].pc = "achieve"
    BY <1>5, ExecutionFacts DEF Achieve, At
  <2> QED
    BY <1>5, <2>1 DEF Achieve, Knows, AchievedIsComplete
<1>6. ASSUME NEW x \in Agents, ReadyWork(x) PROVE AchievedIsComplete'
  <2>1. Mine(x) \in Works /\ UNCHANGED goal
    BY <1>6, ExecutionFacts DEF ReadyWork, At
  <2>2. UNCHANGED work \/ MoveWork(Mine(x), Readying[exec[x].status])
    BY <1>6 DEF ReadyWork
  <2> QED
    BY <1>1, <1>2, <2>1, <2>2
<1>7. ASSUME Operate PROVE AchievedIsComplete'
  <2>1. PICK command \in OperatorCommands : MoveGoal(command)
    BY <1>7 DEF Operate
  <2>2. goal'.status # "ACHIEVED"
    BY <2>1, GoalTypes
  <2> QED
    BY <1>1, <1>7, <2>2 DEF Operate
<1>8. ASSUME NEW x \in Agents, Begin(x) \/ CreateRun(x) \/ AdvanceRun(x) \/ CallModels(x) \/ LookComplete(x)
      PROVE  AchievedIsComplete'
  BY <1>1, <1>8 DEF Begin, CreateRun, AdvanceRun, RunStep, CallModels, LookComplete
<1>9. ASSUME NEW x \in Agents, StartWork(x) \/ Fail(x) \/ Finish(x) PROVE AchievedIsComplete'
  <2>1. ASSUME NEW command, NEW next, RunStep(x, command, next) PROVE AchievedIsComplete'
    BY <1>1, <2>1 DEF RunStep
  <2> QED
    BY <1>3, <1>9, <2>1 DEF StartWork, Fail, Finish
<1>10. CASE Reclaim \/ Crash \/ UNCHANGED vars
  BY <1>1, <1>10 DEF Reclaim, ReclaimReads, ReclaimAdvances, Crash, vars
<1> QED
  BY <1>4, <1>5, <1>6, <1>7, <1>8, <1>9, <1>10 DEF WorkExecutionNext, Execute

(***************************************************************************)
(* A goal is achieved only while every work is accepted, although the      *)
(* works are read before the goal is written (execution_service.py:511).   *)
(* The transitions endpoint takes any command: that nobody outside says    *)
(* achieve is a premise.                                                   *)
(***************************************************************************)
THEOREM AchievedMeansComplete ==
  "achieve" \notin OperatorCommands => (WorkExecutionSpec => []AchievedIsComplete)
<1> SUFFICES ASSUME "achieve" \notin OperatorCommands
             PROVE  WorkExecutionSpec => []AchievedIsComplete
  OBVIOUS
<1>1. WorkExecutionInit => AchievedIsComplete
  BY DEF WorkExecutionInit, AchievedIsComplete
<1>2. ExecutionInv /\ AchievedIsComplete /\ [WorkExecutionNext]_vars => AchievedIsComplete'
  BY AchievedStep
<1> QED
  BY <1>1, <1>2, ExecutionInductive, PTL DEF WorkExecutionSpec
===============================================================================
