-------------------------------- MODULE Budget --------------------------------
(***************************************************************************)
(* The hard budget of a goal (application/budget_ledger.py) and the agent  *)
(* runs that spend it (agent/agent_runner.py): before a billable call the  *)
(* worst case is reserved under the key of the turn and claimed; after it  *)
(* the actual cost is settled, or the hold released when the call raised.  *)
(*                                                                         *)
(* An agent run is the work of an outbox event, which may be delivered     *)
(* again: two executions of one turn may run at once, each may die, and a  *)
(* later one starts the turn anew, with its own estimate of the worst case.*)
(* The keys of one turn, "k", "k#r2", "k#r3" are its epochs.               *)
(*                                                                         *)
(* reserve reads the rows of its key before it locks the goal: two steps.  *)
(* Every other operation locks the row it changes: one step.  The limit is *)
(* taken as set once; what check_budget_limit does to the status of the    *)
(* goal is left out.                                                       *)
(*                                                                         *)
(* The amounts are Float columns, natural numbers here: units that a       *)
(* rounding error is small against.  Such an error shows where equal       *)
(* amounts are compared.  An account that has held nothing but one hold    *)
(* has been rounded nowhere; once holds have been added to each other the  *)
(* last of them may be found larger than what is reserved, and the         *)
(* conditional update that takes it off then changes no account.           *)
(***************************************************************************)
EXTENDS Integers, FiniteSetsExt

CONSTANTS
  AgentRuns,   \* executions that may run at once
  Turns,       \* the keys they reserve under
  MaxEpochs,   \* bound: epochs of a turn
  Amounts,     \* worst cases that an execution may estimate
  Costs,       \* what a call may really cost
  Limit,       \* the budget_limit of the goal
  MaxCrashes,  \* bound: executions that die
  MaxDirect,   \* bound: costs that are recorded without a reservation
  NoTurn

ASSUME BudgetAssumption ==
  /\ MaxEpochs \in Nat \ {0} /\ MaxCrashes \in Nat /\ MaxDirect \in Nat /\ Limit \in Nat
  /\ Amounts \subseteq Nat /\ Costs \subseteq Nat
  /\ IsFiniteSet(Turns) /\ NoTurn \notin Turns

Epochs == 1..MaxEpochs

VARIABLES
  row,      \* row[t][n]: the reservation of epoch n of turn t
  account,  \* the account of the goal, created by the first reservation; rounded: what
            \* is reserved is the result of sums of several holds
  entries,  \* the sum of the cost entries of the goal
  agent,    \* agent[x]: the execution of agent x
  left,     \* <<t, n>>: live holds an execution died with, or could not settle
  direct,   \* costs recorded without a reservation: how many
  crashes

budgetVars == <<row, account, entries, agent, left, direct, crashes>>

RowStatus == {"NONE", "RESERVED", "CLAIMED", "SETTLED", "RELEASED"}
Live == {"RESERVED", "CLAIMED"}
AgentPlaces == {"idle", "hold", "claim", "call", "settle", "release"}

BudgetTypeOK ==
  /\ row \in [Turns -> [Epochs -> [status: RowStatus, amount: Nat]]]
  /\ account \in [open: BOOLEAN, spent: Nat, reserved: Nat, rounded: BOOLEAN]
  /\ entries \in Nat
  /\ agent \in [AgentRuns -> [pc: AgentPlaces, turn: Turns \union {NoTurn},
                             epoch: 0..MaxEpochs, amount: Nat, cost: Nat]]
  /\ left \subseteq Turns \X Epochs
  /\ direct \in 0..MaxDirect /\ crashes \in 0..MaxCrashes

RunAt(place, t, n, amount) ==
  [pc |-> place, turn |-> t, epoch |-> n, amount |-> amount, cost |-> 0]
NoRun == RunAt("idle", NoTurn, 0, 0)

BudgetInit ==
  /\ row = [t \in Turns |-> [n \in Epochs |-> [status |-> "NONE", amount |-> 0]]]
  /\ account = [open |-> FALSE, spent |-> 0, reserved |-> 0, rounded |-> FALSE]
  /\ entries = 0
  /\ agent = [x \in AgentRuns |-> NoRun]
  /\ left = {} /\ direct = 0 /\ crashes = 0

-------------------------------------------------------------------------------
AgentAt(x, place) == agent[x].pc = place
AgentTo(x, place) == agent' = [agent EXCEPT ![x].pc = place]
AgentStops(x) == agent' = [agent EXCEPT ![x] = NoRun]
MyRow(x) == row[agent[x].turn][agent[x].epoch]
SetMyRow(x, status) ==
  row' = [row EXCEPT ![agent[x].turn][agent[x].epoch] =
            [status |-> status, amount |-> IF status \in Live THEN @.amount ELSE 0]]
MyKey(x) == <<agent[x].turn, agent[x].epoch>>

BadLiveEpochs(t) == {n \in Epochs : row[t][n].status = "RESERVED"}

\* _resolve_live_key, the start of reserve: a live row is the one to use, if it
\* is of the same amount; otherwise the first key that is free
LiveEpochs(t) == {n \in Epochs : row[t][n].status \in Live}
FreeEpochs(t) == {n \in Epochs : row[t][n].status = "NONE"}

Resolve(x) ==
  /\ AgentAt(x, "idle")
  /\ \E t \in Turns, amount \in Amounts :
       \/ \E n \in LiveEpochs(t) :
            /\ row[t][n].amount = amount
            /\ agent' = [agent EXCEPT ![x] = RunAt("claim", t, n, 0)]
       \/ /\ LiveEpochs(t) = {} /\ FreeEpochs(t) # {}
          /\ agent' = [agent EXCEPT ![x] = RunAt("hold", t, Min(FreeEpochs(t)), amount)]
  /\ UNCHANGED <<row, account, entries, left, direct, crashes>>

\* the rest of reserve, under the lock of the goal: the account is opened with
\* what the entries say, the hold is admitted within the limit, and the row is
\* inserted, which fails if its key is taken by now; a failure undoes it all
Opened == IF account.open THEN account
          ELSE [open |-> TRUE, spent |-> entries, reserved |-> 0, rounded |-> FALSE]
BadAdmitted(amount) == Opened.spent + amount <= Limit  \* other holds are not counted

Admitted(amount) == Opened.spent + Opened.reserved + amount <= Limit

Hold(x) ==
  /\ AgentAt(x, "hold")
  /\ IF Admitted(agent[x].amount) /\ MyRow(x).status = "NONE"
     THEN /\ account' = [Opened EXCEPT !.reserved = @ + agent[x].amount,
                                       !.rounded = Opened.reserved > 0]
          /\ row' = [row EXCEPT ![agent[x].turn][agent[x].epoch] =
                       [status |-> "RESERVED", amount |-> agent[x].amount]]
          /\ agent' = [agent EXCEPT ![x].pc = "claim", ![x].amount = 0]
     ELSE AgentStops(x) /\ UNCHANGED <<account, row>>
  /\ UNCHANGED <<entries, left, direct, crashes>>

\* claim: who finds it CLAIMED is given the same token
Claim(x) ==
  /\ AgentAt(x, "claim")
  /\ IF MyRow(x).status \in Live
     THEN SetMyRow(x, "CLAIMED") /\ AgentTo(x, "call")
     ELSE AgentStops(x) /\ UNCHANGED row
  /\ UNCHANGED <<account, entries, left, direct, crashes>>

BadCall(x) ==  \* an exception of the call releases nothing
  /\ AgentAt(x, "call")
  /\ \/ \E cost \in Costs : agent' = [agent EXCEPT ![x].pc = "settle", ![x].cost = cost]
     \/ AgentStops(x)
  /\ UNCHANGED <<row, account, entries, left, direct, crashes>>

\* the call, outside any transaction: it returns with a cost, or raises
Call(x) ==
  /\ AgentAt(x, "call")
  /\ \/ \E cost \in Costs : agent' = [agent EXCEPT ![x].pc = "settle", ![x].cost = cost]
     \/ AgentTo(x, "release")
  /\ UNCHANGED <<row, account, entries, left, direct, crashes>>

BadGiveBack(amount) == {FALSE}  \* the row is over, the account keeps it reserved

\* whether the conditional update of the account finds it: nobody looks at the count
Covers(amount) == account.reserved >= amount
Misses(amount) ==
  \/ account.reserved < amount
  \/ account.rounded /\ amount > 0 /\ account.reserved = amount
GiveBack(amount) == {applied \in BOOLEAN : IF applied THEN Covers(amount) ELSE Misses(amount)}

\* what the update writes; of an account that reserves nothing, no sum is left
Less(amount, cost) ==
  [account EXCEPT !.reserved = @ - amount, !.spent = @ + cost,
                  !.rounded = @ /\ account.reserved > amount]

\* settle refuses a cost beyond the hold, which then stays claimed
Settle(x) ==
  /\ AgentAt(x, "settle")
  /\ IF MyRow(x).status = "CLAIMED" /\ agent[x].cost <= MyRow(x).amount
     THEN /\ entries' = entries + agent[x].cost
          /\ \E applied \in GiveBack(MyRow(x).amount) :
               account' = IF applied THEN Less(MyRow(x).amount, agent[x].cost) ELSE account
          /\ SetMyRow(x, "SETTLED")
          /\ left' = left \ {MyKey(x)}
     ELSE /\ left' = IF MyRow(x).status \in Live THEN left \union {MyKey(x)} ELSE left
          /\ UNCHANGED <<row, account, entries>>
  /\ AgentStops(x)
  /\ UNCHANGED <<direct, crashes>>

\* release, and the exception goes on
ReleaseHold(x) ==
  /\ AgentAt(x, "release")
  /\ IF MyRow(x).status = "CLAIMED"
     THEN /\ \E applied \in GiveBack(MyRow(x).amount) :
               account' = IF applied THEN Less(MyRow(x).amount, 0) ELSE account
          /\ SetMyRow(x, "RELEASED")
          /\ left' = left \ {MyKey(x)}
     ELSE UNCHANGED <<row, account, left>>
  /\ AgentStops(x)
  /\ UNCHANGED <<entries, direct, crashes>>

\* record_cost, of the orchestrator: an entry, and nothing in the account
RecordCost ==
  /\ direct < MaxDirect
  /\ direct' = direct + 1
  /\ \E cost \in Costs : entries' = entries + cost
  /\ UNCHANGED <<row, account, agent, left, crashes>>

AgentDies(x) ==
  /\ ~AgentAt(x, "idle") /\ crashes < MaxCrashes
  /\ crashes' = crashes + 1
  /\ left' = IF ~AgentAt(x, "hold") /\ MyRow(x).status \in Live THEN left \union {MyKey(x)}
             ELSE left
  /\ AgentStops(x)
  /\ UNCHANGED <<row, account, entries, direct>>

-------------------------------------------------------------------------------
Step(x) ==
  \/ Hold(x) \/ Claim(x) \/ Call(x) \/ Settle(x) \/ ReleaseHold(x)

BudgetNext ==
  \/ RecordCost
  \/ \E x \in AgentRuns : Resolve(x) \/ Step(x) \/ AgentDies(x)

BudgetSpec == BudgetInit /\ [][BudgetNext]_budgetVars

\* an execution that was begun goes on, while it lives
BudgetFairSpec == BudgetSpec /\ \A x \in AgentRuns : WF_budgetVars(Step(x))

-------------------------------------------------------------------------------
(***************************************************************************)
(* Properties.                                                             *)
(***************************************************************************)

\* However executions of one turn overlap, die and come back, a turn has one
\* live hold at most: a fresh key is taken only when the earlier ones are over
\* (budget_ledger.py:224).
OneLiveHold ==
  \A t \in Turns : Cardinality({n \in Epochs : row[t][n].status \in Live}) <= 1

\* The account says what the rows say, but for one hold: what it reserves is the sum
\* of the live holds, and of one that is over whose update missed, for the rounding of
\* sums; after it none misses again.  The account lacks the cost of that hold and no
\* other (budget_ledger.py:336, 365).
AccountIsHolds ==
  LET held == SumFunctionOnSet([h \in Turns \X Epochs |-> row[h[1]][h[2]].amount],
                {h \in Turns \X Epochs : row[h[1]][h[2]].status \in Live})
      stuck == account.reserved - held
  IN /\ stuck \in {0} \union Amounts
     /\ stuck > 0 => account.rounded
     /\ direct = 0 => account.spent <= entries /\ entries <= account.spent + stuck

\* The hard budget: what was settled and what is held fit within the limit. What
\* is recorded beside the account later on is not counted (budget_ledger.py:408).
HardBudget == account.open => account.spent + account.reserved <= Limit

\* A hold that stays live was left behind by an execution that died or could
\* not settle it: nothing else keeps a part of the budget for good, whichever
\* executions share it (budget_ledger.py:286).
HoldEnds ==
  \A t \in Turns, n \in Epochs :
    row[t][n].status \in Live ~> (row[t][n].status \notin Live \/ <<t, n>> \in left)
===============================================================================
