----------------------------- MODULE QuotaLedger -----------------------------
(***************************************************************************)
(* What the novel engine's quota ledger promises, whoever calls it: the    *)
(* amount of a reservation key is held at most once, a held amount is      *)
(* split exactly once into a billed and a returned part, and a cost above  *)
(* the reservation is added at most once, in full.  ModelCalls, the broker *)
(* with its crashes, late answers and recovery sweeps, implements it.      *)
(***************************************************************************)
EXTENDS Integers, FiniteSets, Functions

CONSTANTS
  Keys,      \* reservation keys, one per (logical call, attempt)
  Amount,    \* [Keys -> Nat \ {0}]: the amount a key reserves
  Charges,   \* what a reservation may turn out to cost
  Limits     \* the funding limits a caller may come with

\* what is assumed of the constants wherever a theorem names it
LedgerParameters ==
  /\ Amount \in [Keys -> Nat \ {0}]
  /\ Charges \subseteq Nat \ {0}
  /\ Limits \subseteq Nat

VARIABLE ledger

Entry == [phase : {"free", "held", "settled"}, billed : Nat, returned : Nat,
          extra : Nat]

Free == [phase |-> "free", billed |-> 0, returned |-> 0, extra |-> 0]

LTypeOK == ledger \in [Keys -> Entry]

HeldKeys == {k \in Keys : ledger[k].phase = "held"}

Total(keys) == SumFunctionOnSet(Amount, keys)

HeldTotal == Total(HeldKeys)

LInit == ledger = [k \in Keys |-> Free]

\* a key is held once, and only if it fits the limit beside all that is held
Hold(k, limit) ==
  /\ ledger[k] = Free
  /\ HeldTotal + Amount[k] <= limit
  /\ ledger' = [ledger EXCEPT ![k].phase = "held"]

Settle(k, cost) ==
  /\ ledger[k].phase = "held"
  /\ LET billed == IF cost < Amount[k] THEN cost ELSE Amount[k]
     IN ledger' = [ledger EXCEPT ![k] =
                     [phase |-> "settled", billed |-> billed,
                      returned |-> Amount[k] - billed, extra |-> cost - billed]]

\* a later settlement of the same key turns out dearer than the reservation
AddExtra(k, cost) ==
  /\ ledger[k].phase = "settled"
  /\ ledger[k].returned = 0
  /\ ledger[k].extra = 0
  /\ cost > Amount[k]
  /\ ledger' = [ledger EXCEPT ![k].extra = cost - Amount[k]]

LNext ==
  \E k \in Keys :
    \/ \E limit \in Limits : Hold(k, limit)
    \/ \E cost \in Charges : Settle(k, cost) \/ AddExtra(k, cost)

LSpec == LInit /\ [][LNext]_ledger

(***************************************************************************)
(* Conserved: a held amount is untouched, a settled one is the sum of what *)
(* was billed and what was returned, and only a reservation that was used  *)
(* up entirely can carry an extra cost.                                    *)
(***************************************************************************)
Conserved ==
  \A k \in Keys :
    /\ ledger[k].phase # "settled" => ledger[k] = [Free EXCEPT !.phase = ledger[k].phase]
    /\ ledger[k].phase = "settled" =>
         /\ ledger[k].billed + ledger[k].returned = Amount[k]
         /\ ledger[k].extra > 0 => ledger[k].returned = 0

==============================================================================
