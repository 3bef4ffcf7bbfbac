-------------------------- MODULE QuotaLedgerProofs --------------------------
(***************************************************************************)
(* The abstract ledger keeps every reservation balanced, for any set of    *)
(* keys, amounts, charges and limits.                                      *)
(***************************************************************************)
EXTENDS QuotaLedger, TLAPS

LInv == LTypeOK /\ Conserved

(* An empty ledger is balanced. *)
LEMMA LedgerInit == LInit => LInv
BY DEF LInit, LInv, LTypeOK, Conserved, Free, Entry

(* Holding an amount leaves every settled key as it was. *)
LEMMA HoldKeeps ==
  ASSUME LInv, NEW k \in Keys, NEW limit, Hold(k, limit)
  PROVE  LInv'
BY DEF LInv, LTypeOK, Conserved, Hold, Free, Entry

(* A settlement splits the amount of its key in two. *)
LEMMA SettleKeeps ==
  ASSUME LedgerParameters, LInv, NEW k \in Keys, NEW cost \in Charges, Settle(k, cost)
  PROVE  LInv'
<1> DEFINE billed == IF cost < Amount[k] THEN cost ELSE Amount[k]
           entry == [phase |-> "settled", billed |-> billed,
                     returned |-> Amount[k] - billed, extra |-> cost - billed]
<1>1. cost \in Nat /\ Amount[k] \in Nat
  BY DEF LedgerParameters
<1>2. billed \in Nat /\ Amount[k] - billed \in Nat /\ cost - billed \in Nat
  BY <1>1
<1>3. cost - billed > 0 => Amount[k] - billed = 0
  BY <1>1
<1>4. ledger' = [ledger EXCEPT ![k] = entry]
  BY DEF Settle
<1> HIDE DEF billed
<1>5. entry \in Entry
  BY <1>2 DEF Entry
<1>6. LTypeOK'
  BY <1>4, <1>5 DEF LInv, LTypeOK
<1>7. billed + (Amount[k] - billed) = Amount[k]
  BY <1>1, <1>2
<1>8. Conserved'
  BY <1>3, <1>4, <1>7 DEF LInv, LTypeOK, Conserved, Free
<1> QED
  BY <1>6, <1>8 DEF LInv

(* An extra cost is added only where nothing was returned. *)
LEMMA AddExtraKeeps ==
  ASSUME LedgerParameters, LInv, NEW k \in Keys, NEW cost \in Charges, AddExtra(k, cost)
  PROVE  LInv'
<1>1. cost \in Nat /\ Amount[k] \in Nat /\ cost > Amount[k]
  BY DEF LedgerParameters, AddExtra
<1>2. cost - Amount[k] \in Nat
  BY <1>1
<1> QED
  BY <1>2 DEF LInv, LTypeOK, Conserved, AddExtra, Free, Entry

(***************************************************************************)
(* Every behaviour of the ledger is well typed and balanced: what a key    *)
(* holds is either untouched or the sum of its billed and returned parts.  *)
(***************************************************************************)
THEOREM LedgerConserves == LedgerParameters => (LSpec => [](LTypeOK /\ Conserved))
<1> SUFFICES ASSUME LedgerParameters PROVE LSpec => []LInv
  BY DEF LInv
<1>1. LInit => LInv
  BY LedgerInit
<1>2. LInv /\ [LNext]_ledger => LInv'
  <2> SUFFICES ASSUME LInv, [LNext]_ledger PROVE LInv'
    OBVIOUS
  <2>1. ASSUME NEW k \in Keys, NEW limit \in Limits, Hold(k, limit) PROVE LInv'
    BY <2>1, HoldKeeps
  <2>2. ASSUME NEW k \in Keys, NEW cost \in Charges, Settle(k, cost) PROVE LInv'
    BY <2>2, SettleKeeps
  <2>3. ASSUME NEW k \in Keys, NEW cost \in Charges, AddExtra(k, cost) PROVE LInv'
    BY <2>3, AddExtraKeeps
  <2>4. CASE UNCHANGED ledger
    BY <2>4 DEF LInv, LTypeOK, Conserved
  <2> QED
    BY <2>1, <2>2, <2>3, <2>4 DEF LNext
<1> QED
  BY <1>1, <1>2, PTL DEF LSpec
==============================================================================
