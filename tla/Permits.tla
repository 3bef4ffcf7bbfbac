------------------------------- MODULE Permits -------------------------------
(***************************************************************************)
(* Execution permits (application/permit_service.py): the right to perform *)
(* one external effect.  A permit is requested, approved (at once when the *)
(* risk is low), claimed by its actor, and consumed once; until then it    *)
(* may be revoked, and it is swept when its validity is over.  Every       *)
(* operation is one conditional update.                                    *)
(*                                                                         *)
(* Abstracted: scopes, parameters, reasons, and the idempotency key, which *)
(* is the identity of the permit here.  The nonce is told to the claimant  *)
(* only: whoever prepares an operation or consumes a permit here has       *)
(* claimed it.  delegate has no caller in the repository and is left out.  *)
(***************************************************************************)
EXTENDS Integers, FiniteSets

CONSTANT Permits

VARIABLE permit

PermitStatus == {"NONE", "REQUESTED", "APPROVED", "DENIED", "CLAIMED", "CONSUMED",
                 "REVOKED", "EXPIRED"}
Revocable == {"REQUESTED", "APPROVED", "CLAIMED"}

\* valid: the validity window is open
PermitsTypeOK == permit \in [Permits -> [status: PermitStatus, valid: BOOLEAN]]

PermitsInit == permit = [p \in Permits |-> [status |-> "NONE", valid |-> FALSE]]

-------------------------------------------------------------------------------
\* nobody looks at the validity of a permit that is over
SetPermit(p, status) ==
  permit' = [permit EXCEPT ![p] = [status |-> status, valid |-> @.valid /\ status \in Revocable]]

\* a low-risk request is approved by policy, any other waits for a decision;
\* a request whose key is known returns the permit that is there
Request(p) ==
  \/ /\ permit[p].status = "NONE"
     /\ \E status \in {"REQUESTED", "APPROVED"} :
          permit' = [permit EXCEPT ![p] = [status |-> status, valid |-> TRUE]]
  \/ permit[p].status # "NONE" /\ UNCHANGED permit

Decide(p) ==
  /\ permit[p].status = "REQUESTED" /\ permit[p].valid
  /\ \E status \in {"APPROVED", "DENIED"} : SetPermit(p, status)

Usable(p) == permit[p].status = "APPROVED" /\ permit[p].valid

ClaimPermit(p) == Usable(p) /\ SetPermit(p, "CLAIMED")

\* the nonce and the status are looked at, the validity is not
ConsumePermit(p) == permit[p].status = "CLAIMED" /\ SetPermit(p, "CONSUMED")

Revoke(p) == permit[p].status \in Revocable /\ SetPermit(p, "REVOKED")

Overdue == {p \in Permits : permit[p].status \in Revocable /\ ~permit[p].valid}

\* the sweep of the worker loop takes all that are overdue
ExpireDue ==
  /\ Overdue # {}
  /\ permit' = [p \in Permits |->
                  IF p \in Overdue THEN [status |-> "EXPIRED", valid |-> FALSE]
                  ELSE permit[p]]

ValidityEnds(p) ==
  /\ permit[p].status \in Revocable /\ permit[p].valid
  /\ permit' = [permit EXCEPT ![p].valid = FALSE]

PermitsNext ==
  \/ ExpireDue
  \/ \E p \in Permits :
       \/ Request(p) \/ Decide(p) \/ ClaimPermit(p) \/ ConsumePermit(p)
       \/ Revoke(p) \/ ValidityEnds(p)

PermitsSpec == PermitsInit /\ [][PermitsNext]_permit

-------------------------------------------------------------------------------
(***************************************************************************)
(* Properties.                                                             *)
(***************************************************************************)

\* A permit is used once: from the moment it is consumed, revoked, denied or
\* expired nothing brings it back, whatever claims, sweeps and revocations
\* are under way (permit_service.py:191).
PermitIsUsedOnce ==
  [][\A p \in Permits :
       permit[p].status \in {"CONSUMED", "REVOKED", "DENIED", "EXPIRED"}
         => permit'[p].status = permit[p].status]_permit
===============================================================================
