---------------------------- MODULE DeliveryPool ----------------------------
(* DeliveryPartnersService (apps/api/src/delivery/): the riders that food    *)
(* and grocery orders share.  isAvailable is the only claim on a rider, and  *)
(* every operation on it is one UPDATE of one row.                           *)
EXTENDS Naturals

CONSTANT Partners

None == "none"
ASSUME NoneIsNoPartner == None \notin Partners

VARIABLE pool   \* the DeliveryPartner rows

(* A definition headed "Slip:" is no part of the model: it is a plausible    *)
(* mistake in the code it precedes, one that the properties have to notice.  *)

(* status DELETED stands for a row that is gone; every other status than     *)
(* APPROVED (PENDING, REJECTED, SUSPENDED) is treated alike by the code.     *)
PartnerRows == [status : {"APPROVED", "SUSPENDED", "DELETED"},
                isOnline : BOOLEAN, isAvailable : BOOLEAN]
PoolTypeOK == pool \in [Partners -> PartnerRows]

(* Riders an admin has approved, online and idle.                            *)
PoolInit == pool = [p \in Partners |->
                      [status |-> "APPROVED", isOnline |-> TRUE, isAvailable |-> TRUE]]

Exists(p) == p \in Partners /\ pool[p].status # "DELETED"

(* Slip: the rejecter is not left out.                                       *)
CandidatesWithRejecter(excluded) ==
  {p \in Partners : pool[p].status = "APPROVED" /\ pool[p].isOnline /\ pool[p].isAvailable}

(* The rows tryAssign reads; "excluded" is the rider who has just rejected.  *)
Candidates(excluded) == {p \in Partners : /\ pool[p].status = "APPROVED"
                                          /\ pool[p].isOnline
                                          /\ pool[p].isAvailable
                                          /\ p # excluded}

(* Slip: the claim trusts the row that was read.                             *)
ClaimWinsAlways(p) == Exists(p)

(* The conditional claim of tryAssign: WHERE isAvailable, so it can be lost. *)
ClaimWins(p) == Exists(p) /\ pool[p].isAvailable
Claimed(p) == [pool EXCEPT ![p].isAvailable = FALSE]

(* release and markUnavailable: unconditional, an error is swallowed.        *)
Released(p) == IF Exists(p) THEN [pool EXCEPT ![p].isAvailable = TRUE] ELSE pool
MarkedUnavailable(p) == IF Exists(p) THEN [pool EXCEPT ![p].isAvailable = FALSE] ELSE pool

(* The check of a manual assignment: approved, but neither online nor idle.  *)
ManuallyAssignable(p) == pool[p].status = "APPROVED"

(* A rider goes online or offline in the app.                                *)
ToggleOnline(p) == /\ Exists(p)
                   /\ pool' = [pool EXCEPT ![p].isOnline = ~@]

(* An admin suspends or approves a rider.                                    *)
ChangeStatus(p) == /\ Exists(p)
                   /\ pool' = [pool EXCEPT ![p].status = IF @ = "APPROVED" THEN "SUSPENDED"
                                                         ELSE "APPROVED"]

(* An admin deletes a rider.                                                 *)
Remove(p) == /\ Exists(p)
             /\ pool' = [pool EXCEPT ![p].status = "DELETED"]
=============================================================================
