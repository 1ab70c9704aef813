-------------------------------- MODULE Staff -------------------------------
(* Accounts that others create: StaffService, whose handlers are admins      *)
(* themselves, and the logins that admins make for riders and restaurants    *)
(* (DeliveryPartnersService.createAccount, createOwnerAccount).              *)
EXTENDS Handlers

CONSTANTS Admins,          \* e-mail addresses of staff
          Boss,            \* the super admin that the seed creates
          Outlets,         \* riders and restaurants that may get a login
          MaxCalls,        \* bound: requests to StaffService, and logins of an outlet
          MaxDead          \* bound: requests that die half-way

VARIABLES staff,    \* User rows of role ADMIN
          audit,    \* the number of AuditLog rows
          changes,  \* the number of changes of User rows of role ADMIN
          logins,   \* User rows created for each outlet
          linked,   \* is the outlet's userId set?
          crossed,  \* has staff changed while an update that was checked was still to be written?
          dead,     \* requests that died
          calls

own == <<staff, audit, changes, logins, linked, crossed, dead, calls>>
vars == <<own, req>>

NoRow == [exists |-> FALSE, super |-> FALSE, active |-> FALSE, manages |-> FALSE]

TypeOK == /\ staff \in [Admins -> [exists : BOOLEAN, super : BOOLEAN, active : BOOLEAN,
                                   manages : BOOLEAN]]
          /\ audit \in Nat /\ changes \in Nat /\ dead \in Nat
          /\ logins \in [Outlets -> Nat] /\ linked \in [Outlets -> BOOLEAN]
          /\ crossed \in BOOLEAN

Init == /\ staff = [a \in Admins |-> IF a = Boss
                      THEN [exists |-> TRUE, super |-> TRUE, active |-> TRUE, manages |-> TRUE]
                      ELSE NoRow]
        /\ audit = 0 /\ changes = 0 /\ dead = 0 /\ calls = 0
        /\ logins = [u \in Outlets |-> 0] /\ linked = [u \in Outlets |-> FALSE]
        /\ crossed = FALSE
        /\ NoRequests

(* JwtStrategy and the guards: the actor as they are when the call arrives.  *)
Active(a) == staff[a].exists /\ staff[a].active
MayManage(a) == Active(a) /\ (staff[a].super \/ staff[a].manages)

SuperAdmins == {a \in Admins : Active(a) /\ staff[a].super}

Request(w, actor, job) == /\ calls < MaxCalls /\ calls' = calls + 1
                          /\ MayManage(actor)
                          /\ Start(w, job)
                          /\ UNCHANGED <<staff, audit, changes, logins, linked, crossed, dead>>

(* The default permissions of a role: manage_staff is a super admin's.       *)
CreateStaff(w, actor, a, super) ==
  /\ super => staff[actor].super
  /\ ~staff[a].exists
  /\ Request(w, actor, [at |-> "write", a |-> a, new |-> TRUE,
                        set |-> [exists |-> TRUE, super |-> super, active |-> TRUE,
                                 manages |-> super]])

(* What an update may set: a role, a status, or the permissions.             *)
Updates == UNION {[{field} -> BOOLEAN] : field \in {"super", "active", "manages"}}
Promotes(a, set) == ~staff[a].super /\ "super" \in DOMAIN set /\ set.super
Demotes(a, set) ==
  staff[a].super /\ \E field \in DOMAIN set \cap {"super", "active"} : ~set[field]

UpdateStaff(w, actor, a, set) ==
  /\ staff[a].exists
  /\ Promotes(a, set) => staff[actor].super
  /\ Request(w, actor, [at |-> IF Demotes(a, set) THEN "count" ELSE "write", a |-> a,
                        new |-> FALSE, set |-> set])

(* Slip: the super admin that is being demoted is counted too.               *)
CountOthersAll(w) ==
  /\ At(w, "count")
  /\ IF SuperAdmins = {} THEN End(w) ELSE Go(w, "write")
  /\ UNCHANGED own

CountOthers(w) ==
  /\ At(w, "count")
  /\ IF SuperAdmins \ {req[w].a} = {} THEN End(w) ELSE Go(w, "write")
  /\ UNCHANGED own

(* The fields that are set are overwritten.                                  *)
Updated(row, set) ==
  [field \in DOMAIN row |-> IF field \in DOMAIN set THEN set[field] ELSE row[field]]

(* The unique e-mail refuses a row that has come in between.                 *)
WriteStaff(w) ==
  /\ At(w, "write")
  /\ LET r == req[w] IN
       IF r.new /\ staff[r.a].exists THEN UNCHANGED <<staff, changes, crossed>> /\ End(w)
       ELSE /\ crossed' = (crossed \/ \E v \in Workers \ {w} : At(v, "write") /\ ~req[v].new)
            /\ staff' = [staff EXCEPT ![r.a] = Updated(@, r.set)]
            /\ changes' = changes + 1
            /\ Go(w, "audit")
  /\ UNCHANGED <<audit, logins, linked, dead, calls>>

Record(w) == /\ At(w, "audit")
             /\ audit' = audit + 1
             /\ End(w)
             /\ UNCHANGED <<staff, changes, logins, linked, crossed, dead, calls>>

(* Slip: an outlet that has a login may get another.                         *)
CreateLoginAgain(w, u) ==
  /\ Start(w, [at |-> "login", u |-> u])
  /\ UNCHANGED own

(* Look whether there is a login, create a user of its own e-mail, link it.  *)
CreateLogin(w, u) ==
  /\ ~linked[u]
  /\ Start(w, [at |-> "login", u |-> u])
  /\ UNCHANGED own

InsertLogin(w) == /\ At(w, "login") /\ logins[req[w].u] < MaxCalls
                  /\ logins' = [logins EXCEPT ![req[w].u] = @ + 1]
                  /\ Go(w, "link")
                  /\ UNCHANGED <<staff, audit, changes, linked, crossed, dead, calls>>

Link(w) == /\ At(w, "link")
           /\ linked' = [linked EXCEPT ![req[w].u] = TRUE]
           /\ End(w)
           /\ UNCHANGED <<staff, audit, changes, logins, crossed, dead, calls>>

Crash(w) == /\ (At(w, "audit") \/ At(w, "link")) /\ dead < MaxDead
            /\ dead' = dead + 1
            /\ End(w)
            /\ UNCHANGED <<staff, audit, changes, logins, linked, crossed, calls>>

Next == \E w \in Workers :
          \/ \E actor, a \in Admins :
               \/ \E super \in BOOLEAN : CreateStaff(w, actor, a, super)
               \/ \E set \in Updates : UpdateStaff(w, actor, a, set)
          \/ \E u \in Outlets : CreateLogin(w, u)
          \/ CountOthers(w) \/ WriteStaff(w) \/ Record(w) \/ InsertLogin(w) \/ Link(w) \/ Crash(w)

Spec == Init /\ [][Next]_vars

(***************************************************************************)
(* Properties.                                                             *)
(***************************************************************************)

Overlap == Cardinality(Workers) - 1
AtRest == \A w \in Workers : ~Running(w)

(* "Never allow the last active Super Admin to be demoted/blocked": somebody *)
(* can always manage the staff, unless the staff has changed between the     *)
(* check of an update and its write.                                         *)
LastSuperAdmin == ~crossed => SuperAdmins # {}

(* What requests that die leave behind, and no others: a change that is not  *)
(* in the audit log, a login that no rider or restaurant is linked to.       *)
NothingUnlinked ==
  /\ AtRest => changes - audit <= dead
  /\ \A u \in Outlets : AtRest => logins[u] <= 1 + Overlap + dead
=============================================================================
