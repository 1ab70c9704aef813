--------------------------- MODULE AccountsProofs ---------------------------
(* The components around an account, for any number of requests, browsers,   *)
(* addresses, admins and limits: what overlapping, repeated and dying        *)
(* requests may spoil, and by how much.                                      *)
EXTENDS Accounts, TLAPS, FiniteSetTheorems, WellFoundedInduction

(***************************************************************************)
(* Counting the slots of which something is true.                          *)
(***************************************************************************)

Tick(b) == IF b THEN 1 ELSE 0

(* One element of a finite set enters or leaves a subset.                    *)
LEMMA CountMoves ==
  ASSUME NEW U, IsFiniteSet(U), NEW S \in SUBSET U, NEW T \in SUBSET U, NEW w \in U,
         \A v \in U : v # w => (v \in S <=> v \in T)
  PROVE  /\ Cardinality(S) \in Nat /\ Cardinality(T) \in Nat
         /\ Cardinality(T) = Cardinality(S) + Tick(w \in T) - Tick(w \in S)
<1>1. IsFiniteSet(S) /\ IsFiniteSet(T)
  BY FS_Subset
<1>2. Cardinality(S) \in Nat /\ Cardinality(T) \in Nat
  BY <1>1, FS_CardinalityType
<1>3. CASE w \in S <=> w \in T
  BY <1>2, <1>3, S = T DEF Tick
<1>4. CASE w \in S /\ w \notin T
  <2>1. T = S \ {w}
    BY <1>4
  <2> QED BY <1>1, <1>2, <1>4, <2>1, FS_RemoveElement DEF Tick
<1>5. CASE w \notin S /\ w \in T
  <2>1. T = S \cup {w}
    BY <1>5
  <2> QED BY <1>1, <1>2, <1>5, <2>1, FS_AddElement DEF Tick
<1> QED BY <1>3, <1>4, <1>5

(* No more slots than there are, and at least one.                           *)
LEMMA CountSlots ==
  /\ Cardinality(Workers) \in Nat \ {0}
  /\ \A S \in SUBSET Workers : Cardinality(S) \in Nat /\ Cardinality(S) <= Cardinality(Workers)
  /\ \A S, T \in SUBSET Workers :
       S \cap T = {} => Cardinality(S) + Cardinality(T) <= Cardinality(Workers)
<1>1. IsFiniteSet(Workers) /\ Workers # {}
  BY WorkersAreFinite
<1>2. Cardinality(Workers) \in Nat /\ Cardinality(Workers) # 0
  BY <1>1, FS_CardinalityType, FS_EmptySet
<1>3. \A S \in SUBSET Workers : /\ IsFiniteSet(S) /\ Cardinality(S) \in Nat
                                /\ Cardinality(S) <= Cardinality(Workers)
  BY <1>1, FS_Subset, FS_CardinalityType
<1>4. ASSUME NEW S \in SUBSET Workers, NEW T \in SUBSET Workers, S \cap T = {}
      PROVE  Cardinality(S) + Cardinality(T) <= Cardinality(Workers)
  <2>1. Cardinality(S \cup T) = Cardinality(S) + Cardinality(T) - Cardinality({})
    BY <1>3, <1>4, FS_Union
  <2>2. Cardinality({}) = 0 /\ S \cup T \in SUBSET Workers
    BY FS_EmptySet
  <2> QED BY <1>3, <2>1, <2>2
<1> QED BY <1>2, <1>3, <1>4

(* A set of numbers up to a bound has a greatest one.                        *)
LEMMA GreatestExists ==
  ASSUME NEW n \in Nat, NEW S \in SUBSET 1 .. n, S # {}
  PROVE  \E m \in S : \A d \in S : d <= m
<1> DEFINE T == {k \in Nat : \A d \in S : d <= k}
<1>1. T \subseteq Nat /\ n \in T
  OBVIOUS
<1>2. \E k \in T : \A j \in T : ~(<<j, k>> \in OpToRel(<, Nat))
  BY <1>1, NatLessThanWellFounded, WFMin
<1>3. PICK k \in T : \A j \in T : ~(j < k)
  BY <1>1, <1>2 DEF OpToRel
<1>4. CASE k \in S
  BY <1>3, <1>4
<1>5. CASE k \notin S
  <2>1. \A d \in S : 1 <= d /\ d < k
    BY <1>3, <1>5
  <2>2. PICK d : d \in S
    OBVIOUS
  <2>3. k - 1 \in Nat /\ k - 1 < k /\ \A c \in S : c <= k - 1
    BY <2>1, <2>2
  <2> QED BY <1>3, <2>3
<1> QED BY <1>4, <1>5

(* The requests at one statement, with one value in a field.                 *)
Slots(stage, field, key) == {w \in Workers : req[w].at = stage /\ req[w][field] = key}
Counted(stage, field, key) == Cardinality(Slots(stage, field, key))

(* The slot w is given the job.                                              *)
Recounted(w, job) ==
  /\ req'[w] = job /\ \A v \in Workers : v # w => req'[v] = req[v]
  /\ \A stage, field, key :
       /\ Counted(stage, field, key) \in Nat /\ Counted(stage, field, key)' \in Nat
       /\ Counted(stage, field, key)' = Counted(stage, field, key)
            + Tick(job.at = stage /\ job[field] = key)
            - Tick(req[w].at = stage /\ req[w][field] = key)

LEMMA SlotsMove ==
  ASSUME NEW w \in Workers, NEW job, req'[w] = job,
         \A v \in Workers : v # w => req'[v] = req[v]
  PROVE  Recounted(w, job)
<1> SUFFICES ASSUME NEW stage, NEW field, NEW key
             PROVE  /\ Counted(stage, field, key) \in Nat /\ Counted(stage, field, key)' \in Nat
                    /\ Counted(stage, field, key)' = Counted(stage, field, key)
                         + Tick(job.at = stage /\ job[field] = key)
                         - Tick(req[w].at = stage /\ req[w][field] = key)
  BY DEF Recounted
<1>1. PICK S \in SUBSET Workers, T \in SUBSET Workers :
        S = Slots(stage, field, key) /\ T = Slots(stage, field, key)'
  BY DEF Slots
<1>2. \A v \in Workers : v # w => (v \in S <=> v \in T)
  BY <1>1 DEF Slots
<1>3. /\ w \in T <=> job.at = stage /\ job[field] = key
      /\ w \in S <=> req[w].at = stage /\ req[w][field] = key
  BY <1>1 DEF Slots
<1>4. /\ Cardinality(S) \in Nat /\ Cardinality(T) \in Nat
      /\ Cardinality(T) = Cardinality(S) + Tick(w \in T) - Tick(w \in S)
  BY <1>2, CountMoves, WorkersAreFinite
<1> QED BY <1>1, <1>3, <1>4 DEF Counted

LEMMA NoSlots ==
  ASSUME NEW stage, NEW field, NEW key, \A w \in Workers : req[w].at # stage
  PROVE  Counted(stage, field, key) = 0
BY FS_EmptySet, Slots(stage, field, key) = {} DEF Counted, Slots

LEMMA SlotsAreFew ==
  \A stage, field, key :
    /\ Counted(stage, field, key) \in Nat /\ Counted(stage, field, key)' \in Nat
    /\ Counted(stage, field, key) <= Cardinality(Workers)
    /\ Counted(stage, field, key)' <= Cardinality(Workers)
<1>1. \A stage, field, key : /\ Slots(stage, field, key) \in SUBSET Workers
                             /\ Slots(stage, field, key)' \in SUBSET Workers
  BY DEF Slots
<1> QED BY <1>1, CountSlots DEF Counted


(* The components count with the same operator.                              *)
LEMMA SameCardinality ==
  \A S : /\ Sign!Cardinality(S) = Cardinality(S) /\ Self!Cardinality(S) = Cardinality(S)
         /\ Team!Cardinality(S) = Cardinality(S) /\ Throttle!Cardinality(S) = Cardinality(S)
BY DEF Cardinality, Sign!Cardinality, Self!Cardinality, Team!Cardinality, Throttle!Cardinality

(***************************************************************************)
(* Signing up: the bonuses first, then the codes.                          *)
(***************************************************************************)

(* What a request slot may hold: a code it has found is one that Latest gives. *)
SignupStages == {"known", "taken", "count", "create", "find", "miss", "burn", "consume", "lookup",
           "insert", "referee", "referrer"}
FoundCodes == {0} \cup {Sign!Latest(S) : S \in SUBSET Sign!Codes}
SignupJobs == [at : SignupStages, e : Emails, kind : Sign!Kinds, right : BOOLEAN, c : FoundCodes]

SignupTyped == /\ account \in [Emails -> [exists : BOOLEAN, referred : BOOLEAN]]
             /\ bonus \in [Emails -> [referee : Nat, referrer : Nat]]
             /\ req \in [Workers -> SignupJobs \cup {Sign!Idle}]

(* A bonus belongs to an account that somebody referred.                     *)
BonusGrounded ==
  \A e \in Emails :
    /\ ~account[e].exists => bonus[e] = [referee |-> 0, referrer |-> 0]
    /\ bonus[e].referrer <= bonus[e].referee
    /\ bonus[e].referee <= IF account[e].referred THEN 1 ELSE 0

(* A request that is paying the bonuses of an account finds the account      *)
(* there, referred, and paid exactly as far as the request itself has come.  *)
Pays(w) == Sign!At(w, "referee") \/ Sign!At(w, "referrer")
PaysInOrder ==
  \A w \in Workers :
    /\ Pays(w) => account[req[w].e].exists /\ account[req[w].e].referred
    /\ Sign!At(w, "referee") => bonus[req[w].e] = [referee |-> 0, referrer |-> 0]
    /\ Sign!At(w, "referrer") => bonus[req[w].e] = [referee |-> 1, referrer |-> 0]

(* Only the request that has inserted an account pays its bonuses.           *)
PaysAlone ==
  \A v, w \in Workers : Pays(v) /\ Pays(w) /\ req[v].e = req[w].e => v = w

BonusInv == SignupTyped /\ BonusGrounded /\ PaysInOrder /\ PaysAlone

LEMMA InitBonus == Sign!Init => BonusInv
BY DEF Sign!Init, Sign!NoRequests, Sign!NoAccount, BonusInv, SignupTyped, BonusGrounded, PaysInOrder, PaysAlone,
       Pays, Sign!At, Sign!Idle

(* A step that pays nothing and leaves the slot of a request that does not   *)
(* pay either disturbs no one.                                               *)
LEMMA UnpaidStep ==
  ASSUME BonusInv, NEW w \in Workers, NEW job \in SignupJobs \cup {Sign!Idle}, Sign!Become(w, job),
         job.at \notin {"referee", "referrer"}, UNCHANGED <<account, bonus>>
  PROVE  BonusInv'
<1>1. SignupTyped'
  BY DEF BonusInv, SignupTyped, Sign!Become
<1>2. ~Pays(w)' /\ \A v \in Workers \ {w} : req'[v] = req[v]
  BY DEF BonusInv, SignupTyped, Sign!Become, Pays, Sign!At
<1>3. BonusGrounded' /\ PaysInOrder' /\ PaysAlone'
  BY <1>2 DEF BonusInv, BonusGrounded, PaysInOrder, PaysAlone, Pays, Sign!At
<1> QED BY <1>1, <1>3 DEF BonusInv

LEMMA EndStep ==
  ASSUME BonusInv, NEW w \in Workers, Sign!End(w), UNCHANGED <<account, bonus>>
  PROVE  BonusInv'
BY UnpaidStep, Sign!Idle.at = "idle" DEF Sign!End, Sign!Idle

LEMMA GoStep ==
  ASSUME BonusInv, NEW w \in Workers, Sign!Running(w), NEW stage \in SignupStages \ {"referee", "referrer"},
         Sign!Go(w, stage), UNCHANGED <<account, bonus>>
  PROVE  BonusInv'
<1> DEFINE job == [req[w] EXCEPT !.at = stage]
<1>1. req[w] \in SignupJobs
  BY DEF BonusInv, SignupTyped, Sign!Running, Sign!At, Sign!Idle
<1>2. job \in SignupJobs /\ job.at = stage
  BY <1>1 DEF SignupJobs
<1> QED BY <1>2, UnpaidStep DEF Sign!Go

(* The first statement of a request.                                         *)
LEMMA RequestStep ==
  ASSUME BonusInv, NEW w \in Workers, NEW e \in Emails, NEW kind \in Sign!Kinds, NEW right \in BOOLEAN,
         Sign!Request(w, e, kind, right)
  PROVE  BonusInv'
<1> DEFINE job == [at |-> Sign!First[kind], e |-> e, kind |-> kind, right |-> right, c |-> 0]
<1>1. Sign!First[kind] \in SignupStages \ {"referee", "referrer"}
  BY DEF Sign!Kinds, Sign!First, SignupStages
<1>2. job \in SignupJobs
  BY <1>1 DEF SignupJobs, FoundCodes
<1>3. Sign!Become(w, job) /\ UNCHANGED <<account, bonus>>
  BY DEF Sign!Request, Sign!Start, Sign!own
<1> QED BY <1>1, <1>2, <1>3, UnpaidStep

LEMMA CodeStep ==
  ASSUME BonusInv, NEW w \in Workers,
         \/ Sign!Known(w) \/ Sign!CountCodes(w) \/ Sign!CreateCode(w) \/ Sign!Miss(w) \/ Sign!Burn(w) \/ Sign!Consume(w)
         \/ Sign!LookupUser(w) \/ Sign!CheckFree(w) \/ Sign!Crash(w)
  PROVE  BonusInv'
<1>1. Sign!Running(w) /\ UNCHANGED <<account, bonus>>
  BY DEF Sign!Known, Sign!CountCodes, Sign!CreateCode, Sign!Miss, Sign!Burn, Sign!Consume, Sign!LookupUser, Sign!CheckFree, Sign!Crash, Sign!own,
         Sign!Running, Sign!At
<1>2. Sign!End(w) \/ \E stage \in SignupStages \ {"referee", "referrer"} : Sign!Go(w, stage)
  BY DEF Sign!Known, Sign!CountCodes, Sign!CreateCode, Sign!Miss, Sign!Burn, Sign!Consume, Sign!LookupUser, Sign!CheckFree, Sign!Crash, SignupStages
<1> QED BY <1>1, <1>2, EndStep, GoStep

LEMMA FindStep ==
  ASSUME BonusInv, NEW w \in Workers, Sign!FindCode(w)
  PROVE  BonusInv'
<1> DEFINE open == Sign!Open(req[w].e)
           c == Sign!Latest(open)
           stage == IF code[c].attempts >= MaxTries THEN "burn"
                    ELSE IF req[w].right THEN "consume" ELSE "miss"
           job == [req[w] EXCEPT !.c = c, !.at = stage]
<1>1. req[w] \in SignupJobs
  BY DEF BonusInv, SignupTyped, Sign!FindCode, Sign!At, Sign!Idle
<1>2. c \in FoundCodes
  BY DEF FoundCodes, Sign!Open
<1>3. stage \in SignupStages \ {"referee", "referrer"}
  BY DEF SignupStages
<1>4. job \in SignupJobs /\ job.at = stage
  BY <1>1, <1>2, <1>3 DEF SignupJobs
<1>5. Sign!End(w) \/ Sign!Become(w, job)
  BY DEF Sign!FindCode
<1>6. UNCHANGED <<account, bonus>>
  BY DEF Sign!FindCode, Sign!own
<1> QED BY <1>3, <1>4, <1>5, <1>6, EndStep, UnpaidStep

(* The unique key: the account was not there, so nobody was paying for it.   *)
LEMMA InsertStep ==
  ASSUME BonusInv, NEW w \in Workers, Sign!InsertUser(w)
  PROVE  BonusInv'
<1> DEFINE e == req[w].e
           row == [exists |-> TRUE, referred |-> Sign!BringsReferral(w)]
           job == [req[w] EXCEPT !.at = "referee"]
<1>1. req[w] \in SignupJobs /\ e \in Emails /\ Sign!BringsReferral(w) \in BOOLEAN
  BY DEF BonusInv, SignupTyped, SignupJobs, Sign!InsertUser, Sign!At, Sign!Idle, Sign!BringsReferral
<1>2. CASE account[e].exists
  BY <1>2, EndStep DEF Sign!InsertUser
<1>3. CASE ~account[e].exists
  <2>1. account' = [account EXCEPT ![e] = row] /\ bonus' = bonus
    BY <1>3 DEF Sign!InsertUser
  <2>2. \A v \in Workers : Pays(v) => req[v].e # e
    BY <1>3 DEF BonusInv, PaysInOrder
  <2>3. bonus[e] = [referee |-> 0, referrer |-> 0]
    BY <1>1, <1>3 DEF BonusInv, BonusGrounded
  <2>4. BonusGrounded'
    BY <1>1, <2>1, <2>3 DEF BonusInv, SignupTyped, BonusGrounded
  <2>5. CASE ~Sign!BringsReferral(w)
    <3>1. req' = [req EXCEPT ![w] = Sign!Idle]
      BY <1>3, <2>5 DEF Sign!InsertUser, Sign!End, Sign!Become
    <3>2. SignupTyped'
      BY <1>1, <2>1, <3>1 DEF BonusInv, SignupTyped
    <3>3. ~Pays(w)' /\ \A v \in Workers \ {w} : req'[v] = req[v]
      BY <3>1 DEF BonusInv, SignupTyped, Pays, Sign!At, Sign!Idle
    <3>4. \A v \in Workers : Pays(v)' => /\ v # w /\ Pays(v) /\ req'[v] = req[v]
                                         /\ account'[req[v].e] = account[req[v].e]
      BY <1>1, <2>1, <2>2, <3>3 DEF BonusInv, SignupTyped, Pays, Sign!At, SignupJobs, Sign!Idle
    <3>5. PaysInOrder'
      BY <2>1, <3>4 DEF BonusInv, PaysInOrder, Pays, Sign!At
    <3>6. PaysAlone'
      BY <3>4 DEF BonusInv, PaysAlone
    <3> QED BY <2>4, <3>2, <3>5, <3>6 DEF BonusInv
  <2>6. CASE Sign!BringsReferral(w)
    <3>1. req' = [req EXCEPT ![w] = job]
      BY <1>3, <2>6 DEF Sign!InsertUser, Sign!Go, Sign!Become
    <3>2. job \in SignupJobs /\ job.at = "referee" /\ job.e = e
      BY <1>1 DEF SignupJobs, SignupStages
    <3>3. SignupTyped'
      BY <1>1, <2>1, <3>1, <3>2 DEF BonusInv, SignupTyped
    <3>4. req'[w] = job /\ \A v \in Workers \ {w} : req'[v] = req[v]
      BY <3>1 DEF BonusInv, SignupTyped
    <3>5. account'[e].exists /\ account'[e].referred
      BY <1>1, <2>1, <2>6 DEF BonusInv, SignupTyped
    <3>6. \A v \in Workers \ {w} : Pays(v)' => Pays(v) /\ req'[v].e # e
      BY <2>2, <3>4 DEF Pays, Sign!At
    <3>7. PaysInOrder'
      BY <1>1, <2>1, <2>3, <3>2, <3>4, <3>5, <3>6
      DEF BonusInv, SignupTyped, PaysInOrder, Pays, Sign!At, SignupJobs, Sign!Idle
    <3>8. PaysAlone'
      BY <3>2, <3>4, <3>6 DEF BonusInv, PaysAlone
    <3> QED BY <2>4, <3>3, <3>7, <3>8 DEF BonusInv
  <2> QED BY <2>5, <2>6
<1> QED BY <1>2, <1>3

(* The two credits, which nobody else makes for this account.                *)
LEMMA CreditStep ==
  ASSUME BonusInv, NEW w \in Workers, Sign!CreditReferee(w) \/ Sign!CreditReferrer(w)
  PROVE  BonusInv'
<1> DEFINE e == req[w].e
           first == Sign!At(w, "referee")
           paid == [referee |-> 1, referrer |-> IF first THEN 0 ELSE 1]
           job == IF first THEN [req[w] EXCEPT !.at = "referrer"] ELSE Sign!Idle
<1>1. /\ req[w] \in SignupJobs /\ e \in Emails /\ Pays(w)
      /\ account[e].referred /\ account[e].exists /\ account' = account
  BY DEF BonusInv, SignupTyped, PaysInOrder, Pays, SignupJobs, Sign!CreditReferee, Sign!CreditReferrer, Sign!At, Sign!Idle
<1>2. bonus' = [bonus EXCEPT ![e] = paid] /\ req' = [req EXCEPT ![w] = job]
  <2>1. CASE first
    BY <1>1, <2>1 DEF BonusInv, SignupTyped, PaysInOrder, Sign!CreditReferee, Sign!CreditReferrer, Sign!At, Sign!Go, Sign!Become
  <2>2. CASE ~first
    BY <1>1, <2>2 DEF BonusInv, SignupTyped, PaysInOrder, Sign!CreditReferee, Sign!CreditReferrer, Sign!At, Sign!End, Sign!Become
  <2> QED BY <2>1, <2>2
<1>3. job \in SignupJobs \cup {Sign!Idle} /\ (first => job.at = "referrer" /\ job.e = e)
      /\ (~first => job.at = "idle")
  BY <1>1 DEF SignupJobs, SignupStages, Sign!Idle
<1>4. SignupTyped'
  BY <1>1, <1>2, <1>3 DEF BonusInv, SignupTyped
<1>5. req'[w] = job /\ \A v \in Workers \ {w} : req'[v] = req[v]
  BY <1>2 DEF BonusInv, SignupTyped
<1>6. bonus'[e] = paid /\ \A f \in Emails \ {e} : bonus'[f] = bonus[f]
  BY <1>1, <1>2 DEF BonusInv, SignupTyped
<1>7. BonusGrounded'
  <2>1. paid.referee = 1 /\ paid.referrer \in {0, 1}
    OBVIOUS
  <2> HIDE DEF paid
  <2> QED BY <1>1, <1>6, <2>1 DEF BonusInv, BonusGrounded
<1>8. \A v \in Workers \ {w} : Pays(v)' => Pays(v) /\ req[v].e # e /\ req[v].e \in Emails
  BY <1>1, <1>5 DEF BonusInv, SignupTyped, PaysAlone, Pays, Sign!At, SignupJobs, Sign!Idle
<1>9. PaysInOrder'
  <2>1. ASSUME NEW v \in Workers \ {w}
        PROVE  /\ Pays(v)' => account'[req'[v].e].exists /\ account'[req'[v].e].referred
               /\ Sign!At(v, "referee")' => bonus'[req'[v].e] = [referee |-> 0, referrer |-> 0]
               /\ Sign!At(v, "referrer")' => bonus'[req'[v].e] = [referee |-> 1, referrer |-> 0]
    BY <1>1, <1>5, <1>6, <1>8 DEF BonusInv, PaysInOrder, Pays, Sign!At
  <2>2. CASE first
    <3>1. req'[w].at = "referrer" /\ req'[w].e = e
      BY <1>3, <1>5, <2>2
    <3>2. bonus'[e] = [referee |-> 1, referrer |-> 0]
      BY <1>6, <2>2
    <3>3. /\ account'[req'[w].e].exists /\ account'[req'[w].e].referred
          /\ ~Sign!At(w, "referee")' /\ bonus'[req'[w].e] = [referee |-> 1, referrer |-> 0]
      BY <1>1, <3>1, <3>2 DEF Sign!At
    <3> QED BY <2>1, <3>3 DEF PaysInOrder
  <2>3. CASE ~first
    BY <1>3, <1>5, <2>1, <2>3 DEF PaysInOrder, Pays, Sign!At
  <2> QED BY <2>2, <2>3
<1>10. PaysAlone'
  <2>1. Pays(w)' => req'[w].e = e
    BY <1>3, <1>5 DEF Pays, Sign!At
  <2>2. \A v \in Workers \ {w} : Pays(v)' => Pays(v) /\ req'[v].e = req[v].e /\ req'[v].e # e
    BY <1>5, <1>8
  <2> HIDE DEF e
  <2> QED BY <2>1, <2>2 DEF BonusInv, PaysAlone
<1> QED BY <1>4, <1>7, <1>9, <1>10 DEF BonusInv

LEMMA NextBonus == BonusInv /\ [Sign!Next]_(Sign!vars) => BonusInv'
<1> SUFFICES ASSUME BonusInv, [Sign!Next]_(Sign!vars) PROVE BonusInv'
  OBVIOUS
<1>1. ASSUME NEW w \in Workers, NEW e \in Emails, NEW kind \in Sign!Kinds, NEW right \in BOOLEAN,
             Sign!Request(w, e, kind, right)
      PROVE  BonusInv'
  BY <1>1, RequestStep
<1>2. ASSUME NEW w \in Workers, Sign!Step(w) \/ Sign!Crash(w)
      PROVE  BonusInv'
  BY <1>2, CodeStep, FindStep, InsertStep, CreditStep DEF Sign!Step
<1>3. ASSUME NEW c \in Sign!Codes, Sign!Age(c)
      PROVE  BonusInv'
  BY <1>3 DEF Sign!Age, BonusInv, SignupTyped, BonusGrounded, PaysInOrder, PaysAlone, Pays, Sign!At
<1>4. CASE UNCHANGED Sign!vars
  BY <1>4 DEF Sign!vars, Sign!own, BonusInv, SignupTyped, BonusGrounded, PaysInOrder, PaysAlone, Pays, Sign!At
<1> QED BY <1>1, <1>2, <1>3, <1>4 DEF Sign!Next
(***************************************************************************)
(* The limits on codes.                                                    *)
(***************************************************************************)

CodesTyped ==
  /\ code \in [Sign!Codes -> [email : Emails \cup {"none"}, consumed : BOOLEAN, attempts : Nat,
                              age : 0 .. 2, pending : BOOLEAN]]
  /\ created \in 0 .. MaxCodes
  /\ accepted \in [Sign!Codes -> Nat]
(* A limit, and the requests that have passed it and not used it up yet.     *)
WindowKept ==
  \A e \in Emails :
    Cardinality(Sign!InWindow(e)) + Counted("create", "e", e) < Limit + Cardinality(Workers)
TriesKept ==
  \A c \in Sign!Codes : code[c].attempts + Counted("miss", "c", c) < MaxTries + Cardinality(Workers)
(* A code that is open has not been used, and one that is not created yet is *)
(* known to nobody.                                                          *)
UsesKept ==
  \A c \in Sign!Codes :
    /\ accepted[c] + Counted("consume", "c", c) <= Cardinality(Workers)
    /\ ~code[c].consumed => accepted[c] = 0
    /\ c > created => /\ code[c].email = "none" /\ accepted[c] = 0
                      /\ \A w \in Workers : Sign!At(w, "consume") => req[w].c # c
CodesInv == CodesTyped /\ WindowKept /\ TriesKept /\ UsesKept

LEMMA InitCodes == Sign!Init => CodesInv
<1> SUFFICES ASSUME Sign!Init PROVE CodesInv
  OBVIOUS
<1>2. CodesTyped
  BY LimitsAreNat DEF Sign!Init, CodesTyped, Sign!NoCode, Sign!Codes
<1>3. \A w \in Workers : req[w].at = "idle"
  BY DEF Sign!Init, Sign!NoRequests, Sign!Idle
<1>4. \A e \in Emails : Cardinality(Sign!InWindow(e)) = 0
  <2>1. \A e \in Emails : Sign!InWindow(e) = {}
    BY NoneIsNoEmail DEF Sign!Init, Sign!InWindow, Sign!NoCode
  <2> QED BY <2>1, FS_EmptySet
<1>5. \A field, key : /\ Counted("create", field, key) = 0 /\ Counted("miss", field, key) = 0
                      /\ Counted("consume", field, key) = 0
  BY <1>3, NoSlots
<1>6. WindowKept
  BY <1>4, <1>5, CountSlots, LimitsAreNat DEF WindowKept
<1>7. TriesKept
  <2>1. \A c \in Sign!Codes : code[c].attempts = 0
    BY DEF Sign!Init, Sign!NoCode
  <2> QED BY <1>5, <2>1, CountSlots, LimitsAreNat DEF TriesKept
<1>8. UsesKept
  BY <1>3, <1>5, CountSlots DEF Sign!Init, Sign!NoCode, UsesKept, Sign!At
<1> QED BY <1>2, <1>6, <1>7, <1>8 DEF CodesInv


(* How the requests are counted when one of them moves on.                   *)
LEMMA CodeSlots ==
  ASSUME SignupTyped, NEW w \in Workers, NEW job \in SignupJobs \cup {Sign!Idle}, Sign!Become(w, job)
  PROVE  Recounted(w, job)
<1>1. req'[w] = job /\ \A v \in Workers : v # w => req'[v] = req[v]
  BY DEF SignupTyped, Sign!Become
<1> QED BY <1>1, SlotsMove

LEMMA WindowCount ==
  ASSUME CodesTyped, CodesTyped', NEW c \in Sign!Codes, NEW e,
         \A d \in Sign!Codes : d # c => code'[d].email = code[d].email /\ code'[d].age = code[d].age
  PROVE  /\ Cardinality(Sign!InWindow(e)) \in Nat /\ Cardinality(Sign!InWindow(e))' \in Nat
         /\ Cardinality(Sign!InWindow(e))' = Cardinality(Sign!InWindow(e))
              + Tick(c \in Sign!InWindow(e)') - Tick(c \in Sign!InWindow(e))
<1>1. IsFiniteSet(Sign!Codes)
  BY FS_Interval, LimitsAreNat DEF Sign!Codes
<1>2. Sign!InWindow(e) \in SUBSET Sign!Codes /\ Sign!InWindow(e)' \in SUBSET Sign!Codes
  BY DEF Sign!InWindow
<1>3. \A d \in Sign!Codes : d # c => (d \in Sign!InWindow(e) <=> d \in Sign!InWindow(e)')
  BY DEF Sign!InWindow
<1> QED BY <1>1, <1>2, <1>3, CountMoves

LEMMA WindowIsNat ==
  ASSUME NEW e
  PROVE  Cardinality(Sign!InWindow(e)) \in Nat
<1>1. IsFiniteSet(Sign!Codes) /\ Sign!InWindow(e) \in SUBSET Sign!Codes
  BY FS_Interval, LimitsAreNat DEF Sign!Codes, Sign!InWindow
<1> QED BY <1>1, FS_Subset, FS_CardinalityType

(* A step that uses no limit up and passes none.                             *)
LEMMA QuietCodes ==
  ASSUME SignupTyped, CodesInv, NEW w \in Workers, NEW job \in SignupJobs \cup {Sign!Idle}, Sign!Become(w, job),
         job.at \notin {"create", "miss", "consume"}, UNCHANGED <<code, created, accepted>>
  PROVE  CodesInv'
<1>1. /\ req'[w] = job /\ \A v \in Workers : v # w => req'[v] = req[v]
      /\ \A stage \in {"create", "miss", "consume"} : \A field, key :
           /\ Counted(stage, field, key) \in Nat /\ Counted(stage, field, key)' \in Nat
           /\ Counted(stage, field, key)' <= Counted(stage, field, key)
  BY CodeSlots DEF Tick, Recounted
<1>2. CodesTyped'
  BY DEF CodesInv, CodesTyped
<1>3. WindowKept'
  <2>1. \A e : Sign!InWindow(e)' = Sign!InWindow(e)
    BY DEF Sign!InWindow
  <2> QED BY <1>1, <2>1, WindowIsNat, CountSlots, LimitsAreNat DEF CodesInv, WindowKept
<1>4. TriesKept'
  BY <1>1, CountSlots, LimitsAreNat DEF CodesInv, CodesTyped, TriesKept
<1>5. UsesKept'
  <2>1. \A v \in Workers : Sign!At(v, "consume")' => Sign!At(v, "consume") /\ req'[v] = req[v]
    BY <1>1 DEF Sign!At
  <2> QED BY <1>1, <2>1, CountSlots DEF CodesInv, CodesTyped, UsesKept
<1> QED BY <1>2, <1>3, <1>4, <1>5 DEF CodesInv

LEMMA EndCodes ==
  ASSUME SignupTyped, CodesInv, NEW w \in Workers, Sign!End(w), UNCHANGED <<code, created, accepted>>
  PROVE  CodesInv'
BY QuietCodes, Sign!Idle.at = "idle" DEF Sign!End, Sign!Idle

LEMMA GoCodes ==
  ASSUME SignupTyped, CodesInv, NEW w \in Workers, Sign!Running(w),
         NEW stage \in SignupStages \ {"create", "miss", "consume"}, Sign!Go(w, stage),
         UNCHANGED <<code, created, accepted>>
  PROVE  CodesInv'
<1>1. req[w] \in SignupJobs
  BY DEF SignupTyped, Sign!Running, Sign!At, Sign!Idle
<1>2. PICK job : job = [req[w] EXCEPT !.at = stage]
  OBVIOUS
<1>3. job \in SignupJobs /\ job.at = stage
  BY <1>1, <1>2 DEF SignupJobs
<1> QED BY <1>2, <1>3, QuietCodes DEF Sign!Go

(* The count is compared with the limit by a request that is then one of     *)
(* those that may create a code.                                             *)
LEMMA CountStep ==
  ASSUME SignupTyped, CodesInv, NEW w \in Workers, Sign!CountCodes(w)
  PROVE  CodesInv'
<1>1. req[w] \in SignupJobs /\ req[w].e \in Emails /\ req[w].at = "count"
  BY DEF SignupTyped, Sign!CountCodes, Sign!At, Sign!Idle, SignupJobs
<1>2. PICK e \in Emails : e = req[w].e
  BY <1>1
<1>3. CASE Sign!End(w)
  BY <1>3, EndCodes DEF Sign!CountCodes, Sign!own
<1>4. CASE Cardinality(Sign!InWindow(e)) < Limit /\ Sign!Go(w, "create")
  <2>1. PICK job : job = [req[w] EXCEPT !.at = "create"]
    OBVIOUS
  <2>2. job \in SignupJobs /\ job.at = "create" /\ job.e = e
    BY <1>1, <1>2, <2>1 DEF SignupJobs, SignupStages
  <2>3. Sign!Become(w, job) /\ UNCHANGED <<code, created, accepted>>
    BY <1>4, <2>1 DEF Sign!Go, Sign!CountCodes, Sign!own
  <2>4. Recounted(w, job)
    BY <2>2, <2>3, CodeSlots
  <2>5. \A f \in Emails : f # e => Counted("create", "e", f)' <= Counted("create", "e", f)
    BY <2>2, <2>4 DEF Tick, Recounted
  <2>6. /\ \A c : Counted("miss", "c", c)' = Counted("miss", "c", c)
        /\ \A c : Counted("consume", "c", c)' = Counted("consume", "c", c)
    BY <1>1, <2>2, <2>4 DEF Tick, Recounted
  <2>7. Counted("create", "e", e)' <= Cardinality(Workers)
    BY SlotsAreFew
  <2>8. WindowKept'
    <3>1. \A f : Sign!InWindow(f)' = Sign!InWindow(f)
      BY <2>3 DEF Sign!InWindow
    <3> QED BY <1>4, <2>4, <2>5, <2>7, <3>1, WindowIsNat, CountSlots, LimitsAreNat
            DEF CodesInv, WindowKept, Recounted
  <2>9. UsesKept'
    <3>1. \A v \in Workers : Sign!At(v, "consume")' => Sign!At(v, "consume") /\ req'[v] = req[v]
      BY <2>2, <2>4 DEF Sign!At, Recounted
    <3> QED BY <2>3, <2>6, <3>1 DEF CodesInv, UsesKept
  <2> QED BY <2>3, <2>6, <2>8, <2>9 DEF CodesInv, CodesTyped, TriesKept, Recounted
<1> QED BY <1>1, <1>2, <1>3, <1>4, WindowIsNat, LimitsAreNat, SameCardinality DEF Sign!CountCodes

LEMMA CreateStep ==
  ASSUME SignupTyped, CodesInv, NEW w \in Workers, Sign!CreateCode(w)
  PROVE  CodesInv'
<1>1. req[w] \in SignupJobs /\ req[w].e \in Emails /\ req[w].at = "create" /\ req[w].kind \in Sign!Kinds
  BY DEF SignupTyped, Sign!CreateCode, Sign!At, Sign!Idle, SignupJobs
<1>2. PICK e \in Emails : e = req[w].e
  BY <1>1
<1>3. PICK c : c = created + 1
  OBVIOUS
<1>4. c \in Sign!Codes /\ created' = c /\ created \in Nat
  BY <1>3, LimitsAreNat DEF Sign!CreateCode, CodesInv, CodesTyped, Sign!Codes
<1>5. PICK row :
        \E b \in BOOLEAN : /\ b = (req[w].kind = "requestRegistration")
                           /\ row = [Sign!NoCode EXCEPT !.email = e, !.pending = b]
  <2>1. (req[w].kind = "requestRegistration") \in BOOLEAN
    OBVIOUS
  <2> QED BY <2>1
<1>6. /\ row.email = e /\ ~row.consumed /\ row.attempts = 0 /\ row.age = 0
      /\ row \in [email : Emails \cup {"none"}, consumed : BOOLEAN, attempts : Nat,
                  age : 0 .. 2, pending : BOOLEAN]
  <2>1. PICK b \in BOOLEAN : row = [Sign!NoCode EXCEPT !.email = e, !.pending = b]
    BY <1>5
  <2>2. row = [email |-> e, consumed |-> FALSE, attempts |-> 0, age |-> 0, pending |-> b]
    BY <2>1 DEF Sign!NoCode
  <2> QED BY <2>2
<1>7. code' = [code EXCEPT ![c] = row] /\ accepted' = accepted
  BY <1>2, <1>3, <1>4, <1>5 DEF Sign!CreateCode
<1>8. code'[c] = row /\ \A d \in Sign!Codes : d # c => code'[d] = code[d]
  BY <1>4, <1>7 DEF CodesInv, CodesTyped
<1>9. CodesTyped'
  BY <1>4, <1>6, <1>7, LimitsAreNat DEF CodesInv, CodesTyped, Sign!Codes
<1>10. Recounted(w, Sign!Idle)
  BY CodeSlots DEF Sign!CreateCode, Sign!End
<1>11. Sign!Idle.at = "idle"
  BY DEF Sign!Idle
<1>12. \A f : /\ Cardinality(Sign!InWindow(f)) \in Nat /\ Cardinality(Sign!InWindow(f))' \in Nat
              /\ Cardinality(Sign!InWindow(f))' = Cardinality(Sign!InWindow(f))
                   + Tick(c \in Sign!InWindow(f)') - Tick(c \in Sign!InWindow(f))
  BY <1>4, <1>8, <1>9, WindowCount DEF CodesInv
<1>13. WindowKept'
  <2>1. ASSUME NEW f \in Emails, f # e
        PROVE  Cardinality(Sign!InWindow(f))' <= Cardinality(Sign!InWindow(f))
    <3>1. c \notin Sign!InWindow(f)'
      BY <1>6, <1>8, <2>1 DEF Sign!InWindow
    <3> QED BY <1>12, <3>1 DEF Tick
  <2>2. \A f \in Emails : f # e => Counted("create", "e", f)' = Counted("create", "e", f)
    BY <1>1, <1>2, <1>10, <1>11 DEF Tick, Recounted
  <2>3. Cardinality(Sign!InWindow(e))' <= Cardinality(Sign!InWindow(e)) + 1
    BY <1>12 DEF Tick
  <2>4. Counted("create", "e", e)' = Counted("create", "e", e) - 1
    BY <1>1, <1>2, <1>10, <1>11 DEF Tick, Recounted
  <2> QED BY <1>10, <1>12, <2>1, <2>2, <2>3, <2>4, CountSlots, LimitsAreNat
          DEF CodesInv, WindowKept, Recounted
<1>14. /\ \A d : Counted("miss", "c", d)' = Counted("miss", "c", d)
       /\ \A d : Counted("consume", "c", d)' = Counted("consume", "c", d)
  BY <1>1, <1>10, <1>11 DEF Tick, Recounted
<1>15. TriesKept'
  <2>1. \A d \in Sign!Codes : code'[d].attempts <= code[d].attempts
    BY <1>6, <1>8 DEF CodesInv, CodesTyped
  <2>2. \A d \in Sign!Codes : code'[d].attempts \in Nat /\ code[d].attempts \in Nat
    BY <1>9 DEF CodesInv, CodesTyped
  <2> QED BY <1>10, <1>14, <2>1, <2>2, CountSlots, LimitsAreNat DEF CodesInv, TriesKept, Recounted
<1>16. UsesKept'
  <2>1. \A v \in Workers : Sign!At(v, "consume")' => Sign!At(v, "consume") /\ req'[v] = req[v]
    BY <1>10, <1>11 DEF Sign!At, Recounted
  <2>2. \A d \in Sign!Codes : d > c => d > created /\ d # c
    BY <1>3, <1>4 DEF Sign!Codes
  <2>3. accepted[c] = 0
    BY <1>3, <1>4 DEF CodesInv, UsesKept
  <2> QED BY <1>4, <1>7, <1>8, <1>14, <2>1, <2>2, <2>3 DEF CodesInv, UsesKept, Recounted
<1> QED BY <1>9, <1>13, <1>15, <1>16 DEF CodesInv

(* consumeOtp looks at the newest open code: whoever goes on to consume it   *)
(* has seen it unused, whoever goes on to miss it below the limit.           *)
LEMMA LookStep ==
  ASSUME SignupTyped, CodesInv, NEW w \in Workers, Sign!FindCode(w)
  PROVE  CodesInv'
<1>1. req[w] \in SignupJobs /\ req[w].at = "find" /\ req[w].e \in Emails
  BY DEF SignupTyped, Sign!FindCode, Sign!At, Sign!Idle, SignupJobs
<1>2. PICK e \in Emails : e = req[w].e
  BY <1>1
<1>3. UNCHANGED <<code, created, accepted>>
  BY DEF Sign!FindCode, Sign!own
<1>4. CASE Sign!End(w)
  BY <1>3, <1>4, EndCodes
<1>5. CASE ~Sign!End(w)
  <2>1. PICK c : c = Sign!Latest(Sign!Open(e))
    OBVIOUS
  <2>2. PICK stage \in {"burn", "consume", "miss"} :
          /\ Sign!Become(w, [req[w] EXCEPT !.c = c, !.at = stage])
          /\ stage # "burn" => ~(code[c].attempts >= MaxTries)
    BY <1>2, <1>5, <2>1 DEF Sign!FindCode
  <2>3. Sign!Open(e) # {} /\ Sign!Open(e) \in SUBSET 1 .. MaxCodes
    BY <1>2, <1>5 DEF Sign!FindCode, Sign!Open, Sign!Codes
  <2>4. c \in Sign!Open(e)
    BY <2>1, <2>3, GreatestExists, LimitsAreNat DEF Sign!Latest
  <2>5. c \in Sign!Codes /\ ~code[c].consumed /\ code[c].email # "none"
    BY <2>4, NoneIsNoEmail DEF Sign!Open
  <2>6. PICK job : job = [req[w] EXCEPT !.c = c, !.at = stage]
    OBVIOUS
  <2>7. job \in SignupJobs /\ job.at = stage /\ job.c = c
    <3>1. c \in FoundCodes
      BY <2>1 DEF FoundCodes, Sign!Open
    <3> QED BY <1>1, <2>6, <3>1 DEF SignupJobs, SignupStages
  <2>8. Recounted(w, job)
    <3>1. Sign!Become(w, job)
      BY <2>2, <2>6
    <3> QED BY <2>7, <3>1, CodeSlots
  <2>9. \A at, field, key : Counted(at, field, key)' <= Cardinality(Workers)
    BY SlotsAreFew
  <2>10. CodesTyped'
    BY <1>3 DEF CodesInv, CodesTyped
  <2>11. WindowKept'
    <3>1. \A f : Sign!InWindow(f)' = Sign!InWindow(f)
      BY <1>3 DEF Sign!InWindow
    <3>2. \A f : Counted("create", "e", f)' = Counted("create", "e", f)
      BY <1>1, <2>7, <2>8 DEF Tick, Recounted
    <3> QED BY <3>1, <3>2 DEF CodesInv, WindowKept
  <2>12. TriesKept'
    <3>1. \A d \in Sign!Codes : d # c => Counted("miss", "c", d)' = Counted("miss", "c", d)
      BY <1>1, <2>7, <2>8 DEF Tick, Recounted
    <3>2. code[c].attempts \in Nat
      BY <2>5 DEF CodesInv, CodesTyped
    <3>3. CASE stage = "miss"
      <4>1. code[c].attempts + Counted("miss", "c", c)' < MaxTries + Cardinality(Workers)
        BY <2>2, <2>8, <2>9, <3>2, <3>3, CountSlots, LimitsAreNat DEF Recounted
      <4> QED BY <1>3, <3>1, <4>1 DEF CodesInv, TriesKept
    <3>4. CASE stage # "miss"
      <4>1. Counted("miss", "c", c)' = Counted("miss", "c", c)
        BY <1>1, <2>7, <2>8, <3>4 DEF Tick, Recounted
      <4> QED BY <1>3, <3>1, <4>1 DEF CodesInv, TriesKept
    <3> QED BY <3>3, <3>4
  <2>13. UsesKept'
    <3>1. \A d \in Sign!Codes : d # c => Counted("consume", "c", d)' = Counted("consume", "c", d)
      BY <1>1, <2>7, <2>8 DEF Tick, Recounted
    <3>2. accepted[c] = 0 /\ ~(c > created)
      BY <2>5 DEF CodesInv, UsesKept
    <3>3. accepted[c] + Counted("consume", "c", c)' <= Cardinality(Workers)
      BY <2>8, <2>9, <3>2, CountSlots DEF Recounted
    <3>4. \A v \in Workers : Sign!At(v, "consume")' => \/ v = w /\ req'[v].c = c
                                                       \/ Sign!At(v, "consume") /\ req'[v] = req[v]
      BY <2>7, <2>8 DEF Sign!At, Recounted
    <3> QED BY <1>3, <2>5, <3>1, <3>2, <3>3, <3>4 DEF CodesInv, UsesKept
  <2> QED BY <2>10, <2>11, <2>12, <2>13 DEF CodesInv
<1> QED BY <1>4, <1>5


(* The request w leaves its place, having changed the row of a code c: one   *)
(* more attempt after a miss, one more use after a consume.                  *)
RowUsed(w, c) ==
  /\ \A d \in Sign!Codes : d # c => code'[d] = code[d] /\ accepted'[d] = accepted[d]
  /\ c \in Sign!Codes =>
       /\ code'[c].email = code[c].email /\ code'[c].age = code[c].age
       /\ code'[c].attempts = code[c].attempts + Tick(req[w].at = "miss" /\ req[w].c = c)
       /\ accepted'[c] = accepted[c] + Tick(req[w].at = "consume" /\ req[w].c = c)
       /\ ~code'[c].consumed => ~code[c].consumed /\ accepted'[c] = accepted[c]

LEMMA RowStep ==
  ASSUME SignupTyped, CodesInv, NEW w \in Workers, NEW job \in SignupJobs \cup {Sign!Idle}, Sign!Become(w, job),
         job.at \notin {"create", "miss", "consume"}, CodesTyped', created' = created,
         NEW c, RowUsed(w, c)
  PROVE  CodesInv'
<1>1. Recounted(w, job)
  BY CodeSlots
<1>2. /\ \A field, key : Counted("create", field, key)' <= Counted("create", field, key)
      /\ \A key : /\ Counted("miss", "c", key)' = Counted("miss", "c", key)
                       - Tick(req[w].at = "miss" /\ req[w].c = key)
                  /\ Counted("consume", "c", key)' = Counted("consume", "c", key)
                       - Tick(req[w].at = "consume" /\ req[w].c = key)
  BY <1>1 DEF Recounted, Tick
<1>3. \A stage, field, key : Counted(stage, field, key) \in Nat /\ Counted(stage, field, key)' \in Nat
  BY SlotsAreFew
<1>4. Cardinality(Workers) \in Nat /\ Limit \in Nat /\ MaxTries \in Nat
  BY CountSlots, LimitsAreNat
<1>5. \A d \in Sign!Codes : /\ code[d].attempts \in Nat /\ code'[d].attempts \in Nat
                            /\ accepted[d] \in Nat /\ accepted'[d] \in Nat
  BY DEF CodesInv, CodesTyped
<1>6. WindowKept'
  <2>1. \A e : Sign!InWindow(e)' = Sign!InWindow(e)
    BY DEF Sign!InWindow, RowUsed
  <2> QED BY <1>2, <1>3, <1>4, <2>1, WindowIsNat DEF CodesInv, WindowKept
<1>7. TriesKept'
  <2>1. ASSUME NEW d \in Sign!Codes
        PROVE  code'[d].attempts + Counted("miss", "c", d)'
                 <= code[d].attempts + Counted("miss", "c", d)
    BY <1>2, <1>3, <1>5 DEF RowUsed, Tick
  <2> QED BY <1>3, <1>4, <1>5, <2>1 DEF CodesInv, TriesKept
<1>8. UsesKept'
  <2>1. ASSUME NEW d \in Sign!Codes
        PROVE  /\ accepted'[d] + Counted("consume", "c", d)'
                    <= accepted[d] + Counted("consume", "c", d)
               /\ accepted'[d] = accepted[d] \/ (Sign!At(w, "consume") /\ req[w].c = d)
               /\ ~code'[d].consumed => ~code[d].consumed /\ accepted'[d] = accepted[d]
               /\ code'[d].email = code[d].email
    <3>1. CASE d = c
      BY <1>2, <1>3, <1>5, <3>1 DEF RowUsed, Tick, Sign!At
    <3>2. CASE d # c
      BY <1>2, <1>3, <1>5, <3>2 DEF RowUsed, Tick
    <3> QED BY <3>1, <3>2
  <2>2. \A v \in Workers : Sign!At(v, "consume")' => Sign!At(v, "consume") /\ req'[v] = req[v]
    BY <1>1 DEF Sign!At, Recounted
  <2>3. ASSUME NEW d \in Sign!Codes
        PROVE  accepted'[d] + Counted("consume", "c", d)' <= Cardinality(Workers)
    BY <1>3, <1>4, <1>5, <2>1 DEF CodesInv, UsesKept
  <2>4. ASSUME NEW d \in Sign!Codes, d > created
        PROVE  /\ code'[d].email = "none" /\ accepted'[d] = 0
               /\ \A v \in Workers : Sign!At(v, "consume")' => req'[v].c # d
    BY <2>1, <2>2, <2>4 DEF CodesInv, UsesKept
  <2> QED BY <2>1, <2>3, <2>4 DEF CodesInv, UsesKept
<1> QED BY <1>6, <1>7, <1>8 DEF CodesInv

LEMMA MissStep ==
  ASSUME SignupTyped, CodesInv, NEW w \in Workers, Sign!Miss(w)
  PROVE  CodesInv'
<1>1. PICK c : c = req[w].c
  OBVIOUS
<1>2. /\ code' = [code EXCEPT ![c].attempts = @ + 1] /\ accepted' = accepted /\ created' = created
      /\ req[w].at = "miss" /\ Sign!Become(w, Sign!Idle)
  BY <1>1 DEF Sign!Miss, Sign!At, Sign!End
<1>3. CodesTyped'
  <2>1. CASE c \in Sign!Codes
    BY <1>2, <2>1 DEF CodesInv, CodesTyped
  <2>2. CASE c \notin Sign!Codes
    <3>1. code' = code /\ accepted' = accepted
      BY <1>2, <2>2 DEF CodesInv, CodesTyped
    <3> QED BY <1>2, <3>1 DEF CodesInv, CodesTyped
  <2> QED BY <2>1, <2>2
<1>4. RowUsed(w, c)
  BY <1>1, <1>2 DEF CodesInv, CodesTyped, RowUsed, Tick
<1> QED BY <1>2, <1>3, <1>4, RowStep, Sign!Idle.at = "idle" DEF Sign!Idle

LEMMA BurnStep ==
  ASSUME SignupTyped, CodesInv, NEW w \in Workers, Sign!Burn(w)
  PROVE  CodesInv'
<1>1. PICK c : c = req[w].c
  OBVIOUS
<1>2. /\ code' = [code EXCEPT ![c].consumed = TRUE] /\ accepted' = accepted /\ created' = created
      /\ req[w].at = "burn" /\ Sign!Become(w, Sign!Idle)
  BY <1>1 DEF Sign!Burn, Sign!At, Sign!End
<1>3. CodesTyped'
  <2>1. CASE c \in Sign!Codes
    BY <1>2, <2>1 DEF CodesInv, CodesTyped
  <2>2. CASE c \notin Sign!Codes
    <3>1. code' = code /\ accepted' = accepted
      BY <1>2, <2>2 DEF CodesInv, CodesTyped
    <3> QED BY <1>2, <3>1 DEF CodesInv, CodesTyped
  <2> QED BY <2>1, <2>2
<1>4. RowUsed(w, c)
  BY <1>1, <1>2 DEF CodesInv, CodesTyped, RowUsed, Tick
<1> QED BY <1>2, <1>3, <1>4, RowStep, Sign!Idle.at = "idle" DEF Sign!Idle

LEMMA ConsumeStep ==
  ASSUME SignupTyped, CodesInv, NEW w \in Workers, Sign!Consume(w)
  PROVE  CodesInv'
<1>1. PICK c : c = req[w].c
  OBVIOUS
<1>2. /\ code' = [code EXCEPT ![c].consumed = TRUE] /\ created' = created
      /\ accepted' = [accepted EXCEPT ![c] = @ + 1]
      /\ req[w].at = "consume" /\ req[w] \in SignupJobs
  BY <1>1 DEF Sign!Consume, Sign!At, SignupTyped, Sign!Idle
<1>3. CodesTyped'
  <2>1. CASE c \in Sign!Codes
    <3>1. code' \in [Sign!Codes -> [email : Emails \cup {"none"}, consumed : BOOLEAN, attempts : Nat,
                                    age : 0 .. 2, pending : BOOLEAN]]
      BY <1>2, <2>1 DEF CodesInv, CodesTyped
    <3>2. accepted' \in [Sign!Codes -> Nat]
      <4>1. accepted \in [Sign!Codes -> Nat] /\ accepted[c] + 1 \in Nat
        BY <2>1 DEF CodesInv, CodesTyped
      <4> QED BY <1>2, <4>1
    <3> QED BY <1>2, <3>1, <3>2 DEF CodesInv, CodesTyped
  <2>2. CASE c \notin Sign!Codes
    <3>1. code' = code /\ accepted' = accepted
      BY <1>2, <2>2 DEF CodesInv, CodesTyped
    <3> QED BY <1>2, <3>1 DEF CodesInv, CodesTyped
  <2> QED BY <2>1, <2>2
<1>4. RowUsed(w, c)
  BY <1>1, <1>2 DEF CodesInv, CodesTyped, RowUsed, Tick
<1>5. PICK job \in SignupJobs \cup {Sign!Idle} :
        Sign!Become(w, job) /\ job.at \notin {"create", "miss", "consume"}
  <2>1. Sign!End(w) \/ \E stage \in {"lookup", "taken"} : Sign!Go(w, stage)
    BY DEF Sign!Consume
  <2>2. ASSUME NEW stage \in {"lookup", "taken"}
        PROVE  /\ [req[w] EXCEPT !.at = stage] \in SignupJobs
               /\ [req[w] EXCEPT !.at = stage].at = stage
    BY <1>2 DEF SignupJobs, SignupStages
  <2>3. CASE Sign!End(w)
    BY <2>3, Sign!Idle.at = "idle" DEF Sign!End, Sign!Idle
  <2>4. ASSUME NEW stage \in {"lookup", "taken"}, Sign!Go(w, stage)
        PROVE  \E job \in SignupJobs : Sign!Become(w, job) /\ job.at \notin {"create", "miss", "consume"}
    BY <2>2, <2>4 DEF Sign!Go
  <2> QED BY <2>1, <2>3, <2>4
<1> QED BY <1>2, <1>3, <1>4, <1>5, RowStep

LEMMA AgeStep ==
  ASSUME CodesInv, NEW c \in Sign!Codes, Sign!Age(c)
  PROVE  CodesInv'
<1>1. /\ code' = [code EXCEPT ![c].age = @ + 1] /\ code[c].age < 2
      /\ UNCHANGED <<created, accepted, req>>
  BY DEF Sign!Age
<1>2. CodesTyped'
  BY <1>1 DEF CodesInv, CodesTyped
<1>3. \A d \in Sign!Codes : /\ code'[d].email = code[d].email /\ code'[d].consumed = code[d].consumed
                            /\ code'[d].attempts = code[d].attempts
                            /\ d # c => code'[d].age = code[d].age
  BY <1>1 DEF CodesInv, CodesTyped
<1>4. code'[c].age = code[c].age + 1 /\ code[c].age \in 0 .. 2
  BY <1>1 DEF CodesInv, CodesTyped
<1>5. \A stage, field, key : Counted(stage, field, key)' = Counted(stage, field, key)
  BY <1>1 DEF Counted, Slots
<1>6. WindowKept'
  <2>1. ASSUME NEW e
        PROVE  /\ Cardinality(Sign!InWindow(e))' <= Cardinality(Sign!InWindow(e))
               /\ Cardinality(Sign!InWindow(e)) \in Nat /\ Cardinality(Sign!InWindow(e))' \in Nat
    <3>1. Cardinality(Sign!InWindow(e))' = Cardinality(Sign!InWindow(e))
                   + Tick(c \in Sign!InWindow(e)') - Tick(c \in Sign!InWindow(e))
      BY <1>2, <1>3, WindowCount DEF CodesInv
    <3>2. c \in Sign!InWindow(e)' => c \in Sign!InWindow(e)
      BY <1>3, <1>4 DEF Sign!InWindow
    <3>3. Cardinality(Sign!InWindow(e)) \in Nat /\ Cardinality(Sign!InWindow(e))' \in Nat
      BY <1>2, <1>3, WindowCount DEF CodesInv
    <3> QED BY <3>1, <3>2, <3>3 DEF Tick
  <2>2. \A e : Counted("create", "e", e) \in Nat
    BY SlotsAreFew
  <2> QED BY <1>5, <2>1, <2>2, CountSlots, LimitsAreNat DEF CodesInv, WindowKept
<1>7. TriesKept'
  BY <1>3, <1>5 DEF CodesInv, TriesKept
<1>8. UsesKept'
  BY <1>1, <1>3, <1>5 DEF CodesInv, UsesKept, Sign!At
<1> QED BY <1>2, <1>6, <1>7, <1>8 DEF CodesInv

LEMMA NextCodes == SignupTyped /\ CodesInv /\ [Sign!Next]_(Sign!vars) => CodesInv'
<1> SUFFICES ASSUME SignupTyped, CodesInv, [Sign!Next]_(Sign!vars) PROVE CodesInv'
  OBVIOUS
<1>1. ASSUME NEW w \in Workers, NEW e \in Emails, NEW kind \in Sign!Kinds, NEW right \in BOOLEAN,
             Sign!Request(w, e, kind, right)
      PROVE  CodesInv'
  <2>1. PICK job : job = [at |-> Sign!First[kind], e |-> e, kind |-> kind, right |-> right, c |-> 0]
    OBVIOUS
  <2>2. Sign!First[kind] \in SignupStages \ {"create", "miss", "consume"}
    BY DEF Sign!Kinds, Sign!First, SignupStages
  <2>3. job \in SignupJobs /\ job.at \notin {"create", "miss", "consume"}
    BY <2>1, <2>2 DEF SignupJobs, FoundCodes
  <2>4. Sign!Become(w, job) /\ UNCHANGED <<code, created, accepted>>
    BY <1>1, <2>1 DEF Sign!Request, Sign!Start, Sign!own
  <2> QED BY <2>3, <2>4, QuietCodes
<1>2. ASSUME NEW w \in Workers,
             \/ Sign!Known(w) \/ Sign!LookupUser(w) \/ Sign!CheckFree(w) \/ Sign!InsertUser(w)
             \/ Sign!CreditReferee(w) \/ Sign!CreditReferrer(w) \/ Sign!Crash(w)
      PROVE  CodesInv'
  <2>1. Sign!Running(w) /\ UNCHANGED <<code, created, accepted>>
    BY <1>2 DEF Sign!Known, Sign!LookupUser, Sign!CheckFree, Sign!InsertUser, Sign!CreditReferee, Sign!CreditReferrer, Sign!Crash,
                Sign!own, Sign!Running, Sign!At
  <2>2. Sign!End(w) \/ \E stage \in SignupStages \ {"create", "miss", "consume"} : Sign!Go(w, stage)
    BY <1>2 DEF Sign!Known, Sign!LookupUser, Sign!CheckFree, Sign!InsertUser, Sign!CreditReferee, Sign!CreditReferrer, Sign!Crash,
                SignupStages
  <2> QED BY <2>1, <2>2, EndCodes, GoCodes
<1>3. ASSUME NEW w \in Workers, Sign!Step(w)
      PROVE  CodesInv'
  BY <1>2, <1>3, CountStep, CreateStep, LookStep, MissStep, BurnStep, ConsumeStep DEF Sign!Step
<1>4. CASE UNCHANGED Sign!vars
  <2>1. \A stage, field, key : Counted(stage, field, key)' = Counted(stage, field, key)
    BY <1>4 DEF Counted, Slots, Sign!vars
  <2>2. \A e : Sign!InWindow(e)' = Sign!InWindow(e)
    BY <1>4 DEF Sign!InWindow, Sign!vars, Sign!own
  <2> QED BY <1>4, <2>1, <2>2
          DEF Sign!vars, Sign!own, CodesInv, CodesTyped, WindowKept, TriesKept, UsesKept, Sign!At
<1> QED BY <1>1, <1>2, <1>3, <1>4, AgeStep DEF Sign!Next

LEMMA CodesAreLimited == CodesInv => Sign!CodeLimits
<1> SUFFICES ASSUME CodesInv PROVE Sign!CodeLimits
  OBVIOUS
<1>1. \A stage, field, key : Counted(stage, field, key) \in Nat
  BY SlotsAreFew
<1> QED BY <1>1, CountSlots, WindowIsNat, LimitsAreNat, SameCardinality
        DEF CodesInv, CodesTyped, WindowKept, TriesKept, UsesKept, Sign!CodeLimits, Sign!Overlap

(***************************************************************************)
(* Sessions.                                                               *)
(***************************************************************************)

SessionStages == {"issue", "guard", "unauthorized", "lookup", "search", "close", "rotate", "check",
                  "answer", "refused", "logout", "closeOne", "signOutAll"}
SessionJobs == [at : SessionStages, b : Browsers,
                kind : {"login", "api", "wrong", "logoutAll", "logout"}, retry : BOOLEAN,
                access : {"none", "fresh", "stale"}, token : 0 .. MaxTokens]
TokenRows == [status : {"none", "live", "rotated", "closed", "expired"}, family : Nat]
Storages == [access : {"none", "fresh", "stale"}, refresh : 0 .. MaxTokens]

SessionTyped ==
  /\ token \in [Session!Tokens -> TokenRows]
  /\ issued \in 0 .. MaxTokens
  /\ store \in [Browsers -> Storages]
  /\ cut \subseteq Browsers
  /\ req \in [Workers -> SessionJobs \cup {Session!Idle}]

(* A browser holds a token in its storage or in a call.                      *)
Held(b, t) ==
  t \in Session!Tokens /\ (store[b].refresh = t
                     \/ \E w \in Workers : Session!Running(w) /\ req[w].b = b /\ req[w].token = t)

(* A call that has rotated a token and not been given the next one yet, one  *)
(* that will change a storage that holds a rotated token, and a row that has *)
(* not been rotated away.                                                    *)
Claims(job) == job.at \in {"check", "issue"} /\ job.kind # "login"
Waits(job) == job.at \in {"check", "issue", "answer", "refused"} /\ job.kind # "login"
Left(t) == token[t].status \notin {"none", "rotated"}

(* The tokens that have been issued are those that are numbered so far.      *)
Numbered ==
  /\ \A t \in Session!Tokens : /\ token[t].status # "none" <=> t <= issued
                               /\ t <= issued => token[t].family <= issued
  /\ \A b \in Browsers : \A t \in Session!Tokens : Held(b, t) => t <= issued

NeedsToken == {"lookup", "search", "close", "rotate", "check", "answer", "logout", "closeOne"}
CallsKnown ==
  \A w \in Workers :
    /\ req[w].at \in NeedsToken \/ Claims(req[w]) => req[w].token # 0
    /\ Session!Running(w) /\ req[w].kind = "login" => req[w].at \in {"issue", "answer"}

(* Two browsers share no login.                                              *)
Disjoint ==
  \A b, c \in Browsers : \A s, t \in Session!Tokens :
    Held(b, s) /\ Held(c, t) /\ token[s].family = token[t].family => b = c

(* A login has one row that has not been rotated away, or one call that is   *)
(* going to be given the next, unless one of its rows was rotated twice.     *)
OneHeir ==
  /\ \A s, t \in Session!Tokens :
       Left(s) /\ Left(t) /\ token[s].family = token[t].family /\ token[s].family \notin raced => s = t
  /\ \A w \in Workers : \A t \in Session!Tokens :
       Claims(req[w]) /\ Left(t) /\ token[t].family = token[req[w].token].family => token[t].family \in raced
  /\ \A v, w \in Workers :
       Claims(req[v]) /\ Claims(req[w]) /\ token[req[v].token].family = token[req[w].token].family =>
         v = w \/ token[req[v].token].family \in raced

(* The token of an answer is known to nobody else and not rotated; a browser *)
(* that is not cut off and has stored a rotated token is waiting.            *)
Unknown(w) ==
  /\ token[req[w].token].status # "rotated"
  /\ \A b \in Browsers : store[b].refresh # req[w].token
  /\ \A v \in Workers : v # w /\ Session!Running(v) => req[v].token # req[w].token
Stale(b) == b \notin cut /\ store[b].refresh # 0 /\ token[store[b].refresh].status = "rotated"
StaleWaits ==
  /\ \A w \in Workers : Session!At(w, "answer") => Unknown(w)
  /\ \A b \in Browsers : Stale(b) => \E w \in Workers : Waits(req[w]) /\ req[w].b = b

SessionInv ==
  SessionTyped /\ Numbered /\ CallsKnown /\ Disjoint /\ OneHeir /\ StaleWaits

LEMMA InitSessions == Session!Init => SessionInv
<1> SUFFICES ASSUME Session!Init PROVE SessionInv
  OBVIOUS
<1>1. \A w \in Workers : req[w] = Session!Idle /\ req[w].at = "idle" /\ ~Session!Running(w)
  BY DEF Session!Init, Session!NoRequests, Session!Idle, Session!Running, Session!At
<1>2. \A b \in Browsers : store[b].refresh = 0 /\ \A t \in Session!Tokens : ~Held(b, t)
  BY <1>1 DEF Session!Init, Session!NoTokens, Held, Session!Tokens
<1>3. \A t \in Session!Tokens : token[t].status = "none" /\ ~Left(t) /\ token[t].family = 0 /\ t \in Nat \ {0}
  BY DEF Session!Init, Left, Session!Tokens
<1>4. SessionTyped
  BY TokensAreNat DEF Session!Init, Session!NoRequests, Session!NoTokens, SessionTyped, TokenRows, Storages
<1>5. Numbered
  BY <1>2, <1>3 DEF Numbered, Session!Init
<1> QED BY <1>1, <1>2, <1>3, <1>4, <1>5
        DEF SessionInv, CallsKnown, NeedsToken, Disjoint, OneHeir, StaleWaits, Stale, Claims, Session!At

(* A step of one browser's call that issues no token: the browser keeps what *)
(* it holds, or drops it, and a token is rotated by a call that has it.      *)
Mine(w, b) == {0, store[b].refresh} \cup (IF Session!Running(w) THEN {req[w].token} ELSE {})
Ordinary(w, b, job) ==
  /\ req'[w] = job /\ \A v \in Workers : v # w => req'[v] = req[v]
  /\ Session!Running(w) => req[w].b = b
  /\ job.at # "idle" => job.b = b /\ job.token \in Mine(w, b)
  /\ \A c \in Browsers : c # b => store'[c].refresh = store[c].refresh /\ (c \in cut' <=> c \in cut)
  /\ store'[b].refresh \in Mine(w, b)
  /\ issued' = issued /\ raced \subseteq raced'
  /\ \A t \in Session!Tokens :
       /\ token'[t].family = token[t].family
       /\ token'[t].status # "none" <=> token[t].status # "none"
       /\ Left(t)' => Left(t)
       /\ token'[t].status = "rotated" =>
            token[t].status = "rotated" \/ (Session!Running(w) /\ ~Session!At(w, "answer") /\ t = req[w].token)

(* What the call must respect at its next statement.                         *)
Allowed(w, b, job) ==
  /\ job.at # "answer"
  /\ job.at \in NeedsToken \/ Claims(job) => job.token # 0
  /\ job.at # "idle" /\ job.kind = "login" => job.at = "issue"
  /\ Claims(job) =>
       /\ \A t \in Session!Tokens :
            Left(t)' /\ token[t].family = token[job.token].family => token[t].family \in raced'
       /\ \A v \in Workers :
            v # w /\ Claims(req[v]) /\ token[req[v].token].family = token[job.token].family =>
              token[job.token].family \in raced'
  /\ Stale(b)' => Waits(job) \/ \E v \in Workers : v # w /\ Waits(req[v]) /\ req[v].b = b

LEMMA CallInProgress ==
  ASSUME SessionTyped, NEW w \in Workers, Session!Running(w)
  PROVE  /\ req[w] \in SessionJobs /\ req[w].b \in Browsers /\ req[w].token \in 0 .. MaxTokens
         /\ req[w].token # 0 => req[w].token \in Session!Tokens /\ Held(req[w].b, req[w].token)
         /\ Session!Idle \in SessionJobs \cup {Session!Idle} /\ Session!Idle.at = "idle"
         /\ ~Claims(Session!Idle) /\ ~Waits(Session!Idle)
<1>1. req[w] \in SessionJobs
  BY DEF SessionTyped, Session!Running, Session!At, Session!Idle
<1>2. req[w].b \in Browsers /\ req[w].token \in 0 .. MaxTokens
  BY <1>1 DEF SessionJobs
<1>3. req[w].token # 0 => req[w].token \in Session!Tokens
  BY <1>2, TokensAreNat DEF Session!Tokens
<1>4. Session!Idle.at = "idle" /\ ~Claims(Session!Idle) /\ ~Waits(Session!Idle)
  BY DEF Session!Idle, Claims, Waits
<1> QED BY <1>1, <1>2, <1>3, <1>4 DEF Held

LEMMA StoredIsHeld ==
  ASSUME SessionTyped, NEW b \in Browsers
  PROVE  /\ store[b].refresh \in 0 .. MaxTokens
         /\ store[b].refresh # 0 => store[b].refresh \in Session!Tokens /\ Held(b, store[b].refresh)
BY TokensAreNat DEF SessionTyped, Storages, Held, Session!Tokens

LEMMA ClaimIsHeld ==
  ASSUME SessionInv, NEW w \in Workers, Claims(req[w]) \/ req[w].at \in NeedsToken
  PROVE  /\ Session!Running(w) /\ req[w].token # 0 /\ req[w].token \in Session!Tokens
         /\ req[w].b \in Browsers /\ Held(req[w].b, req[w].token)
<1>1. Session!Running(w) /\ req[w].token # 0
  BY DEF SessionInv, CallsKnown, Claims, NeedsToken, Session!Running, Session!At
<1> QED BY <1>1, CallInProgress DEF SessionInv

LEMMA OrdinaryHeld ==
  ASSUME SessionInv, NEW w \in Workers, NEW b \in Browsers, NEW job, Ordinary(w, b, job)
  PROVE  /\ \A t \in Mine(w, b) : t = 0 \/ Held(b, t)
         /\ \A c \in Browsers : \A t \in Session!Tokens : Held(c, t)' => Held(c, t)
<1>1. \A t \in Mine(w, b) : t = 0 \/ Held(b, t)
  <2>1. store[b].refresh = 0 \/ Held(b, store[b].refresh)
    BY StoredIsHeld DEF SessionInv
  <2>2. Session!Running(w) => req[w].token = 0 \/ Held(b, req[w].token)
    BY CallInProgress DEF SessionInv, Ordinary
  <2> QED BY <2>1, <2>2 DEF Mine
<1>2. ASSUME NEW c \in Browsers, NEW t \in Session!Tokens, Held(c, t)' PROVE Held(c, t)
  <2>1. t # 0
    BY DEF Session!Tokens
  <2>2. CASE store'[c].refresh = t
    BY <1>1, <2>1, <2>2 DEF Ordinary, Held
  <2>3. ASSUME NEW v \in Workers, req'[v].at # "idle", req'[v].b = c, req'[v].token = t
        PROVE  Held(c, t)
    <3>1. CASE v = w
      BY <1>1, <2>1, <2>3, <3>1 DEF Ordinary
    <3>2. CASE v # w
      BY <2>3, <3>2 DEF Ordinary, Held, Session!Running, Session!At
    <3> QED BY <3>1, <3>2
  <2> QED BY <1>2, <2>2, <2>3 DEF Held, Session!Running, Session!At
<1> QED BY <1>1, <1>2

LEMMA OrdinaryStep ==
  ASSUME SessionInv, SessionTyped', NEW w \in Workers, NEW b \in Browsers,
         NEW job, Ordinary(w, b, job), Allowed(w, b, job)
  PROVE  SessionInv'
<1>1. \A c \in Browsers : \A t \in Session!Tokens : Held(c, t)' => Held(c, t)
  BY OrdinaryHeld
<1>2. Numbered'
  BY <1>1 DEF Ordinary, SessionInv, Numbered
<1>3. Disjoint'
  BY <1>1 DEF Ordinary, SessionInv, Disjoint
<1>4. req'[w] = job /\ \A v \in Workers : v # w => req'[v] = req[v]
  BY DEF Ordinary
<1>5. CallsKnown'
  <2>1. ASSUME NEW v \in Workers, v # w
        PROVE  /\ req'[v].at \in NeedsToken \/ Claims(req'[v]) => req'[v].token # 0
               /\ Session!Running(v)' /\ req'[v].kind = "login" => req'[v].at \in {"issue", "answer"}
    BY <1>4, <2>1 DEF SessionInv, CallsKnown, Session!Running, Session!At
  <2>2. /\ req'[w].at \in NeedsToken \/ Claims(req'[w]) => req'[w].token # 0
        /\ Session!Running(w)' /\ req'[w].kind = "login" => req'[w].at \in {"issue", "answer"}
    BY <1>4 DEF Allowed, Session!Running, Session!At
  <2> QED BY <2>1, <2>2 DEF CallsKnown, Claims, NeedsToken
<1>6. \A v \in Workers : Claims(req[v]) => req[v].token \in Session!Tokens
  BY ClaimIsHeld
<1>7. Claims(job) => job.token \in Session!Tokens
  BY <1>4 DEF SessionTyped, SessionJobs, Allowed, Claims, Session!Idle, Session!Tokens
<1>8. OneHeir'
  <2>1. \A s, t \in Session!Tokens :
          Left(s)' /\ Left(t)' /\ token'[s].family = token'[t].family /\ token'[s].family \notin raced' => s = t
    BY DEF Ordinary, SessionInv, OneHeir
  <2>2. ASSUME NEW v \in Workers, NEW t \in Session!Tokens, Claims(req'[v]), Left(t)',
               token'[t].family = token'[req'[v].token].family
        PROVE  token'[t].family \in raced'
    <3>1. CASE v = w
      BY <1>4, <1>7, <2>2, <3>1 DEF Ordinary, Allowed
    <3>2. CASE v # w
      BY <1>4, <1>6, <2>2, <3>2 DEF Ordinary, SessionInv, OneHeir
    <3> QED BY <3>1, <3>2
  <2>3. ASSUME NEW u \in Workers, NEW v \in Workers, Claims(req'[u]), Claims(req'[v]), u # v,
               token'[req'[u].token].family = token'[req'[v].token].family
        PROVE  token'[req'[u].token].family \in raced'
    <3>1. CASE u = w
      BY <1>4, <1>6, <1>7, <2>3, <3>1 DEF Ordinary, Allowed
    <3>2. CASE v = w
      BY <1>4, <1>6, <1>7, <2>3, <3>2 DEF Ordinary, Allowed
    <3>3. CASE u # w /\ v # w
      BY <1>4, <1>6, <2>3, <3>3 DEF Ordinary, SessionInv, OneHeir
    <3> QED BY <3>1, <3>2, <3>3
  <2> QED BY <2>1, <2>2, <2>3 DEF OneHeir, Claims
<1>9. StaleWaits'
  <2>1. ASSUME NEW v \in Workers, Session!At(v, "answer")'
        PROVE  Unknown(v)'
    <3>1. v # w /\ Session!At(v, "answer") /\ req'[v] = req[v] /\ Unknown(v)
      BY <1>4, <2>1 DEF Allowed, Session!At, SessionInv, StaleWaits
    <3>2. Session!Running(v) /\ req[v].token # 0 /\ req[v].token \in Session!Tokens
      BY <3>1, ClaimIsHeld DEF NeedsToken, Session!At
    <3>3. req[v].token \notin Mine(w, b)
      BY <3>1, <3>2 DEF Unknown, Mine
    <3>4. token'[req[v].token].status # "rotated"
      BY <3>1, <3>2 DEF Unknown, Ordinary
    <3>5. \A c \in Browsers : store'[c].refresh # req[v].token
      BY <3>1, <3>3 DEF Unknown, Ordinary
    <3>6. \A u \in Workers : u # v /\ Session!Running(u)' => req'[u].token # req[v].token
      BY <1>4, <3>1, <3>3 DEF Unknown, Ordinary, Session!Running, Session!At
    <3> QED BY <3>1, <3>4, <3>5, <3>6 DEF Unknown
  <2>2. ASSUME NEW c \in Browsers, c # b, Stale(c)'
        PROVE  \E v \in Workers : Waits(req'[v]) /\ req'[v].b = c
    <3>1. store'[c].refresh = store[c].refresh /\ c \notin cut /\ store[c].refresh # 0
          /\ token'[store[c].refresh].status = "rotated"
      BY <2>2 DEF Ordinary, Stale
    <3>2. store[c].refresh \in Session!Tokens /\ Held(c, store[c].refresh)
      BY <3>1, StoredIsHeld DEF SessionInv
    <3>3. Session!Running(w) => store[c].refresh # req[w].token
      <4>1. ASSUME Session!Running(w), store[c].refresh = req[w].token PROVE FALSE
        <5>1. Held(b, store[c].refresh)
          BY <3>2, <4>1 DEF Held, Ordinary
        <5> QED BY <2>2, <3>2, <5>1 DEF SessionInv, Disjoint
      <4> QED BY <4>1
    <3>4. token[store[c].refresh].status = "rotated"
      BY <3>1, <3>2, <3>3 DEF Ordinary
    <3>5. PICK v \in Workers : Waits(req[v]) /\ req[v].b = c
      BY <3>1, <3>4 DEF SessionInv, StaleWaits, Stale
    <3>6. v # w
      BY <2>2, <3>5 DEF Ordinary, Waits, Session!Running, Session!At
    <3> QED BY <1>4, <3>5, <3>6
  <2>3. ASSUME Stale(b)'
        PROVE  \E v \in Workers : Waits(req'[v]) /\ req'[v].b = b
    <3>1. Waits(job) \/ \E v \in Workers : v # w /\ Waits(req[v]) /\ req[v].b = b
      BY <2>3 DEF Allowed
    <3> QED BY <1>4, <3>1 DEF Ordinary, Waits
  <2> QED BY <2>1, <2>2, <2>3 DEF StaleWaits, Waits
<1> QED BY <1>2, <1>3, <1>5, <1>8, <1>9 DEF SessionInv

(***************************************************************************)
(* Each statement is a step of this kind, all but the one that issues.     *)
(***************************************************************************)

(* What a call in progress is, and what its next statement leaves of it.     *)
LEMMA CallMoves ==
  ASSUME SessionTyped, NEW w \in Workers, NEW job \in SessionJobs \cup {Session!Idle}, Session!Become(w, job)
  PROVE  /\ req' \in [Workers -> SessionJobs \cup {Session!Idle}]
         /\ req'[w] = job /\ \A v \in Workers : v # w => req'[v] = req[v]
BY DEF SessionTyped, Session!Become

LEMMA CallGoes ==
  ASSUME SessionTyped, NEW w \in Workers, Session!Running(w), NEW stage \in SessionStages, Session!Go(w, stage)
  PROVE  \E job \in SessionJobs :
           /\ Session!Become(w, job) /\ job.at = stage /\ job.b = req[w].b /\ job.kind = req[w].kind
           /\ job.token = req[w].token
<1>1. req[w] \in SessionJobs
  BY DEF SessionTyped, Session!Running, Session!At, Session!Idle
<1>2. PICK job : job = [req[w] EXCEPT !.at = stage]
  OBVIOUS
<1>3. job \in SessionJobs /\ job.at = stage /\ job.b = req[w].b /\ job.kind = req[w].kind
      /\ job.token = req[w].token
  BY <1>1, <1>2 DEF SessionJobs
<1> QED BY <1>2, <1>3 DEF Session!Go

LEMMA QuietFresh ==
  ASSUME SessionInv, NEW b \in Browsers, Session!Quiet(b)
  PROVE  ~Stale(b)
BY DEF SessionInv, StaleWaits, Waits, Session!Quiet, Session!Running, Session!At

(* A storage with a rotated token is left to the call that waits for it.     *)
LEMMA OthersWait ==
  ASSUME SessionInv, NEW w \in Workers, NEW b \in Browsers, ~Waits(req[w]), Stale(b)
  PROVE  \E v \in Workers : v # w /\ Waits(req[v]) /\ req[v].b = b
BY DEF SessionInv, StaleWaits

LEMMA FetchStep ==
  ASSUME SessionInv, NEW w \in Workers, NEW b \in Browsers, UNCHANGED Session!own,
         NEW stage \in {"issue", "guard", "logout"}, NEW kind \in {"login", "api", "wrong", "logoutAll", "logout"},
         NEW access \in {"none", "fresh", "stale"}, NEW refresh \in {0, store[b].refresh},
         stage = "issue" <=> kind = "login", stage = "logout" => refresh # 0,
         Session!Fetch(w, b, stage, kind, access, refresh)
  PROVE  SessionInv'
<1>0. SessionTyped
  BY DEF SessionInv
<1>1. PICK job : job = [at |-> stage, b |-> b, kind |-> kind, retry |-> TRUE,
                        access |-> access, token |-> refresh]
  OBVIOUS
<1>2. Session!At(w, "idle") /\ Session!Become(w, job)
  BY <1>1 DEF Session!Fetch, Session!Start
<1>3. job \in SessionJobs
  <2>1. refresh \in 0 .. MaxTokens
    BY <1>0, TokensAreNat DEF SessionTyped, Storages
  <2> QED BY <1>1, <2>1 DEF SessionJobs, SessionStages
<1>4. req' \in [Workers -> SessionJobs \cup {Session!Idle}] /\ req'[w] = job
      /\ \A v \in Workers : v # w => req'[v] = req[v]
  BY <1>0, <1>2, <1>3, CallMoves
<1>5. SessionTyped'
  BY <1>0, <1>4 DEF SessionTyped, Session!own
<1>6. ~Session!Running(w) /\ ~Waits(req[w])
  BY <1>2 DEF Session!Running, Session!At, Waits
<1>7. Ordinary(w, b, job)
  BY <1>1, <1>4, <1>6 DEF Ordinary, Mine, Session!own, Left
<1>8. Stale(b)' => \E v \in Workers : v # w /\ Waits(req[v]) /\ req[v].b = b
  BY <1>6, OthersWait DEF Stale, Session!own
<1>9. Allowed(w, b, job)
  BY <1>1, <1>8 DEF Allowed, Claims, NeedsToken
<1> QED BY <1>5, <1>7, <1>9, OrdinaryStep

(* A statement that writes no row: the call goes on to the next.             *)
LEMMA GoesOn ==
  ASSUME SessionInv, NEW w \in Workers, Session!Running(w), ~Session!At(w, "answer"), UNCHANGED Session!own,
         NEW stage \in SessionStages, Session!Go(w, stage), stage # "answer",
         stage \in NeedsToken => req[w].token # 0,
         stage = "issue" => Session!At(w, "check"), stage # "check",
         req[w].kind # "login",
         Waits(req[w]) => stage \in {"issue", "refused"}
  PROVE  SessionInv'
<1>0. SessionTyped
  BY DEF SessionInv
<1>1. PICK job \in SessionJobs : /\ Session!Become(w, job) /\ job.at = stage /\ job.b = req[w].b
                                 /\ job.kind = req[w].kind /\ job.token = req[w].token
  BY <1>0, CallGoes
<1>2. req' \in [Workers -> SessionJobs \cup {Session!Idle}] /\ req'[w] = job
      /\ \A v \in Workers : v # w => req'[v] = req[v]
  BY <1>0, <1>1, CallMoves
<1>3. SessionTyped'
  BY <1>0, <1>2 DEF SessionTyped, Session!own
<1>4. PICK b \in Browsers : b = req[w].b
  BY <1>0, CallInProgress
<1>5. Ordinary(w, b, job)
  BY <1>1, <1>2, <1>4 DEF Ordinary, Mine, Session!own, Left
<1>6. Claims(job) => Claims(req[w]) /\ req[w].token # 0
  BY <1>1 DEF Claims, Session!At, SessionInv, CallsKnown, NeedsToken
<1>7. Claims(job) =>
        /\ \A t \in Session!Tokens : Left(t)' /\ token[t].family = token[job.token].family => token[t].family \in raced'
        /\ \A v \in Workers : v # w /\ Claims(req[v]) /\ token[req[v].token].family = token[job.token].family =>
                              token[job.token].family \in raced'
  BY <1>1, <1>6 DEF SessionInv, OneHeir, Session!own, Left
<1>8. Stale(b)' => Waits(job) \/ \E v \in Workers : v # w /\ Waits(req[v]) /\ req[v].b = b
  <2>1. CASE Waits(req[w])
    BY <1>1, <2>1 DEF Waits
  <2>2. CASE ~Waits(req[w])
    BY <2>2, OthersWait DEF Stale, Session!own
  <2> QED BY <2>1, <2>2
<1> QED BY <1>1, <1>3, <1>5, <1>6, <1>7, <1>8, OrdinaryStep DEF Allowed

(* The call ends, and what the browser stores is kept, or dropped.           *)
LEMMA CallEnds ==
  ASSUME SessionInv, SessionTyped', NEW w \in Workers, Session!Running(w), Session!End(w), UNCHANGED <<issued, raced>>,
         NEW b \in Browsers, b = req[w].b,
         \A c \in Browsers : c # b => store'[c].refresh = store[c].refresh /\ (c \in cut' <=> c \in cut),
         store'[b].refresh \in Mine(w, b),
         \A t \in Session!Tokens : /\ token'[t].family = token[t].family
                                   /\ token'[t].status # "none" <=> token[t].status # "none"
                                   /\ Left(t)' => Left(t)
                                   /\ token'[t].status = "rotated" => token[t].status = "rotated",
         Stale(b)' => \E v \in Workers : v # w /\ Waits(req[v]) /\ req[v].b = b
  PROVE  SessionInv'
<1>1. req'[w] = Session!Idle /\ \A v \in Workers : v # w => req'[v] = req[v]
  BY DEF Session!End, Session!Become, SessionInv, SessionTyped
<1>2. Ordinary(w, b, Session!Idle)
  BY <1>1 DEF Ordinary, Session!Idle, Session!Running, Session!At
<1>3. Allowed(w, b, Session!Idle)
  BY DEF Allowed, Session!Idle, Claims, NeedsToken
<1> QED BY <1>2, <1>3, OrdinaryStep

LEMMA EndTyped ==
  ASSUME SessionInv, NEW w \in Workers, Session!End(w)
  PROVE  req' \in [Workers -> SessionJobs \cup {Session!Idle}]
BY DEF Session!End, Session!Become, SessionInv, SessionTyped

LEMMA GuardStep ==
  ASSUME SessionInv, NEW w \in Workers, Session!Guard(w)
  PROVE  SessionInv'
<1>1. Session!Running(w) /\ ~Session!At(w, "answer") /\ ~Waits(req[w]) /\ req[w].kind # "login"
  BY DEF Session!Guard, Session!Running, Session!At, Waits, SessionInv, CallsKnown
<1>2. CASE Session!Go(w, "signOutAll")
  BY <1>1, <1>2, GoesOn DEF SessionStages, NeedsToken, Session!Guard
<1>3. CASE Session!Go(w, "unauthorized")
  BY <1>1, <1>3, GoesOn DEF SessionStages, NeedsToken, Session!Guard
<1>4. CASE Session!End(w)
  <2>1. PICK b \in Browsers : b = req[w].b
    BY <1>1, CallInProgress DEF SessionInv
  <2>2. UNCHANGED <<token, issued, store, cut, raced>>
    BY DEF Session!Guard, Session!own
  <2>3. SessionTyped'
    BY <1>4, <2>2, EndTyped DEF SessionInv, SessionTyped
  <2>4. Stale(b)' => \E v \in Workers : v # w /\ Waits(req[v]) /\ req[v].b = b
    BY <1>1, <2>2, OthersWait DEF Stale
  <2>5. \A t \in Session!Tokens : Left(t)' <=> Left(t)
    BY <2>2 DEF Left
  <2>6. store'[b].refresh \in Mine(w, b)
    BY <2>2 DEF Mine
  <2> QED BY <1>1, <1>4, <2>1, <2>2, <2>3, <2>4, <2>5, <2>6, CallEnds
<1> QED BY <1>2, <1>3, <1>4 DEF Session!Guard

LEMMA StorageCleared ==
  ASSUME SessionInv, NEW w \in Workers, Session!Running(w), Session!End(w), Session!Clear(req[w].b),
         UNCHANGED <<token, issued, cut, raced>>
  PROVE  SessionInv'
<1>1. PICK b \in Browsers : b = req[w].b
  BY CallInProgress DEF SessionInv
<1>2. store'[b].refresh = 0 /\ \A c \in Browsers : c # b => store'[c] = store[c]
  BY <1>1 DEF Session!Clear, Session!NoTokens, SessionInv, SessionTyped
<1>3. store' \in [Browsers -> Storages]
  BY <1>1, TokensAreNat DEF Session!Clear, Session!NoTokens, SessionInv, SessionTyped, Storages
<1>4. SessionTyped'
  BY <1>3, EndTyped DEF SessionInv, SessionTyped
<1>5. \A t \in Session!Tokens : Left(t)' <=> Left(t)
  BY DEF Left
<1>6. store'[b].refresh \in Mine(w, b) /\ ~Stale(b)'
  BY <1>2 DEF Mine, Stale
<1> QED BY <1>1, <1>2, <1>4, <1>5, <1>6, CallEnds

LEMMA UnauthorizedStep ==
  ASSUME SessionInv, NEW w \in Workers, Session!Unauthorized(w)
  PROVE  SessionInv'
<1>1. Session!Running(w) /\ ~Waits(req[w]) /\ ~Session!At(w, "answer") /\ req[w].kind # "login"
  BY DEF Session!Unauthorized, Session!Running, Session!At, Waits, SessionInv, CallsKnown
<1>2. PICK b \in Browsers : b = req[w].b
  BY <1>1, CallInProgress DEF SessionInv
<1>3. store[b].refresh \in 0 .. MaxTokens
  BY StoredIsHeld DEF SessionInv
<1>4. UNCHANGED <<token, issued, cut, raced>>
  BY DEF Session!Unauthorized
<1>5. \A t \in Session!Tokens : Left(t)' <=> Left(t)
  BY <1>4 DEF Left
<1>6. store' = store /\ Stale(b)' => \E v \in Workers : v # w /\ Waits(req[v]) /\ req[v].b = b
  BY <1>1, <1>4, OthersWait DEF Stale
<1>7. CASE req[w].retry /\ store[b].refresh # 0
  <2>1. PICK job : job = [req[w] EXCEPT !.at = "lookup", !.token = store[b].refresh]
    OBVIOUS
  <2>2. Session!Become(w, job) /\ store' = store
    BY <1>2, <1>7, <2>1 DEF Session!Unauthorized
  <2>3. req[w] \in SessionJobs
    BY <1>1, CallInProgress DEF SessionInv
  <2>4. /\ job \in SessionJobs /\ job.at = "lookup" /\ job.b = b /\ job.kind = req[w].kind
        /\ job.token = store[b].refresh
    BY <1>2, <1>3, <2>1, <2>3 DEF SessionJobs, SessionStages
  <2>5. req' \in [Workers -> SessionJobs \cup {Session!Idle}] /\ req'[w] = job
        /\ \A v \in Workers : v # w => req'[v] = req[v]
    BY <2>2, <2>4, CallMoves DEF SessionInv
  <2>6. SessionTyped'
    BY <1>4, <2>2, <2>5 DEF SessionInv, SessionTyped
  <2>7. Ordinary(w, b, job)
    BY <1>1, <1>2, <1>4, <1>5, <2>2, <2>4, <2>5 DEF Ordinary, Mine
  <2>8. Allowed(w, b, job)
    BY <1>1, <1>6, <1>7, <2>2, <2>4 DEF Allowed, Claims, NeedsToken
  <2> QED BY <2>6, <2>7, <2>8, OrdinaryStep
<1>8. CASE ~(req[w].retry /\ store[b].refresh # 0) /\ req[w].retry
  BY <1>1, <1>2, <1>8, StorageCleared DEF Session!Unauthorized
<1>9. CASE ~(req[w].retry /\ store[b].refresh # 0) /\ ~req[w].retry
  <2>1. Session!End(w) /\ store' = store
    BY <1>2, <1>9 DEF Session!Unauthorized
  <2>2. SessionTyped'
    BY <1>4, <2>1, EndTyped DEF SessionInv, SessionTyped
  <2>3. store'[b].refresh \in Mine(w, b)
    BY <2>1 DEF Mine
  <2> QED BY <1>1, <1>2, <1>4, <1>5, <1>6, <2>1, <2>2, <2>3, CallEnds
<1> QED BY <1>7, <1>8, <1>9

LEMMA SignedOutStep ==
  ASSUME SessionInv, NEW w \in Workers, Session!SignedOut(w)
  PROVE  SessionInv'
BY StorageCleared DEF Session!SignedOut, Session!Running, Session!At

LEMMA LookupStep ==
  ASSUME SessionInv, NEW w \in Workers, Session!Lookup(w)
  PROVE  SessionInv'
<1>1. Session!Running(w) /\ ~Waits(req[w]) /\ ~Session!At(w, "answer") /\ req[w].token # 0 /\ req[w].kind # "login"
  BY DEF Session!Lookup, Session!Running, Session!At, Waits, SessionInv, CallsKnown, NeedsToken
<1>2. CASE Session!Go(w, "rotate")
  BY <1>1, <1>2, GoesOn DEF SessionStages, Session!Lookup
<1>3. CASE Session!Go(w, "refused")
  BY <1>1, <1>3, GoesOn DEF SessionStages, Session!Lookup
<1>4. CASE Session!Go(w, "search")
  BY <1>1, <1>4, GoesOn DEF SessionStages, Session!Lookup
<1> QED BY <1>2, <1>3, <1>4 DEF Session!Lookup

LEMMA SearchStep ==
  ASSUME SessionInv, NEW w \in Workers, Session!SearchRevoked(w)
  PROVE  SessionInv'
<1>1. Session!Running(w) /\ ~Waits(req[w]) /\ ~Session!At(w, "answer") /\ req[w].token # 0 /\ req[w].kind # "login"
  BY DEF Session!SearchRevoked, Session!Running, Session!At, Waits, SessionInv, CallsKnown, NeedsToken
<1>2. CASE Session!Go(w, "close")
  BY <1>1, <1>2, GoesOn DEF SessionStages, Session!SearchRevoked
<1>3. CASE Session!Go(w, "refused")
  BY <1>1, <1>3, GoesOn DEF SessionStages, Session!SearchRevoked
<1> QED BY <1>2, <1>3 DEF Session!SearchRevoked

LEMMA CheckUserStep ==
  ASSUME SessionInv, NEW w \in Workers, Session!CheckUser(w)
  PROVE  SessionInv'
<1>1. Session!Running(w) /\ ~Session!At(w, "answer") /\ req[w].token # 0 /\ req[w].kind # "login"
  BY DEF Session!CheckUser, Session!Running, Session!At, SessionInv, CallsKnown, NeedsToken
<1>2. CASE Session!Go(w, "issue")
  BY <1>1, <1>2, GoesOn DEF SessionStages, Session!CheckUser
<1>3. CASE Session!Go(w, "refused")
  BY <1>1, <1>3, GoesOn DEF SessionStages, Session!CheckUser
<1> QED BY <1>2, <1>3 DEF Session!CheckUser

LEMMA FindLogoutStep ==
  ASSUME SessionInv, NEW w \in Workers, Session!FindLogout(w)
  PROVE  SessionInv'
<1>1. Session!Running(w) /\ ~Waits(req[w]) /\ ~Session!At(w, "answer") /\ req[w].token # 0 /\ req[w].kind # "login"
  BY DEF Session!FindLogout, Session!Running, Session!At, Waits, SessionInv, CallsKnown, NeedsToken
<1>2. CASE Session!Go(w, "closeOne")
  BY <1>1, <1>2, GoesOn DEF SessionStages, Session!FindLogout
<1>3. CASE Session!Go(w, "refused")
  BY <1>1, <1>3, GoesOn DEF SessionStages, Session!FindLogout
<1> QED BY <1>2, <1>3 DEF Session!FindLogout

LEMMA AnswerStep ==
  ASSUME SessionInv, NEW w \in Workers, Session!Answer(w)
  PROVE  SessionInv'
<1>1. Session!Running(w) /\ Session!At(w, "answer") /\ req[w].token # 0 /\ token[req[w].token].status # "rotated"
  BY DEF Session!Answer, Session!Running, Session!At, SessionInv, CallsKnown, StaleWaits, Unknown, NeedsToken
<1>2. PICK b \in Browsers : b = req[w].b
  BY <1>1, CallInProgress DEF SessionInv
<1>3. req[w].token \in Session!Tokens /\ req[w] \in SessionJobs
  BY <1>1, CallInProgress DEF SessionInv
<1>4. PICK row : row = [access |-> "fresh", refresh |-> req[w].token]
  OBVIOUS
<1>5. store' = [store EXCEPT ![b] = row]
  BY <1>2, <1>4 DEF Session!Answer
<1>6. row \in Storages
  BY <1>3, <1>4, TokensAreNat DEF Session!Tokens, Storages
<1>7. /\ store' \in [Browsers -> Storages]
      /\ store'[b] = row /\ \A c \in Browsers : c # b => store'[c] = store[c]
  BY <1>5, <1>6 DEF SessionInv, SessionTyped
<1>8. /\ token' = token /\ issued' = issued /\ raced' = raced /\ cut' \subseteq Browsers
      /\ \A c \in Browsers : c # b => (c \in cut' <=> c \in cut)
  BY <1>2 DEF Session!Answer, SessionInv, SessionTyped
<1>9. /\ \A t \in Session!Tokens : Left(t)' <=> Left(t)
      /\ store'[b].refresh \in Mine(w, b) /\ ~Stale(b)'
  BY <1>1, <1>4, <1>7, <1>8 DEF Left, Mine, Stale
<1>10. CASE req[w].kind = "login"
  <2>1. Session!End(w)
    BY <1>10 DEF Session!Answer
  <2>2. SessionTyped'
    BY <1>7, <1>8, <2>1, EndTyped DEF SessionInv, SessionTyped
  <2> QED BY <1>1, <1>2, <1>7, <1>8, <1>9, <2>1, <2>2, CallEnds
<1>11. CASE req[w].kind # "login"
  <2>1. PICK job : job = [req[w] EXCEPT !.at = "guard", !.retry = FALSE, !.access = "fresh"]
    OBVIOUS
  <2>2. Session!Become(w, job)
    BY <1>11, <2>1 DEF Session!Answer
  <2>3. /\ job \in SessionJobs /\ job.at = "guard" /\ job.b = b /\ job.kind = req[w].kind
        /\ job.token = req[w].token
    BY <1>2, <1>3, <2>1 DEF SessionJobs, SessionStages
  <2>4. req' \in [Workers -> SessionJobs \cup {Session!Idle}] /\ req'[w] = job
        /\ \A v \in Workers : v # w => req'[v] = req[v]
    BY <2>2, <2>3, CallMoves DEF SessionInv
  <2>5. SessionTyped'
    BY <1>7, <1>8, <2>4 DEF SessionInv, SessionTyped
  <2>6. Ordinary(w, b, job)
    BY <1>1, <1>2, <1>7, <1>8, <1>9, <2>3, <2>4 DEF Ordinary, Mine
  <2>7. Allowed(w, b, job)
    BY <1>1, <1>9, <1>11, <2>3 DEF Allowed, Claims, NeedsToken
  <2> QED BY <2>5, <2>6, <2>7, OrdinaryStep
<1> QED BY <1>10, <1>11

LEMMA LoseStep ==
  ASSUME SessionInv, NEW w \in Workers, Session!Lose(w)
  PROVE  SessionInv'
<1>1. PICK b \in Browsers : b = req[w].b
  BY CallInProgress DEF SessionInv, Session!Lose
<1>2. UNCHANGED <<token, issued, store, raced>> /\ Session!Running(w) /\ Session!End(w)
  BY DEF Session!Lose
<1>3. SessionTyped'
  BY <1>1, <1>2, EndTyped DEF Session!Lose, SessionInv, SessionTyped
<1>4. \A t \in Session!Tokens : Left(t)' <=> Left(t)
  BY <1>2 DEF Left
<1>5. b \in cut' /\ \A c \in Browsers : c # b => (c \in cut' <=> c \in cut)
  BY <1>1 DEF Session!Lose
<1>6. store'[b].refresh \in Mine(w, b) /\ ~Stale(b)'
  BY <1>2, <1>5 DEF Mine, Stale
<1> QED BY <1>1, <1>2, <1>3, <1>4, <1>5, <1>6, CallEnds

(* The live tokens of the user are closed.                                   *)
LEMMA RowsClosed ==
  ASSUME SessionInv, token' = Session!CloseAll
  PROVE  /\ token' \in [Session!Tokens -> TokenRows]
         /\ \A t \in Session!Tokens : /\ token'[t].family = token[t].family
                                      /\ token'[t].status # "none" <=> token[t].status # "none"
                                      /\ Left(t)' <=> Left(t)
                                      /\ token'[t].status = "rotated" <=> token[t].status = "rotated"
<1> SUFFICES ASSUME NEW t \in Session!Tokens
             PROVE  /\ token'[t] \in TokenRows
                    /\ token'[t].family = token[t].family
                    /\ token'[t].status # "none" <=> token[t].status # "none"
                    /\ Left(t)' <=> Left(t)
                    /\ token'[t].status = "rotated" <=> token[t].status = "rotated"
  BY DEF Session!CloseAll
<1>1. token[t] \in TokenRows
  BY DEF SessionInv, SessionTyped
<1>2. token'[t] = IF Session!Live(t) THEN [token[t] EXCEPT !.status = "closed"] ELSE token[t]
  BY DEF Session!CloseAll
<1>3. CASE Session!Live(t)
  <2>1. token'[t] = [token[t] EXCEPT !.status = "closed"]
    BY <1>2, <1>3
  <2> QED BY <1>1, <1>3, <2>1 DEF Session!Live, TokenRows, Left
<1>4. CASE ~Session!Live(t)
  BY <1>1, <1>2, <1>4 DEF Left
<1> QED BY <1>3, <1>4

LEMMA CloseStep ==
  ASSUME SessionInv, NEW w \in Workers, Session!Close(w)
  PROVE  SessionInv'
<1>1. Session!Running(w) /\ ~Waits(req[w]) /\ ~Session!At(w, "answer") /\ req[w].kind # "login"
  BY DEF Session!Close, Session!Running, Session!At, Waits, SessionInv, CallsKnown
<1>2. PICK b \in Browsers : b = req[w].b
  BY <1>1, CallInProgress DEF SessionInv
<1>3. token' \in [Session!Tokens -> TokenRows]
      /\ \A t \in Session!Tokens : /\ token'[t].family = token[t].family
                                   /\ token'[t].status # "none" <=> token[t].status # "none"
                                   /\ Left(t)' <=> Left(t)
                                   /\ token'[t].status = "rotated" <=> token[t].status = "rotated"
  BY RowsClosed DEF Session!Close
<1>4. UNCHANGED <<issued, store, cut, raced>>
  BY DEF Session!Close
<1>5. Stale(b)' => \E v \in Workers : v # w /\ Waits(req[v]) /\ req[v].b = b
  <2>1. Stale(b)' => Stale(b)
    BY <1>3, <1>4, StoredIsHeld DEF Stale, SessionInv
  <2> QED BY <1>1, <2>1, OthersWait
<1>6. store'[b].refresh \in Mine(w, b)
  BY <1>4 DEF Mine
<1>7. CASE Session!At(w, "close")
  <2>1. PICK job \in SessionJobs : /\ Session!Become(w, job) /\ job.at = "refused" /\ job.b = b
                                   /\ job.kind = req[w].kind /\ job.token = req[w].token
    BY <1>1, <1>2, <1>7, CallGoes DEF Session!Close, SessionInv, SessionStages
  <2>2. req' \in [Workers -> SessionJobs \cup {Session!Idle}] /\ req'[w] = job
        /\ \A v \in Workers : v # w => req'[v] = req[v]
    BY <2>1, CallMoves DEF SessionInv
  <2>3. SessionTyped'
    BY <1>3, <1>4, <2>2 DEF SessionInv, SessionTyped
  <2>4. Ordinary(w, b, job)
    BY <1>1, <1>2, <1>3, <1>4, <1>6, <2>1, <2>2 DEF Ordinary, Mine
  <2>5. Allowed(w, b, job)
    BY <1>1, <1>5, <2>1 DEF Allowed, Claims, NeedsToken
  <2> QED BY <2>3, <2>4, <2>5, OrdinaryStep
<1>8. CASE ~Session!At(w, "close")
  <2>1. Session!End(w)
    BY <1>8 DEF Session!Close
  <2>2. SessionTyped'
    BY <1>3, <1>4, <2>1, EndTyped DEF SessionInv, SessionTyped
  <2>3. \A c \in Browsers : c # b => store'[c].refresh = store[c].refresh /\ (c \in cut' <=> c \in cut)
    BY <1>4
  <2> QED BY <1>1, <1>2, <1>3, <1>4, <1>5, <1>6, <2>1, <2>2, <2>3, CallEnds
<1> QED BY <1>7, <1>8

(* One row is given another status.                                          *)
LEMMA RowMoves ==
  ASSUME SessionInv, NEW t \in Session!Tokens, NEW status \in {"rotated", "closed", "expired"},
         token' = [token EXCEPT ![t].status = status]
  PROVE  /\ token' \in [Session!Tokens -> TokenRows]
         /\ token'[t].status = status
         /\ \A s \in Session!Tokens : /\ token'[s].family = token[s].family
                                      /\ s # t => token'[s] = token[s] /\ (Left(s)' <=> Left(s))
<1>1. \A s \in Session!Tokens : token[s] \in TokenRows
  BY DEF SessionInv, SessionTyped
<1>2. PICK row : row = [token[t] EXCEPT !.status = status]
  OBVIOUS
<1>3. row \in TokenRows /\ row.status = status /\ row.family = token[t].family
  BY <1>1, <1>2 DEF TokenRows
<1>4. token' = [token EXCEPT ![t] = row]
  BY <1>2
<1>5. token'[t] = row /\ \A s \in Session!Tokens : s # t => token'[s] = token[s]
  BY <1>4 DEF SessionInv, SessionTyped
<1>6. token' \in [Session!Tokens -> TokenRows]
  BY <1>3, <1>4 DEF SessionInv, SessionTyped
<1> QED BY <1>3, <1>5, <1>6 DEF Left

LEMMA RotateStep ==
  ASSUME SessionInv, NEW w \in Workers, Session!Rotate(w)
  PROVE  SessionInv'
<1>1. Session!Running(w) /\ Session!At(w, "rotate") /\ ~Session!At(w, "answer") /\ req[w].kind # "login"
  BY DEF Session!Rotate, Session!Running, Session!At, SessionInv, CallsKnown
<1>2. PICK b \in Browsers : b = req[w].b
  BY <1>1, CallInProgress DEF SessionInv
<1>3. PICK t \in Session!Tokens : t = req[w].token
  BY <1>1, ClaimIsHeld DEF NeedsToken, Session!At
<1>4. Held(b, t) /\ t # 0 /\ token[t].status # "none"
  BY <1>1, <1>2, <1>3, ClaimIsHeld DEF NeedsToken, Session!At, SessionInv, Numbered
<1>5. token' = [token EXCEPT ![t].status = "rotated"]
  BY <1>3 DEF Session!Rotate
<1>6. /\ token' \in [Session!Tokens -> TokenRows] /\ token'[t].status = "rotated"
      /\ \A s \in Session!Tokens : /\ token'[s].family = token[s].family
                                   /\ s # t => token'[s] = token[s] /\ (Left(s)' <=> Left(s))
  BY <1>5, RowMoves
<1>7. PICK job \in SessionJobs : /\ Session!Become(w, job) /\ job.at = "check" /\ job.b = b
                                 /\ job.kind = req[w].kind /\ job.token = t
  BY <1>1, <1>2, <1>3, CallGoes DEF Session!Rotate, SessionInv, SessionStages
<1>8. req' \in [Workers -> SessionJobs \cup {Session!Idle}] /\ req'[w] = job
      /\ \A v \in Workers : v # w => req'[v] = req[v]
  BY <1>7, CallMoves DEF SessionInv
<1>9. UNCHANGED <<issued, store, cut>>
  BY DEF Session!Rotate
<1>10. SessionTyped'
  BY <1>6, <1>8, <1>9 DEF SessionInv, SessionTyped
<1>11. raced \subseteq raced' /\ (token[t].status = "rotated" => token[t].family \in raced')
  BY <1>3 DEF Session!Rotate, Session!Race
<1>12. \A s \in Session!Tokens : Left(s)' => Left(s) /\ s # t
  BY <1>6 DEF Left
<1>13. Ordinary(w, b, job)
  <2>1. \A s \in Session!Tokens : /\ token'[s].family = token[s].family
                                  /\ token'[s].status # "none" <=> token[s].status # "none"
                                  /\ Left(s)' => Left(s)
                                  /\ token'[s].status = "rotated" => token[s].status = "rotated" \/ s = t
    BY <1>4, <1>6, <1>12
  <2> QED BY <1>1, <1>2, <1>3, <1>7, <1>8, <1>9, <1>11, <2>1 DEF Ordinary, Mine
<1>14. \A s \in Session!Tokens : Left(s)' /\ token[s].family = token[t].family => token[s].family \in raced'
  <2> SUFFICES ASSUME NEW s \in Session!Tokens, Left(s)', token[s].family = token[t].family,
                      token[s].family \notin raced'
               PROVE  FALSE
    OBVIOUS
  <2>1. Left(s) /\ s # t /\ Left(t) /\ token[s].family \notin raced
    BY <1>4, <1>11, <1>12 DEF Left
  <2> QED BY <2>1 DEF SessionInv, OneHeir
<1>15. \A v \in Workers : Claims(req[v]) /\ token[req[v].token].family = token[t].family =>
                          token[t].family \in raced'
  <2> SUFFICES ASSUME NEW v \in Workers, Claims(req[v]), token[req[v].token].family = token[t].family,
                      token[t].family \notin raced'
               PROVE  FALSE
    OBVIOUS
  <2>1. Left(t) /\ token[t].family \notin raced
    BY <1>4, <1>11 DEF Left
  <2> QED BY <2>1 DEF SessionInv, OneHeir
<1>16. Waits(job) /\ job.at # "answer" /\ job.token # 0 /\ job.kind # "login"
  BY <1>1, <1>4, <1>7 DEF Waits
<1>17. Allowed(w, b, job)
  BY <1>7, <1>14, <1>15, <1>16 DEF Allowed
<1> QED BY <1>10, <1>13, <1>17, OrdinaryStep

LEMMA LogoutStep ==
  ASSUME SessionInv, NEW w \in Workers, Session!LogoutToken(w)
  PROVE  SessionInv'
<1>1. Session!Running(w) /\ Session!At(w, "closeOne") /\ ~Session!At(w, "answer") /\ req[w].kind # "login"
      /\ ~Waits(req[w])
  BY DEF Session!LogoutToken, Session!Running, Session!At, SessionInv, CallsKnown, Waits
<1>2. PICK b \in Browsers : b = req[w].b
  BY <1>1, CallInProgress DEF SessionInv
<1>3. PICK t \in Session!Tokens : t = req[w].token
  BY <1>1, ClaimIsHeld DEF NeedsToken, Session!At
<1>4. Held(b, t) /\ t # 0 /\ token[t].status # "none"
  BY <1>1, <1>2, <1>3, ClaimIsHeld DEF NeedsToken, Session!At, SessionInv, Numbered
<1>5. PICK status : status = IF token[t].status = "rotated" THEN "rotated" ELSE "closed"
  OBVIOUS
<1>6. token' = [token EXCEPT ![t].status = status]
  BY <1>3, <1>5 DEF Session!LogoutToken
<1>7. /\ token' \in [Session!Tokens -> TokenRows] /\ token'[t].status = status
      /\ \A s \in Session!Tokens : /\ token'[s].family = token[s].family
                                   /\ s # t => token'[s] = token[s] /\ (Left(s)' <=> Left(s))
  BY <1>5, <1>6, RowMoves
<1>8. \A s \in Session!Tokens : /\ token'[s].family = token[s].family
                                /\ token'[s].status # "none" <=> token[s].status # "none"
                                /\ Left(s)' => Left(s)
                                /\ token'[s].status = "rotated" <=> token[s].status = "rotated"
  BY <1>4, <1>5, <1>7 DEF Left
<1>9. PICK job \in SessionJobs : /\ Session!Become(w, job) /\ job.at = "refused" /\ job.b = b
                                 /\ job.kind = req[w].kind /\ job.token = t
  BY <1>1, <1>2, <1>3, CallGoes DEF Session!LogoutToken, SessionInv, SessionStages
<1>10. req' \in [Workers -> SessionJobs \cup {Session!Idle}] /\ req'[w] = job
       /\ \A v \in Workers : v # w => req'[v] = req[v]
  BY <1>9, CallMoves DEF SessionInv
<1>11. UNCHANGED <<issued, store, cut, raced>>
  BY DEF Session!LogoutToken
<1>12. SessionTyped'
  BY <1>7, <1>10, <1>11 DEF SessionInv, SessionTyped
<1>13. Ordinary(w, b, job)
  BY <1>1, <1>2, <1>3, <1>8, <1>9, <1>10, <1>11 DEF Ordinary, Mine
<1>14. Allowed(w, b, job)
  BY <1>1, <1>9 DEF Allowed, Claims, Waits, NeedsToken
<1> QED BY <1>12, <1>13, <1>14, OrdinaryStep

(* No call moves: no token is issued or rotated, and no storage changes hands. *)
LEMMA RowsQuiet ==
  ASSUME SessionInv, SessionTyped', UNCHANGED <<req, issued, cut, raced>>,
         \A b \in Browsers : store'[b].refresh = store[b].refresh,
         \A t \in Session!Tokens : /\ token'[t].family = token[t].family
                                   /\ token'[t].status # "none" <=> token[t].status # "none"
                                   /\ Left(t)' <=> Left(t)
                                   /\ token'[t].status = "rotated" <=> token[t].status = "rotated"
  PROVE  SessionInv'
<1>1. \A w \in Workers : (Session!Running(w)' <=> Session!Running(w)) /\ req'[w] = req[w]
  BY DEF Session!Running, Session!At
<1>2. \A b \in Browsers : \A t \in Session!Tokens : Held(b, t)' <=> Held(b, t)
  BY <1>1 DEF Held
<1>3. Numbered' /\ Disjoint'
  BY <1>2 DEF SessionInv, Numbered, Disjoint
<1>4. CallsKnown'
  BY <1>1 DEF SessionInv, CallsKnown
<1>5. \A w \in Workers : Claims(req[w]) \/ req[w].at \in NeedsToken => req[w].token \in Session!Tokens
  BY ClaimIsHeld
<1>6. OneHeir'
  BY <1>5 DEF SessionInv, OneHeir
<1>7. StaleWaits'
  <2>1. ASSUME NEW w \in Workers, Session!At(w, "answer")
        PROVE  Unknown(w)'
    <3>1. Unknown(w) /\ req[w].token \in Session!Tokens
      BY <1>5, <2>1 DEF SessionInv, StaleWaits, NeedsToken, Session!At
    <3> QED BY <1>1, <3>1 DEF Unknown
  <2>2. \A b \in Browsers : Stale(b)' => Stale(b)
    BY StoredIsHeld DEF Stale, SessionInv
  <2> QED BY <2>1, <2>2 DEF SessionInv, StaleWaits, Session!At
<1> QED BY <1>3, <1>4, <1>6, <1>7 DEF SessionInv

LEMMA ExpiryStep ==
  ASSUME SessionInv, NEW b \in Browsers, Session!AccessExpires(b)
  PROVE  SessionInv'
<1>1. PICK row : row = [store[b] EXCEPT !.access = "stale"]
  OBVIOUS
<1>2. store[b] \in Storages
  BY DEF SessionInv, SessionTyped
<1>3. row \in Storages /\ row.refresh = store[b].refresh
  BY <1>1, <1>2 DEF Storages
<1>4. store' = [store EXCEPT ![b] = row]
  BY <1>1 DEF Session!AccessExpires
<1>5. store' \in [Browsers -> Storages]
      /\ \A c \in Browsers : store'[c].refresh = store[c].refresh
  BY <1>3, <1>4 DEF SessionInv, SessionTyped
<1>6. UNCHANGED <<token, issued, cut, raced, req>>
  BY DEF Session!AccessExpires
<1>7. SessionTyped'
  BY <1>5, <1>6 DEF SessionInv, SessionTyped
<1> QED BY <1>5, <1>6, <1>7, RowsQuiet DEF Left

LEMMA RefreshExpiryStep ==
  ASSUME SessionInv, NEW t \in Session!Tokens, Session!RefreshExpires(t)
  PROVE  SessionInv'
<1>1. token' = [token EXCEPT ![t].status = "expired"] /\ Session!Live(t) /\ UNCHANGED <<issued, store, cut, raced, req>>
  BY DEF Session!RefreshExpires
<1>2. /\ token' \in [Session!Tokens -> TokenRows] /\ token'[t].status = "expired"
      /\ \A s \in Session!Tokens : /\ token'[s].family = token[s].family
                                   /\ s # t => token'[s] = token[s] /\ (Left(s)' <=> Left(s))
  BY <1>1, RowMoves
<1>3. SessionTyped'
  BY <1>1, <1>2 DEF SessionInv, SessionTyped
<1>4. \A s \in Session!Tokens : /\ token'[s].family = token[s].family
                                /\ token'[s].status # "none" <=> token[s].status # "none"
                                /\ Left(s)' <=> Left(s)
                                /\ token'[s].status = "rotated" <=> token[s].status = "rotated"
  BY <1>1, <1>2 DEF Session!Live, Left
<1> QED BY <1>1, <1>3, <1>4, RowsQuiet

LEMMA ResetStep ==
  ASSUME SessionInv, Session!ResetPassword
  PROVE  SessionInv'
<1>1. token' = Session!CloseAll /\ UNCHANGED <<issued, store, cut, raced, req>>
  BY DEF Session!ResetPassword
<1>2. SessionTyped'
  BY <1>1, RowsClosed DEF SessionInv, SessionTyped
<1> QED BY <1>1, <1>2, RowsClosed, RowsQuiet

(* The token that is issued descends from the login of the one it replaces,  *)
(* which has no row left, or from a login of its own.                        *)
LEMMA IssueStep ==
  ASSUME SessionInv, NEW w \in Workers, Session!Issue(w)
  PROVE  SessionInv'
<1>1. PICK n \in Session!Tokens : n = issued + 1 /\ n \in Nat /\ issued \in Nat /\ n = issued'
  BY TokensAreNat DEF Session!Issue, SessionInv, SessionTyped, Session!Tokens
<1>2. Session!Running(w) /\ Session!At(w, "issue") /\ ~Session!At(w, "answer") /\ req[w] \in SessionJobs
  BY DEF Session!Issue, Session!Running, Session!At, SessionInv, SessionTyped, Session!Idle
<1>3. PICK b \in Browsers : b = req[w].b
  BY <1>2, CallInProgress DEF SessionInv
<1>4. PICK family : family = IF req[w].kind = "login" THEN n ELSE token[req[w].token].family
  OBVIOUS
<1>5. req[w].kind # "login" => /\ Claims(req[w]) /\ req[w].token \in Session!Tokens /\ Held(b, req[w].token)
                               /\ req[w].token <= issued
  <2>1. req[w].kind # "login" => Claims(req[w])
    BY <1>2 DEF Claims, Session!At
  <2> QED BY <1>3, <2>1, ClaimIsHeld DEF SessionInv, Numbered
<1>6. family \in Nat /\ family <= n /\ (req[w].kind # "login" => family <= issued)
  <2>1. CASE req[w].kind = "login"
    BY <1>1, <1>4, <2>1
  <2>2. CASE req[w].kind # "login"
    <3>1. family = token[req[w].token].family /\ req[w].token \in Session!Tokens
      BY <1>4, <1>5, <2>2
    <3>2. family \in Nat /\ family <= issued
      BY <1>5, <2>2, <3>1 DEF SessionInv, Numbered, SessionTyped, TokenRows
    <3> QED BY <1>1, <3>2
  <2> QED BY <2>1, <2>2
<1>7. PICK row : row = [status |-> "live", family |-> family]
  OBVIOUS
<1>8. token' = [token EXCEPT ![n] = row]
  BY <1>1, <1>4, <1>7 DEF Session!Issue
<1>9. token' \in [Session!Tokens -> TokenRows]
      /\ token'[n] = row /\ \A t \in Session!Tokens : t # n => token'[t] = token[t] /\ (Left(t)' <=> Left(t))
  BY <1>6, <1>7, <1>8 DEF SessionInv, SessionTyped, TokenRows, Left
<1>10. PICK job : job = [req[w] EXCEPT !.at = "answer", !.token = n]
  OBVIOUS
<1>11. Session!Become(w, job)
  BY <1>1, <1>10 DEF Session!Issue
<1>12. /\ job \in SessionJobs /\ job.at = "answer" /\ job.b = b /\ job.kind = req[w].kind
       /\ job.token = n
  <2>1. n \in 0 .. MaxTokens /\ "answer" \in SessionStages
    BY TokensAreNat DEF Session!Tokens, SessionStages
  <2> QED BY <1>2, <1>3, <1>10, <2>1 DEF SessionJobs
<1>13. req' \in [Workers -> SessionJobs \cup {Session!Idle}] /\ req'[w] = job
       /\ \A v \in Workers : v # w => req'[v] = req[v]
  BY <1>11, <1>12, CallMoves DEF SessionInv
<1>14. store' = store /\ cut' = cut /\ raced' = raced
  BY DEF Session!Issue
<1>15. SessionTyped'
  BY <1>1, <1>9, <1>13, <1>14 DEF SessionInv, SessionTyped, Session!Tokens
<1>16. ASSUME NEW c \in Browsers, NEW t \in Session!Tokens, Held(c, t)'
       PROVE  Held(c, t) \/ (c = b /\ t = n)
  <2>1. CASE store'[c].refresh = t
    BY <1>14, <2>1 DEF Held
  <2>2. ASSUME NEW v \in Workers, Session!Running(v)', req'[v].b = c, req'[v].token = t
        PROVE  Held(c, t) \/ (c = b /\ t = n)
    BY <1>12, <1>13, <2>2 DEF Held, Session!Running, Session!At
  <2> QED BY <1>16, <2>1, <2>2 DEF Held
<1>17. \A c \in Browsers : \A t \in Session!Tokens : Held(c, t) => t <= issued /\ t # n
  BY <1>1 DEF SessionInv, Numbered, Session!Tokens
<1>18. /\ \A c \in Browsers : store[c].refresh # n
       /\ \A v \in Workers : Session!Running(v) => req[v].token # n
  <2>1. \A c \in Browsers : store[c].refresh # n
    BY <1>17 DEF Held
  <2>2. \A v \in Workers : Session!Running(v) => req[v].token # n
    BY <1>17, CallInProgress DEF SessionInv, Held
  <2> QED BY <2>1, <2>2
<1>19. Numbered'
  <2>1. ASSUME NEW t \in Session!Tokens
        PROVE  (token'[t].status # "none" <=> t <= n) /\ (t <= n => token'[t].family <= n)
    <3>1. CASE t = n
      BY <1>1, <1>6, <1>7, <1>9, <3>1
    <3>2. CASE t # n
      <4>1. t \in Nat /\ token'[t] = token[t] /\ token[t].family \in Nat
        BY <1>9, <3>2 DEF Session!Tokens, SessionInv, SessionTyped, TokenRows
      <4>2. token[t].status # "none" <=> t <= issued
        BY DEF SessionInv, Numbered
      <4>3. t <= issued => token[t].family <= issued
        BY DEF SessionInv, Numbered
      <4> QED BY <1>1, <3>2, <4>1, <4>2, <4>3
    <3> QED BY <3>1, <3>2
  <2>2. \A c \in Browsers : \A t \in Session!Tokens : Held(c, t)' => t <= n
    BY <1>1, <1>16, <1>17 DEF Session!Tokens
  <2> QED BY <1>1, <2>1, <2>2 DEF Numbered
<1>20. CallsKnown'
  <2>1. ASSUME NEW v \in Workers
        PROVE  /\ req'[v].at \in NeedsToken \/ Claims(req'[v]) => req'[v].token # 0
               /\ Session!Running(v)' /\ req'[v].kind = "login" => req'[v].at \in {"issue", "answer"}
    <3>1. CASE v = w
      BY <1>12, <1>13, <3>1 DEF Session!Running, Session!At, Session!Tokens
    <3>2. CASE v # w
      BY <1>13, <3>2 DEF SessionInv, CallsKnown, Session!Running, Session!At
    <3> QED BY <3>1, <3>2
  <2> QED BY <2>1 DEF CallsKnown, Claims, NeedsToken
(* The login of the new token is that of what the browser held, or nobody's. *)
<1>21. ASSUME NEW t \in Session!Tokens, t <= issued, token[t].family = family
       PROVE  req[w].kind # "login" /\ token[t].family = token[req[w].token].family
  <2>1. token[t].family <= issued /\ token[t].family \in Nat
    BY <1>21 DEF SessionInv, Numbered, SessionTyped, TokenRows
  <2>2. req[w].kind # "login"
    BY <1>1, <1>4, <1>21, <2>1
  <2> QED BY <1>4, <1>21, <2>2
<1>22. \A c \in Browsers : \A t \in Session!Tokens : Held(c, t) /\ token[t].family = family => c = b
  BY <1>5, <1>17, <1>21 DEF SessionInv, Disjoint
<1>23. token'[n].family = family /\ \A c \in Browsers : \A t \in Session!Tokens : Held(c, t) => token'[t] = token[t]
  BY <1>7, <1>9, <1>17
<1>24. Disjoint'
  <2> SUFFICES ASSUME NEW c \in Browsers, NEW d \in Browsers, NEW s \in Session!Tokens, NEW t \in Session!Tokens,
                      Held(c, s)', Held(d, t)', token'[s].family = token'[t].family
               PROVE  c = d
    BY DEF Disjoint
  <2>1. (Held(c, s) \/ (c = b /\ s = n)) /\ (Held(d, t) \/ (d = b /\ t = n))
    BY <1>16
  <2>2. CASE Held(c, s) /\ Held(d, t)
    BY <1>23, <2>2 DEF SessionInv, Disjoint
  <2>3. CASE Held(c, s) /\ d = b /\ t = n
    BY <1>22, <1>23, <2>3
  <2>4. CASE c = b /\ s = n /\ Held(d, t)
    BY <1>22, <1>23, <2>4
  <2> QED BY <2>1, <2>2, <2>3, <2>4
<1>25. \A t \in Session!Tokens : t # n /\ Left(t) /\ token[t].family = family => family \in raced
  <2> SUFFICES ASSUME NEW t \in Session!Tokens, Left(t), token[t].family = family PROVE family \in raced
    OBVIOUS
  <2>1. t <= issued
    BY DEF Left, SessionInv, Numbered
  <2> QED BY <1>5, <1>21, <2>1 DEF SessionInv, OneHeir
<1>26. \A v \in Workers : v # w /\ Claims(req[v]) => /\ req[v].token \in Session!Tokens
                                                     /\ token'[req[v].token] = token[req[v].token]
                                                     /\ token[req[v].token].family = family => family \in raced
  <2> SUFFICES ASSUME NEW v \in Workers, v # w, Claims(req[v])
               PROVE  /\ req[v].token \in Session!Tokens /\ token'[req[v].token] = token[req[v].token]
                      /\ token[req[v].token].family = family => family \in raced
    OBVIOUS
  <2>1. req[v].token \in Session!Tokens /\ req[v].b \in Browsers /\ Held(req[v].b, req[v].token)
    BY ClaimIsHeld
  <2>2. req[v].token <= issued
    BY <1>17, <2>1
  <2> QED BY <1>5, <1>21, <1>23, <2>1, <2>2 DEF SessionInv, OneHeir
<1>27. OneHeir'
  <2>1. ASSUME NEW s \in Session!Tokens, NEW t \in Session!Tokens, Left(s)', Left(t)',
               token'[s].family = token'[t].family, token'[s].family \notin raced
        PROVE  s = t
    <3>1. CASE s # n /\ t # n
      BY <1>9, <2>1, <3>1 DEF SessionInv, OneHeir
    <3>2. CASE s = n /\ t # n
      BY <1>9, <1>23, <1>25, <2>1, <3>2
    <3>3. CASE s # n /\ t = n
      BY <1>9, <1>23, <1>25, <2>1, <3>3
    <3> QED BY <3>1, <3>2, <3>3
  <2>2. \A v \in Workers : Claims(req'[v]) => v # w /\ req'[v] = req[v]
    BY <1>12, <1>13 DEF Claims
  <2>3. ASSUME NEW v \in Workers, v # w, Claims(req[v]), NEW t \in Session!Tokens, Left(t)',
               token'[t].family = token'[req[v].token].family
        PROVE  token'[t].family \in raced
    <3>1. CASE t = n
      BY <1>23, <1>26, <2>3, <3>1
    <3>2. CASE t # n
      BY <1>9, <1>26, <2>3, <3>2 DEF SessionInv, OneHeir
    <3> QED BY <3>1, <3>2
  <2>4. ASSUME NEW u \in Workers, u # w, NEW v \in Workers, v # w, Claims(req[u]), Claims(req[v]),
               token'[req[u].token].family = token'[req[v].token].family
        PROVE  u = v \/ token'[req[u].token].family \in raced
    BY <1>26, <2>4 DEF SessionInv, OneHeir
  <2> QED BY <1>14, <2>1, <2>2, <2>3, <2>4 DEF OneHeir, Claims
<1>28. StaleWaits'
  <2>1. ASSUME NEW v \in Workers, Session!At(v, "answer")'
        PROVE  Unknown(v)'
    <3>1. CASE v = w
      BY <1>7, <1>9, <1>12, <1>13, <1>14, <1>18, <3>1 DEF Unknown, Session!Running, Session!At
    <3>2. CASE v # w
      <4>1. Session!At(v, "answer") /\ req'[v] = req[v] /\ Session!Running(v) /\ Unknown(v)
        BY <1>13, <2>1, <3>2 DEF Session!At, Session!Running, SessionInv, StaleWaits
      <4>2. req[v].token \in Session!Tokens /\ req[v].token # n
        BY <1>18, <4>1, ClaimIsHeld DEF NeedsToken, Session!At
      <4>3. token'[req[v].token].status # "rotated"
        BY <1>9, <4>1, <4>2 DEF Unknown
      <4>4. \A u \in Workers : u # v /\ Session!Running(u)' => req'[u].token # req[v].token
        BY <1>2, <1>12, <1>13, <4>1, <4>2 DEF Unknown, Session!Running, Session!At
      <4> QED BY <1>14, <4>1, <4>3, <4>4 DEF Unknown
    <3> QED BY <3>1, <3>2
  <2>2. ASSUME NEW c \in Browsers, Stale(c)'
        PROVE  \E v \in Workers : Waits(req'[v]) /\ req'[v].b = c
    <3>1. store[c].refresh # 0 /\ store[c].refresh \in Session!Tokens /\ store[c].refresh # n
      BY <1>14, <1>18, <2>2, StoredIsHeld DEF SessionInv, Stale
    <3>2. Stale(c)
      BY <1>9, <1>14, <2>2, <3>1 DEF Stale
    <3>3. PICK v \in Workers : Waits(req[v]) /\ req[v].b = c
      BY <3>2 DEF SessionInv, StaleWaits
    <3>4. Waits(req'[v]) /\ req'[v].b = c
      BY <1>3, <1>12, <1>13, <3>3 DEF Waits
    <3> QED BY <3>4
  <2> QED BY <2>1, <2>2 DEF StaleWaits
<1> QED BY <1>15, <1>19, <1>20, <1>24, <1>27, <1>28 DEF SessionInv

LEMMA NextSessions == SessionInv /\ [Session!Next]_(Session!vars) => SessionInv'
<1> SUFFICES ASSUME SessionInv, [Session!Next]_(Session!vars) PROVE SessionInv'
  OBVIOUS
<1>1. ASSUME NEW w \in Workers, NEW b \in Browsers, Session!Login(w, b) PROVE SessionInv'
  <2>1. 0 \in {0, store[b].refresh} /\ "none" \in {"none", "fresh", "stale"}
    OBVIOUS
  <2> QED BY <1>1, <2>1, FetchStep DEF Session!Login
<1>2. ASSUME NEW w \in Workers, NEW b \in Browsers, NEW k \in {"api", "wrong", "logoutAll"}, Session!Call(w, b, k)
      PROVE  SessionInv'
  <2>1. /\ 0 \in {0, store[b].refresh}
        /\ (IF k = "wrong" THEN "none" ELSE store[b].access) \in {"none", "fresh", "stale"}
    BY DEF SessionInv, SessionTyped, Storages
  <2> QED BY <1>2, <2>1, FetchStep DEF Session!Call
<1>3. ASSUME NEW w \in Workers, NEW b \in Browsers, Session!Logout(w, b) PROVE SessionInv'
  <2>1. store[b].refresh \in {0, store[b].refresh} /\ "none" \in {"none", "fresh", "stale"}
    OBVIOUS
  <2> QED BY <1>3, <2>1, FetchStep DEF Session!Logout
<1>4. ASSUME SessionTyped', UNCHANGED <<req, issued, cut, raced, store, token>>
      PROVE  SessionInv'
  BY <1>4, RowsQuiet DEF Left
<1>5. CASE UNCHANGED Session!vars
  BY <1>4, <1>5 DEF Session!vars, Session!own, SessionInv, SessionTyped
<1>6. CASE Session!Block
  BY <1>4, <1>6 DEF Session!Block, SessionInv, SessionTyped
<1> QED BY <1>1, <1>2, <1>3, <1>5, <1>6, GuardStep, UnauthorizedStep, AnswerStep, SignedOutStep, LookupStep,
           SearchStep, CloseStep, RotateStep, CheckUserStep, IssueStep, FindLogoutStep, LogoutStep, LoseStep,
           ExpiryStep, RefreshExpiryStep, ResetStep DEF Session!Next

LEMMA SessionsAreSound == SessionInv => Session!OneLivePerLogin /\ Session!NoStaleToken
<1> SUFFICES ASSUME SessionInv PROVE Session!OneLivePerLogin /\ Session!NoStaleToken
  OBVIOUS
<1>1. Session!OneLivePerLogin
  BY DEF SessionInv, OneHeir, Left, Session!OneLivePerLogin, Session!Live
<1>2. Session!NoStaleToken
  BY QuietFresh DEF Session!NoStaleToken, Stale
<1> QED BY <1>1, <1>2

(***************************************************************************)
(* The customer's profile.                                                 *)
(***************************************************************************)

AddressJobs == [at : {"clear", "save"}, a : Addresses, new : {"plain", "default"}]
PointJobs == [at : {"take", "credit"}, n : 1 .. MaxRedeem]
ReviewJobs == [at : {"review", "aggregate", "rate"}, o : Reviewable,
               seen : {0} \cup {Cardinality(S) : S \in SUBSET Reviewable}]
ProfileJobs == AddressJobs \cup PointJobs \cup ReviewJobs

ProfileTyped ==
  /\ address \in [Addresses -> {"none", "plain", "default"}]
  /\ points \in Int /\ credited \in Nat /\ lost \in Nat
  /\ reviewed \subseteq Reviewable /\ disturbed \in BOOLEAN
  /\ req \in [Workers -> ProfileJobs \cup {Self!Idle}]

(* The points that requests at a statement are moving, one by one.           *)
Units(jobs, stage) ==
  {p \in Workers \X (1 .. MaxRedeem) : jobs[p[1]].at = stage /\ p[2] <= jobs[p[1]].n}
OthersUnits(jobs, stage, w) == {p \in Units(jobs, stage) : p[1] # w}
Owed(stage) == Cardinality(Units(req, stage))
Share(job, stage) == IF job.at = stage THEN job.n ELSE 0
Overdraft == (Cardinality(Workers) - 1) * MaxRedeem

(* A default address was saved by a request that overlaps no more.           *)
Defaults == {a \in Addresses : address[a] = "default"}
Saving == Counted("save", "new", "default")
DefaultsKept == IsFiniteSet(Defaults) /\ Cardinality(Defaults) + Saving <= Cardinality(Workers)

(* No point is lost but by a request that died, and what is about to be      *)
(* taken was there when the last of the requests looked.                     *)
NoPointLost ==
  /\ points + credited + lost + Owed("credit") = Points
  /\ points + Overdraft >= Owed("take")

(* While reviews do not overlap, the one that is being made is what the      *)
(* rating lags behind; it is of an order that has no review yet.             *)
RatingKept ==
  /\ \A v, w \in Workers : req[v] \in ReviewJobs /\ req[w] \in ReviewJobs => v = w
  /\ (\A w \in Workers : req[w] \notin ReviewJobs) => rating = Cardinality(reviewed)
  /\ \A w \in Workers : Self!At(w, "review") => req[w].o \notin reviewed
  /\ \A w \in Workers : Self!At(w, "rate") => req[w].seen = Cardinality(reviewed)

ProfileInv == ProfileTyped /\ DefaultsKept /\ NoPointLost /\ (~disturbed => RatingKept)

LEMMA OverdraftIsNat ==
  Overdraft \in Nat /\ \A k \in Nat : k <= Cardinality(Workers) - 1 => k * MaxRedeem <= Overdraft
<1>1. PICK n \in Nat : n = Cardinality(Workers) - 1
  BY CountSlots
<1>2. MaxRedeem \in Nat
  BY PointsAreNat
<1>3. \A k, d \in Nat : /\ k * MaxRedeem \in Nat
                        /\ (k + d) * MaxRedeem = k * MaxRedeem + d * MaxRedeem
  BY <1>2
<1>4. ASSUME NEW k \in Nat, k <= n
      PROVE  k * MaxRedeem <= n * MaxRedeem
  <2>1. n - k \in Nat /\ n = k + (n - k)
    BY <1>4
  <2>2. n * MaxRedeem = k * MaxRedeem + (n - k) * MaxRedeem
    BY <1>3, <2>1
  <2>3. (n - k) * MaxRedeem \in Nat /\ k * MaxRedeem \in Nat
    BY <1>3, <2>1
  <2> QED BY <2>2, <2>3
<1> QED BY <1>1, <1>3, <1>4 DEF Overdraft

(* The points of the other requests, and those of one.                       *)
LEMMA UnitsSplit ==
  ASSUME NEW f \in [Workers -> ProfileJobs \cup {Self!Idle}], NEW w \in Workers,
         NEW stage \in {"take", "credit"}
  PROVE  /\ Cardinality(Units(f, stage)) \in Nat /\ Cardinality(OthersUnits(f, stage, w)) \in Nat
         /\ Share(f[w], stage) \in Nat /\ Share(f[w], stage) <= MaxRedeem
         /\ Cardinality(Units(f, stage)) = Cardinality(OthersUnits(f, stage, w)) + Share(f[w], stage)
         /\ Cardinality(OthersUnits(f, stage, w)) <= Overdraft
<1> DEFINE S == Units(f, stage)
           R == OthersUnits(f, stage, w)
<1>1. MaxRedeem \in Nat /\ IsFiniteSet(Workers) /\ IsFiniteSet(1 .. MaxRedeem)
      /\ Cardinality(1 .. MaxRedeem) = MaxRedeem
  BY PointsAreNat, WorkersAreFinite, FS_Interval
<1>2. IsFiniteSet(Workers \X (1 .. MaxRedeem))
  BY <1>1, FS_Product
<1>3. S \subseteq Workers \X (1 .. MaxRedeem) /\ R \subseteq S
  BY DEF Units, OthersUnits
<1>4. IsFiniteSet(S) /\ IsFiniteSet(R)
  BY <1>2, <1>3, FS_Subset
<1>5. PICK n \in 0 .. MaxRedeem : n = Share(f[w], stage)
  <2>1. CASE f[w].at = stage
    <3>1. f[w] \in PointJobs
      BY <2>1 DEF ProfileJobs, AddressJobs, ReviewJobs, Self!Idle
    <3> QED BY <1>1, <2>1, <3>1 DEF PointJobs, Share
  <2>2. CASE f[w].at # stage
    BY <1>1, <2>2 DEF Share
  <2> QED BY <2>1, <2>2
<1>6. PICK A, B, O : A = {w} /\ B = 1 .. n /\ O = A \X B
  OBVIOUS
<1>7. IsFiniteSet(O) /\ Cardinality(O) = n
  <2>1. IsFiniteSet(A) /\ Cardinality(A) = 1
    BY <1>6, FS_Singleton
  <2>2. n \in Nat /\ IsFiniteSet(B) /\ Cardinality(B) = n
    BY <1>1, <1>6, FS_Interval
  <2>3. IsFiniteSet(O) /\ Cardinality(O) = Cardinality(A) * Cardinality(B)
    BY <1>6, <2>1, <2>2, FS_Product
  <2> QED BY <2>1, <2>2, <2>3
<1>8. S = R \cup O /\ R \cap O = {}
  <2>1. CASE f[w].at = stage
    BY <1>1, <1>5, <1>6, <2>1 DEF Share, Units, OthersUnits
  <2>2. CASE f[w].at # stage
    BY <1>1, <1>5, <1>6, <2>2 DEF Share, Units, OthersUnits
  <2> QED BY <2>1, <2>2
<1>9. Cardinality(S) = Cardinality(R) + n
  <2>1. Cardinality(S) = Cardinality(R) + Cardinality(O) - Cardinality({})
    <3>1. Cardinality(R \cup O) = Cardinality(R) + Cardinality(O) - Cardinality(R \cap O)
      BY <1>4, <1>7, FS_Union
    <3> QED BY <1>8, <3>1
  <2>2. Cardinality({}) = 0 /\ Cardinality(R) \in Nat
    BY <1>4, FS_EmptySet, FS_CardinalityType
  <2> QED BY <1>7, <1>8, <2>1, <2>2
<1>10. Cardinality(R) <= Overdraft
  <2>1. PICK A1, B1, O1 : A1 = Workers \ {w} /\ B1 = 1 .. MaxRedeem /\ O1 = A1 \X B1
    OBVIOUS
  <2>2. R \subseteq O1
    BY <2>1 DEF Units, OthersUnits
  <2>3. IsFiniteSet(A1) /\ Cardinality(A1) = Cardinality(Workers) - 1
    BY <1>1, <2>1, FS_RemoveElement
  <2>4. IsFiniteSet(O1) /\ Cardinality(O1) = Cardinality(A1) * Cardinality(B1)
    BY <1>1, <2>1, <2>3, FS_Product
  <2>5. Cardinality(O1) = Overdraft
    BY <1>1, <2>1, <2>3, <2>4 DEF Overdraft
  <2> QED BY <2>2, <2>4, <2>5, FS_Subset
<1> QED BY <1>1, <1>4, <1>5, <1>9, <1>10, FS_CardinalityType

(* How requests and points are counted when one request moves on.            *)
SelfCounted(w, job) ==
  /\ req'[w] = job /\ \A v \in Workers : v # w => req'[v] = req[v]
  /\ Saving \in Nat /\ Saving' \in Nat /\ Saving' <= Cardinality(Workers)
  /\ Saving' = Saving + Tick(job.at = "save" /\ job.new = "default")
                 - Tick(req[w].at = "save" /\ req[w].new = "default")
  /\ \A stage \in {"take", "credit"} :
       /\ Owed(stage) \in Nat /\ Owed(stage)' \in Nat
       /\ Share(job, stage) \in Nat /\ Share(req[w], stage) \in Nat
       /\ Share(job, stage) <= MaxRedeem
       /\ Owed(stage)' = Owed(stage) + Share(job, stage) - Share(req[w], stage)
       /\ Owed(stage) - Share(req[w], stage) <= Overdraft

LEMMA SelfSlots ==
  ASSUME ProfileTyped, NEW w \in Workers, NEW job \in ProfileJobs \cup {Self!Idle}, Self!Become(w, job)
  PROVE  SelfCounted(w, job) /\ req' \in [Workers -> ProfileJobs \cup {Self!Idle}]
<1>1. /\ req'[w] = job /\ \A v \in Workers : v # w => req'[v] = req[v]
      /\ req \in [Workers -> ProfileJobs \cup {Self!Idle}]
      /\ req' \in [Workers -> ProfileJobs \cup {Self!Idle}]
  BY DEF ProfileTyped, Self!Become
<1>2. Recounted(w, job)
  BY <1>1, SlotsMove
<1>3. /\ Saving \in Nat /\ Saving' \in Nat /\ Saving' <= Cardinality(Workers)
      /\ Saving' = Saving + Tick(job.at = "save" /\ job.new = "default")
                     - Tick(req[w].at = "save" /\ req[w].new = "default")
  BY <1>2, SlotsAreFew DEF Recounted, Saving
<1>4. ASSUME NEW stage \in {"take", "credit"}
      PROVE  /\ Owed(stage) \in Nat /\ Owed(stage)' \in Nat
             /\ Share(job, stage) \in Nat /\ Share(req[w], stage) \in Nat
             /\ Share(job, stage) <= MaxRedeem
             /\ Owed(stage)' = Owed(stage) + Share(job, stage) - Share(req[w], stage)
             /\ Owed(stage) - Share(req[w], stage) <= Overdraft
  <2>1. PICK f, g : f = req /\ g = req'
    OBVIOUS
  <2>2. OthersUnits(f, stage, w) = OthersUnits(g, stage, w)
    BY <1>1, <2>1 DEF Units, OthersUnits
  <2>3. f \in [Workers -> ProfileJobs \cup {Self!Idle}] /\ g \in [Workers -> ProfileJobs \cup {Self!Idle}]
    BY <1>1, <2>1
  <2>4. /\ Owed(stage) = Cardinality(Units(f, stage)) /\ Owed(stage)' = Cardinality(Units(g, stage))
        /\ f[w] = req[w] /\ g[w] = job
    BY <1>1, <2>1 DEF Owed, Units
  <2> QED BY <2>2, <2>3, <2>4, UnitsSplit, OverdraftIsNat
<1> QED BY <1>1, <1>3, <1>4 DEF SelfCounted

LEMMA InitProfile == Self!Init => ProfileInv
<1> SUFFICES ASSUME Self!Init PROVE ProfileInv
  OBVIOUS
<1>1. ProfileTyped
  <2>1. /\ address \in [Addresses -> {"none", "plain", "default"}]
        /\ reviewed \subseteq Reviewable /\ disturbed \in BOOLEAN
    BY DEF Self!Init
  <2>2. points \in Int /\ credited \in Nat /\ lost \in Nat
    BY PointsAreNat DEF Self!Init
  <2>3. req \in [Workers -> ProfileJobs \cup {Self!Idle}]
    BY DEF Self!Init, Self!NoRequests
  <2> QED BY <2>1, <2>2, <2>3 DEF ProfileTyped
<1>2. \A w \in Workers : req[w] = Self!Idle /\ req[w].at = "idle"
  BY DEF Self!Init, Self!NoRequests, Self!Idle
<1>3. Saving = 0
  BY <1>2, NoSlots DEF Saving
<1>4. \A stage \in {"take", "credit"} : Owed(stage) = 0
  <2>1. \A stage \in {"take", "credit"} : Units(req, stage) = {}
    BY <1>2 DEF Units
  <2> QED BY <2>1, FS_EmptySet DEF Owed
<1>5. DefaultsKept
  <2>1. Defaults = {}
    BY DEF Self!Init, Defaults
  <2> QED BY <1>3, <2>1, FS_EmptySet, CountSlots DEF DefaultsKept
<1>6. NoPointLost
  BY <1>4, PointsAreNat, OverdraftIsNat DEF Self!Init, NoPointLost
<1>7. RatingKept
  BY <1>2, FS_EmptySet DEF Self!Init, RatingKept, ReviewJobs, Self!At, Self!Idle
<1> QED BY <1>1, <1>5, <1>6, <1>7 DEF ProfileInv

(* A step that does not touch one of the three parts.                        *)
LEMMA QuietDefaults ==
  ASSUME DefaultsKept, NEW w \in Workers, NEW job, SelfCounted(w, job), UNCHANGED address,
         ~(job.at = "save" /\ job.new = "default")
  PROVE  DefaultsKept'
<1>1. Defaults' = Defaults
  BY DEF Defaults
<1>2. Saving' <= Saving
  BY DEF SelfCounted, Tick
<1>3. Cardinality(Defaults) \in Nat /\ IsFiniteSet(Defaults)
  BY FS_CardinalityType DEF DefaultsKept
<1> QED BY <1>1, <1>2, <1>3, CountSlots DEF DefaultsKept, SelfCounted

LEMMA QuietPoints ==
  ASSUME NoPointLost, NEW w \in Workers, NEW job, SelfCounted(w, job),
         UNCHANGED <<points, credited, lost>>,
         job.at \notin {"take", "credit"}, req[w].at \notin {"take", "credit"}
  PROVE  NoPointLost'
<1>1. \A stage \in {"take", "credit"} : Owed(stage)' = Owed(stage)
  BY DEF SelfCounted, Share
<1> QED BY <1>1 DEF NoPointLost, Overdraft

LEMMA QuietRating ==
  ASSUME ~disturbed => RatingKept, NEW w \in Workers, NEW job, SelfCounted(w, job),
         job \notin ReviewJobs, req[w] \notin ReviewJobs, job.at \notin {"rate", "review"},
         UNCHANGED <<reviewed, rating, disturbed>>
  PROVE  ~disturbed' => RatingKept'
<1> SUFFICES ASSUME RatingKept PROVE RatingKept'
  OBVIOUS
<1>1. \A v \in Workers : req'[v] \in ReviewJobs => req'[v] = req[v]
  BY DEF SelfCounted
<1>2. \A v \in Workers : req[v] \in ReviewJobs => req'[v] = req[v]
  BY DEF SelfCounted
<1>3. \A v \in Workers : req'[v].at \in {"rate", "review"} => req'[v] = req[v]
  BY DEF SelfCounted
<1> QED BY <1>1, <1>2, <1>3 DEF RatingKept, Self!At

LEMMA ProfileJobTyped ==
  ASSUME ProfileTyped, NEW w \in Workers
  PROVE  /\ Self!At(w, "clear") \/ Self!At(w, "save") => req[w] \in AddressJobs
         /\ Self!At(w, "take") \/ Self!At(w, "credit") => req[w] \in PointJobs
         /\ Self!At(w, "review") \/ Self!At(w, "aggregate") \/ Self!At(w, "rate") => req[w] \in ReviewJobs
BY DEF ProfileTyped, ProfileJobs, AddressJobs, PointJobs, ReviewJobs, Self!At, Self!Idle

LEMMA KindsOfJobs ==
  \A job : /\ job \in AddressJobs => /\ job \notin ReviewJobs /\ job.at \notin {"take", "credit"}
                                     /\ job.at \notin {"rate", "review"} /\ job \in ProfileJobs
           /\ job \in PointJobs => /\ job \notin ReviewJobs /\ ~(job.at = "save" /\ job.new = "default")
                                   /\ job.at \notin {"rate", "review"} /\ job \in ProfileJobs
           /\ job \in ReviewJobs => /\ job.at \notin {"take", "credit"} /\ job \in ProfileJobs
                                    /\ ~(job.at = "save" /\ job.new = "default")
           /\ job = Self!Idle => /\ job \notin ReviewJobs /\ job.at \notin {"take", "credit", "rate", "review"}
                                 /\ ~(job.at = "save" /\ job.new = "default")
BY DEF ProfileJobs, AddressJobs, PointJobs, ReviewJobs, Self!Idle

LEMMA FreeSlot ==
  ASSUME NEW w \in Workers, Self!At(w, "idle"), ProfileTyped
  PROVE  req[w] = Self!Idle
BY DEF ProfileTyped, ProfileJobs, AddressJobs, PointJobs, ReviewJobs, Self!At

LEMMA SaveStep ==
  ASSUME ProfileInv, NEW w \in Workers, NEW a \in Addresses, NEW new \in {"plain", "default"},
         Self!SaveAddress(w, a, new)
  PROVE  ProfileInv'
<1>1. PICK stage \in {"clear", "save"} : stage = IF new = "default" THEN "clear" ELSE "save"
  OBVIOUS
<1>2. PICK job : job = [at |-> stage, a |-> a, new |-> new]
  OBVIOUS
<1>3. job \in AddressJobs /\ ~(job.at = "save" /\ job.new = "default")
  BY <1>1, <1>2 DEF AddressJobs
<1>4. /\ Self!Become(w, job) /\ req[w] = Self!Idle
      /\ UNCHANGED <<address, points, credited, reviewed, rating, disturbed, lost>>
  BY <1>1, <1>2, FreeSlot DEF Self!SaveAddress, Self!Request, Self!Start, ProfileInv
<1>5. SelfCounted(w, job) /\ ProfileTyped'
  BY <1>3, <1>4, KindsOfJobs, SelfSlots DEF ProfileInv, ProfileTyped
<1> QED BY <1>3, <1>4, <1>5, KindsOfJobs, QuietDefaults, QuietPoints, QuietRating DEF ProfileInv

LEMMA ClearStep ==
  ASSUME ProfileInv, NEW w \in Workers, Self!ClearDefaults(w)
  PROVE  ProfileInv'
<1>1. req[w] \in AddressJobs /\ req[w].at = "clear"
  BY ProfileJobTyped DEF ProfileInv, Self!ClearDefaults, Self!At
<1>2. PICK job : job = [req[w] EXCEPT !.at = "save"]
  OBVIOUS
<1>3. job \in AddressJobs
  BY <1>1, <1>2 DEF AddressJobs
<1>4. /\ Self!Become(w, job) /\ UNCHANGED <<points, credited, reviewed, rating, disturbed, lost>>
      /\ address' = [a \in Addresses |-> IF address[a] = "default" THEN "plain" ELSE address[a]]
  BY <1>2 DEF Self!ClearDefaults, Self!Go
<1>5. SelfCounted(w, job) /\ ProfileTyped'
  BY <1>3, <1>4, KindsOfJobs, SelfSlots DEF ProfileInv, ProfileTyped
<1>6. DefaultsKept'
  <2>1. Defaults' = {}
    BY <1>4 DEF Defaults
  <2> QED BY <1>5, <2>1, FS_EmptySet, CountSlots DEF DefaultsKept, SelfCounted
<1> QED BY <1>1, <1>3, <1>4, <1>5, <1>6, KindsOfJobs, QuietPoints, QuietRating DEF ProfileInv

(* One default address more, for the request that saves it.                  *)
LEMMA DefaultsGrow ==
  ASSUME ProfileTyped, DefaultsKept, NEW a \in Addresses, NEW new \in {"none", "plain", "default"},
         address' = [address EXCEPT ![a] = new]
  PROVE  /\ IsFiniteSet(Defaults') /\ Cardinality(Defaults') \in Nat
         /\ Cardinality(Defaults') <= Cardinality(Defaults) + Tick(new = "default")
         /\ address' \in [Addresses -> {"none", "plain", "default"}]
<1>1. IsFiniteSet(Defaults) /\ Cardinality(Defaults) \in Nat
  BY FS_CardinalityType DEF DefaultsKept
<1>2. address' \in [Addresses -> {"none", "plain", "default"}]
  BY DEF ProfileTyped
<1>3. CASE new = "default"
  <2>1. Defaults' = Defaults \cup {a}
    BY <1>3 DEF Defaults, ProfileTyped
  <2>2. /\ IsFiniteSet(Defaults \cup {a})
        /\ Cardinality(Defaults \cup {a}) = Cardinality(Defaults)
             \/ Cardinality(Defaults \cup {a}) = Cardinality(Defaults) + 1
    BY <1>1, FS_AddElement
  <2> QED BY <1>1, <1>2, <1>3, <2>1, <2>2 DEF Tick
<1>4. CASE new # "default"
  <2>1. Defaults' \subseteq Defaults
    BY <1>4 DEF Defaults, ProfileTyped
  <2>2. IsFiniteSet(Defaults') /\ Cardinality(Defaults') <= Cardinality(Defaults)
    BY <1>1, <2>1, FS_Subset
  <2>3. Cardinality(Defaults') \in Nat
    BY <2>2, FS_CardinalityType
  <2> QED BY <1>1, <1>2, <1>4, <2>2, <2>3 DEF Tick
<1> QED BY <1>3, <1>4

LEMMA WriteAddressStep ==
  ASSUME ProfileInv, NEW w \in Workers, Self!WriteAddress(w)
  PROVE  ProfileInv'
<1>1. req[w] \in AddressJobs /\ req[w].at = "save"
  BY ProfileJobTyped DEF ProfileInv, Self!WriteAddress, Self!At
<1>2. PICK a \in Addresses, new \in {"none", "plain", "default"} : a = req[w].a /\ new = req[w].new
  BY <1>1 DEF AddressJobs
<1>3. /\ Self!Become(w, Self!Idle) /\ UNCHANGED <<points, credited, reviewed, rating, disturbed, lost>>
      /\ address' = [address EXCEPT ![a] = new]
  BY <1>2 DEF Self!WriteAddress, Self!End
<1>4. /\ IsFiniteSet(Defaults') /\ Cardinality(Defaults') \in Nat
      /\ Cardinality(Defaults') <= Cardinality(Defaults) + Tick(new = "default")
      /\ address' \in [Addresses -> {"none", "plain", "default"}]
  BY <1>3, DefaultsGrow DEF ProfileInv
<1>5. SelfCounted(w, Self!Idle) /\ ProfileTyped'
  BY <1>3, <1>4, SelfSlots DEF ProfileInv, ProfileTyped
<1>6. DefaultsKept'
  <2>1. Saving' = Saving - Tick(new = "default") /\ Saving \in Nat
    BY <1>1, <1>2, <1>5, Self!Idle.at = "idle" DEF SelfCounted, Tick, Self!Idle
  <2>2. Cardinality(Defaults) \in Nat /\ Cardinality(Defaults) + Saving <= Cardinality(Workers)
    BY FS_CardinalityType DEF ProfileInv, DefaultsKept
  <2> QED BY <1>4, <2>1, <2>2, CountSlots DEF DefaultsKept, Tick
<1> QED BY <1>1, <1>3, <1>5, <1>6, KindsOfJobs, QuietPoints, QuietRating DEF ProfileInv

LEMMA DeleteStep ==
  ASSUME ProfileInv, NEW a \in Addresses, Self!DeleteAddress(a)
  PROVE  ProfileInv'
<1>1. /\ address' = [address EXCEPT ![a] = "none"]
      /\ UNCHANGED <<points, credited, reviewed, rating, disturbed, lost, req>>
  BY DEF Self!DeleteAddress
<1>2. /\ IsFiniteSet(Defaults') /\ Cardinality(Defaults') \in Nat
      /\ Cardinality(Defaults') <= Cardinality(Defaults)
      /\ address' \in [Addresses -> {"none", "plain", "default"}]
      /\ Cardinality(Defaults) \in Nat
  <2>1. ProfileTyped /\ DefaultsKept
    BY DEF ProfileInv
  <2>2. Cardinality(Defaults) \in Nat
    BY <2>1, FS_CardinalityType DEF DefaultsKept
  <2>3. Tick("none" = "default") = 0
    BY DEF Tick
  <2>4. /\ IsFiniteSet(Defaults') /\ Cardinality(Defaults') \in Nat
        /\ Cardinality(Defaults') <= Cardinality(Defaults) + Tick("none" = "default")
        /\ address' \in [Addresses -> {"none", "plain", "default"}]
    BY <1>1, <2>1, DefaultsGrow
  <2> QED BY <2>2, <2>3, <2>4
<1>3. ProfileTyped'
  BY <1>1, <1>2 DEF ProfileInv, ProfileTyped
<1>4. Saving' = Saving /\ \A stage : Owed(stage)' = Owed(stage)
  BY <1>1 DEF Saving, Counted, Slots, Owed, Units
<1>5. DefaultsKept'
  BY <1>2, <1>4, SlotsAreFew, CountSlots DEF ProfileInv, DefaultsKept, Saving
<1> QED BY <1>1, <1>3, <1>4, <1>5 DEF ProfileInv, NoPointLost, RatingKept, Overdraft, Self!At

LEMMA RedeemStep ==
  ASSUME ProfileInv, NEW w \in Workers, NEW n \in 1 .. MaxRedeem, Self!Redeem(w, n)
  PROVE  ProfileInv'
<1>1. PICK job : job = [at |-> "take", n |-> n]
  OBVIOUS
<1>2. job \in PointJobs /\ job.at = "take" /\ job.n = n
  BY <1>1 DEF PointJobs
<1>3. /\ Self!Become(w, job) /\ req[w] = Self!Idle /\ n <= points
      /\ UNCHANGED <<address, points, credited, reviewed, rating, disturbed, lost>>
  BY <1>1, FreeSlot DEF Self!Redeem, Self!Request, Self!Start, ProfileInv
<1>4. SelfCounted(w, job) /\ ProfileTyped'
  BY <1>2, <1>3, KindsOfJobs, SelfSlots DEF ProfileInv, ProfileTyped
<1>5. NoPointLost'
  <2>1. Owed("credit")' = Owed("credit")
    BY <1>2, <1>3, <1>4, Self!Idle.at = "idle" DEF SelfCounted, Share, Self!Idle
  <2>2. Owed("take")' = Owed("take") + n /\ Owed("take") <= Overdraft /\ Owed("take") \in Nat
    BY <1>2, <1>3, <1>4, Self!Idle.at = "idle" DEF SelfCounted, Share, Self!Idle
  <2>3. points \in Int /\ Overdraft \in Nat /\ n \in Nat /\ Overdraft' = Overdraft
    BY PointsAreNat, OverdraftIsNat DEF ProfileInv, ProfileTyped, Overdraft
  <2> QED BY <1>3, <2>1, <2>2, <2>3 DEF ProfileInv, NoPointLost
<1> QED BY <1>2, <1>3, <1>4, <1>5, KindsOfJobs, QuietDefaults, QuietRating DEF ProfileInv

LEMMA TakeStep ==
  ASSUME ProfileInv, NEW w \in Workers, Self!TakePoints(w)
  PROVE  ProfileInv'
<1>1. req[w] \in PointJobs /\ req[w].at = "take"
  BY ProfileJobTyped DEF ProfileInv, Self!TakePoints, Self!At
<1>2. PICK n \in 1 .. MaxRedeem : n = req[w].n
  BY <1>1 DEF PointJobs
<1>3. PICK job : job = [req[w] EXCEPT !.at = "credit"]
  OBVIOUS
<1>4. job \in PointJobs /\ job.at = "credit" /\ job.n = n
  BY <1>1, <1>2, <1>3 DEF PointJobs
<1>5. /\ Self!Become(w, job) /\ points' = points - n
      /\ UNCHANGED <<address, credited, reviewed, rating, disturbed, lost>>
  BY <1>2, <1>3 DEF Self!TakePoints, Self!Go
<1>6. n \in Nat /\ points \in Int /\ credited \in Nat /\ lost \in Nat /\ Points \in Nat
  BY PointsAreNat DEF ProfileInv, ProfileTyped
<1>7. SelfCounted(w, job) /\ ProfileTyped'
  BY <1>4, <1>5, <1>6, KindsOfJobs, SelfSlots DEF ProfileInv, ProfileTyped
<1>8. NoPointLost'
  <2>1. /\ Owed("credit")' = Owed("credit") + n /\ Owed("credit") \in Nat
        /\ Owed("take")' = Owed("take") - n /\ Owed("take") \in Nat
    BY <1>1, <1>2, <1>4, <1>6, <1>7 DEF SelfCounted, Share
  <2>2. Overdraft \in Nat /\ Overdraft' = Overdraft
    BY OverdraftIsNat DEF Overdraft
  <2> QED BY <1>5, <1>6, <2>1, <2>2 DEF ProfileInv, NoPointLost
<1> QED BY <1>1, <1>4, <1>5, <1>7, <1>8, KindsOfJobs, QuietDefaults, QuietRating DEF ProfileInv

(* The points are paid out, or the request dies with them.                   *)
LEMMA PaidStep ==
  ASSUME ProfileInv, NEW w \in Workers, Self!CreditPoints(w) \/ (Self!Crash(w) /\ Self!At(w, "credit"))
  PROVE  ProfileInv'
<1>1. req[w] \in PointJobs /\ req[w].at = "credit"
  BY ProfileJobTyped DEF ProfileInv, Self!CreditPoints, Self!At
<1>2. PICK n \in 1 .. MaxRedeem : n = req[w].n
  BY <1>1 DEF PointJobs
<1>3. n \in Nat /\ points \in Int /\ credited \in Nat /\ lost \in Nat /\ Points \in Nat
  BY PointsAreNat DEF ProfileInv, ProfileTyped
<1>4. /\ Self!Become(w, Self!Idle) /\ UNCHANGED <<address, points, reviewed, rating, disturbed>>
      /\ credited' \in Nat /\ lost' \in Nat /\ credited' + lost' = credited + lost + n
  <2>1. ~Self!Reviewing(w)
    BY <1>1 DEF PointJobs, Self!Reviewing
  <2> QED BY <1>2, <1>3, <2>1 DEF Self!CreditPoints, Self!Crash, Self!End, ProfileInv, ProfileTyped
<1>5. SelfCounted(w, Self!Idle) /\ ProfileTyped'
  BY <1>4, SelfSlots DEF ProfileInv, ProfileTyped
<1>6. NoPointLost'
  <2>1. /\ Owed("credit")' = Owed("credit") - n /\ Owed("credit") \in Nat
        /\ Owed("take")' = Owed("take") /\ Owed("take") \in Nat
    BY <1>1, <1>2, <1>3, <1>5, Self!Idle.at = "idle" DEF SelfCounted, Share, Self!Idle
  <2>2. Overdraft \in Nat /\ Overdraft' = Overdraft
    BY OverdraftIsNat DEF Overdraft
  <2>3. points + credited + lost + Owed("credit") = Points /\ points + Overdraft >= Owed("take")
    BY DEF ProfileInv, NoPointLost
  <2>4. points' + credited' + lost' + Owed("credit")' = Points
    <3>1. PICK d \in Nat, c \in Nat, l \in Nat, u \in Int :
            d = Owed("credit") /\ c = credited' /\ l = lost' /\ u = Owed("credit")'
      BY <1>3, <1>4, <2>1
    <3>2. /\ u = d - n /\ c + l = credited + lost + n /\ points' = points
          /\ points + credited + lost + d = Points
      BY <1>4, <2>1, <2>3, <3>1
    <3>3. points + (c + l) + u = Points
      BY <1>3, <3>2
    <3> QED BY <1>3, <3>1, <3>2, <3>3
  <2>5. points' + Overdraft' >= Owed("take")'
    BY <1>4, <2>1, <2>2, <2>3
  <2> QED BY <2>4, <2>5 DEF NoPointLost
<1> QED BY <1>1, <1>4, <1>5, <1>6, KindsOfJobs, QuietDefaults, QuietRating DEF ProfileInv

LEMMA SaveDiesStep ==
  ASSUME ProfileInv, NEW w \in Workers, Self!Crash(w), Self!At(w, "save")
  PROVE  ProfileInv'
<1>1. req[w] \in AddressJobs /\ req[w].at = "save"
  BY ProfileJobTyped DEF ProfileInv, Self!At
<1>2. /\ Self!Become(w, Self!Idle)
      /\ UNCHANGED <<address, points, credited, reviewed, rating, disturbed, lost>>
  <2>1. ~Self!Reviewing(w)
    BY <1>1 DEF AddressJobs, Self!Reviewing
  <2> QED BY <1>1, <2>1 DEF Self!Crash, Self!End, Self!At, ProfileInv, ProfileTyped
<1>3. SelfCounted(w, Self!Idle) /\ ProfileTyped'
  BY <1>2, SelfSlots DEF ProfileInv, ProfileTyped
<1> QED BY <1>1, <1>2, <1>3, KindsOfJobs, QuietDefaults, QuietPoints, QuietRating DEF ProfileInv

(* A review that dies disturbs the rating.                                   *)
LEMMA ReviewDiesStep ==
  ASSUME ProfileInv, NEW w \in Workers, Self!Crash(w), Self!At(w, "aggregate") \/ Self!At(w, "rate")
  PROVE  ProfileInv'
<1>1. req[w] \in ReviewJobs
  BY ProfileJobTyped DEF ProfileInv
<1>2. disturbed'
  BY <1>1 DEF ReviewJobs, Self!Crash, Self!Reviewing, Self!Running, Self!At
<1>3. disturbed' \in BOOLEAN
  BY DEF Self!Crash
<1>4. /\ Self!Become(w, Self!Idle)
      /\ UNCHANGED <<address, points, credited, reviewed, rating, lost>>
  BY DEF Self!Crash, Self!End, Self!At
<1>5. SelfCounted(w, Self!Idle) /\ ProfileTyped'
  BY <1>3, <1>4, SelfSlots DEF ProfileInv, ProfileTyped
<1> QED BY <1>1, <1>2, <1>4, <1>5, KindsOfJobs, QuietDefaults, QuietPoints DEF ProfileInv

(* A review starts, alone or not.                                            *)
LEMMA ReviewStep ==
  ASSUME ProfileInv, NEW w \in Workers, NEW o \in Reviewable, Self!Review(w, o)
  PROVE  ProfileInv'
<1>1. PICK job : job = [at |-> "review", o |-> o, seen |-> 0]
  OBVIOUS
<1>2. job \in ReviewJobs /\ job.at = "review" /\ job.o = o
  BY <1>1 DEF ReviewJobs
<1>3. /\ Self!Become(w, job) /\ req[w] = Self!Idle /\ disturbed' \in BOOLEAN
      /\ UNCHANGED <<address, points, credited, reviewed, rating, lost>>
  BY <1>1, FreeSlot DEF Self!Review, Self!Start, ProfileInv
<1>4. SelfCounted(w, job) /\ ProfileTyped'
  BY <1>2, <1>3, KindsOfJobs, SelfSlots DEF ProfileInv, ProfileTyped
<1>5. ASSUME ~disturbed'
      PROVE  RatingKept'
  <2>1. \A v \in Workers : req[v] \notin ReviewJobs
    <3>1. ASSUME NEW v \in Workers, req[v] \in ReviewJobs
          PROVE  Self!Reviewing(v)
      BY <3>1 DEF ReviewJobs, Self!Reviewing, Self!Running, Self!At
    <3> QED BY <1>5, <3>1 DEF Self!Review
  <2>2. req'[w] = job /\ \A v \in Workers : req'[v] \in ReviewJobs => v = w
    BY <1>4, <2>1 DEF SelfCounted
  <2>3. \A v \in Workers : v # w => req'[v].at \notin {"rate", "review"}
    <3>1. \A v \in Workers : req[v].at \notin {"rate", "review"}
      BY <2>1, ProfileJobTyped DEF ProfileInv, Self!At
    <3> QED BY <1>4, <3>1 DEF SelfCounted
  <2>4. o \notin reviewed'
    BY <1>3 DEF Self!Review
  <2> QED BY <1>2, <2>2, <2>3, <2>4 DEF RatingKept, Self!At
<1> QED BY <1>2, <1>3, <1>4, <1>5, KindsOfJobs, QuietDefaults, QuietPoints DEF ProfileInv

(* The review's row, what it finds in the table, and the rating it writes.   *)
LEMMA ReviewGoesOn ==
  ASSUME ProfileInv, NEW w \in Workers, Self!WriteReview(w) \/ Self!Aggregate(w) \/ Self!WriteRating(w)
  PROVE  ProfileInv'
<1>1. req[w] \in ReviewJobs /\ req[w].o \in Reviewable
  BY ProfileJobTyped DEF ProfileInv, Self!WriteReview, Self!Aggregate, Self!WriteRating, ReviewJobs
<1>2. /\ UNCHANGED <<address, points, credited, disturbed, lost>>
      /\ reviewed' \subseteq Reviewable
  BY <1>1 DEF Self!WriteReview, Self!Aggregate, Self!WriteRating, Self!own, ProfileInv, ProfileTyped
<1>3. PICK job \in ReviewJobs \cup {Self!Idle} :
        /\ Self!Become(w, job)
        /\ job.at # "review"
        /\ job.at = "rate" => /\ job.seen = Cardinality(reviewed) /\ reviewed' = reviewed
        /\ job = Self!Idle =>
             /\ reviewed' = reviewed
             /\ (Self!At(w, "review") /\ req[w].o \in reviewed) \/ (Self!At(w, "rate") /\ rating' = req[w].seen)
  <2>1. CASE Self!WriteReview(w) /\ req[w].o \in reviewed
    BY <2>1 DEF Self!WriteReview, Self!End, Self!Idle
  <2>2. CASE Self!WriteReview(w) /\ req[w].o \notin reviewed
    <3>1. PICK job : job = [req[w] EXCEPT !.at = "aggregate"]
      OBVIOUS
    <3>2. job \in ReviewJobs /\ job.at = "aggregate" /\ job # Self!Idle
      BY <1>1, <3>1 DEF ReviewJobs, Self!Idle
    <3> QED BY <2>2, <3>1, <3>2 DEF Self!WriteReview, Self!Go
  <2>3. CASE Self!Aggregate(w)
    <3>1. PICK n \in {0} \cup {Cardinality(S) : S \in SUBSET Reviewable} : n = Cardinality(reviewed)
      BY DEF ProfileInv, ProfileTyped
    <3>2. PICK job : job = [req[w] EXCEPT !.at = "rate", !.seen = n]
      OBVIOUS
    <3>3. job \in ReviewJobs /\ job.at = "rate" /\ job.seen = n /\ job # Self!Idle
      BY <1>1, <3>2 DEF ReviewJobs, Self!Idle
    <3> QED BY <2>3, <3>1, <3>2, <3>3, SameCardinality DEF Self!Aggregate, Self!own
  <2>4. CASE Self!WriteRating(w)
    BY <2>4 DEF Self!WriteRating, Self!End, Self!Idle
  <2> QED BY <2>1, <2>2, <2>3, <2>4
<1>4. SelfCounted(w, job) /\ ProfileTyped'
  BY <1>2, <1>3, KindsOfJobs, SelfSlots DEF ProfileInv, ProfileTyped
<1>5. ASSUME ~disturbed
      PROVE  RatingKept'
  <2>1. RatingKept
    BY <1>5 DEF ProfileInv
  <2>2. \A v \in Workers : req'[v] \in ReviewJobs => v = w
    BY <1>1, <1>4, <2>1 DEF SelfCounted, RatingKept
  <2>3. \A v \in Workers : v # w => req'[v].at \notin {"rate", "review"}
    <3>1. ASSUME NEW v \in Workers, v # w
          PROVE  req[v].at \notin {"rate", "review"}
      BY <1>1, <2>1, <3>1, ProfileJobTyped DEF ProfileInv, RatingKept, Self!At
    <3> QED BY <1>4, <3>1 DEF SelfCounted
  <2>4. req'[w] = job
    BY <1>4 DEF SelfCounted
  <2>5. CASE job = Self!Idle
    <3>1. rating' = Cardinality(reviewed) /\ reviewed' = reviewed
      BY <1>3, <2>1, <2>5 DEF RatingKept
    <3>2. req'[w].at \notin {"rate", "review"}
      BY <2>4, <2>5 DEF Self!Idle
    <3> QED BY <2>2, <2>3, <3>1, <3>2 DEF RatingKept, Self!At
  <2>6. CASE job \in ReviewJobs
    <3>1. job.at = "rate" => job.seen = Cardinality(reviewed)'
      <4>1. ASSUME job.at = "rate"
            PROVE  job.seen = Cardinality(reviewed) /\ reviewed' = reviewed
        BY <1>3, <4>1
      <4> QED BY <4>1
    <3> QED BY <1>3, <2>2, <2>3, <2>4, <2>6, <3>1 DEF RatingKept, Self!At
  <2> QED BY <2>5, <2>6
<1> QED BY <1>1, <1>2, <1>3, <1>4, <1>5, KindsOfJobs, QuietDefaults, QuietPoints DEF ProfileInv

LEMMA NextProfile == ProfileInv /\ [Self!Next]_(Self!vars) => ProfileInv'
<1> SUFFICES ASSUME ProfileInv, [Self!Next]_(Self!vars) PROVE ProfileInv'
  OBVIOUS
<1>1. CASE UNCHANGED Self!vars
  <2>1. Saving' = Saving /\ (\A stage : Owed(stage)' = Owed(stage)) /\ Defaults' = Defaults
    BY <1>1 DEF Saving, Counted, Slots, Owed, Units, Defaults, Self!vars, Self!own
  <2> QED BY <1>1, <2>1
          DEF Self!vars, Self!own, ProfileInv, ProfileTyped, DefaultsKept, NoPointLost, Overdraft, RatingKept, Self!At
<1>2. ASSUME NEW w \in Workers, Self!Crash(w)
      PROVE  ProfileInv'
  BY <1>2, PaidStep, SaveDiesStep, ReviewDiesStep DEF Self!Crash, Self!At
<1> QED BY <1>1, <1>2, SaveStep, ClearStep, WriteAddressStep, DeleteStep, RedeemStep, TakeStep,
           PaidStep, ReviewStep, ReviewGoesOn DEF Self!Next

LEMMA ProfileIsSound ==
  ProfileInv => Self!DefaultAddress /\ Self!PointsKept /\ Self!RatingExact
<1> SUFFICES ASSUME ProfileInv
             PROVE  Self!DefaultAddress /\ Self!PointsKept /\ Self!RatingExact
  OBVIOUS
<1>1. Self!DefaultAddress
  <2>1. Cardinality(Defaults) \in Nat /\ Saving \in Nat
    BY FS_CardinalityType, SlotsAreFew DEF ProfileInv, DefaultsKept, Saving
  <2> QED BY <2>1, CountSlots, SameCardinality DEF ProfileInv, DefaultsKept, Defaults, Self!DefaultAddress, Self!Overlap
<1>2. Self!AtRest => \A w \in Workers : req[w].at = "idle"
  BY DEF Self!AtRest, Self!Running, Self!At
<1>3. Self!PointsKept
  <2>1. Overdraft \in Nat /\ Self!Overlap * MaxRedeem = Overdraft
    BY OverdraftIsNat, SameCardinality DEF Overdraft, Self!Overlap
  <2>2. PICK w \in Workers : TRUE
    BY WorkersAreFinite
  <2>3. Owed("take") \in Nat
    BY <2>2, UnitsSplit DEF ProfileInv, ProfileTyped, Owed
  <2>4. Self!AtRest => Owed("credit") = 0
    <3>1. Self!AtRest => Units(req, "credit") = {}
      BY <1>2 DEF Units
    <3> QED BY <3>1, FS_EmptySet DEF Owed
  <2>5. points \in Int /\ credited \in Nat /\ lost \in Nat
    BY DEF ProfileInv, ProfileTyped
  <2> QED BY <2>1, <2>3, <2>4, <2>5 DEF ProfileInv, NoPointLost, Self!PointsKept
<1>4. Self!RatingExact
  <2>1. Self!AtRest => \A w \in Workers : req[w] \notin ReviewJobs
    BY <1>2 DEF ReviewJobs
  <2> QED BY <2>1, SameCardinality DEF ProfileInv, RatingKept, Self!RatingExact
<1> QED BY <1>1, <1>3, <1>4

(***************************************************************************)
(* Staff.                                                                  *)
(***************************************************************************)

StaffRows == [{"exists", "super", "active", "manages"} -> BOOLEAN]
NewRows == {row \in StaffRows : row.exists /\ row.active}
StaffJobs == {job \in [at : {"count", "write", "audit"}, a : Admins, new : BOOLEAN,
                        set : NewRows \cup Team!Updates] :
                job.set \in IF job.new THEN NewRows ELSE Team!Updates}
LoginJobs == [at : {"login", "link"}, u : Outlets]

StaffTyped ==
  /\ staff \in [Admins -> StaffRows]
  /\ audit \in Nat /\ changes \in Nat /\ dead \in Nat
  /\ logins \in [Outlets -> Nat] /\ linked \in [Outlets -> BOOLEAN]
  /\ req \in [Workers -> StaffJobs \cup LoginJobs \cup {Team!Idle}]

(* The requests that are to record a change, to create a login of an outlet, *)
(* and to link it.                                                           *)
Recording == Counted("audit", "at", "audit")
Creating(u) == Counted("login", "u", u)
Linking(u) == Counted("link", "u", u)

(* A change is recorded, or is going to be, or its request died; a login is  *)
(* linked, or is going to be, or its request died, and once the outlet is    *)
(* linked only those that looked before can still create one.                *)
NothingLost ==
  /\ changes <= audit + dead + Recording
  /\ \A u \in Outlets :
       /\ ~linked[u] => logins[u] <= dead + Linking(u)
       /\ linked[u] => logins[u] + Creating(u) <= dead + Cardinality(Workers)

(* While no update was overtaken, one is of somebody who is there, and what  *)
(* it is about to write leaves another super admin.                          *)
Updating(w) == (Team!At(w, "count") \/ Team!At(w, "write")) /\ ~req[w].new
BossRemains ==
  /\ Team!SuperAdmins # {}
  /\ \A w \in Workers : Updating(w) => staff[req[w].a].exists
  /\ \A w \in Workers :
       Updating(w) /\ Team!At(w, "write") /\ Team!Demotes(req[w].a, req[w].set) => Team!SuperAdmins \ {req[w].a} # {}

StaffInv == StaffTyped /\ NothingLost /\ (~crossed => BossRemains)

LEMMA RowsAreStaffRows ==
  \A e, s, a, m \in BOOLEAN :
    [exists |-> e, super |-> s, active |-> a, manages |-> m] \in StaffRows
BY DEF StaffRows

LEMMA InitStaff == Team!Init => StaffInv
<1> SUFFICES ASSUME Team!Init PROVE StaffInv
  OBVIOUS
<1>1. StaffTyped
  BY RowsAreStaffRows DEF Team!Init, Team!NoRequests, Team!NoRow, StaffTyped
<1>2. \A w \in Workers : req[w].at = "idle"
  BY DEF Team!Init, Team!NoRequests, Team!Idle
<1>3. Recording = 0 /\ \A u : Linking(u) = 0
  BY <1>2, NoSlots DEF Recording, Linking
<1>4. NothingLost
  BY <1>3 DEF Team!Init, NothingLost
<1>5. Boss \in Team!SuperAdmins
  BY BossIsAdmin DEF Team!Init, Team!SuperAdmins, Team!Active
<1>6. BossRemains
  BY <1>2, <1>5 DEF BossRemains, Updating, Team!At
<1> QED BY <1>1, <1>4, <1>6 DEF StaffInv

(* How the requests are counted when one of them moves on.                   *)
StaffCounted(w, job) ==
  /\ req'[w] = job /\ \A v \in Workers : v # w => req'[v] = req[v]
  /\ Recording \in Nat /\ Recording' \in Nat
  /\ Recording' = Recording + Tick(job.at = "audit") - Tick(req[w].at = "audit")
  /\ \A u : /\ Creating(u) \in Nat /\ Creating(u)' \in Nat
            /\ Creating(u)' = Creating(u) + Tick(job.at = "login" /\ job.u = u)
                                - Tick(req[w].at = "login" /\ req[w].u = u)
            /\ Linking(u) \in Nat /\ Linking(u)' \in Nat
            /\ Linking(u)' = Linking(u) + Tick(job.at = "link" /\ job.u = u)
                               - Tick(req[w].at = "link" /\ req[w].u = u)
            /\ Creating(u) + Linking(u) <= Cardinality(Workers)

LEMMA StaffSlots ==
  ASSUME StaffTyped, NEW w \in Workers, NEW job, Team!Become(w, job)
  PROVE  StaffCounted(w, job)
<1>1. req'[w] = job /\ \A v \in Workers : v # w => req'[v] = req[v]
  BY DEF StaffTyped, Team!Become
<1>2. Recounted(w, job)
  BY <1>1, SlotsMove
<1>3. /\ Recording \in Nat /\ Recording' \in Nat
      /\ Recording' = Recording + Tick(job.at = "audit") - Tick(req[w].at = "audit")
  BY <1>2 DEF Recounted, Recording
<1>4. ASSUME NEW u
      PROVE  Creating(u) + Linking(u) <= Cardinality(Workers)
  <2>1. /\ Slots("login", "u", u) \in SUBSET Workers /\ Slots("link", "u", u) \in SUBSET Workers
        /\ Slots("login", "u", u) \cap Slots("link", "u", u) = {}
    BY DEF Slots
  <2> QED BY <2>1, CountSlots DEF Creating, Linking, Counted
<1>5. \A u : /\ Creating(u) \in Nat /\ Creating(u)' \in Nat
             /\ Creating(u)' = Creating(u) + Tick(job.at = "login" /\ job.u = u)
                                 - Tick(req[w].at = "login" /\ req[w].u = u)
  BY <1>2 DEF Recounted, Creating
<1>6. \A u : /\ Linking(u) \in Nat /\ Linking(u)' \in Nat
             /\ Linking(u)' = Linking(u) + Tick(job.at = "link" /\ job.u = u)
                                - Tick(req[w].at = "link" /\ req[w].u = u)
  BY <1>2 DEF Recounted, Linking
<1> QED BY <1>1, <1>3, <1>4, <1>5, <1>6 DEF StaffCounted

LEMMA UpdatedRow ==
  ASSUME NEW row \in StaffRows, NEW set \in NewRows \cup Team!Updates
  PROVE  /\ Team!Updated(row, set) \in StaffRows
         /\ \A field \in {"exists", "super", "active", "manages"} :
              Team!Updated(row, set)[field] = IF field \in DOMAIN set THEN set[field] ELSE row[field]
<1>1. \A field \in DOMAIN row : (IF field \in DOMAIN set THEN set[field] ELSE row[field]) \in BOOLEAN
  <2>1. CASE set \in NewRows
    BY <2>1 DEF NewRows, StaffRows
  <2>2. CASE set \in Team!Updates
    <3>1. PICK name : set \in [{name} -> BOOLEAN]
      BY <2>2 DEF Team!Updates
    <3> QED BY <3>1 DEF StaffRows
  <2> QED BY <2>1, <2>2
<1>2. DOMAIN row = {"exists", "super", "active", "manages"}
  BY DEF StaffRows
<1> QED BY <1>1, <1>2 DEF Team!Updated, StaffRows

(* An active super admin stays one, unless the update demotes them; nobody   *)
(* comes or goes by an update.                                               *)
Chief(row) == row.exists /\ row.active /\ row.super

LEMMA UpdateKeeps ==
  ASSUME NEW row \in StaffRows, NEW set \in Team!Updates
  PROVE  /\ Team!Updated(row, set).exists = row.exists
         /\ Chief(row) /\ (\A field \in DOMAIN set \cap {"super", "active"} : set[field])
              => Chief(Team!Updated(row, set))
<1>1. "exists" \notin DOMAIN set
  BY DEF Team!Updates
<1>2. PICK new \in StaffRows : new = Team!Updated(row, set)
  BY UpdatedRow
<1>3. /\ new.exists = row.exists
      /\ new.super = IF "super" \in DOMAIN set THEN set.super ELSE row.super
      /\ new.active = IF "active" \in DOMAIN set THEN set.active ELSE row.active
  BY <1>1, <1>2, UpdatedRow
<1>4. ASSUME Chief(row), \A field \in DOMAIN set \cap {"super", "active"} : set[field]
      PROVE  Chief(new)
  <2>1. new.super
    BY <1>3, <1>4 DEF Chief
  <2>2. new.active
    BY <1>3, <1>4 DEF Chief
  <2> QED BY <1>3, <1>4, <2>1, <2>2 DEF Chief
<1> QED BY <1>2, <1>3, <1>4

LEMMA StaffJobTyped ==
  ASSUME StaffTyped, NEW w \in Workers, Team!At(w, "count") \/ Team!At(w, "write") \/ Team!At(w, "audit")
  PROVE  /\ req[w] \in StaffJobs /\ req[w].a \in Admins
         /\ req[w].set \in IF req[w].new THEN NewRows ELSE Team!Updates
BY DEF StaffTyped, StaffJobs, LoginJobs, Team!At, Team!Idle

(* A step of a request that takes up no staff job, and leaves the rows.      *)
LEMMA QuietBoss ==
  ASSUME StaffTyped, BossRemains, NEW w \in Workers, NEW job, StaffCounted(w, job),
         job.at \notin {"count", "write"} \/ job.new, UNCHANGED staff
  PROVE  BossRemains'
<1>1. \A v \in Workers : Updating(v)' => v # w /\ Updating(v) /\ req'[v] = req[v]
  BY DEF StaffCounted, Updating, Team!At
<1>2. Team!SuperAdmins' = Team!SuperAdmins
  BY DEF Team!SuperAdmins, Team!Active
<1>3. \A v \in Workers : v # w => (Team!At(v, "write")' <=> Team!At(v, "write"))
  BY DEF StaffCounted, Team!At
<1>4. \A a, set : Team!Demotes(a, set)' <=> Team!Demotes(a, set)
  BY DEF Team!Demotes
<1> QED BY <1>1, <1>2, <1>3, <1>4 DEF BossRemains

LEMMA HireStep ==
  ASSUME StaffInv, NEW w \in Workers, NEW actor \in Admins, NEW a \in Admins,
         NEW super \in BOOLEAN, Team!CreateStaff(w, actor, a, super)
  PROVE  StaffInv'
<1>1. PICK set : set = [exists |-> TRUE, super |-> super, active |-> TRUE, manages |-> super]
  OBVIOUS
<1>2. set \in NewRows
  <2>1. set \in StaffRows
    BY <1>1, RowsAreStaffRows
  <2> QED BY <1>1, <2>1 DEF NewRows
<1>3. PICK job : job = [at |-> "write", a |-> a, new |-> TRUE, set |-> set]
  OBVIOUS
<1>4. job \in StaffJobs /\ job.at = "write" /\ job.new
  BY <1>2, <1>3 DEF StaffJobs
<1>5. /\ Team!Become(w, job) /\ req[w].at = "idle"
      /\ UNCHANGED <<staff, audit, changes, logins, linked, crossed, dead>>
  BY <1>1, <1>3 DEF Team!CreateStaff, Team!Request, Team!Start, Team!At
<1>6. StaffCounted(w, job)
  BY <1>5, StaffSlots DEF StaffInv
<1>7. StaffTyped'
  BY <1>4, <1>5 DEF StaffInv, StaffTyped, Team!Become
<1>8. NothingLost'
  BY <1>4, <1>5, <1>6 DEF StaffInv, NothingLost, StaffCounted, Tick
<1>9. ~crossed' => BossRemains'
  BY <1>4, <1>5, <1>6, QuietBoss DEF StaffInv
<1> QED BY <1>7, <1>8, <1>9 DEF StaffInv

(* An update that demotes looks for another super admin before it writes.    *)
LEMMA UpdateStep ==
  ASSUME StaffInv, NEW w \in Workers, NEW actor \in Admins, NEW a \in Admins, NEW set \in Team!Updates,
         Team!UpdateStaff(w, actor, a, set)
  PROVE  StaffInv'
<1>1. PICK stage \in {"count", "write"} :
        /\ stage = IF Team!Demotes(a, set) THEN "count" ELSE "write"
  OBVIOUS
<1>2. PICK job : job = [at |-> stage, a |-> a, new |-> FALSE, set |-> set]
  OBVIOUS
<1>3. job \in StaffJobs /\ job.at = stage /\ ~job.new /\ job.a = a /\ job.set = set
  BY <1>2 DEF StaffJobs
<1>4. /\ Team!Become(w, job) /\ req[w].at = "idle" /\ staff[a].exists
      /\ UNCHANGED <<staff, audit, changes, logins, linked, crossed, dead>>
  BY <1>1, <1>2 DEF Team!UpdateStaff, Team!Request, Team!Start, Team!At
<1>5. StaffCounted(w, job)
  BY <1>4, StaffSlots DEF StaffInv
<1>6. StaffTyped'
  BY <1>3, <1>4 DEF StaffInv, StaffTyped, Team!Become
<1>7. NothingLost'
  BY <1>1, <1>3, <1>4, <1>5 DEF StaffInv, NothingLost, StaffCounted, Tick
<1>8. ASSUME BossRemains
      PROVE  BossRemains'
  <2>1. \A v \in Workers : v # w => /\ Updating(v)' = Updating(v)
                                  /\ Team!At(v, "write")' = Team!At(v, "write")
                                  /\ req'[v] = req[v]
    BY <1>5, Zenon DEF StaffCounted, Updating, Team!At
  <2>2. Team!SuperAdmins' = Team!SuperAdmins /\ \A b, s : Team!Demotes(b, s)' <=> Team!Demotes(b, s)
    BY <1>4 DEF Team!SuperAdmins, Team!Active, Team!Demotes
  <2>3. req'[w].a = a /\ req'[w].set = set /\ (Team!At(w, "write")' => ~Team!Demotes(a, set))
    BY <1>1, <1>3, <1>5 DEF StaffCounted, Team!At
  <2> QED BY <1>4, <1>8, <2>1, <2>2, <2>3 DEF BossRemains
<1> QED BY <1>4, <1>6, <1>7, <1>8 DEF StaffInv

LEMMA CountOthersStep ==
  ASSUME StaffInv, NEW w \in Workers, Team!CountOthers(w)
  PROVE  StaffInv'
<1>1. req[w] \in StaffJobs /\ req[w].at = "count" /\ req[w].a \in Admins
  BY StaffJobTyped DEF StaffInv, Team!CountOthers, Team!At
<1>2. UNCHANGED Team!own
  BY DEF Team!CountOthers
<1>3. CASE Team!End(w)
  <2>1. StaffCounted(w, Team!Idle)
    BY <1>3, StaffSlots DEF StaffInv, Team!End
  <2>2. StaffTyped'
    BY <1>2, <1>3 DEF StaffInv, StaffTyped, Team!End, Team!Become, Team!own
  <2>3. NothingLost'
    BY <1>1, <1>2, <2>1, Team!Idle.at = "idle" DEF StaffInv, NothingLost, StaffCounted, Tick, Team!own, Team!Idle
  <2>4. ~crossed' => BossRemains'
    BY <1>2, <2>1, QuietBoss, Team!Idle.at = "idle" DEF StaffInv, Team!own, Team!Idle
  <2> QED BY <2>2, <2>3, <2>4 DEF StaffInv
<1>4. CASE Team!SuperAdmins \ {req[w].a} # {} /\ Team!Go(w, "write")
  <2>1. PICK job : job = [req[w] EXCEPT !.at = "write"]
    OBVIOUS
  <2>2. /\ job \in StaffJobs /\ job.at = "write"
        /\ job.a = req[w].a /\ job.new = req[w].new /\ job.set = req[w].set
    BY <1>1, <2>1 DEF StaffJobs
  <2>3. Team!Become(w, job)
    BY <1>4, <2>1 DEF Team!Go
  <2>4. StaffCounted(w, job)
    BY <2>3, StaffSlots DEF StaffInv
  <2>5. StaffTyped'
    BY <1>2, <2>2, <2>3 DEF StaffInv, StaffTyped, Team!Become, Team!own
  <2>6. NothingLost'
    BY <1>1, <1>2, <2>2, <2>4 DEF StaffInv, NothingLost, StaffCounted, Tick, Team!own
  <2>7. ASSUME BossRemains
        PROVE  BossRemains'
    <3>1. \A v \in Workers : Updating(v)' => Updating(v)
      BY <1>1, <2>2, <2>4 DEF StaffCounted, Updating, Team!At
    <3>2. \A v \in Workers : req'[v].a = req[v].a /\ req'[v].set = req[v].set
      BY <2>2, <2>4 DEF StaffCounted
    <3>3. /\ Team!SuperAdmins' = Team!SuperAdmins /\ staff' = staff
          /\ \A a, set : Team!Demotes(a, set)' <=> Team!Demotes(a, set)
      BY <1>2 DEF Team!SuperAdmins, Team!Active, Team!Demotes, Team!own
    <3>4. \A v \in Workers : v # w => (Team!At(v, "write")' <=> Team!At(v, "write"))
      BY <2>4 DEF StaffCounted, Team!At
    <3> QED BY <1>4, <2>7, <3>1, <3>2, <3>3, <3>4 DEF BossRemains
  <2>8. crossed' = crossed
    BY <1>2 DEF Team!own
  <2> QED BY <2>5, <2>6, <2>7, <2>8 DEF StaffInv
<1> QED BY <1>3, <1>4 DEF Team!CountOthers

(* A row that is new makes nobody less; an update that demotes has found     *)
(* another super admin, and no update that was checked is overtaken by it.   *)
LEMMA WriteBoss ==
  ASSUME StaffTyped, BossRemains, NEW w \in Workers, NEW a \in Admins, req[w].a = a,
         NEW set \in NewRows \cup Team!Updates, req[w].set = set, Team!At(w, "write"),
         req[w].new => set \in NewRows /\ ~staff[a].exists, ~req[w].new => set \in Team!Updates,
         \A v \in Workers \ {w} : ~(Team!At(v, "write") /\ ~req[v].new),
         NEW job, StaffCounted(w, job), job.at = "audit",
         staff' = [staff EXCEPT ![a] = Team!Updated(staff[a], set)]
  PROVE  BossRemains'
<1>1. \A v \in Workers : Updating(v)' => v # w /\ Updating(v) /\ req'[v] = req[v] /\ ~Team!At(v, "write")'
  BY DEF StaffCounted, Updating, Team!At
<1>2. /\ \A x \in Admins : x # a => staff'[x] = staff[x]
      /\ staff'[a] = Team!Updated(staff[a], set) /\ staff[a] \in StaffRows
  BY DEF StaffTyped
<1>3. \A x \in Admins : x # a => (x \in Team!SuperAdmins' <=> x \in Team!SuperAdmins)
  BY <1>2 DEF Team!SuperAdmins, Team!Active
<1>4. ASSUME staff[a].exists PROVE staff'[a].exists
  <2>1. set \in Team!Updates
    BY <1>4
  <2>2. Team!Updated(staff[a], set).exists = staff[a].exists
    BY <1>2, <2>1, UpdateKeeps, Zenon
  <2> QED BY <1>2, <1>4, <2>2
<1>5. \A v \in Workers : Updating(v)' => staff'[req'[v].a].exists
  <2>1. \A v \in Workers : Updating(v) => req[v].a \in Admins /\ staff[req[v].a].exists
    BY StaffJobTyped DEF Updating, BossRemains
  <2>2. \A x \in Admins : staff[x].exists => staff'[x].exists
    BY <1>2, <1>4
  <2> QED BY <1>1, <2>1, <2>2
<1>6. Team!SuperAdmins' # {}
  <2>1. Team!SuperAdmins # {} /\ Team!SuperAdmins \in SUBSET Admins
    BY DEF BossRemains, Team!SuperAdmins
  <2>2. CASE req[w].new
    <3>1. a \notin Team!SuperAdmins
      BY <2>2 DEF Team!SuperAdmins, Team!Active
    <3> QED BY <1>3, <2>1, <3>1
  <2>3. CASE ~req[w].new /\ Team!Demotes(a, set)
    <3>1. Team!SuperAdmins \ {a} # {}
      BY <2>3 DEF BossRemains, Updating
    <3> QED BY <1>3, <2>1, <3>1
  <2>4. CASE ~req[w].new /\ ~Team!Demotes(a, set)
    <3>1. a \in Team!SuperAdmins => a \in Team!SuperAdmins'
      <4>1. \A x \in Admins : /\ x \in Team!SuperAdmins <=> Chief(staff[x])
                              /\ x \in Team!SuperAdmins' <=> Chief(staff'[x])
        BY DEF Team!SuperAdmins, Team!Active, Chief
      <4>2. Chief(staff[a]) => \A field \in DOMAIN set \cap {"super", "active"} : set[field]
        BY <2>4 DEF Team!Demotes, Chief
      <4>3. Chief(staff[a]) => Chief(staff'[a])
        BY <1>2, <2>4, <4>2, UpdateKeeps
      <4> QED BY <4>1, <4>3
    <3> QED BY <1>3, <2>1, <3>1
  <2> QED BY <2>2, <2>3, <2>4
<1> QED BY <1>1, <1>5, <1>6 DEF BossRemains

LEMMA WriteStep ==
  ASSUME StaffInv, NEW w \in Workers, Team!WriteStaff(w)
  PROVE  StaffInv'
<1>1. PICK a \in Admins : a = req[w].a
  BY StaffJobTyped DEF StaffInv, Team!WriteStaff
<1>2. PICK set \in NewRows \cup Team!Updates : set = req[w].set
  BY StaffJobTyped DEF StaffInv, Team!WriteStaff
<1>3. /\ req[w] \in StaffJobs /\ Team!At(w, "write") /\ req[w].at = "write"
      /\ set \in IF req[w].new THEN NewRows ELSE Team!Updates
  BY <1>2, StaffJobTyped DEF StaffInv, Team!WriteStaff, Team!At
<1>4. UNCHANGED <<audit, logins, linked, dead, calls>>
  BY DEF Team!WriteStaff
<1>5. CASE req[w].new /\ staff[a].exists
  <2>1. UNCHANGED <<staff, changes>> /\ Team!Become(w, Team!Idle)
    BY <1>1, <1>5 DEF Team!WriteStaff, Team!End
  <2>2. StaffCounted(w, Team!Idle)
    BY <2>1, StaffSlots DEF StaffInv
  <2>3. StaffTyped'
    BY <1>4, <2>1 DEF StaffInv, StaffTyped, Team!Become
  <2>4. NothingLost'
    BY <1>3, <1>4, <2>1, <2>2, Team!Idle.at = "idle" DEF StaffInv, NothingLost, StaffCounted, Tick, Team!Idle
  <2>5. crossed' = crossed
    BY <1>1, <1>5 DEF Team!WriteStaff
  <2>6. ~crossed' => BossRemains'
    BY <2>1, <2>2, <2>5, QuietBoss, Team!Idle.at = "idle" DEF StaffInv, Team!Idle
  <2> QED BY <2>3, <2>4, <2>6 DEF StaffInv
<1>6. CASE ~(req[w].new /\ staff[a].exists)
  <2>1. PICK job : job = [req[w] EXCEPT !.at = "audit"]
    OBVIOUS
  <2>2. job \in StaffJobs /\ job.at = "audit"
    BY <1>3, <2>1 DEF StaffJobs
  <2>3. /\ staff' = [staff EXCEPT ![a] = Team!Updated(staff[a], set)]
        /\ changes' = changes + 1 /\ Team!Become(w, job)
    BY <1>1, <1>2, <1>6, <2>1 DEF Team!WriteStaff, Team!Go
  <2>4. StaffCounted(w, job)
    BY <2>3, StaffSlots DEF StaffInv
  <2>5. StaffTyped'
    <3>1. staff[a] \in StaffRows
      BY DEF StaffInv, StaffTyped
    <3>2. Team!Updated(staff[a], set) \in StaffRows
      BY <3>1, UpdatedRow
    <3>3. staff' \in [Admins -> StaffRows]
      BY <2>3, <3>2 DEF StaffInv, StaffTyped
    <3> QED BY <1>4, <2>2, <2>3, <3>3 DEF StaffInv, StaffTyped, Team!Become
  <2>6. NothingLost'
    BY <1>3, <1>4, <2>2, <2>3, <2>4 DEF StaffInv, StaffTyped, NothingLost, StaffCounted, Tick
  <2>7. ASSUME ~crossed'
        PROVE  BossRemains'
    <3>0. BossRemains /\ \A v \in Workers \ {w} : ~(Team!At(v, "write") /\ ~req[v].new)
      BY <1>1, <1>6, <2>7 DEF StaffInv, Team!WriteStaff
    <3>1. req[w].a = a /\ req[w].set = set /\ StaffTyped
      BY <1>1, <1>2 DEF StaffInv
    <3>2. req[w].new => set \in NewRows /\ ~staff[a].exists
      BY <1>3, <1>6
    <3>3. ~req[w].new => set \in Team!Updates
      BY <1>3
    <3> QED BY <1>3, <2>2, <2>3, <2>4, <3>0, <3>1, <3>2, <3>3, WriteBoss
  <2> QED BY <2>5, <2>6, <2>7 DEF StaffInv
<1> QED BY <1>5, <1>6

(* The step of a request that ends, in the audit log, at a link, or dead.    *)
LEMMA LastStep ==
  ASSUME StaffInv, NEW w \in Workers, Team!Record(w) \/ Team!Link(w) \/ Team!Crash(w)
  PROVE  StaffInv'
<1>1. Team!Become(w, Team!Idle) /\ UNCHANGED <<staff, changes, logins>> /\ Team!Idle.at = "idle"
  BY DEF Team!Record, Team!Link, Team!Crash, Team!End, Team!Idle
<1>2. StaffCounted(w, Team!Idle)
  BY <1>1, StaffSlots DEF StaffInv
<1>3. StaffTyped'
  <2>1. req' \in [Workers -> StaffJobs \cup LoginJobs \cup {Team!Idle}]
    BY <1>1 DEF StaffInv, StaffTyped, Team!Become
  <2>2. audit' \in Nat /\ dead' \in Nat /\ linked' \in [Outlets -> BOOLEAN]
    <3>1. CASE Team!Record(w)
      BY <3>1 DEF StaffInv, StaffTyped, Team!Record
    <3>2. CASE Team!Link(w)
      BY <3>2 DEF StaffInv, StaffTyped, Team!Link
    <3>3. CASE Team!Crash(w)
      BY <3>3 DEF StaffInv, StaffTyped, Team!Crash
    <3> QED BY <3>1, <3>2, <3>3
  <2> QED BY <1>1, <2>1, <2>2 DEF StaffInv, StaffTyped
<1>4. ASSUME Team!Record(w) PROVE NothingLost'
  BY <1>1, <1>2, <1>4 DEF StaffInv, StaffTyped, NothingLost, StaffCounted, Tick, Team!Record, Team!At
<1>5. ASSUME Team!Link(w) PROVE NothingLost'
  <2>1. req[w].at = "link" /\ req[w].u \in Outlets
    BY <1>5 DEF StaffInv, StaffTyped, Team!Link, Team!At, StaffJobs, LoginJobs, Team!Idle
  <2>2. PICK u \in Outlets : u = req[w].u
    BY <2>1
  <2>3. linked' = [linked EXCEPT ![u] = TRUE] /\ UNCHANGED <<audit, dead>>
    BY <1>5, <2>2 DEF Team!Link
  <2>4. Recording' = Recording
    BY <1>1, <1>2, <2>1 DEF StaffCounted, Tick
  <2>5. \A v \in Outlets : /\ Creating(v)' = Creating(v)
                           /\ v # u => Linking(v)' = Linking(v) /\ linked'[v] = linked[v]
    <3>1. \A v : Creating(v)' = Creating(v) /\ (v # u => Linking(v)' = Linking(v))
      BY <1>1, <1>2, <2>1, <2>2 DEF StaffCounted, Tick
    <3>2. \A v \in Outlets : v # u => linked'[v] = linked[v]
      BY <2>3 DEF StaffInv, StaffTyped
    <3> QED BY <3>1, <3>2
  <2>6. logins[u] + Creating(u) <= dead + Cardinality(Workers)
    BY <1>2, CountSlots DEF StaffInv, StaffTyped, NothingLost, StaffCounted
  <2>7. linked'[u]
    BY <2>3 DEF StaffInv, StaffTyped
  <2> QED BY <1>1, <2>3, <2>4, <2>5, <2>6, <2>7 DEF StaffInv, NothingLost
<1>6. ASSUME Team!Crash(w) PROVE NothingLost'
  <2>1. dead' = dead + 1 /\ UNCHANGED <<audit, linked>> /\ req[w].at \in {"audit", "link"}
    BY <1>6 DEF Team!Crash, Team!At
  <2>2. changes' <= audit' + dead' + Recording'
    BY <1>1, <1>2, <2>1 DEF StaffInv, StaffTyped, NothingLost, StaffCounted, Tick
  <2>3. ASSUME NEW u \in Outlets
        PROVE  /\ ~linked'[u] => logins'[u] <= dead' + Linking(u)'
               /\ linked'[u] => logins'[u] + Creating(u)' <= dead' + Cardinality(Workers)
    <3>1. Linking(u)' >= Linking(u) - 1 /\ Creating(u)' = Creating(u)
      BY <1>1, <1>2, <2>1 DEF StaffCounted, Tick
    <3> QED BY <1>1, <1>2, <2>1, <3>1, CountSlots
            DEF StaffInv, StaffTyped, NothingLost, StaffCounted
  <2> QED BY <2>2, <2>3 DEF NothingLost
<1>7. NothingLost'
  BY <1>4, <1>5, <1>6
<1>8. crossed' = crossed
  BY DEF Team!Record, Team!Link, Team!Crash
<1>9. ~crossed' => BossRemains'
  BY <1>1, <1>2, <1>8, QuietBoss DEF StaffInv
<1> QED BY <1>3, <1>7, <1>9 DEF StaffInv

LEMMA LoginStep ==
  ASSUME StaffInv, NEW w \in Workers,
         Team!InsertLogin(w) \/ \E u \in Outlets : Team!CreateLogin(w, u)
  PROVE  StaffInv'
<1>1. PICK u \in Outlets, stage \in {"login", "link"} :
        /\ Team!Become(w, [at |-> stage, u |-> u])
        /\ stage = "login" => ~linked[u] /\ logins' = logins /\ req[w].at = "idle"
        /\ stage = "link" => /\ logins' = [logins EXCEPT ![u] = @ + 1]
                             /\ req[w].at = "login" /\ req[w].u = u
  <2>1. CASE Team!InsertLogin(w)
    <3>1. req[w] \in LoginJobs /\ req[w].at = "login"
      BY <2>1 DEF StaffInv, StaffTyped, Team!InsertLogin, Team!At, StaffJobs, LoginJobs, Team!Idle
    <3>2. PICK u \in Outlets : u = req[w].u
      BY <3>1 DEF LoginJobs
    <3>3. [req[w] EXCEPT !.at = "link"] = [at |-> "link", u |-> u]
      BY <3>1, <3>2 DEF LoginJobs
    <3> QED BY <2>1, <3>1, <3>2, <3>3 DEF Team!InsertLogin, Team!Go
  <2>2. CASE \E u \in Outlets : Team!CreateLogin(w, u)
    BY <2>2 DEF Team!CreateLogin, Team!Start, Team!own, Team!At
  <2> QED BY <2>1, <2>2
<1>2. UNCHANGED <<staff, audit, changes, linked, crossed, dead>>
  BY DEF Team!InsertLogin, Team!CreateLogin, Team!own
<1>3. PICK job : job = [at |-> stage, u |-> u]
  OBVIOUS
<1>4. job \in LoginJobs /\ job.at = stage /\ job.u = u
  BY <1>3 DEF LoginJobs
<1>5. StaffCounted(w, job)
  BY <1>1, <1>3, StaffSlots DEF StaffInv
<1>6. StaffTyped'
  BY <1>1, <1>2, <1>3, <1>4 DEF StaffInv, StaffTyped, Team!Become
<1>7. Recording' = Recording
  BY <1>1, <1>4, <1>5 DEF StaffCounted, Tick
<1>8. \A v \in Outlets : v # u => /\ Creating(v)' = Creating(v) /\ Linking(v)' = Linking(v)
                                           /\ logins'[v] = logins[v]
  BY <1>1, <1>4, <1>5 DEF StaffInv, StaffTyped, StaffCounted, Tick
<1>9. /\ ~linked[u] => logins'[u] <= dead + Linking(u)'
      /\ linked[u] => logins'[u] + Creating(u)' <= dead + Cardinality(Workers)
  <2>1. CASE stage = "login"
    BY <1>1, <1>4, <1>5, <2>1 DEF StaffInv, StaffTyped, NothingLost, StaffCounted, Tick
  <2>2. CASE stage = "link"
    <3>1. /\ Creating(u)' = Creating(u) - 1 /\ Linking(u)' = Linking(u) + 1
          /\ logins'[u] = logins[u] + 1
      BY <1>1, <1>4, <1>5, <2>2 DEF StaffInv, StaffTyped, StaffCounted, Tick
    <3> QED BY <1>5, <3>1, CountSlots DEF StaffInv, StaffTyped, NothingLost, StaffCounted
  <2> QED BY <2>1, <2>2
<1>10. NothingLost'
  BY <1>2, <1>7, <1>8, <1>9 DEF StaffInv, NothingLost
<1>11. ~crossed' => BossRemains'
  BY <1>2, <1>4, <1>5, QuietBoss DEF StaffInv
<1> QED BY <1>6, <1>10, <1>11 DEF StaffInv

LEMMA NextStaff == StaffInv /\ [Team!Next]_(Team!vars) => StaffInv'
<1> SUFFICES ASSUME StaffInv, [Team!Next]_(Team!vars) PROVE StaffInv'
  OBVIOUS
<1>1. CASE UNCHANGED Team!vars
  <2>1. UNCHANGED Team!own /\ req' = req
    BY <1>1 DEF Team!vars
  <2>2. /\ Recording' = Recording
        /\ \A u : Creating(u)' = Creating(u) /\ Linking(u)' = Linking(u)
    BY <2>1 DEF Recording, Creating, Linking, Counted, Slots
  <2>3. Team!SuperAdmins' = Team!SuperAdmins /\ \A a, set : Team!Demotes(a, set)' <=> Team!Demotes(a, set)
    BY <2>1 DEF Team!SuperAdmins, Team!Active, Team!Demotes, Team!own
  <2> QED BY <2>1, <2>2, <2>3
          DEF Team!own, StaffInv, StaffTyped, NothingLost, BossRemains, Updating, Team!At
<1> QED BY <1>1, HireStep, UpdateStep, CountOthersStep, WriteStep, LastStep, LoginStep DEF Team!Next

LEMMA StaffAreSound ==
  StaffInv => Team!NothingUnlinked /\ Team!LastSuperAdmin
<1> SUFFICES ASSUME StaffInv PROVE Team!NothingUnlinked /\ Team!LastSuperAdmin
  OBVIOUS
<1>1. ASSUME Team!AtRest
      PROVE  Recording = 0 /\ \A u : Linking(u) = 0 /\ Creating(u) = 0
  <2>1. \A w \in Workers : req[w].at = "idle"
    BY <1>1 DEF Team!AtRest, Team!Running, Team!At
  <2> QED BY <2>1, NoSlots DEF Recording, Linking, Creating
<1>2. Team!NothingUnlinked
  BY <1>1, CountSlots, SameCardinality DEF StaffInv, StaffTyped, NothingLost, Team!NothingUnlinked, Team!Overlap
<1> QED BY <1>2 DEF StaffInv, BossRemains, Team!LastSuperAdmin

(***************************************************************************)
(* The throttler.                                                          *)
(***************************************************************************)

HitJobs == [at : {"fresh", "count", "block"}]
HitsTyped == /\ hit \in [count : Nat, expired : BOOLEAN, blocked : BOOLEAN] /\ admitted \in Nat
             /\ req \in [Workers -> HitJobs \cup {Throttle!Idle}]

(* The requests about to start a window, and those about to be counted.      *)
Starting == Counted("fresh", "at", "fresh")
Counting == Counted("count", "at", "count")

(* Since the last window ended, what was let through are the hits that were  *)
(* late for it, then one rate for each request that has started a window: of *)
(* the current one no more than its count.                                   *)
HitsBounded ==
  /\ hit.expired => admitted + Counting <= Cardinality(Workers)
  /\ ~hit.expired => /\ Starting < Cardinality(Workers)
                     /\ admitted <= Cardinality(Workers) + Rate * (Cardinality(Workers) - Starting - 1)
                                      + (IF hit.count < Rate THEN hit.count ELSE Rate)
HitsInv == HitsTyped /\ HitsBounded

(* One rate more for each request.                                           *)
LEMMA RateTimes ==
  \A k \in Nat : /\ Rate * k \in Nat /\ Rate * (k + 1) \in Nat /\ Rate * (k + 1) = Rate * k + Rate
                 /\ (Rate + 1) * k = Rate * k + k
BY RateIsPositive

LEMMA InitHits == Throttle!Init => HitsInv
<1> SUFFICES ASSUME Throttle!Init PROVE HitsInv
  OBVIOUS
<1>1. HitsTyped
  BY DEF Throttle!Init, Throttle!NoRequests, HitsTyped
<1>2. Counting = 0
  <2>1. \A w \in Workers : req[w].at # "count"
    BY DEF Throttle!Init, Throttle!NoRequests, Throttle!Idle
  <2> QED BY <2>1, NoSlots DEF Counting
<1> QED BY <1>1, <1>2, CountSlots DEF Throttle!Init, HitsInv, HitsBounded

LEMMA HitSlots ==
  ASSUME HitsTyped, NEW w \in Workers, NEW job \in HitJobs \cup {Throttle!Idle}, Throttle!Become(w, job)
  PROVE  /\ Starting \in Nat /\ Starting' \in Nat /\ Counting \in Nat /\ Counting' \in Nat
         /\ Starting' = Starting + Tick(job.at = "fresh") - Tick(req[w].at = "fresh")
         /\ Counting' = Counting + Tick(job.at = "count") - Tick(req[w].at = "count")
         /\ Starting' <= Cardinality(Workers)
         /\ Starting + Counting <= Cardinality(Workers)
<1>1. Recounted(w, job)
  <2>1. req'[w] = job /\ \A v \in Workers : v # w => req'[v] = req[v]
    BY DEF HitsTyped, Throttle!Become
  <2> QED BY <2>1, SlotsMove
<1>2. Slots("fresh", "at", "fresh") \cap Slots("count", "at", "count") = {}
  BY DEF Slots
<1>3. Starting + Counting <= Cardinality(Workers)
  <2>1. /\ Slots("fresh", "at", "fresh") \in SUBSET Workers
        /\ Slots("count", "at", "count") \in SUBSET Workers
    BY DEF Slots
  <2> QED BY <1>2, <2>1, CountSlots DEF Starting, Counting, Counted
<1> QED BY <1>1, <1>3, SlotsAreFew DEF Starting, Counting, Recounted

(* The requests move and the row stays.                                      *)
LEMMA HitStep ==
  ASSUME HitsInv, NEW w \in Workers, Throttle!Hit(w)
  PROVE  HitsInv'
<1>1. UNCHANGED <<hit, admitted>> /\ req[w].at = "idle"
  BY DEF Throttle!Hit, Throttle!Start, Throttle!At, Throttle!own
<1>2. CASE hit.expired /\ Throttle!Become(w, [at |-> "fresh"])
  <2>1. [at |-> "fresh"] \in HitJobs
    BY DEF HitJobs
  <2>2. HitsTyped'
    BY <1>1, <1>2, <2>1 DEF HitsInv, HitsTyped, Throttle!Become
  <2>3. Counting' = Counting
    BY <1>1, <1>2, <2>1, HitSlots DEF HitsInv, Tick
  <2> QED BY <1>1, <1>2, <2>2, <2>3 DEF HitsInv, HitsBounded
<1>3. CASE ~hit.expired /\ Throttle!Become(w, [at |-> "count"])
  <2>1. [at |-> "count"] \in HitJobs
    BY DEF HitJobs
  <2>2. HitsTyped'
    BY <1>1, <1>3, <2>1 DEF HitsInv, HitsTyped, Throttle!Become
  <2>3. Starting' = Starting
    BY <1>1, <1>3, <2>1, HitSlots DEF HitsInv, Tick
  <2> QED BY <1>1, <1>3, <2>2, <2>3 DEF HitsInv, HitsBounded
<1> QED BY <1>2, <1>3 DEF Throttle!Hit, Throttle!Start

LEMMA FreshStep ==
  ASSUME HitsInv, NEW w \in Workers, Throttle!FreshWindow(w)
  PROVE  HitsInv'
<1>1. /\ hit' = [count |-> 1, expired |-> FALSE, blocked |-> FALSE]
      /\ admitted' = admitted + 1 /\ Throttle!Become(w, Throttle!Idle) /\ req[w].at = "fresh"
  BY DEF Throttle!FreshWindow, Throttle!At, Throttle!End
<1>2. HitsTyped'
  BY <1>1 DEF HitsInv, HitsTyped, Throttle!Become
<1>3. /\ Starting' = Starting - 1 /\ Starting \in Nat /\ Starting' \in Nat
      /\ Counting \in Nat /\ Starting + Counting <= Cardinality(Workers)
  BY <1>1, HitSlots, Throttle!Idle.at = "idle" DEF HitsInv, Throttle!Idle, Tick
<1>4. Cardinality(Workers) \in Nat /\ admitted \in Nat /\ hit.count \in Nat /\ Rate \in Nat \ {0}
  BY CountSlots, RateIsPositive DEF HitsInv, HitsTyped
<1>5. hit'.count = 1 /\ ~hit'.expired
  BY <1>1
<1>6. PICK k \in Nat : k = Cardinality(Workers) - Starting
  BY <1>3, <1>4
<1>7. Cardinality(Workers) - Starting' - 1 = k
  BY <1>3, <1>4, <1>6
<1>8. CASE hit.expired
  BY <1>1, <1>3, <1>4, <1>5, <1>6, <1>7, <1>8, <1>2, RateTimes DEF HitsInv, HitsBounded
<1>9. CASE ~hit.expired
  <2>1. PICK j \in Nat : k = j + 1
    <3>1. k > 0
      BY <1>3, <1>4, <1>6, <1>9 DEF HitsInv, HitsBounded
    <3>2. k - 1 \in Nat /\ k = (k - 1) + 1
      BY <3>1
    <3> QED BY <3>2
  <2>2. Cardinality(Workers) - Starting - 1 = j
    BY <1>3, <1>4, <1>6, <2>1
  <2>3. admitted <= Cardinality(Workers) + Rate * j + Rate
    BY <1>4, <1>9, <2>2, RateTimes DEF HitsInv, HitsBounded
  <2>4. admitted <= Cardinality(Workers) + Rate * k
    BY <1>4, <2>1, <2>3, RateTimes
  <2> QED BY <1>1, <1>2, <1>3, <1>4, <1>5, <1>6, <1>7, <2>4, RateTimes DEF HitsInv, HitsBounded
<1> QED BY <1>8, <1>9

LEMMA CountHitStep ==
  ASSUME HitsInv, NEW w \in Workers, Throttle!Count(w)
  PROVE  HitsInv'
<1>1. PICK n \in Nat : n = hit.count
  BY DEF HitsInv, HitsTyped
<1>2. /\ hit'.count = n + 1 /\ hit'.expired = hit.expired /\ req[w].at = "count"
      /\ hit' \in [count : Nat, expired : BOOLEAN, blocked : BOOLEAN]
  BY <1>1 DEF Throttle!Count, HitsInv, HitsTyped, Throttle!At
<1>3. PICK job \in HitJobs \cup {Throttle!Idle} :
        /\ Throttle!Become(w, job) /\ job.at \notin {"fresh", "count"}
        /\ admitted' = admitted + Tick(n + 1 <= Rate)
  <2>1. CASE n + 1 > Rate
    <3>1. [req[w] EXCEPT !.at = "block"] = [at |-> "block"]
      BY <1>2 DEF HitsInv, HitsTyped, HitJobs, Throttle!Idle
    <3> QED BY <1>1, <2>1, <3>1, RateIsPositive DEF Throttle!Count, Throttle!OverRate, Throttle!Go, HitJobs, Tick, HitsInv, HitsTyped
  <2>2. CASE ~(n + 1 > Rate)
    BY <1>1, <2>2, RateIsPositive, Throttle!Idle.at = "idle" DEF Throttle!Count, Throttle!OverRate, Throttle!End, Throttle!Idle, Tick
  <2> QED BY <2>1, <2>2
<1>4. HitsTyped'
  BY <1>2, <1>3 DEF HitsInv, HitsTyped, Throttle!Become, Tick
<1>5. /\ Starting' = Starting /\ Starting \in Nat
      /\ Counting' = Counting - 1 /\ Counting \in Nat
  BY <1>2, <1>3, HitSlots DEF HitsInv, Tick
<1>6. Cardinality(Workers) \in Nat /\ admitted \in Nat /\ Rate \in Nat
  BY CountSlots, RateIsPositive DEF HitsInv, HitsTyped
<1>7. CASE hit.expired
  BY <1>2, <1>3, <1>4, <1>5, <1>6, <1>7 DEF HitsInv, HitsBounded, Tick
<1>8. CASE ~hit.expired
  <2>1. PICK k \in Nat : k = Cardinality(Workers) - Starting - 1
    BY <1>5, <1>6, <1>8 DEF HitsInv, HitsBounded
  <2>2. PICK m \in Nat : m = Rate * k
    BY RateTimes
  <2>3. admitted <= Cardinality(Workers) + m + (IF n < Rate THEN n ELSE Rate)
    BY <1>1, <1>8, <2>1, <2>2 DEF HitsInv, HitsBounded
  <2>4. admitted' <= Cardinality(Workers) + m + (IF n + 1 < Rate THEN n + 1 ELSE Rate)
    BY <1>3, <1>6, <2>3 DEF Tick
  <2>5. Cardinality(Workers) - Starting' - 1 = k
    BY <1>5, <2>1
  <2> QED BY <1>2, <1>4, <1>5, <1>8, <2>2, <2>4, <2>5 DEF HitsInv, HitsBounded
<1> QED BY <1>7, <1>8

LEMMA BlockStep ==
  ASSUME HitsInv, NEW w \in Workers, Throttle!Block(w)
  PROVE  HitsInv'
<1>1. /\ hit' = [hit EXCEPT !.blocked = TRUE] /\ admitted' = admitted
      /\ Throttle!Become(w, Throttle!Idle) /\ req[w].at = "block"
  BY DEF Throttle!Block, Throttle!At, Throttle!End
<1>2. HitsTyped' /\ hit'.count = hit.count /\ hit'.expired = hit.expired
  BY <1>1 DEF HitsInv, HitsTyped, Throttle!Become
<1>3. Starting' = Starting /\ Counting' = Counting
  BY <1>1, HitSlots, Throttle!Idle.at = "idle" DEF HitsInv, Tick, Throttle!Idle
<1> QED BY <1>1, <1>2, <1>3 DEF HitsInv, HitsBounded

LEMMA NextHits == HitsInv /\ [Throttle!Next]_(Throttle!vars) => HitsInv'
<1> SUFFICES ASSUME HitsInv, [Throttle!Next]_(Throttle!vars) PROVE HitsInv'
  OBVIOUS
<1>1. CASE Throttle!WindowEnds
  <2>1. hit' = [hit EXCEPT !.expired = TRUE] /\ admitted' = 0 /\ req' = req
    BY <1>1 DEF Throttle!WindowEnds
  <2>2. HitsTyped' /\ hit'.expired
    BY <2>1 DEF HitsInv, HitsTyped
  <2>3. Counting' \in Nat /\ Counting' <= Cardinality(Workers)
    BY SlotsAreFew DEF Counting
  <2> QED BY <2>1, <2>2, <2>3 DEF HitsInv, HitsBounded
<1>2. CASE UNCHANGED Throttle!vars
  BY <1>2 DEF Throttle!vars, Throttle!own, HitsInv, HitsTyped, HitsBounded, Starting, Counting, Counted, Slots
<1> QED BY <1>1, <1>2, HitStep, FreshStep, CountHitStep, BlockStep DEF Throttle!Next

LEMMA HitsAreLimited == HitsInv => Throttle!RateKept
<1> SUFFICES ASSUME HitsInv PROVE Throttle!RateKept
  OBVIOUS
<1>1. /\ Cardinality(Workers) \in Nat /\ admitted \in Nat /\ hit.count \in Nat /\ Rate \in Nat \ {0}
      /\ Starting \in Nat /\ Counting \in Nat
  BY CountSlots, RateIsPositive, SlotsAreFew DEF HitsInv, HitsTyped, Starting, Counting
<1>2. PICK m \in Nat : m = Rate * Cardinality(Workers)
  BY <1>1, RateTimes
<1>3. admitted <= Cardinality(Workers) + m
  <2>1. CASE hit.expired
    BY <1>1, <2>1 DEF HitsInv, HitsBounded
  <2>2. CASE ~hit.expired
    <3>1. PICK k \in Nat : k = Cardinality(Workers) - Starting - 1
      BY <1>1, <2>2 DEF HitsInv, HitsBounded
    <3>2. admitted <= Cardinality(Workers) + Rate * (k + 1)
      BY <1>1, <2>2, <3>1, RateTimes DEF HitsInv, HitsBounded
    <3>3. Rate * (k + 1) <= m
      <4>1. PICK j \in Nat : Cardinality(Workers) = k + 1 + j /\ j = Starting
        BY <1>1, <3>1
      <4>2. Rate * Cardinality(Workers) = Rate * (k + 1) + Rate * j
        BY <1>1, <4>1
      <4> QED BY <1>1, <1>2, <4>2, RateTimes
    <3> QED BY <1>1, <3>2, <3>3, RateTimes
  <2> QED BY <2>1, <2>2
<1> QED BY <1>1, <1>2, <1>3, RateTimes, SameCardinality DEF Throttle!RateKept

(***************************************************************************)
(* The components together.  A behaviour is about one of them, whose       *)
(* invariant holds; the rows of the others stay as they were created.      *)
(***************************************************************************)

allVars == <<focus, sessionRows, signupRows, profileRows, staffRows, hitRows, req>>

SessionsKept == focus = "sessions" => SessionInv
SignupKept ==
  /\ focus = "signup" => BonusInv /\ CodesInv
  /\ focus # "signup" => Sign!BonusOnce /\ Sign!CodeLimits
ThrottlerKept ==
  /\ focus = "throttler" => HitsInv
  /\ focus # "throttler" => Throttle!RateKept
ProfileKept ==
  /\ focus = "profile" => ProfileInv
  /\ focus # "profile" => /\ Self!DefaultAddress /\ points + Self!Overlap * MaxRedeem >= 0
                          /\ points + credited + lost = Points /\ rating = Cardinality(reviewed)
StaffKept ==
  /\ focus = "staff" => StaffInv
  /\ focus # "staff" => /\ Team!LastSuperAdmin
                        /\ changes - audit <= dead
                        /\ \A u \in Outlets : logins[u] <= 1 + Team!Overlap + dead

LEMMA FocusStays ==
  ASSUME [Next]_allVars
  PROVE  /\ focus' = focus
         /\ focus = "sessions" => [Session!Next]_(Session!vars)
         /\ focus = "signup" => [Sign!Next]_(Sign!vars)
         /\ focus # "signup" => UNCHANGED signupRows
         /\ focus = "profile" => [Self!Next]_(Self!vars)
         /\ focus # "profile" => UNCHANGED profileRows
         /\ focus = "staff" => [Team!Next]_(Team!vars)
         /\ focus # "staff" => UNCHANGED staffRows
         /\ focus = "throttler" => [Throttle!Next]_(Throttle!vars)
         /\ focus # "throttler" => UNCHANGED hitRows
<1>1. CASE UNCHANGED allVars
  BY <1>1 DEF allVars, sessionRows, signupRows, profileRows, staffRows, hitRows, Session!vars, Session!own,
              Sign!vars, Sign!own, Self!vars, Self!own, Team!vars, Team!own, Throttle!vars, Throttle!own
<1>2. CASE Next
  BY <1>2 DEF Next
<1> QED BY <1>1, <1>2

LEMMA InitKept ==
  Init => SessionsKept /\ SignupKept /\ ThrottlerKept /\ ProfileKept /\ StaffKept
<1> SUFFICES ASSUME Init PROVE SessionsKept /\ SignupKept /\ ThrottlerKept /\ ProfileKept /\ StaffKept
  OBVIOUS
<1>1. SessionsKept
  BY InitSessions DEF Init, SessionsKept
<1>2. SignupKept
  <2>1. BonusInv /\ CodesInv
    BY InitBonus, InitCodes DEF Init
  <2> QED BY <2>1, CodesAreLimited DEF SignupKept, BonusInv, BonusGrounded, Sign!BonusOnce
<1>3. ThrottlerKept
  BY InitHits, HitsAreLimited DEF Init, ThrottlerKept
<1>4. ProfileKept
  <2>1. ProfileInv
    BY InitProfile DEF Init
  <2>2. Self!DefaultAddress /\ points + Self!Overlap * MaxRedeem >= 0
    BY <2>1, ProfileIsSound DEF Self!PointsKept
  <2>3. points + credited + lost = Points
    BY PointsAreNat DEF Init, Self!Init
  <2>4. rating = Cardinality(reviewed)
    BY FS_EmptySet DEF Init, Self!Init
  <2> QED BY <2>1, <2>2, <2>3, <2>4 DEF ProfileKept
<1>5. StaffKept
  <2>1. StaffInv
    BY InitStaff DEF Init
  <2>2. Team!AtRest
    BY DEF Init, Team!Init, Team!NoRequests, Team!AtRest, Team!Running, Team!At, Team!Idle
  <2> QED BY <2>1, <2>2, StaffAreSound DEF StaffKept, Team!NothingUnlinked
<1> QED BY <1>1, <1>2, <1>3, <1>4, <1>5

LEMMA NextSignup == SignupKept /\ [Next]_allVars => SignupKept'
<1> SUFFICES ASSUME SignupKept, [Next]_allVars PROVE SignupKept'
  OBVIOUS
<1>1. CASE focus = "signup"
  BY <1>1, FocusStays, NextBonus, NextCodes DEF SignupKept, BonusInv
<1>2. CASE focus # "signup"
  BY <1>2, FocusStays DEF SignupKept, signupRows, Sign!BonusOnce, Sign!CodeLimits, Sign!InWindow
<1> QED BY <1>1, <1>2

LEMMA NextThrottler == ThrottlerKept /\ [Next]_allVars => ThrottlerKept'
BY FocusStays, NextHits DEF ThrottlerKept, hitRows, Throttle!RateKept

LEMMA NextOfProfile == ProfileKept /\ [Next]_allVars => ProfileKept'
<1> SUFFICES ASSUME ProfileKept, [Next]_allVars PROVE ProfileKept'
  OBVIOUS
<1>1. CASE focus = "profile"
  BY <1>1, FocusStays, NextProfile DEF ProfileKept
<1>2. CASE focus # "profile"
  BY <1>2, FocusStays DEF ProfileKept, profileRows, Self!DefaultAddress
<1> QED BY <1>1, <1>2

LEMMA NextOfStaff == StaffKept /\ [Next]_allVars => StaffKept'
<1> SUFFICES ASSUME StaffKept, [Next]_allVars PROVE StaffKept'
  OBVIOUS
<1>1. CASE focus = "staff"
  BY <1>1, FocusStays, NextStaff DEF StaffKept
<1>2. CASE focus # "staff"
  BY <1>2, FocusStays DEF StaffKept, staffRows, Team!LastSuperAdmin, Team!SuperAdmins, Team!Active
<1> QED BY <1>1, <1>2

(* However often a session is refreshed, interrupted or reused (AuthService  *)
(* refresh and issueTokens, the web client's request), a login has one       *)
(* refresh token that works, unless two refreshes rotated the same one, and  *)
(* the browser is not left with a rotated one, unless an answer was lost.    *)
THEOREM SessionsAreKept == Spec => []SessionsSound
<1>1. SessionsKept /\ [Next]_allVars => SessionsKept'
  BY FocusStays, NextSessions DEF SessionsKept
<1>2. SessionsKept => SessionsSound
  BY SessionsAreSound DEF SessionsKept, SessionsSound
<1> QED BY InitKept, <1>1, <1>2, PTL DEF Spec, allVars

(* Whatever ways to an account overlap, are repeated or die half-way         *)
(* (createUserWithReferral and its callers), each side of a referral is paid *)
(* once at most, and the referrer never before the referee.                  *)
THEOREM BonusPaidOnce == Spec => []BonusOnce
<1>1. SignupKept => BonusOnce
  BY DEF SignupKept, BonusInv, BonusGrounded, BonusOnce, Sign!BonusOnce
<1> QED BY InitKept, NextSignup, <1>1, PTL DEF Spec, allVars

(* The codes sent in a window, the guesses at a code and the times a code is *)
(* accepted (OtpService) overrun their limits by no more than the requests   *)
(* in flight; the throttler lets through its rate and one call, as many      *)
(* times in a window as requests were in flight when it began.               *)
THEOREM LimitsAreKept == Spec => []LimitsKept
<1>1. SignupKept /\ ThrottlerKept => LimitsKept
  BY CodesAreLimited, HitsAreLimited DEF SignupKept, ThrottlerKept, LimitsKept
<1> QED BY InitKept, NextSignup, NextThrottler, <1>1, PTL DEF Spec, allVars

(* Default addresses and points (UsersService addAddress and                 *)
(* redeemLoyaltyPoints) go wrong by no more than requests that overlap, and  *)
(* ratings (ReviewsService createForOrder) until a review runs alone.        *)
THEOREM ProfileStaysSound == Spec => []ProfileSound
<1>1. ProfileKept => ProfileSound
  BY ProfileIsSound, SameCardinality DEF ProfileKept, ProfileSound, Self!PointsKept, Self!RatingExact
<1> QED BY InitKept, NextOfProfile, <1>1, PTL DEF Spec, allVars

(* An update takes the last active Super Admin away only if staff changed    *)
(* between its check and its write (StaffService.update).                    *)
THEOREM LastSuperAdminStays == Spec => []LastSuperAdmin
<1>1. StaffKept => LastSuperAdmin
  BY StaffAreSound DEF StaffKept, LastSuperAdmin
<1> QED BY InitKept, NextOfStaff, <1>1, PTL DEF Spec, allVars

(* A staff change that is not in the audit log, or a login that no rider or  *)
(* restaurant is linked to, is left by requests that died or overlapped only *)
(* (StaffService create and update, createAccount, createOwnerAccount).      *)
THEOREM NothingStaysUnlinked == Spec => []NothingUnlinked
<1>1. StaffKept => NothingUnlinked
  BY StaffAreSound DEF StaffKept, NothingUnlinked, Team!NothingUnlinked
<1> QED BY InitKept, NextOfStaff, <1>1, PTL DEF Spec, allVars
=============================================================================
