------------------------------- MODULE Signup -------------------------------
(* One-time codes and the ways to an account (apps/api/src/auth/): requestOtp *)
(* and consumeOtp with their limits, verifyOtp, the two-step registration,   *)
(* register, googleLogin, the password reset, and the referral bonuses.      *)
(* Tokens are in Sessions.                                                   *)
EXTENDS Handlers

CONSTANTS Emails,       \* the identifiers of accounts
          Referred,     \* those whose owners were given a referral code
          Limit,        \* codes per identifier and window (5)
          MaxTries,     \* OTP_MAX_VERIFY_ATTEMPTS (5)
          MaxCodes,     \* bound: codes ever created
          MaxAges       \* bound: steps of the clock

Codes == 1 .. MaxCodes   \* Otp rows, in the order of createdAt

VARIABLES code,      \* the Otp rows
          created,   \* the number of rows
          account,   \* the User rows by email, and whether somebody referred them
          bonus,     \* WalletTransaction rows: the new user's, and their referrer's
          accepted,  \* how often each code has been consumed
          ages

own == <<code, created, account, bonus, accepted, ages>>
vars == <<own, req>>

NoCode == [email |-> "none", consumed |-> FALSE, attempts |-> 0, age |-> 0, pending |-> FALSE]
NoAccount == [exists |-> FALSE, referred |-> FALSE]

(* age: 0 valid, 1 expired but in the window that is counted, 2 older.       *)
TypeOK ==
  /\ code \in [Codes -> [email : Emails \cup {"none"}, consumed : BOOLEAN, attempts : Nat,
                         age : 0 .. 2, pending : BOOLEAN]]
  /\ created \in 0 .. MaxCodes
  /\ account \in [Emails -> [exists : BOOLEAN, referred : BOOLEAN]]
  /\ bonus \in [Emails -> [referee : Nat, referrer : Nat]]
  /\ accepted \in [Codes -> Nat]

Init == /\ code = [c \in Codes |-> NoCode] /\ created = 0
        /\ account = [e \in Emails |-> NoAccount]
        /\ bonus = [e \in Emails |-> [referee |-> 0, referrer |-> 0]]
        /\ accepted = [c \in Codes |-> 0]
        /\ ages = 0
        /\ NoRequests

InWindow(e) == {c \in Codes : code[c].email = e /\ code[c].age < 2}
Open(e) == {c \in Codes : code[c].email = e /\ ~code[c].consumed}
Latest(S) == CHOOSE c \in S : \A d \in S : d <= c

(* Each kind of request: the statement it starts with.                       *)
First == [request |-> "count", requestReset |-> "known", requestRegistration |-> "taken",
          verify |-> "find", reset |-> "find", verifyRegistration |-> "find",
          register |-> "taken", google |-> "lookup"]
Kinds == DOMAIN First

(* Whether the code that is sent is the one asked for.                       *)
Request(w, e, kind, right) ==
  /\ kind \notin {"verify", "reset", "verifyRegistration"} => right
  /\ Start(w, [at |-> First[kind], e |-> e, kind |-> kind, right |-> right, c |-> 0])
  /\ UNCHANGED own

(***************************************************************************)
(* requestOtp, and its copy in requestRegistrationOtp.                     *)
(***************************************************************************)

Known(w) == /\ At(w, "known")
            /\ IF account[req[w].e].exists THEN Go(w, "count") ELSE End(w)
            /\ UNCHANGED own

CountCodes(w) ==
  /\ At(w, "count")
  /\ IF Cardinality(InWindow(req[w].e)) >= Limit THEN End(w) ELSE Go(w, "create")
  /\ UNCHANGED own

CreateCode(w) ==
  /\ At(w, "create") /\ created < MaxCodes
  /\ created' = created + 1
  /\ code' = [code EXCEPT ![created'] = [NoCode EXCEPT
                !.email = req[w].e, !.pending = req[w].kind = "requestRegistration"]]
  /\ End(w)
  /\ UNCHANGED <<account, bonus, accepted, ages>>

(***************************************************************************)
(* consumeOtp.                                                             *)
(***************************************************************************)

FindCode(w) ==
  /\ At(w, "find")
  /\ LET open == Open(req[w].e) IN
       IF open = {} \/ (open # {} /\ code[Latest(open)].age > 0) THEN End(w)
       ELSE LET c == Latest(open) IN
              Become(w, [req[w] EXCEPT !.c = c, !.at =
                           IF code[c].attempts >= MaxTries THEN "burn"
                           ELSE IF req[w].right THEN "consume" ELSE "miss"])
  /\ UNCHANGED own

Miss(w) == /\ At(w, "miss")
           /\ code' = [code EXCEPT ![req[w].c].attempts = @ + 1]
           /\ End(w)
           /\ UNCHANGED <<created, account, bonus, accepted, ages>>

(* Slip: too many wrong codes leave the code open.                           *)
BurnNot(w) == At(w, "burn") /\ Go(w, "miss") /\ UNCHANGED own

Burn(w) == /\ At(w, "burn")
           /\ code' = [code EXCEPT ![req[w].c].consumed = TRUE]
           /\ End(w)
           /\ UNCHANGED <<created, account, bonus, accepted, ages>>

(* What the caller goes on with: the reset only writes the password.         *)
Consume(w) ==
  /\ At(w, "consume")
  /\ LET c == req[w].c IN
       /\ code' = [code EXCEPT ![c].consumed = TRUE]
       /\ accepted' = [accepted EXCEPT ![c] = @ + 1]
       /\ IF req[w].kind = "reset"
             \/ (req[w].kind = "verifyRegistration" /\ ~code[c].pending)
          THEN End(w) ELSE Go(w, IF req[w].kind = "verify" THEN "lookup" ELSE "taken")
  /\ UNCHANGED <<created, account, bonus, ages>>

(***************************************************************************)
(* Accounts.                                                               *)
(***************************************************************************)

(* verifyOtp and googleLogin take the account that is there.                 *)
LookupUser(w) == /\ At(w, "lookup")
                 /\ IF account[req[w].e].exists THEN End(w) ELSE Go(w, "insert")
                 /\ UNCHANGED own

(* The ways that register refuse an account that is there.  (A phone that is *)
(* taken ends them like a Crash.  So does a referral code that is wrong,     *)
(* except in googleLogin, which ignores it.)                                 *)
CheckFree(w) ==
  /\ At(w, "taken")
  /\ IF account[req[w].e].exists THEN End(w)
     ELSE Go(w, IF req[w].kind = "requestRegistration" THEN "count" ELSE "insert")
  /\ UNCHANGED own

(* verifyOtp takes no referral code.                                         *)
BringsReferral(w) == req[w].e \in Referred /\ req[w].kind # "verify"

(* Slip: a row that has come in between is overwritten.                      *)
InsertUserTwice(w) ==
  /\ At(w, "insert")
  /\ account' = [account EXCEPT ![req[w].e] = [exists |-> TRUE, referred |-> BringsReferral(w)]]
  /\ IF BringsReferral(w) THEN Go(w, "referee") ELSE End(w)
  /\ UNCHANGED <<code, created, bonus, accepted, ages>>

(* The unique key refuses a row that has come in between.                    *)
InsertUser(w) ==
  /\ At(w, "insert")
  /\ LET e == req[w].e IN
       IF account[e].exists THEN account' = account /\ End(w)
       ELSE /\ account' = [account EXCEPT ![e] = [exists |-> TRUE, referred |-> BringsReferral(w)]]
            /\ IF BringsReferral(w) THEN Go(w, "referee") ELSE End(w)
  /\ UNCHANGED <<code, created, bonus, accepted, ages>>

CreditReferee(w) ==
  /\ At(w, "referee")
  /\ bonus' = [bonus EXCEPT ![req[w].e].referee = @ + 1]
  /\ Go(w, "referrer")
  /\ UNCHANGED <<code, created, account, accepted, ages>>

CreditReferrer(w) ==
  /\ At(w, "referrer")
  /\ bonus' = [bonus EXCEPT ![req[w].e].referrer = @ + 1]
  /\ End(w)
  /\ UNCHANGED <<code, created, account, accepted, ages>>

(* Time passes for a code: it expires, then it leaves the window.            *)
Age(c) == /\ ages < MaxAges /\ ages' = ages + 1
          /\ c <= created /\ code[c].age < 2
          /\ \A d \in Codes : d < c => code[d].age > code[c].age
          /\ code' = [code EXCEPT ![c].age = @ + 1]
          /\ UNCHANGED <<created, account, bonus, accepted, req>>

Crash(w) == Running(w) /\ End(w) /\ UNCHANGED own

Step(w) == \/ Known(w) \/ CountCodes(w) \/ CreateCode(w)
           \/ FindCode(w) \/ Miss(w) \/ Burn(w) \/ Consume(w)
           \/ LookupUser(w) \/ CheckFree(w) \/ InsertUser(w)
           \/ CreditReferee(w) \/ CreditReferrer(w)

Next == \/ \E w \in Workers :
             \/ \E e \in Emails, k \in Kinds, right \in BOOLEAN : Request(w, e, k, right)
             \/ Step(w) \/ Crash(w)
        \/ \E c \in Codes : Age(c)

Spec == Init /\ [][Next]_vars

(***************************************************************************)
(* Properties.                                                             *)
(***************************************************************************)

Overlap == Cardinality(Workers) - 1

(* The limits on codes are checked in one statement and used up in another:  *)
(* each is overrun by no more than the requests that overlap.  Codes sent in *)
(* one window, wrong guesses at a code, and uses of a code.                  *)
CodeLimits ==
  /\ \A e \in Emails : Cardinality(InWindow(e)) <= Limit + Overlap
  /\ \A c \in Codes : code[c].attempts <= MaxTries + Overlap /\ accepted[c] <= 1 + Overlap

(* However the ways to an account overlap, are repeated or die, a referral   *)
(* pays each side once at most, and the referrer never before the referee.   *)
BonusOnce ==
  \A e \in Emails :
    /\ bonus[e].referrer <= bonus[e].referee
    /\ bonus[e].referee <= IF account[e].referred THEN 1 ELSE 0
=============================================================================
