------------------------------ MODULE Accounts ------------------------------
(* The components around a user's account.  They share the API's request     *)
(* slots and no rows; a behaviour is about one of them, its focus.           *)
EXTENDS Handlers

CONSTANTS Browsers, Window, MaxTokens, MaxEvents,                    \* see Sessions
          Emails, Referred, Limit, MaxTries, MaxCodes, MaxAges,      \* see Signup
          Addresses, Reviewable, Points, MaxRedeem, MaxRequests,     \* see Profile
          Admins, Boss, Outlets, MaxCalls, MaxDead,                  \* see Staff
          Rate, MaxWindows, MaxHits                                  \* see Throttler

(* Limits are numbers, of calls at least one.  The boss the seed creates is  *)
(* an admin, and "none", which stands for no address, is nobody's address.   *)
ASSUME TokensAreNat == MaxTokens \in Nat
ASSUME LimitsAreNat == {Limit, MaxTries, MaxCodes} \subseteq Nat
ASSUME NoneIsNoEmail == "none" \notin Emails
ASSUME PointsAreNat == {Points, MaxRedeem} \subseteq Nat
ASSUME BossIsAdmin == Boss \in Admins
ASSUME RateIsPositive == Rate \in Nat \ {0}

VARIABLES focus,
          token, issued, store, active, cut, raced, events,
          code, created, account, bonus, accepted, ages,
          address, points, credited, reviewed, rating, disturbed, lost, requests,
          staff, audit, changes, logins, linked, crossed, dead, calls,
          hit, windows, admitted

Session  == INSTANCE Sessions
Sign     == INSTANCE Signup
Self     == INSTANCE Profile
Team     == INSTANCE Staff
Throttle == INSTANCE Throttler

sessionRows == <<token, issued, store, active, cut, raced, events>>
signupRows  == <<code, created, account, bonus, accepted, ages>>
profileRows == <<address, points, credited, reviewed, rating, disturbed, lost, requests>>
staffRows   == <<staff, audit, changes, logins, linked, crossed, dead, calls>>
hitRows     == <<hit, windows, admitted>>

Init == /\ focus \in {"sessions", "signup", "profile", "staff", "throttler"}
        /\ Session!Init /\ Sign!Init /\ Self!Init /\ Team!Init /\ Throttle!Init

Next ==
  /\ UNCHANGED focus
  /\ \/ /\ focus = "sessions" /\ Session!Next
        /\ UNCHANGED <<signupRows, profileRows, staffRows, hitRows>>
     \/ /\ focus = "signup" /\ Sign!Next
        /\ UNCHANGED <<sessionRows, profileRows, staffRows, hitRows>>
     \/ /\ focus = "profile" /\ Self!Next
        /\ UNCHANGED <<sessionRows, signupRows, staffRows, hitRows>>
     \/ /\ focus = "staff" /\ Team!Next
        /\ UNCHANGED <<sessionRows, signupRows, profileRows, hitRows>>
     \/ /\ focus = "throttler" /\ Throttle!Next
        /\ UNCHANGED <<sessionRows, signupRows, profileRows, staffRows>>

Spec == Init /\ [][Next]_<<focus, sessionRows, signupRows, profileRows, staffRows, hitRows, req>>

(* Rows keep their types: each component's own invariant.                    *)
TypeOK == /\ Session!TypeOK /\ Sign!TypeOK /\ Self!TypeOK /\ Team!TypeOK /\ Throttle!TypeOK

(* A login has one refresh token that works, unless two refreshes rotated    *)
(* the same one, and the browser holds none that was rotated away, unless an *)
(* answer was lost: rotation never leaves a thief's copy alive nor takes the *)
(* owner for the thief.                                                      *)
SessionsSound == focus = "sessions" => Session!OneLivePerLogin /\ Session!NoStaleToken

(* Limits that are checked in one statement and used up in another: codes in *)
(* a window, wrong guesses and uses of a code go over by the requests that   *)
(* overlap, and the throttle lets through its rate for each of them.         *)
LimitsKept == Sign!CodeLimits /\ Throttle!RateKept

(* A referral pays each side once at most, the referrer last.                *)
BonusOnce == Sign!BonusOnce

(* Points and default addresses, which requests read and write in separate   *)
(* statements, go wrong by no more than the requests that overlap, and the   *)
(* next review that runs alone sets a rating right.                          *)
ProfileSound == Self!DefaultAddress /\ Self!PointsKept /\ Self!RatingExact

(* "Never allow the last active Super Admin to be demoted/blocked": an       *)
(* update does so only if the staff changed between its check and its write. *)
LastSuperAdmin == Team!LastSuperAdmin

(* A staff change without its audit row, or a login nobody is linked to, is  *)
(* left by requests that died or overlapped only.                            *)
NothingUnlinked == Team!NothingUnlinked
=============================================================================
