------------------------------ MODULE Sessions ------------------------------
(* The sessions of one user: AuthService.issueTokens, refresh, logout,       *)
(* logoutAll and resetPassword, the guard JwtStrategy, and the web client    *)
(* (apps/web/src/lib/api.ts and auth-context.tsx), which keeps both tokens   *)
(* in the browser's storage and refreshes when a call is answered 401.  A    *)
(* request slot holds a call from the browser's fetch to its last statement. *)
EXTENDS Handlers

CONSTANTS Browsers,
          Window,        \* the revoked tokens that are searched for a reuse (20)
          MaxTokens,     \* bound: refresh tokens ever issued
          MaxEvents      \* bound: expiries, blocks, resets and lost answers

Tokens == 1 .. MaxTokens   \* RefreshToken rows, in the order of createdAt

VARIABLES token,    \* the status of each row, and the login it descends from
          issued,   \* the number of rows
          store,    \* localStorage of each browser
          active,   \* is User.status ACTIVE?
          cut,      \* the browsers that have lost an answer since they logged in
          raced,    \* the logins with a token that two refreshes have rotated
          events

own == <<token, issued, store, active, cut, raced, events>>
vars == <<own, req>>

NoTokens == [access |-> "none", refresh |-> 0]

(* A revoked row is either rotated away or closed by a sign-out.             *)
TypeOK ==
  /\ token \in [Tokens -> [status : {"none", "live", "rotated", "closed", "expired"},
                           family : 0 .. MaxTokens]]
  /\ issued \in 0 .. MaxTokens
  /\ store \in [Browsers -> [access : {"none", "fresh", "stale"}, refresh : 0 .. MaxTokens]]
  /\ active \in BOOLEAN /\ events \in 0 .. MaxEvents
  /\ cut \subseteq Browsers /\ raced \subseteq 0 .. MaxTokens

Init == /\ token = [t \in Tokens |-> [status |-> "none", family |-> 0]]
        /\ issued = 0
        /\ store = [b \in Browsers |-> NoTokens]
        /\ active = TRUE /\ cut = {} /\ raced = {} /\ events = 0
        /\ NoRequests

(***************************************************************************)
(* The browser's side.                                                     *)
(***************************************************************************)

Quiet(b) == ~\E w \in Workers : Running(w) /\ req[w].b = b
Fetch(w, b, stage, kind, access, refresh) ==
  Start(w, [at |-> stage, b |-> b, kind |-> kind, retry |-> TRUE, access |-> access,
            token |-> refresh])

(* login, register, googleLogin, passwordLogin: credentials that are right.  *)
Login(w, b) == /\ active /\ issued < MaxTokens
               /\ Fetch(w, b, "issue", "login", "none", 0)
               /\ UNCHANGED own

(* request(): "api" needs a session, "wrong" is a login that answers 401.    *)
Call(w, b, kind) == /\ kind # "wrong" => store[b].access # "none"
                    /\ Fetch(w, b, "guard", kind, IF kind = "wrong" THEN "none" ELSE store[b].access, 0)
                    /\ UNCHANGED own

Logout(w, b) == /\ store[b].refresh # 0
                /\ Fetch(w, b, "logout", "logout", "none", store[b].refresh)
                /\ UNCHANGED own

Clear(b) == store' = [store EXCEPT ![b] = NoTokens]

(* JwtStrategy reads the user on every call.                                 *)
Guard(w) ==
  /\ At(w, "guard")
  /\ IF req[w].kind # "wrong" /\ req[w].access = "fresh" /\ active
     THEN IF req[w].kind = "logoutAll" THEN Go(w, "signOutAll") ELSE End(w)
     ELSE Go(w, "unauthorized")
  /\ UNCHANGED own

(* A 401: one refresh with the stored token, or the storage is cleared.      *)
Unauthorized(w) ==
  /\ At(w, "unauthorized")
  /\ LET b == req[w].b IN
       IF req[w].retry /\ store[b].refresh # 0
       THEN /\ Become(w, [req[w] EXCEPT !.at = "lookup", !.token = store[b].refresh])
            /\ store' = store
       ELSE /\ End(w)
            /\ IF req[w].retry THEN Clear(b) ELSE store' = store
  /\ UNCHANGED <<token, issued, active, cut, raced, events>>

(* setTokens; a refreshed call is made once more.                            *)
Answer(w) ==
  /\ At(w, "answer")
  /\ LET b == req[w].b IN
       /\ store' = [store EXCEPT ![b] = [access |-> "fresh", refresh |-> req[w].token]]
       /\ cut' = IF req[w].kind = "login" THEN cut \ {b} ELSE cut
       /\ IF req[w].kind = "login" THEN End(w)
          ELSE Become(w, [req[w] EXCEPT !.at = "guard", !.retry = FALSE, !.access = "fresh"])
  /\ UNCHANGED <<token, issued, active, raced, events>>

(* The refresh was refused, or the logout has been answered.                 *)
SignedOut(w) == /\ At(w, "refused")
                /\ Clear(req[w].b) /\ End(w)
                /\ UNCHANGED <<token, issued, active, cut, raced, events>>

(***************************************************************************)
(* AuthService, one action per statement.                                  *)
(***************************************************************************)

Live(t) == token[t].status = "live"
Revoked == {t \in Tokens : token[t].status \in {"rotated", "closed"}}
Newest(S) == {t \in S : Cardinality({u \in S : u > t}) < Window}
CloseAll == [t \in Tokens |-> IF Live(t) THEN [token[t] EXCEPT !.status = "closed"] ELSE token[t]]

(* An expired JWT ends the request before the table is read.                 *)
Lookup(w) ==
  /\ At(w, "lookup")
  /\ LET t == req[w].token IN
       Go(w, IF Live(t) THEN "rotate"
             ELSE IF token[t].status = "expired" THEN "refused" ELSE "search")
  /\ UNCHANGED own

SearchRevoked(w) ==
  /\ At(w, "search")
  /\ Go(w, IF req[w].token \in Newest(Revoked) THEN "close" ELSE "refused")
  /\ UNCHANGED own

(* The family of a reused token, or logoutAll.                               *)
Close(w) ==
  /\ At(w, "close") \/ At(w, "signOutAll")
  /\ token' = CloseAll
  /\ IF At(w, "close") THEN Go(w, "refused") ELSE End(w)
  /\ UNCHANGED <<issued, store, active, cut, raced, events>>

(* The row is updated by its id, whatever another refresh has done to it     *)
(* since it was found; the login is remembered then.                         *)
Race(t) == raced' = IF token[t].status = "rotated" THEN raced \cup {token[t].family} ELSE raced

(* Slip: the old token is revoked only when the user turns out blocked.      *)
RotateLate(w) ==
  /\ At(w, "rotate")
  /\ token' = IF active THEN token ELSE [token EXCEPT ![req[w].token].status = "rotated"]
  /\ Race(req[w].token)
  /\ Go(w, "check")
  /\ UNCHANGED <<issued, store, active, cut, events>>

Rotate(w) ==
  /\ At(w, "rotate")
  /\ token' = [token EXCEPT ![req[w].token].status = "rotated"]
  /\ Race(req[w].token)
  /\ Go(w, "check")
  /\ UNCHANGED <<issued, store, active, cut, events>>

CheckUser(w) ==
  /\ At(w, "check")
  /\ Go(w, IF active THEN "issue" ELSE "refused")
  /\ UNCHANGED own

Issue(w) ==
  /\ At(w, "issue") /\ issued < MaxTokens
  /\ issued' = issued + 1
  /\ token' = [token EXCEPT ![issued'] =
                 [status |-> "live",
                  family |-> IF req[w].kind = "login" THEN issued' ELSE token[req[w].token].family]]
  /\ Become(w, [req[w] EXCEPT !.at = "answer", !.token = issued'])
  /\ UNCHANGED <<store, active, cut, raced, events>>

(* logout finds the row among those that are not revoked, then updates it.   *)
FindLogout(w) ==
  /\ At(w, "logout")
  /\ Go(w, IF Live(req[w].token) THEN "closeOne" ELSE "refused")
  /\ UNCHANGED own

LogoutToken(w) ==
  /\ At(w, "closeOne")
  /\ token' = [token EXCEPT ![req[w].token].status = IF @ = "rotated" THEN @ ELSE "closed"]
  /\ Go(w, "refused")
  /\ UNCHANGED <<issued, store, active, cut, raced, events>>

(***************************************************************************)
(* What happens meanwhile.                                                 *)
(***************************************************************************)

Event == events < MaxEvents /\ events' = events + 1

(* The process dies or the network does: fetch throws, the storage stays.    *)
Lose(w) == /\ Event /\ Running(w)
           /\ cut' = cut \cup {req[w].b}
           /\ End(w)
           /\ UNCHANGED <<token, issued, store, active, raced>>
AccessExpires(b) == /\ Event /\ store[b].access = "fresh"
                    /\ store' = [store EXCEPT ![b].access = "stale"]
                    /\ UNCHANGED <<token, issued, active, cut, raced, req>>
RefreshExpires(t) == /\ Event /\ Live(t)
                     /\ token' = [token EXCEPT ![t].status = "expired"]
                     /\ UNCHANGED <<issued, store, active, cut, raced, req>>
Block == /\ Event /\ active' = ~active
         /\ UNCHANGED <<token, issued, store, cut, raced, req>>
(* resetPassword revokes in the transaction that writes the password.        *)
ResetPassword == /\ Event /\ active
                 /\ token' = CloseAll
                 /\ UNCHANGED <<issued, store, active, cut, raced, req>>

Next == \/ \E w \in Workers :
             \/ \E b \in Browsers : \/ Login(w, b) \/ Logout(w, b)
                                    \/ \E k \in {"api", "wrong", "logoutAll"} : Call(w, b, k)
             \/ Guard(w) \/ Unauthorized(w) \/ Answer(w) \/ SignedOut(w)
             \/ Lookup(w) \/ SearchRevoked(w) \/ Close(w) \/ Rotate(w) \/ CheckUser(w)
             \/ Issue(w) \/ FindLogout(w) \/ LogoutToken(w) \/ Lose(w)
        \/ \E b \in Browsers : AccessExpires(b)
        \/ \E t \in Tokens : RefreshExpires(t)
        \/ Block \/ ResetPassword

Spec == Init /\ [][Next]_vars

(***************************************************************************)
(* Properties.  Calls of one browser overlap as they like: nothing in api.ts *)
(* keeps two that are answered 401 from refreshing with the same token.      *)
(***************************************************************************)

(* However often a session is refreshed, is interrupted or is reused, one    *)
(* login has at most one refresh token that works, unless two refreshes      *)
(* have found one token live and both rotated it.                            *)
OneLivePerLogin ==
  \A s, t \in Tokens :
    Live(s) /\ Live(t) /\ token[s].family = token[t].family /\ token[s].family \notin raced => s = t

(* A browser that is waiting for nothing never holds a token that has been   *)
(* rotated away (its next refresh would be taken for a theft and end every   *)
(* session), unless an answer was lost.                                      *)
NoStaleToken ==
  \A b \in Browsers : Quiet(b) /\ b \notin cut /\ store[b].refresh # 0 =>
    token[store[b].refresh].status # "rotated"
=============================================================================
