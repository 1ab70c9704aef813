------------------------------ MODULE Throttler -----------------------------
(* PrismaThrottlerStorage.increment: the hits of one key are counted in a    *)
(* row of the database that every instance of the API shares.  A request     *)
(* takes less time than a window lasts.                                      *)
EXTENDS Handlers

CONSTANTS Rate,       \* calls per window
          MaxWindows, \* bound: windows
          MaxHits     \* bound: calls in one window

VARIABLES hit,        \* the ThrottleHit row, and whether its window has ended
          windows,    \* windows that have ended
          admitted    \* the calls let through since the last one ended

own == <<hit, windows, admitted>>
vars == <<own, req>>

TypeOK == /\ hit \in [count : Nat, expired : BOOLEAN, blocked : BOOLEAN]
          /\ windows \in 0 .. MaxWindows /\ admitted \in Nat

Init == /\ hit = [count |-> 0, expired |-> TRUE, blocked |-> FALSE]
        /\ windows = 0 /\ admitted = 0
        /\ NoRequests

(* Expiry is looked at first: a block never outlives the window it was set in. *)
Hit(w) ==
  /\ admitted < MaxHits
  /\ \/ hit.expired /\ Start(w, [at |-> "fresh"])
     \/ ~hit.expired /\ ~hit.blocked /\ Start(w, [at |-> "count"])
  /\ UNCHANGED own

FreshWindow(w) ==
  /\ At(w, "fresh")
  /\ hit' = [count |-> 1, expired |-> FALSE, blocked |-> FALSE]
  /\ admitted' = admitted + 1
  /\ End(w) /\ UNCHANGED windows

OverRate(count) == count > Rate

Count(w) ==
  /\ At(w, "count")
  /\ hit' = [hit EXCEPT !.count = @ + 1]
  /\ IF OverRate(hit.count + 1) THEN Go(w, "block") /\ UNCHANGED admitted
     ELSE End(w) /\ admitted' = admitted + 1
  /\ UNCHANGED windows

Block(w) ==
  /\ At(w, "block")
  /\ hit' = [hit EXCEPT !.blocked = TRUE]
  /\ End(w)
  /\ UNCHANGED <<windows, admitted>>

WindowEnds == /\ ~hit.expired /\ windows < MaxWindows
              /\ hit' = [hit EXCEPT !.expired = TRUE]
              /\ windows' = windows + 1 /\ admitted' = 0
              /\ UNCHANGED req

Next == WindowEnds \/ \E w \in Workers : Hit(w) \/ FreshWindow(w) \/ Count(w) \/ Block(w)

Spec == Init /\ [][Next]_vars

(* "Tiny race if two requests land here simultaneously - both reset to       *)
(* count 1": each request in flight when a window ends may admit itself late *)
(* and then start the count again, and no more than that is let through: the *)
(* rate and one call for every request in flight, not for all of them.       *)
RateKept == admitted <= (Rate + 1) * Cardinality(Workers)
=============================================================================
