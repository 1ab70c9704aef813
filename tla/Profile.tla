------------------------------- MODULE Profile ------------------------------
(* What one customer changes about themselves: UsersService's addresses and  *)
(* loyalty points, and ReviewsService, which rates the restaurants of the    *)
(* customer's delivered orders.                                              *)
EXTENDS Handlers, Integers

CONSTANTS Addresses,     \* ids of addresses ever added
          Reviewable,    \* the customer's delivered orders, all of one restaurant
          Points,        \* User.loyaltyPoints at first
          MaxRedeem,     \* the most a request redeems
          MaxRequests    \* bound: requests that change addresses or points

VARIABLES address,    \* "none", "plain" or "default": the Address rows
          points,     \* User.loyaltyPoints
          credited,   \* points paid into the wallet
          reviewed,   \* the orders that have a Review row
          rating,     \* Restaurant.ratingCount
          disturbed,  \* have two reviews overlapped, or one died, since none was running?
          lost,       \* points taken by requests that died
          requests

own == <<address, points, credited, reviewed, rating, disturbed, lost, requests>>
vars == <<own, req>>

TypeOK == /\ address \in [Addresses -> {"none", "plain", "default"}]
          /\ points \in Int /\ credited \in Nat /\ lost \in Nat
          /\ reviewed \subseteq Reviewable /\ rating \in 0 .. Cardinality(Reviewable)
          /\ disturbed \in BOOLEAN

Init == /\ address = [a \in Addresses |-> "none"]
        /\ points = Points /\ credited = 0 /\ lost = 0
        /\ reviewed = {} /\ rating = 0 /\ disturbed = FALSE /\ requests = 0
        /\ NoRequests

Request(w, job) == /\ requests < MaxRequests /\ requests' = requests + 1
                   /\ Start(w, job)

(* addAddress and updateAddress: "new" is what the row will be.              *)
SaveAddress(w, a, new) ==
  /\ Request(w, [at |-> IF new = "default" THEN "clear" ELSE "save", a |-> a, new |-> new])
  /\ UNCHANGED <<address, points, credited, reviewed, rating, disturbed, lost>>

ClearDefaults(w) ==
  /\ At(w, "clear")
  /\ address' = [a \in Addresses |-> IF address[a] = "default" THEN "plain" ELSE address[a]]
  /\ Go(w, "save")
  /\ UNCHANGED <<points, credited, reviewed, rating, disturbed, lost, requests>>

WriteAddress(w) ==
  /\ At(w, "save")
  /\ address' = [address EXCEPT ![req[w].a] = req[w].new]
  /\ End(w)
  /\ UNCHANGED <<points, credited, reviewed, rating, disturbed, lost, requests>>

(* An address that an order names stays (ON DELETE RESTRICT): see Placement. *)
DeleteAddress(a) ==
  /\ requests < MaxRequests /\ requests' = requests + 1
  /\ address[a] # "none" /\ ~\E w \in Workers : Running(w) /\ "a" \in DOMAIN req[w] /\ req[w].a = a
  /\ address' = [address EXCEPT ![a] = "none"]
  /\ UNCHANGED <<points, credited, reviewed, rating, disturbed, lost, req>>

(* Slip: the points a request asks for are not compared with what is there.  *)
RedeemUnchecked(w, n) ==
  /\ Request(w, [at |-> "take", n |-> n])
  /\ UNCHANGED <<address, points, credited, reviewed, rating, disturbed, lost>>

(* redeemLoyaltyPoints compares, takes and credits in three statements.      *)
Redeem(w, n) ==
  /\ n <= points
  /\ Request(w, [at |-> "take", n |-> n])
  /\ UNCHANGED <<address, points, credited, reviewed, rating, disturbed, lost>>

TakePoints(w) == /\ At(w, "take")
                 /\ points' = points - req[w].n
                 /\ Go(w, "credit")
                 /\ UNCHANGED <<address, credited, reviewed, rating, disturbed, lost, requests>>

CreditPoints(w) == /\ At(w, "credit")
                   /\ credited' = credited + req[w].n
                   /\ End(w)
                   /\ UNCHANGED <<address, points, reviewed, rating, disturbed, lost, requests>>

(* createForOrder; orderId is unique among reviews.                          *)
Reviewing(w) == Running(w) /\ "o" \in DOMAIN req[w]
Review(w, o) == /\ o \notin reviewed
                /\ disturbed' = \E v \in Workers : Reviewing(v)
                /\ Start(w, [at |-> "review", o |-> o, seen |-> 0])
                /\ UNCHANGED <<address, points, credited, reviewed, rating, lost, requests>>

WriteReview(w) == /\ At(w, "review")
                  /\ IF req[w].o \in reviewed THEN reviewed' = reviewed /\ End(w)
                     ELSE reviewed' = reviewed \cup {req[w].o} /\ Go(w, "aggregate")
                  /\ UNCHANGED <<address, points, credited, rating, disturbed, lost, requests>>

Aggregate(w) == /\ At(w, "aggregate")
                /\ Become(w, [req[w] EXCEPT !.at = "rate", !.seen = Cardinality(reviewed)])
                /\ UNCHANGED own

WriteRating(w) == /\ At(w, "rate")
                  /\ rating' = req[w].seen
                  /\ End(w)
                  /\ UNCHANGED <<address, points, credited, reviewed, disturbed, lost, requests>>

Crash(w) == /\ req[w].at \in {"credit", "save", "aggregate", "rate"}
            /\ lost' = IF At(w, "credit") THEN lost + req[w].n ELSE lost
            /\ disturbed' = (disturbed \/ Reviewing(w))
            /\ End(w)
            /\ UNCHANGED <<address, points, credited, reviewed, rating, requests>>

Next == \/ \E w \in Workers :
             \/ \E a \in Addresses, new \in {"plain", "default"} : SaveAddress(w, a, new)
             \/ \E n \in 1 .. MaxRedeem : Redeem(w, n)
             \/ \E o \in Reviewable : Review(w, o)
             \/ ClearDefaults(w) \/ WriteAddress(w) \/ TakePoints(w) \/ CreditPoints(w)
             \/ WriteReview(w) \/ Aggregate(w) \/ WriteRating(w) \/ Crash(w)
        \/ \E a \in Addresses : DeleteAddress(a)

Spec == Init /\ [][Next]_vars

(***************************************************************************)
(* Properties: what reads that go stale may spoil, by how much.            *)
(***************************************************************************)

Overlap == Cardinality(Workers) - 1
AtRest == \A w \in Workers : ~Running(w)

(* No two addresses are the default one but those saved by requests that     *)
(* overlapped.                                                               *)
DefaultAddress == Cardinality({a \in Addresses : address[a] = "default"}) <= 1 + Overlap

(* Points are overdrawn by no more than overlapping requests redeem, and     *)
(* what is taken is paid out, but for requests that die in between.          *)
PointsKept ==
  /\ points + Overlap * MaxRedeem >= 0
  /\ AtRest => points + credited + lost = Points

(* A restaurant's rating is that of its reviews when none is being made: the *)
(* wrong one that reviews leave that overlap, or a review that dies, lasts   *)
(* until the next review that does neither.                                  *)
RatingExact == AtRest /\ ~disturbed => rating = Cardinality(reviewed)
=============================================================================
