----------------------------- MODULE FleetProofs ----------------------------
(* What holds of the rides and their drivers in every behaviour of the       *)
(* fleet, for any number of rides, drivers, requests and ratings: one        *)
(* inductive invariant, in four parts.                                       *)
(*  - RidesBase: the rows are typed, a ride has one request at a time, and   *)
(*    what that request has read of the ride still holds when it acts on it. *)
(*  - Flagged: the flag of a driver and the rides agree, but for the ride    *)
(*    whose request has let the driver go and not yet written the status.    *)
(*  - Settled: the wallet rows of a ride are those its row calls for, but    *)
(*    for what its request is about to write.                                *)
(*  - Rated: the rating of a driver is that of the reviews, but for the one  *)
(*    driver whose rating is being written.                                  *)
EXTENDS Fleet, TLAPS, FiniteSetTheorems, WellFoundedInduction

(* The rides count with the same operator.                                   *)
LEMMA SameCardinality == \A S : Cab!Cardinality(S) = Cardinality(S)
BY DEF Cardinality, Cab!Cardinality

(***************************************************************************)
(* Rides: the rows and what a request knows of them.                       *)
(***************************************************************************)

RideStages == {"debit", "insert", "find", "assign", "end", "free", "reread", "write", "refund",
               "debitTip", "writeTip", "review", "aggregate", "rate"}
RideRows == [status : Cab!Statuses \cup {"none"}, paid : {"PENDING", "PAID", "REFUNDED"},
             driver : Drivers \cup {Cab!None}, tip : BOOLEAN]
ReviewRows == [driver : Drivers \cup {Cab!None}, rating : Ratings \cup {0}]
Totals == [count : {0} \cup {Cardinality(S) : S \in SUBSET (Rides \X (Ratings \cup {0}))},
           sum : {0} \cup {Cab!Total(S) : S \in SUBSET (Rides \X (Ratings \cup {0}))}]
RideJobs == [at : RideStages, r : Rides, to : Cab!Statuses \cup {Cab!None}, seen : RideRows,
             found : Drivers \cup {Cab!None}, rating : ReviewRows, total : Totals]
DriverRows == [status : {"APPROVED", "SUSPENDED", "DELETED"}, isOnline : BOOLEAN,
               isAvailable : BOOLEAN,
               count : {0} \cup {Cardinality(S) : S \in SUBSET (Rides \X (Ratings \cup {0}))},
               sum : {0} \cup {Cab!Total(S) : S \in SUBSET (Rides \X (Ratings \cup {0}))}]

RidesTyped ==
  /\ ride \in [Rides -> RideRows]
  /\ driver \in [Drivers -> DriverRows]
  /\ review \in [Rides -> ReviewRows]
  /\ debited \in [Rides -> Nat] /\ refunded \in [Rides -> Nat] /\ tipped \in [Rides -> Nat]
  /\ deadRides \subseteq Rides
  /\ rideReq \in [RideWorkers -> RideJobs \cup {Cab!Idle}]

(* A ride has one request at a time.                                         *)
RideAlone ==
  \A v, w \in RideWorkers : Cab!Running(v) /\ Cab!Running(w) /\ rideReq[v].r = rideReq[w].r => v = w

Ends(to) == to \in {"CANCELLED", "COMPLETED"}

(* What a request still knows of the ride when it acts on what it has read.  *)
Knows(q) ==
  /\ q.at \in {"debit", "insert"} => ride[q.r].status = "none" /\ q.to = "REQUESTED"
  /\ q.at = "debit" => q.r \in PaidRides
  /\ q.at \in {"find", "assign"} => ride[q.r].status = "REQUESTED" /\ q.to = "REQUESTED"
  /\ q.at = "assign" => q.found \in Drivers
  /\ q.at = "free" => Ends(q.to) /\ (Cab!Exists(q.seen.driver) => ride[q.r].driver = q.seen.driver)
  /\ q.at \in {"free", "reread", "write"} => q.to \in Cab!Statuses /\ ride[q.r].status # "none"
  /\ q.at \in {"free", "reread"} /\ FreshScreens => q.to \in Cab!Allowed[ride[q.r].status]
  /\ q.at = "write" => q.to \in Cab!Allowed[ride[q.r].status] /\ q.seen.paid = ride[q.r].paid
  /\ q.at = "refund" => ride[q.r].status = "CANCELLED"
  /\ q.at \in {"debitTip", "writeTip"} =>
       ride[q.r].status = "COMPLETED" /\ ~ride[q.r].tip /\ q.to = Cab!None
  /\ q.at = "debitTip" => q.r \in PaidRides
  /\ q.at \in {"review", "aggregate", "rate"} => q.rating.driver \in Drivers /\ q.to = Cab!None

(* Before a ride has been assigned it has no driver, and none who is gone.   *)
RideKnown(r) ==
  /\ ride[r].status \in {"none", "REQUESTED"} => ride[r].driver = Cab!None
  /\ ride[r].status = "none" => ride[r].paid = "PENDING" /\ ~ride[r].tip
  /\ ride[r].driver # Cab!None => Cab!Exists(ride[r].driver)

RidesBase ==
  /\ RidesTyped /\ RideAlone
  /\ \A w \in RideWorkers : Cab!Running(w) => Knows(rideReq[w])
  /\ \A r \in Rides : RideKnown(r)

LEMMA TotalOfNothing == Cab!Total({}) = 0
BY DEF Cab!Total, Cab!MapThenSumSet, Cab!MapThenFoldSet

LEMMA InitRidesBase == Cab!Init => RidesBase
<1> SUFFICES ASSUME Cab!Init PROVE RidesBase
  OBVIOUS
<1>1. \A w \in RideWorkers : ~Cab!Running(w)
  BY DEF Cab!Init, Cab!NoRequests, Cab!Running, Cab!At, Cab!Idle
<1>2. RidesTyped
  <2>1. Cab!Unbooked \in RideRows /\ Cab!NoReview \in ReviewRows
    BY DEF Cab!Unbooked, Cab!NoReview, RideRows, ReviewRows
  <2>2. Cab!NewDriver \in DriverRows
    BY DEF Cab!NewDriver, DriverRows
  <2> QED BY <2>1, <2>2 DEF Cab!Init, RidesTyped, Cab!NoRequests
<1>3. \A r \in Rides : RideKnown(r)
  BY DEF Cab!Init, RideKnown, Cab!Unbooked
<1> QED BY <1>1, <1>2, <1>3 DEF RidesBase, RideAlone

LEMMA RideJobMoves ==
  ASSUME RidesTyped, NEW w \in RideWorkers, NEW job \in RideJobs \cup {Cab!Idle}, Cab!Become(w, job)
  PROVE  /\ rideReq' \in [RideWorkers -> RideJobs \cup {Cab!Idle}]
         /\ rideReq'[w] = job /\ \A v \in RideWorkers : v # w => rideReq'[v] = rideReq[v]
BY DEF RidesTyped, Cab!Become

LEMMA RideJobGoes ==
  ASSUME RidesTyped, NEW w \in RideWorkers, Cab!Running(w), NEW stage \in RideStages, Cab!Go(w, stage)
  PROVE  \E job \in RideJobs :
           /\ Cab!Become(w, job) /\ job.at = stage /\ job.r = rideReq[w].r /\ job.to = rideReq[w].to
           /\ job.seen = rideReq[w].seen /\ job.found = rideReq[w].found /\ job.rating = rideReq[w].rating
           /\ job.total = rideReq[w].total
<1>1. rideReq[w] \in RideJobs
  BY DEF RidesTyped, Cab!Running, Cab!At, Cab!Idle
<1>2. PICK job : job = [rideReq[w] EXCEPT !.at = stage]
  OBVIOUS
<1>3. /\ job \in RideJobs /\ job.at = stage /\ job.r = rideReq[w].r /\ job.to = rideReq[w].to
      /\ job.seen = rideReq[w].seen /\ job.found = rideReq[w].found /\ job.rating = rideReq[w].rating
      /\ job.total = rideReq[w].total
  BY <1>1, <1>2 DEF RideJobs
<1> QED BY <1>2, <1>3 DEF Cab!Go

LEMMA RideJobTyped ==
  ASSUME RidesTyped, NEW w \in RideWorkers, Cab!Running(w)
  PROVE  /\ rideReq[w] \in RideJobs /\ rideReq[w].r \in Rides /\ rideReq[w].at \in RideStages
         /\ rideReq[w].seen \in RideRows /\ rideReq[w].to \in Cab!Statuses \cup {Cab!None}
         /\ rideReq[w].found \in Drivers \cup {Cab!None} /\ rideReq[w].rating \in ReviewRows
BY DEF RidesTyped, RideJobs, Cab!Running, Cab!At, Cab!Idle

(* A step of the request on a ride, which writes no other ride.              *)
RideStep(w, r, job) ==
  /\ rideReq'[w] = job /\ \A v \in RideWorkers : v # w => rideReq'[v] = rideReq[v]
  /\ Cab!Running(w) => rideReq[w].r = r
  /\ ~Cab!Running(w) => ~Cab!Busy(r)
  /\ job = Cab!Idle \/ (job \in RideJobs /\ job.r = r)
  /\ \A q \in Rides : q # r => ride'[q] = ride[q]

LEMMA OthersApart ==
  ASSUME RidesBase, NEW w \in RideWorkers, NEW r \in Rides, NEW job, RideStep(w, r, job)
  PROVE  /\ RideAlone'
         /\ \A v \in RideWorkers : v # w /\ Cab!Running(v) => rideReq[v].r # r /\ rideReq[v].r \in Rides
         /\ \A v \in RideWorkers : v # w => rideReq'[v] = rideReq[v] /\ (Cab!Running(v)' <=> Cab!Running(v))
<1>1. \A v \in RideWorkers : v # w => rideReq'[v] = rideReq[v] /\ (Cab!Running(v)' <=> Cab!Running(v))
  BY DEF RideStep, Cab!Running, Cab!At
<1>2. \A v \in RideWorkers : v # w /\ Cab!Running(v) => rideReq[v].r # r /\ rideReq[v].r \in Rides
  BY RideJobTyped DEF RidesBase, RideAlone, RideStep, Cab!Busy
<1>3. Cab!Running(w)' => rideReq'[w].r = r
  BY DEF RideStep, Cab!Running, Cab!At, Cab!Idle
<1>4. RideAlone'
  BY <1>1, <1>2, <1>3 DEF RidesBase, RideAlone
<1> QED BY <1>1, <1>2, <1>4

LEMMA BaseStep ==
  ASSUME RidesBase, RidesTyped', NEW w \in RideWorkers, NEW r \in Rides, NEW job, RideStep(w, r, job),
         \A d : Cab!Exists(d)' <=> Cab!Exists(d),
         RideKnown(r)', Cab!Running(w)' => Knows(job)'
  PROVE  RidesBase'
<1>1. /\ RideAlone'
      /\ \A v \in RideWorkers : v # w /\ Cab!Running(v) => rideReq[v].r # r /\ rideReq[v].r \in Rides
      /\ \A v \in RideWorkers : v # w => rideReq'[v] = rideReq[v] /\ (Cab!Running(v)' <=> Cab!Running(v))
  BY OthersApart
<1>2. ASSUME NEW v \in RideWorkers, Cab!Running(v)' PROVE Knows(rideReq[v])'
  <2>1. CASE v = w
    BY <1>2, <2>1, Zenon DEF RideStep
  <2>2. CASE v # w
    <3>1. Cab!Running(v) /\ rideReq'[v] = rideReq[v] /\ ride'[rideReq[v].r] = ride[rideReq[v].r]
      BY <1>1, <1>2, <2>2 DEF RideStep
    <3>2. Knows(rideReq[v])
      BY <3>1 DEF RidesBase
    <3> QED BY <3>1, <3>2 DEF Knows
  <2> QED BY <2>1, <2>2
<1>3. \A q \in Rides : RideKnown(q)'
  <2>1. ASSUME NEW q \in Rides, q # r PROVE RideKnown(q)'
    BY <2>1 DEF RidesBase, RideKnown, RideStep
  <2> QED BY <2>1
<1> QED BY <1>1, <1>2, <1>3 DEF RidesBase

(* Where the request on a ride is, and whether it has let the driver go: the *)
(* status that says so is not written yet.                                   *)
OnRide(r, stage) == \E w \in RideWorkers : Cab!At(w, stage) /\ rideReq[w].r = r
Past(r) == \E w \in RideWorkers : /\ Cab!At(w, "reread") \/ Cab!At(w, "write")
                                  /\ rideReq[w].r = r /\ Ends(rideReq[w].to)
Keeps(r, d) == Cab!Live(r) /\ ride[r].driver = d /\ ~Past(r)

(* A driver who is not available is on a ride.                               *)
Accounted ==
  \A d \in Drivers : Cab!Exists(d) /\ ~driver[d].isAvailable => \E r \in Rides : Keeps(r, d)

(* A driver on a ride is not available, and on that one only; the one driver *)
(* who has been found is available.                                          *)
Exclusive ==
  /\ \A r \in Rides, d \in Drivers : Keeps(r, d) => ~driver[d].isAvailable
  /\ \A r, s \in Rides, d \in Drivers : Keeps(r, d) /\ Keeps(s, d) => r = s
  /\ \A v, w \in RideWorkers : Cab!At(v, "assign") /\ Cab!At(w, "assign") => v = w
  /\ \A w \in RideWorkers :
       Cab!At(w, "assign") /\ Cab!Exists(rideReq[w].found) => driver[rideReq[w].found].isAvailable

Flagged == deadRides = {} => Accounted /\ (FreshScreens => Exclusive)

(* When a ride has been paid for, paid back and tipped, by the rows and by   *)
(* what its request is about to write.                                       *)
Charged(r) == r \in PaidRides /\ (Cab!Booked(r) \/ OnRide(r, "insert"))
Repaid(r) == r \in PaidRides /\ ride[r].status = "CANCELLED" /\ ~OnRide(r, "refund")
TipTaken(r) == r \in PaidRides /\ (ride[r].tip \/ OnRide(r, "writeTip"))

MoneyKept(r) ==
  /\ Charged(r) => debited[r] >= 1
  /\ TipTaken(r) => tipped[r] >= 1
  /\ refunded[r] = 0 \/ (refunded[r] = 1 /\ Repaid(r))
  /\ r \in PaidRides /\ Cab!Booked(r) /\ ride[r].status # "CANCELLED" => ride[r].paid = "PAID"
  /\ OnRide(r, "refund") => r \in PaidRides
  /\ r \notin deadRides => /\ debited[r] = IF Charged(r) THEN 1 ELSE 0
                           /\ refunded[r] = IF Repaid(r) THEN 1 ELSE 0
                           /\ tipped[r] = IF TipTaken(r) THEN 1 ELSE 0
Settled == \A r \in Rides : MoneyKept(r)

(* One review at a time, and what its request is about to write.             *)
Reviewing(w) == Cab!Running(w) /\ rideReq[w].rating # Cab!NoReview
Rates(d) ==
  \E w \in RideWorkers : (Cab!At(w, "aggregate") \/ Cab!At(w, "rate")) /\ rideReq[w].rating.driver = d
RatingKept(d) == [count |-> driver[d].count, sum |-> driver[d].sum] = Cab!Aggregate(d)
Rated == deadRides = {} =>
  /\ \A v, w \in RideWorkers : Reviewing(v) /\ Reviewing(w) => v = w
  /\ \A d \in Drivers : RatingKept(d) \/ Rates(d)
  /\ \A w \in RideWorkers :
       Cab!At(w, "rate") => rideReq[w].total = Cab!Aggregate(rideReq[w].rating.driver)

RidesInv == RidesBase /\ Flagged /\ Settled /\ Rated

LEMMA InitRidesInv == Cab!Init => RidesInv
<1> SUFFICES ASSUME Cab!Init PROVE RidesInv
  OBVIOUS
<1>1. RidesBase
  BY InitRidesBase
<1>2. \A w \in RideWorkers : \A stage : Cab!At(w, stage) => stage = "idle"
  BY DEF Cab!Init, Cab!NoRequests, Cab!At, Cab!Idle
<1>3. \A r \in Rides : ~OnRide(r, "insert") /\ ~OnRide(r, "refund") /\ ~OnRide(r, "writeTip")
  BY <1>2 DEF OnRide
<1>4. Flagged
  <2>1. /\ \A r \in Rides, d \in Drivers : ~Keeps(r, d)
        /\ \A d \in Drivers : driver[d].isAvailable
    BY DEF Cab!Init, Keeps, Cab!Live, Cab!Unbooked, Cab!NewDriver
  <2>2. \A w \in RideWorkers : ~Cab!At(w, "assign")
    BY <1>2
  <2> QED BY <2>1, <2>2 DEF Flagged, Accounted, Exclusive
<1>5. Settled
  <2>1. ASSUME NEW r \in Rides PROVE MoneyKept(r)
    <3>1. ride[r] = Cab!Unbooked /\ debited[r] = 0 /\ refunded[r] = 0 /\ tipped[r] = 0
      BY DEF Cab!Init
    <3>2. ~Charged(r) /\ ~Repaid(r) /\ ~TipTaken(r) /\ ~Cab!Booked(r)
      BY <1>3, <3>1 DEF Charged, Repaid, TipTaken, Cab!Booked, Cab!Unbooked
    <3> QED BY <1>3, <3>1, <3>2 DEF MoneyKept
  <2> QED BY <2>1 DEF Settled
<1>6. Rated
  <2>1. ASSUME NEW d \in Drivers PROVE RatingKept(d)
    <3>1. Cab!Said(d) = {}
      BY NoneIsNoDriver DEF Cab!Init, Cab!Said, Cab!ReviewsOf, Cab!NoReview
    <3>2. Cardinality(Cab!Said(d)) = 0 /\ Cab!Total(Cab!Said(d)) = 0
      BY <3>1, TotalOfNothing, FS_EmptySet
    <3>3. driver[d].count = 0 /\ driver[d].sum = 0
      BY DEF Cab!Init, Cab!NewDriver
    <3> QED BY <3>2, <3>3, SameCardinality DEF RatingKept, Cab!Aggregate
  <2>2. \A w \in RideWorkers : ~Cab!At(w, "rate") /\ ~Reviewing(w)
    BY <1>2 DEF Cab!Init, Cab!NoRequests, Reviewing, Cab!Running, Cab!At, Cab!Idle
  <2> QED BY <2>1, <2>2 DEF Rated
<1> QED BY <1>1, <1>4, <1>5, <1>6 DEF RidesInv

(* A request that starts, and one that goes on.                              *)
LEMMA RideStarts ==
  ASSUME RidesTyped, NEW w \in RideWorkers, NEW r \in Rides, ~Cab!Busy(r), NEW job \in RideJobs,
         job.r = r, Cab!Start(w, job), UNCHANGED <<ride, driver, review, Cab!postings, deadRides, toggles>>
  PROVE  RideStep(w, r, job) /\ RidesTyped' /\ (\A d : Cab!Exists(d)' <=> Cab!Exists(d))
<1>1. Cab!Become(w, job) /\ ~Cab!Running(w)
  BY DEF Cab!Start, Cab!Running, Cab!At
<1>2. RideStep(w, r, job)
  BY <1>1, RideJobMoves DEF RideStep
<1>3. RidesTyped'
  BY <1>1, RideJobMoves DEF RidesTyped, Cab!postings
<1>4. \A d : Cab!Exists(d)' <=> Cab!Exists(d)
  BY DEF Cab!Exists
<1> QED BY <1>2, <1>3, <1>4

LEMMA RideBecomes ==
  ASSUME RidesTyped, NEW w \in RideWorkers, Cab!Running(w), NEW job \in RideJobs \cup {Cab!Idle}, Cab!Become(w, job),
         job = Cab!Idle \/ job.r = rideReq[w].r,
         \A q \in Rides : q # rideReq[w].r => ride'[q] = ride[q]
  PROVE  /\ RideStep(w, rideReq[w].r, job)
         /\ rideReq' \in [RideWorkers -> RideJobs \cup {Cab!Idle}]
BY RideJobMoves DEF RideStep

LEMMA RideGoes ==
  ASSUME RidesTyped, NEW w \in RideWorkers, Cab!Running(w), NEW stage \in RideStages, Cab!Go(w, stage),
         \A q \in Rides : q # rideReq[w].r => ride'[q] = ride[q]
  PROVE  /\ rideReq' \in [RideWorkers -> RideJobs \cup {Cab!Idle}]
         /\ \E job \in RideJobs :
              /\ RideStep(w, rideReq[w].r, job) /\ job.at = stage /\ job.r = rideReq[w].r
              /\ job.to = rideReq[w].to /\ job.seen = rideReq[w].seen /\ job.found = rideReq[w].found
              /\ job.rating = rideReq[w].rating /\ job.total = rideReq[w].total
<1>1. PICK job \in RideJobs :
        /\ Cab!Become(w, job) /\ job.at = stage /\ job.r = rideReq[w].r /\ job.to = rideReq[w].to
        /\ job.seen = rideReq[w].seen /\ job.found = rideReq[w].found /\ job.rating = rideReq[w].rating
        /\ job.total = rideReq[w].total
  BY RideJobGoes
<1>2. RideStep(w, rideReq[w].r, job) /\ rideReq' \in [RideWorkers -> RideJobs \cup {Cab!Idle}]
  BY <1>1, RideBecomes
<1> QED BY <1>1, <1>2

(* What a step on one ride leaves of the others, and says of its own.        *)
LEMMA StepApart ==
  ASSUME RidesBase, NEW w \in RideWorkers, NEW r \in Rides, NEW job, RideStep(w, r, job)
  PROVE  /\ \A q \in Rides : \A stage : q # r /\ stage # "idle" => (OnRide(q, stage)' <=> OnRide(q, stage))
         /\ \A q \in Rides : q # r => (Past(q)' <=> Past(q))
         /\ \A stage : stage # "idle" => /\ OnRide(r, stage) <=> rideReq[w].at = stage
                                         /\ OnRide(r, stage)' <=> job.at = stage
         /\ Past(r) <=> rideReq[w].at \in {"reread", "write"} /\ Ends(rideReq[w].to)
         /\ Past(r)' <=> job.at \in {"reread", "write"} /\ Ends(job.to)
<1>1. /\ \A v \in RideWorkers : v # w /\ Cab!Running(v) => rideReq[v].r # r /\ rideReq[v].r \in Rides
      /\ \A v \in RideWorkers : v # w => rideReq'[v] = rideReq[v] /\ (Cab!Running(v)' <=> Cab!Running(v))
  BY OthersApart
<1>2. /\ Cab!Running(w) => rideReq[w].r = r
      /\ rideReq'[w] = job /\ (job.at # "idle" => job.r = r)
  BY DEF RideStep, Cab!Idle
<1>3. \A v \in RideWorkers : \A stage : stage # "idle" /\ Cab!At(v, stage) => Cab!Running(v)
  BY DEF Cab!At, Cab!Running
<1>4. \A q \in Rides : \A stage : q # r /\ stage # "idle" => (OnRide(q, stage)' <=> OnRide(q, stage))
  <2> SUFFICES ASSUME NEW q \in Rides, NEW stage, q # r, stage # "idle"
               PROVE  OnRide(q, stage)' <=> OnRide(q, stage)
    OBVIOUS
  <2>1. \A v \in RideWorkers : (Cab!At(v, stage) /\ rideReq[v].r = q)' <=> Cab!At(v, stage) /\ rideReq[v].r = q
    BY <1>1, <1>2 DEF Cab!At, Cab!Running, RideStep, Cab!Idle
  <2> QED BY <2>1 DEF OnRide
<1>5. \A q \in Rides : q # r => (Past(q)' <=> Past(q))
  <2> SUFFICES ASSUME NEW q \in Rides, q # r PROVE Past(q)' <=> Past(q)
    OBVIOUS
  <2>1. \A v \in RideWorkers : ((Cab!At(v, "reread") \/ Cab!At(v, "write")) /\ rideReq[v].r = q /\ Ends(rideReq[v].to))'
                                 <=> (Cab!At(v, "reread") \/ Cab!At(v, "write")) /\ rideReq[v].r = q /\ Ends(rideReq[v].to)
    BY <1>1, <1>2 DEF Cab!At, Cab!Running, Ends
  <2> QED BY <2>1 DEF Past
<1>6. ASSUME NEW stage, stage # "idle"
      PROVE  (OnRide(r, stage) <=> rideReq[w].at = stage) /\ (OnRide(r, stage)' <=> job.at = stage)
  BY <1>1, <1>2, <1>6 DEF OnRide, Cab!At, Cab!Running
<1>7. Past(r) <=> rideReq[w].at \in {"reread", "write"} /\ Ends(rideReq[w].to)
  BY <1>1, <1>2 DEF Past, Cab!At, Cab!Running
<1>8. Past(r)' <=> job.at \in {"reread", "write"} /\ Ends(job.to)
  BY <1>1, <1>2 DEF Past, Cab!At, Cab!Running, Ends
<1> QED BY <1>4, <1>5, <1>6, <1>7, <1>8

(* A step that lets no driver go, and takes none.                            *)
LEMMA FlaggedStep ==
  ASSUME RidesBase, Flagged, NEW w \in RideWorkers, NEW r \in Rides, NEW job, RideStep(w, r, job),
         deadRides' = deadRides, job.at # "assign",
         \A d \in Drivers : /\ Cab!Exists(d)' <=> Cab!Exists(d)
                            /\ driver'[d].isAvailable = driver[d].isAvailable,
         \A d \in Drivers : Keeps(r, d) => Keeps(r, d)',
         FreshScreens => \A d \in Drivers : Keeps(r, d)' => Keeps(r, d)
  PROVE  Flagged'
<1> SUFFICES ASSUME deadRides = {} PROVE (Accounted /\ (FreshScreens => Exclusive))'
  BY DEF Flagged
<1>1. \A q \in Rides, d \in Drivers : q # r => (Keeps(q, d)' <=> Keeps(q, d))
  BY StepApart DEF Keeps, Cab!Live, RideStep
<1>2. Accounted'
  <2>1. \A q \in Rides, d \in Drivers : Keeps(q, d) => Keeps(q, d)'
    BY <1>1
  <2>2. Accounted
    BY DEF Flagged
  <2> QED BY <2>1, <2>2 DEF Accounted
<1>3. ASSUME FreshScreens PROVE Exclusive'
  <2>1. Exclusive
    BY <1>3 DEF Flagged
  <2>2. \A q \in Rides, d \in Drivers : Keeps(q, d)' => Keeps(q, d)
    BY <1>1, <1>3
  <2>3. \A v \in RideWorkers : Cab!At(v, "assign")' => Cab!At(v, "assign") /\ rideReq'[v] = rideReq[v]
    BY DEF RideStep, Cab!At
  <2>4. /\ \A q \in Rides, d \in Drivers : Keeps(q, d)' => ~driver'[d].isAvailable
        /\ \A q, s \in Rides, d \in Drivers : Keeps(q, d)' /\ Keeps(s, d)' => q = s
    BY <2>1, <2>2 DEF Exclusive
  <2>5. \A v, u \in RideWorkers : Cab!At(v, "assign")' /\ Cab!At(u, "assign")' => v = u
    BY <2>1, <2>3 DEF Exclusive
  <2>6. ASSUME NEW v \in RideWorkers, Cab!At(v, "assign")', Cab!Exists(rideReq[v].found)'
        PROVE  driver'[rideReq'[v].found].isAvailable
    <3>1. Cab!At(v, "assign") /\ rideReq'[v] = rideReq[v]
      BY <2>3, <2>6
    <3>2. rideReq'[v].found \in Drivers
      BY <2>6 DEF Cab!Exists
    <3>3. Cab!Exists(rideReq[v].found)
      BY <2>6, <3>1, <3>2
    <3> QED BY <2>1, <3>1, <3>2, <3>3 DEF Exclusive
  <2> QED BY <2>4, <2>5, <2>6 DEF Exclusive
<1> QED BY <1>2, <1>3

(* The rows of the others are not touched.                                   *)
LEMMA SettledStep ==
  ASSUME RidesBase, Settled, NEW w \in RideWorkers, NEW r \in Rides, NEW job, RideStep(w, r, job),
         deadRides' = deadRides \/ deadRides' = deadRides \cup {r},
         \A q \in Rides : q # r => /\ debited'[q] = debited[q] /\ refunded'[q] = refunded[q]
                                   /\ tipped'[q] = tipped[q],
         MoneyKept(r)'
  PROVE  Settled'
<1>1. ASSUME NEW q \in Rides, q # r PROVE MoneyKept(q)'
  <2>1. MoneyKept(q)
    BY DEF Settled
  <2>2. /\ ride'[q] = ride[q] /\ (q \in deadRides' <=> q \in deadRides)
        /\ debited'[q] = debited[q] /\ refunded'[q] = refunded[q] /\ tipped'[q] = tipped[q]
    BY <1>1 DEF RideStep
  <2>3. /\ OnRide(q, "insert")' <=> OnRide(q, "insert")
        /\ OnRide(q, "refund")' <=> OnRide(q, "refund")
        /\ OnRide(q, "writeTip")' <=> OnRide(q, "writeTip")
    BY <1>1, StepApart
  <2>4. /\ Charged(q)' <=> Charged(q)
        /\ Repaid(q)' <=> Repaid(q)
        /\ TipTaken(q)' <=> TipTaken(q)
    BY <2>2, <2>3 DEF Charged, Repaid, TipTaken, Cab!Booked
  <2> QED BY <2>1, <2>2, <2>3, <2>4 DEF MoneyKept, Cab!Booked
<1> QED BY <1>1 DEF Settled

LEMMA MoneyQuiet ==
  ASSUME RidesBase, Settled, NEW w \in RideWorkers, NEW r \in Rides, NEW job, RideStep(w, r, job),
         deadRides' = deadRides, UNCHANGED Cab!postings,
         Cab!Booked(r)' <=> Cab!Booked(r),
         ride'[r].status = "CANCELLED" <=> ride[r].status = "CANCELLED",
         ride'[r].paid = ride[r].paid, ride'[r].tip = ride[r].tip,
         \A stage \in {"insert", "refund", "writeTip"} : rideReq[w].at = stage <=> job.at = stage
  PROVE  Settled'
<1>1. MoneyKept(r)
  BY DEF Settled
<1>2. /\ OnRide(r, "insert")' <=> OnRide(r, "insert")
      /\ OnRide(r, "refund")' <=> OnRide(r, "refund")
      /\ OnRide(r, "writeTip")' <=> OnRide(r, "writeTip")
  <2>1. \A stage : stage # "idle" => /\ OnRide(r, stage) <=> rideReq[w].at = stage
                                     /\ OnRide(r, stage)' <=> job.at = stage
    BY StepApart
  <2> QED BY <2>1
<1>3. /\ Charged(r)' <=> Charged(r)
      /\ Repaid(r)' <=> Repaid(r)
      /\ TipTaken(r)' <=> TipTaken(r)
  BY <1>2 DEF Charged, Repaid, TipTaken
<1>4. MoneyKept(r)'
  BY <1>1, <1>2, <1>3 DEF MoneyKept, Cab!postings
<1> QED BY <1>4, SettledStep DEF Cab!postings

LEMMA RatedQuiet ==
  ASSUME RidesBase, Rated, NEW w \in RideWorkers, NEW r \in Rides, NEW job, RideStep(w, r, job),
         deadRides' = deadRides, review' = review,
         \A d \in Drivers : driver'[d].count = driver[d].count /\ driver'[d].sum = driver[d].sum,
         rideReq[w].at \notin {"aggregate", "rate"}, job.at \notin {"aggregate", "rate"},
         job.at # "idle" /\ job.rating # Cab!NoReview => Reviewing(w)
  PROVE  Rated'
<1> SUFFICES ASSUME deadRides = {}
             PROVE  /\ \A u, v \in RideWorkers : (Reviewing(u) /\ Reviewing(v))' => u = v
                    /\ \A d \in Drivers : (RatingKept(d) \/ Rates(d))'
                    /\ \A v \in RideWorkers : Cab!At(v, "rate")' =>
                         rideReq'[v].total = Cab!Aggregate(rideReq[v].rating.driver)'
  BY DEF Rated
<1>1. \A v \in RideWorkers : Reviewing(v)' => Reviewing(v)
  BY DEF Reviewing, Cab!Running, Cab!At, RideStep
<1>2. \A v \in RideWorkers : \A stage \in {"aggregate", "rate"} :
        /\ Cab!At(v, stage)' <=> Cab!At(v, stage)
        /\ Cab!At(v, stage) => rideReq'[v] = rideReq[v]
  BY DEF Cab!At, RideStep
<1>3. \A d \in Drivers : Rates(d)' <=> Rates(d)
  BY <1>2 DEF Rates
<1>4. \A d : Cab!Aggregate(d)' = Cab!Aggregate(d)
  BY DEF Cab!Aggregate, Cab!Said, Cab!ReviewsOf
<1>5. \A d \in Drivers : RatingKept(d)' <=> RatingKept(d)
  BY <1>4 DEF RatingKept
<1>6. \A v \in RideWorkers : Cab!At(v, "rate")' => rideReq'[v].total = Cab!Aggregate(rideReq[v].rating.driver)'
  BY <1>2, <1>4 DEF Rated
<1> QED BY <1>1, <1>3, <1>5, <1>6 DEF Rated

(* The requests of the customers and of the staff.                           *)
LEMMA JobIs ==
  ASSUME RidesTyped, NEW r \in Rides, NEW stage \in RideStages, NEW to \in Cab!Statuses \cup {Cab!None}
  PROVE  /\ Cab!Job(stage, r, to) \in RideJobs /\ Cab!Job(stage, r, to).at = stage
         /\ Cab!Job(stage, r, to).r = r /\ Cab!Job(stage, r, to).to = to
         /\ Cab!Job(stage, r, to).seen = ride[r] /\ Cab!Job(stage, r, to).rating = Cab!NoReview
<1>1. ride[r] \in RideRows /\ Cab!NoReview \in ReviewRows /\ [count |-> 0, sum |-> 0] \in Totals
  BY DEF RidesTyped, Cab!NoReview, ReviewRows, Totals
<1> QED BY <1>1 DEF Cab!Job, RideJobs

LEMMA CreateKeeps ==
  ASSUME RidesInv, NEW w \in RideWorkers, NEW r \in Rides, Cab!Create(w, r)
  PROVE  RidesInv'
<1>1. PICK job : job = Cab!Job(IF r \in PaidRides THEN "debit" ELSE "insert", r, "REQUESTED")
  OBVIOUS
<1>2. /\ job \in RideJobs /\ job.r = r /\ job.to = "REQUESTED" /\ job.rating = Cab!NoReview
      /\ job.at = IF r \in PaidRides THEN "debit" ELSE "insert"
  BY <1>1, JobIs DEF RidesInv, RidesBase, RideStages, Cab!Statuses
<1>3. RideStep(w, r, job) /\ RidesTyped' /\ (\A d : Cab!Exists(d)' <=> Cab!Exists(d))
  BY <1>1, <1>2, RideStarts DEF Cab!Create, RidesInv, RidesBase
<1>4. RidesBase'
  <2>1. Knows(job)'
    BY <1>2 DEF Cab!Create, Cab!Booked, Knows
  <2>2. RideKnown(r)'
    BY <1>3 DEF RidesInv, RidesBase, RideKnown, Cab!Create
  <2> QED BY <1>3, <2>1, <2>2, BaseStep DEF RidesInv
<1>5. rideReq[w].at = "idle"
  BY DEF Cab!Create, Cab!Start, Cab!At
<1>6. Flagged'
  <2>1. \A d \in Drivers : ~Keeps(r, d) /\ ~Keeps(r, d)'
    BY DEF Cab!Create, Cab!Booked, Keeps, Cab!Live
  <2> QED BY <1>2, <1>3, <2>1, FlaggedStep DEF RidesInv, Cab!Create
<1>7. Settled'
  <2>1. MoneyKept(r)
    BY DEF RidesInv, Settled
  <2>2. /\ OnRide(r, "insert")' <=> r \notin PaidRides
        /\ ~OnRide(r, "insert") /\ ~OnRide(r, "refund") /\ ~OnRide(r, "writeTip")
        /\ ~OnRide(r, "refund")' /\ ~OnRide(r, "writeTip")'
    <3>1. \A stage : stage # "idle" => /\ OnRide(r, stage) <=> rideReq[w].at = stage
                                       /\ OnRide(r, stage)' <=> job.at = stage
      BY <1>3, StepApart DEF RidesInv
    <3> QED BY <1>2, <1>5, <3>1
  <2>3. MoneyKept(r)'
    BY <2>1, <2>2 DEF MoneyKept, Charged, Repaid, TipTaken, Cab!Booked, Cab!Create, Cab!postings
  <2> QED BY <1>3, <2>3, SettledStep DEF RidesInv, Cab!Create, Cab!postings
<1>8. Rated'
  BY <1>2, <1>3, <1>5, RatedQuiet DEF RidesInv, Cab!Create
<1> QED BY <1>4, <1>6, <1>7, <1>8 DEF RidesInv

LEMMA CancelRequestKeeps ==
  ASSUME ~StepsOverlap, RidesInv, NEW w \in RideWorkers, NEW r \in Rides, Cab!CancelRequest(w, r)
  PROVE  RidesInv'
<1>1. PICK job : job = Cab!Job(IF ride[r].driver # Cab!None THEN "free" ELSE "reread", r, "CANCELLED")
  OBVIOUS
<1>2. /\ job \in RideJobs /\ job.r = r /\ job.to = "CANCELLED" /\ job.rating = Cab!NoReview
      /\ job.at = IF ride[r].driver # Cab!None THEN "free" ELSE "reread"
      /\ job.seen = ride[r]
  BY <1>1, JobIs DEF RidesInv, RidesBase, RideStages, Cab!Statuses
<1>3. RideStep(w, r, job) /\ RidesTyped' /\ (\A d : Cab!Exists(d)' <=> Cab!Exists(d))
  BY <1>1, <1>2, RideStarts DEF Cab!CancelRequest, Cab!Free, RidesInv, RidesBase
<1>4. RidesBase'
  <2>1. Knows(job)'
    BY <1>2 DEF Cab!CancelRequest, Knows, Ends, Cab!Allowed, Cab!Statuses, Cab!Exists
  <2>2. RideKnown(r)'
    BY <1>3 DEF RidesInv, RidesBase, RideKnown, Cab!CancelRequest
  <2> QED BY <1>3, <2>1, <2>2, BaseStep DEF RidesInv
<1>5. rideReq[w].at = "idle"
  BY DEF Cab!CancelRequest, Cab!Start, Cab!At
<1>6. Flagged'
  <2>1. /\ Past(r)' <=> ride[r].driver = Cab!None
        /\ ~Past(r)
    <3>1. /\ Past(r) <=> rideReq[w].at \in {"reread", "write"} /\ Ends(rideReq[w].to)
          /\ Past(r)' <=> job.at \in {"reread", "write"} /\ Ends(job.to)
      BY <1>3, StepApart DEF RidesInv
    <3> QED BY <1>2, <1>5, <3>1 DEF Ends
  <2>2. \A d \in Drivers : Keeps(r, d)' <=> Keeps(r, d)
    BY <2>1, NoneIsNoDriver DEF Keeps, Cab!Live, Cab!CancelRequest
  <2> QED BY <1>2, <1>3, <2>2, FlaggedStep DEF RidesInv, Cab!CancelRequest
<1>7. Settled'
  BY <1>2, <1>3, <1>5, MoneyQuiet DEF RidesInv, Cab!CancelRequest, Cab!Booked
<1>8. Rated'
  BY <1>2, <1>3, <1>5, RatedQuiet DEF RidesInv, Cab!CancelRequest
<1> QED BY <1>4, <1>6, <1>7, <1>8 DEF RidesInv

LEMMA StatusRequestKeeps ==
  ASSUME ~StepsOverlap, RidesInv, NEW w \in RideWorkers, NEW r \in Rides, NEW to \in Cab!Statuses,
         Cab!StatusRequest(w, r, to)
  PROVE  RidesInv'
<1>1. PICK job : job = Cab!Job(IF to \in {"CANCELLED", "COMPLETED"} /\ ride[r].driver # Cab!None
                               THEN "free" ELSE "reread", r, to)
  OBVIOUS
<1>2. /\ job \in RideJobs /\ job.r = r /\ job.to = to /\ job.rating = Cab!NoReview
      /\ job.at = IF Ends(to) /\ ride[r].driver # Cab!None THEN "free" ELSE "reread"
      /\ job.seen = ride[r]
  BY <1>1, JobIs DEF RidesInv, RidesBase, RideStages, Ends
<1>3. RideStep(w, r, job) /\ RidesTyped' /\ (\A d : Cab!Exists(d)' <=> Cab!Exists(d))
  BY <1>1, <1>2, RideStarts DEF Cab!StatusRequest, Cab!Free, RidesInv, RidesBase
<1>4. RidesBase'
  <2>1. Knows(job)'
    BY <1>2 DEF Cab!StatusRequest, Knows, Ends, Cab!Booked, Cab!Exists
  <2>2. RideKnown(r)'
    BY <1>3 DEF RidesInv, RidesBase, RideKnown, Cab!StatusRequest
  <2> QED BY <1>3, <2>1, <2>2, BaseStep DEF RidesInv
<1>5. rideReq[w].at = "idle"
  BY DEF Cab!StatusRequest, Cab!Start, Cab!At
<1>6. Flagged'
  <2>1. /\ Past(r)' <=> Ends(to) /\ ride[r].driver = Cab!None
        /\ ~Past(r)
    <3>1. /\ Past(r) <=> rideReq[w].at \in {"reread", "write"} /\ Ends(rideReq[w].to)
          /\ Past(r)' <=> job.at \in {"reread", "write"} /\ Ends(job.to)
      BY <1>3, StepApart DEF RidesInv
    <3> QED BY <1>2, <1>5, <3>1
  <2>2. \A d \in Drivers : Keeps(r, d)' <=> Keeps(r, d)
    BY <2>1, NoneIsNoDriver DEF Keeps, Cab!Live, Cab!StatusRequest
  <2> QED BY <1>2, <1>3, <2>2, FlaggedStep DEF RidesInv, Cab!StatusRequest
<1>7. Settled'
  BY <1>2, <1>3, <1>5, MoneyQuiet DEF RidesInv, Cab!StatusRequest, Cab!Booked
<1>8. Rated'
  BY <1>2, <1>3, <1>5, RatedQuiet DEF RidesInv, Cab!StatusRequest
<1> QED BY <1>4, <1>6, <1>7, <1>8 DEF RidesInv

LEMMA TipRequestKeeps ==
  ASSUME ~StepsOverlap, RidesInv, NEW w \in RideWorkers, NEW r \in Rides, Cab!TipRequest(w, r)
  PROVE  RidesInv'
<1>1. PICK job : job = Cab!Job(IF r \in PaidRides THEN "debitTip" ELSE "writeTip", r, Cab!None)
  OBVIOUS
<1>2. /\ job \in RideJobs /\ job.r = r /\ job.to = Cab!None /\ job.rating = Cab!NoReview
      /\ job.at = IF r \in PaidRides THEN "debitTip" ELSE "writeTip"
  BY <1>1, JobIs DEF RidesInv, RidesBase, RideStages
<1>3. RideStep(w, r, job) /\ RidesTyped' /\ (\A d : Cab!Exists(d)' <=> Cab!Exists(d))
  BY <1>1, <1>2, RideStarts DEF Cab!TipRequest, Cab!Free, RidesInv, RidesBase
<1>4. RidesBase'
  <2>1. Knows(job)'
    BY <1>2 DEF Cab!TipRequest, Cab!Tippable, Knows
  <2>2. RideKnown(r)'
    BY <1>3 DEF RidesInv, RidesBase, RideKnown, Cab!TipRequest
  <2> QED BY <1>3, <2>1, <2>2, BaseStep DEF RidesInv
<1>5. rideReq[w].at = "idle"
  BY DEF Cab!TipRequest, Cab!Start, Cab!At
<1>6. Flagged'
  <2>1. \A d \in Drivers : ~Keeps(r, d) /\ ~Keeps(r, d)'
    BY DEF Cab!TipRequest, Cab!Tippable, Keeps, Cab!Live
  <2> QED BY <1>2, <1>3, <2>1, FlaggedStep DEF RidesInv, Cab!TipRequest
<1>7. Settled'
  <2>1. MoneyKept(r)
    BY DEF RidesInv, Settled
  <2>2. /\ OnRide(r, "writeTip")' <=> r \notin PaidRides
        /\ ~OnRide(r, "insert") /\ ~OnRide(r, "refund") /\ ~OnRide(r, "writeTip")
        /\ ~OnRide(r, "refund")' /\ ~OnRide(r, "insert")'
    <3>1. \A stage : stage # "idle" => /\ OnRide(r, stage) <=> rideReq[w].at = stage
                                       /\ OnRide(r, stage)' <=> job.at = stage
      BY <1>3, StepApart DEF RidesInv
    <3> QED BY <1>2, <1>5, <3>1
  <2>3. MoneyKept(r)'
    BY <2>1, <2>2 DEF MoneyKept, Charged, Repaid, TipTaken, Cab!Booked, Cab!TipRequest, Cab!postings
  <2> QED BY <1>3, <2>3, SettledStep DEF RidesInv, Cab!TipRequest, Cab!postings
<1>8. Rated'
  BY <1>2, <1>3, <1>5, RatedQuiet DEF RidesInv, Cab!TipRequest
<1> QED BY <1>4, <1>6, <1>7, <1>8 DEF RidesInv

LEMMA ReviewRequestKeeps ==
  ASSUME ~StepsOverlap, RidesInv, NEW w \in RideWorkers, NEW r \in Rides, NEW n \in Ratings,
         Cab!ReviewRequest(w, r, n)
  PROVE  RidesInv'
<1>1. PICK job : job = [Cab!Job("review", r, Cab!None) EXCEPT !.rating = [driver |-> ride[r].driver,
                                                                         rating |-> n]]
  OBVIOUS
<1>2. /\ job \in RideJobs /\ job.r = r /\ job.to = Cab!None /\ job.at = "review"
      /\ job.rating.driver \in Drivers
  <2>1. /\ Cab!Job("review", r, Cab!None) \in RideJobs /\ Cab!Job("review", r, Cab!None).at = "review"
        /\ Cab!Job("review", r, Cab!None).r = r /\ Cab!Job("review", r, Cab!None).to = Cab!None
    BY JobIs DEF RidesInv, RidesBase, RideStages
  <2>2. [driver |-> ride[r].driver, rating |-> n] \in ReviewRows /\ ride[r].driver \in Drivers
    BY DEF RidesInv, RidesBase, RidesTyped, RideRows, ReviewRows, Cab!ReviewRequest
  <2> QED BY <1>1, <2>1, <2>2 DEF RideJobs
<1>3. RideStep(w, r, job) /\ RidesTyped' /\ (\A d : Cab!Exists(d)' <=> Cab!Exists(d))
  BY <1>1, <1>2, RideStarts DEF Cab!ReviewRequest, Cab!Free, RidesInv, RidesBase
<1>4. RidesBase'
  <2>1. Knows(job)'
    BY <1>2 DEF Cab!ReviewRequest, Knows
  <2>2. RideKnown(r)'
    BY <1>3 DEF RidesInv, RidesBase, RideKnown, Cab!ReviewRequest
  <2> QED BY <1>3, <2>1, <2>2, BaseStep DEF RidesInv
<1>5. rideReq[w].at = "idle"
  BY DEF Cab!ReviewRequest, Cab!Start, Cab!At
<1>6. Flagged'
  <2>1. \A d \in Drivers : ~Keeps(r, d) /\ ~Keeps(r, d)'
    BY DEF Cab!ReviewRequest, Keeps, Cab!Live
  <2> QED BY <1>2, <1>3, <2>1, FlaggedStep DEF RidesInv, Cab!ReviewRequest
<1>7. Settled'
  BY <1>2, <1>3, <1>5, MoneyQuiet DEF RidesInv, Cab!ReviewRequest, Cab!Booked
<1>8. Rated'
  <2> SUFFICES ASSUME deadRides = {}
               PROVE  /\ \A u, v \in RideWorkers : (Reviewing(u) /\ Reviewing(v))' => u = v
                      /\ \A d \in Drivers : (RatingKept(d) \/ Rates(d))'
                      /\ \A v \in RideWorkers : Cab!At(v, "rate")' =>
                           rideReq'[v].total = Cab!Aggregate(rideReq[v].rating.driver)'
    BY DEF Rated, Cab!ReviewRequest
  <2>1. \A v \in RideWorkers : ~Reviewing(v)
    BY DEF Cab!ReviewRequest, Reviewing
  <2>2. \A v \in RideWorkers : Reviewing(v)' => v = w
    BY <1>3, <2>1 DEF Reviewing, Cab!Running, Cab!At, RideStep
  <2>3. \A v \in RideWorkers : \A stage \in {"aggregate", "rate"} :
          /\ Cab!At(v, stage)' <=> Cab!At(v, stage)
          /\ Cab!At(v, stage) => rideReq'[v] = rideReq[v]
    BY <1>2, <1>3, <1>5 DEF Cab!At, RideStep
  <2>4. \A d \in Drivers : Rates(d)' <=> Rates(d)
    BY <2>3 DEF Rates
  <2>5. \A d : Cab!Aggregate(d)' = Cab!Aggregate(d)
    BY DEF Cab!Aggregate, Cab!Said, Cab!ReviewsOf, Cab!ReviewRequest
  <2>6. \A d \in Drivers : RatingKept(d)' <=> RatingKept(d)
    BY <2>5 DEF RatingKept, Cab!ReviewRequest
  <2>7. \A v \in RideWorkers : Cab!At(v, "rate")' => rideReq'[v].total = Cab!Aggregate(rideReq[v].rating.driver)'
    BY <2>3, <2>5 DEF RidesInv, Rated
  <2> QED BY <2>2, <2>4, <2>6, <2>7 DEF RidesInv, Rated
<1> QED BY <1>4, <1>6, <1>7, <1>8 DEF RidesInv

(* What the request on a ride does, statement by statement.                  *)
LEMMA DebitKeeps ==
  ASSUME RidesInv, NEW w \in RideWorkers, Cab!Debit(w)
  PROVE  RidesInv'
<1>1. PICK r \in Rides : r = rideReq[w].r
  BY RideJobTyped DEF RidesInv, RidesBase, Cab!Debit, Cab!At, Cab!Running
<1>2. Cab!Running(w) /\ rideReq[w].at = "debit" /\ Knows(rideReq[w])
  BY DEF RidesInv, RidesBase, Cab!Debit, Cab!At, Cab!Running
<1>3. rideReq' \in [RideWorkers -> RideJobs \cup {Cab!Idle}]
  BY <1>2, RideGoes DEF RidesInv, RidesBase, Cab!Debit, RideStages
<1>4. PICK job \in RideJobs :
        /\ RideStep(w, r, job) /\ job.at = "insert" /\ job.r = r /\ job.to = rideReq[w].to
        /\ job.rating = rideReq[w].rating
  BY <1>1, <1>2, RideGoes DEF RidesInv, RidesBase, Cab!Debit, RideStages
<1>5. RidesBase'
  <2>1. RidesTyped'
    BY <1>1, <1>3 DEF RidesInv, RidesBase, RidesTyped, Cab!Debit
  <2>2. Knows(job)' /\ \A d : Cab!Exists(d)' <=> Cab!Exists(d)
    BY <1>1, <1>2, <1>4 DEF Knows, Cab!Debit, Cab!Exists
  <2>3. RideKnown(r)'
    BY <2>2 DEF RidesInv, RidesBase, RideKnown, Cab!Debit
  <2> QED BY <1>4, <2>1, <2>2, <2>3, BaseStep DEF RidesInv
<1>6. Flagged'
  <2>1. \A d \in Drivers : ~Keeps(r, d) /\ ~Keeps(r, d)'
    BY <1>1, <1>2 DEF Knows, Keeps, Cab!Live, Cab!Debit
  <2> QED BY <1>4, <2>1, FlaggedStep DEF RidesInv, Cab!Debit, Cab!Exists
<1>7. Settled'
  <2>1. MoneyKept(r)
    BY DEF RidesInv, Settled
  <2>2. /\ OnRide(r, "insert")' /\ ~OnRide(r, "refund")' /\ ~OnRide(r, "writeTip")'
        /\ ~OnRide(r, "insert") /\ ~OnRide(r, "refund") /\ ~OnRide(r, "writeTip")
    <3>1. \A stage : stage # "idle" => /\ OnRide(r, stage) <=> rideReq[w].at = stage
                                       /\ OnRide(r, stage)' <=> job.at = stage
      BY <1>4, StepApart DEF RidesInv
    <3> QED BY <1>2, <1>4, <3>1
  <2>3. r \in PaidRides /\ ~Cab!Booked(r) /\ ride' = ride
    BY <1>1, <1>2 DEF Knows, Cab!Booked, Cab!Debit
  <2>4. /\ debited'[r] = debited[r] + 1 /\ debited[r] \in Nat
        /\ \A q \in Rides : q # r => debited'[q] = debited[q]
    BY <1>1 DEF Cab!Debit, RidesInv, RidesBase, RidesTyped
  <2>5. Charged(r)' /\ ~Charged(r) /\ (Repaid(r)' <=> Repaid(r)) /\ (TipTaken(r)' <=> TipTaken(r))
    BY <2>2, <2>3 DEF Charged, Repaid, TipTaken
  <2>6. MoneyKept(r)'
    BY <2>1, <2>2, <2>3, <2>4, <2>5 DEF MoneyKept, Cab!Debit, Cab!Booked
  <2> QED BY <1>4, <2>4, <2>6, SettledStep DEF RidesInv, Cab!Debit
<1>8. Rated'
  BY <1>2, <1>4, RatedQuiet DEF RidesInv, Cab!Debit, Reviewing
<1> QED BY <1>5, <1>6, <1>7, <1>8 DEF RidesInv

LEMMA InsertKeeps ==
  ASSUME RidesInv, NEW w \in RideWorkers, Cab!Insert(w)
  PROVE  RidesInv'
<1>1. PICK r \in Rides : r = rideReq[w].r
  BY RideJobTyped DEF RidesInv, RidesBase, Cab!Insert, Cab!At, Cab!Running
<1>2. Cab!Running(w) /\ rideReq[w].at = "insert" /\ Knows(rideReq[w])
  BY DEF RidesInv, RidesBase, Cab!Insert, Cab!At, Cab!Running
<1>3. PICK row : row = [Cab!Unbooked EXCEPT !.status = "REQUESTED",
                                            !.paid = IF r \in PaidRides THEN "PAID" ELSE "PENDING"]
  OBVIOUS
<1>4. /\ row \in RideRows /\ row.status = "REQUESTED" /\ row.driver = Cab!None /\ ~row.tip
      /\ row.paid = IF r \in PaidRides THEN "PAID" ELSE "PENDING"
  BY <1>3 DEF Cab!Unbooked, RideRows, Cab!Statuses
<1>5. ride' = [ride EXCEPT ![r] = row] /\ ride'[r] = row /\ ride' \in [Rides -> RideRows]
  BY <1>1, <1>3, <1>4 DEF Cab!Insert, RidesInv, RidesBase, RidesTyped
<1>6. rideReq' \in [RideWorkers -> RideJobs \cup {Cab!Idle}]
  BY <1>1, <1>2, <1>5, RideGoes DEF RidesInv, RidesBase, RidesTyped, Cab!Insert, RideStages
<1>7. PICK job \in RideJobs :
        /\ RideStep(w, r, job) /\ job.at = "find" /\ job.r = r /\ job.to = rideReq[w].to
        /\ job.rating = rideReq[w].rating
  BY <1>1, <1>2, <1>5, RideGoes DEF RidesInv, RidesBase, RidesTyped, Cab!Insert, RideStages
<1>8. ride[r].status = "none" /\ rideReq[w].to = "REQUESTED"
  BY <1>1, <1>2 DEF Knows
<1>9. RidesBase'
  <2>1. RidesTyped'
    BY <1>5, <1>6 DEF RidesInv, RidesBase, RidesTyped, Cab!Insert, Cab!postings
  <2>2. Knows(job)' /\ \A d : Cab!Exists(d)' <=> Cab!Exists(d)
    BY <1>4, <1>5, <1>7, <1>8 DEF Knows, Cab!Insert, Cab!Exists
  <2>3. RideKnown(r)'
    BY <1>4, <1>5 DEF RideKnown
  <2> QED BY <1>7, <2>1, <2>2, <2>3, BaseStep DEF RidesInv
<1>10. Flagged'
  <2>1. \A d \in Drivers : ~Keeps(r, d) /\ ~Keeps(r, d)'
    BY <1>4, <1>5, <1>8 DEF Keeps, Cab!Live
  <2> QED BY <1>7, <2>1, FlaggedStep DEF RidesInv, Cab!Insert, Cab!Exists
<1>11. Settled'
  <2>1. MoneyKept(r)
    BY DEF RidesInv, Settled
  <2>2. /\ ~OnRide(r, "insert")' /\ ~OnRide(r, "refund")' /\ ~OnRide(r, "writeTip")'
        /\ OnRide(r, "insert") /\ ~OnRide(r, "refund") /\ ~OnRide(r, "writeTip")
    <3>1. \A stage : stage # "idle" => /\ OnRide(r, stage) <=> rideReq[w].at = stage
                                       /\ OnRide(r, stage)' <=> job.at = stage
      BY <1>7, StepApart DEF RidesInv
    <3> QED BY <1>2, <1>7, <3>1
  <2>3. ~ride[r].tip
    BY <1>8 DEF RidesInv, RidesBase, RideKnown
  <2>4. /\ Charged(r)' <=> Charged(r)
        /\ ~Repaid(r)' /\ ~Repaid(r) /\ ~TipTaken(r)' /\ ~TipTaken(r)
    BY <1>4, <1>5, <1>8, <2>2, <2>3 DEF Charged, Repaid, TipTaken, Cab!Booked
  <2>5. MoneyKept(r)'
    BY <1>4, <1>5, <2>1, <2>2, <2>4 DEF MoneyKept, Cab!Insert, Cab!Booked, Cab!postings
  <2> QED BY <1>7, <2>5, SettledStep DEF RidesInv, Cab!Insert, Cab!postings
<1>12. Rated'
  BY <1>2, <1>7, RatedQuiet DEF RidesInv, Cab!Insert, Reviewing
<1> QED BY <1>9, <1>10, <1>11, <1>12 DEF RidesInv

LEMMA FindDriverKeeps ==
  ASSUME ~StepsOverlap, RidesInv, NEW w \in RideWorkers, Cab!FindDriver(w)
  PROVE  RidesInv'
<1>1. PICK r \in Rides : r = rideReq[w].r
  BY RideJobTyped, Zenon DEF RidesInv, RidesBase, Cab!FindDriver, Cab!At, Cab!Running
<1>2. Cab!Running(w) /\ rideReq[w].at = "find" /\ Knows(rideReq[w])
  BY Zenon DEF RidesInv, RidesBase, Cab!FindDriver, Cab!At, Cab!Running
<1>3. PICK job \in RideJobs :
        /\ RideStep(w, r, job) /\ job.r = r /\ job.to = rideReq[w].to
        /\ rideReq' \in [RideWorkers -> RideJobs \cup {Cab!Idle}]
        /\ job.rating = rideReq[w].rating
        /\ job.at = "end" \/ (job.at = "assign" /\ job.found \in Cab!Candidates)
  <2>1. CASE Cab!Candidates = {} /\ Cab!Go(w, "end")
    BY <1>1, <1>2, <2>1, RideGoes DEF RidesInv, RidesBase, Cab!FindDriver, RideStages
  <2>2. ASSUME NEW d \in Cab!Candidates, Cab!Become(w, [rideReq[w] EXCEPT !.at = "assign", !.found = d])
        PROVE  \E job \in RideJobs :
                 /\ RideStep(w, r, job) /\ job.r = r /\ job.to = rideReq[w].to
                 /\ rideReq' \in [RideWorkers -> RideJobs \cup {Cab!Idle}]
                 /\ job.rating = rideReq[w].rating
                 /\ job.at = "end" \/ (job.at = "assign" /\ job.found \in Cab!Candidates)
    <3>1. PICK job : job = [rideReq[w] EXCEPT !.at = "assign", !.found = d]
      OBVIOUS
    <3>2. /\ job \in RideJobs /\ job.r = r /\ job.to = rideReq[w].to /\ job.at = "assign"
          /\ job.found = d /\ job.rating = rideReq[w].rating
      <4>1. rideReq[w] \in RideJobs
        BY <1>2, RideJobTyped DEF RidesInv, RidesBase
      <4>2. d \in Drivers /\ "assign" \in RideStages
        BY DEF Cab!Candidates, RideStages
      <4> QED BY <1>1, <3>1, <4>1, <4>2 DEF RideJobs
    <3>3. RideStep(w, r, job) /\ rideReq' \in [RideWorkers -> RideJobs \cup {Cab!Idle}]
      BY <1>1, <1>2, <2>2, <3>1, <3>2, RideBecomes, Zenon DEF RidesInv, RidesBase, Cab!FindDriver
    <3> QED BY <3>2, <3>3
  <2> QED BY <2>1, <2>2, Zenon DEF Cab!FindDriver
<1>4. ride[r].status = "REQUESTED" /\ rideReq[w].to = "REQUESTED"
  BY <1>1, <1>2 DEF Knows
<1>5. RidesBase'
  <2>1. RidesTyped'
    BY <1>3, Zenon DEF RidesInv, RidesBase, RidesTyped, Cab!FindDriver, Cab!postings
  <2>2. Knows(job)' /\ \A d : Cab!Exists(d)' <=> Cab!Exists(d)
    BY <1>3, <1>4, Zenon DEF Knows, Cab!FindDriver, Cab!Exists, Cab!Candidates
  <2>3. RideKnown(r)'
    BY <2>2, Zenon DEF RidesInv, RidesBase, RideKnown, Cab!FindDriver
  <2> QED BY <1>3, <2>1, <2>2, <2>3, BaseStep DEF RidesInv
<1>6. \A q \in Rides, d \in Drivers : Keeps(q, d)' <=> Keeps(q, d)
  <2>1. \A q \in Rides : q # r => (Past(q)' <=> Past(q))
    BY <1>3, StepApart DEF RidesInv
  <2> QED BY <1>4, <2>1, Zenon DEF Keeps, Cab!Live, Cab!FindDriver
<1>7. Flagged'
  <2>1. CASE job.at # "assign"
    BY <1>3, <1>6, <2>1, FlaggedStep, Zenon DEF RidesInv, Cab!FindDriver, Cab!Exists
  <2>2. CASE job.at = "assign"
    <3> SUFFICES ASSUME deadRides = {} PROVE (Accounted /\ (FreshScreens => Exclusive))'
      BY Zenon DEF Flagged, Cab!FindDriver
    <3>1. Accounted'
      BY <1>6, Zenon DEF RidesInv, Flagged, Accounted, Cab!Exists, Cab!FindDriver
    <3>2. ASSUME FreshScreens PROVE Exclusive'
      <4>1. Exclusive
        BY <3>2 DEF RidesInv, Flagged
      <4>2. \A v \in RideWorkers : ~Cab!At(v, "assign")
        BY Zenon DEF Cab!FindDriver, Cab!Searching
      <4>3. \A v \in RideWorkers : Cab!At(v, "assign")' => v = w
        BY <1>3, <4>2, Zenon DEF Cab!At, RideStep
      <4>4. rideReq'[w] = job /\ driver'[job.found].isAvailable
        BY <1>3, <2>2, Zenon DEF RideStep, Cab!Candidates, Cab!FindDriver
      <4>5. driver' = driver
        BY Zenon DEF Cab!FindDriver
      <4> QED BY <1>6, <4>1, <4>3, <4>4, <4>5 DEF Exclusive
    <3> QED BY <3>1, <3>2
  <2> QED BY <2>1, <2>2
<1>8. Settled'
  BY <1>2, <1>3, MoneyQuiet, Zenon DEF RidesInv, Cab!FindDriver, Cab!Booked
<1>9. Rated'
  BY <1>2, <1>3, RatedQuiet, Zenon DEF RidesInv, Cab!FindDriver, Reviewing
<1> QED BY <1>5, <1>7, <1>8, <1>9 DEF RidesInv

LEMMA AssignDriverKeeps ==
  ASSUME ~StepsOverlap, RidesInv, NEW w \in RideWorkers, Cab!AssignDriver(w)
  PROVE  RidesInv'
<1>1. PICK r \in Rides, d \in Drivers : r = rideReq[w].r /\ d = rideReq[w].found
  BY RideJobTyped DEF RidesInv, RidesBase, Cab!AssignDriver, Cab!At, Cab!Running, Knows
<1>2. Cab!Running(w) /\ rideReq[w].at = "assign" /\ Knows(rideReq[w])
  BY DEF RidesInv, RidesBase, Cab!AssignDriver, Cab!At, Cab!Running
<1>3. /\ ride[r] \in RideRows /\ ride \in [Rides -> RideRows]
      /\ driver[d] \in DriverRows /\ driver \in [Drivers -> DriverRows]
  BY DEF RidesInv, RidesBase, RidesTyped
<1>4. ride[r].status = "REQUESTED" /\ rideReq[w].to = "REQUESTED"
  BY <1>1, <1>2 DEF Knows
<1>5. PICK row \in RideRows :
        /\ ride' = [ride EXCEPT ![r] = row]
        /\ row.paid = ride[r].paid /\ row.tip = ride[r].tip
        /\ IF Cab!Exists(d) THEN row.driver = d /\ row.status = "DRIVER_ASSIGNED" ELSE row = ride[r]
  <2>1. CASE Cab!Exists(d)
    <3>1. PICK row : row = [ride[r] EXCEPT !.driver = d, !.status = "DRIVER_ASSIGNED"]
      OBVIOUS
    <3>2. ride' = [ride EXCEPT ![r] = row]
      BY <1>1, <1>3, <2>1, <3>1 DEF Cab!AssignDriver, RideRows
    <3>3. /\ row \in RideRows /\ row.paid = ride[r].paid /\ row.tip = ride[r].tip
          /\ row.driver = d /\ row.status = "DRIVER_ASSIGNED"
      BY <1>3, <3>1 DEF RideRows, Cab!Statuses
    <3> QED BY <2>1, <3>2, <3>3
  <2>2. CASE ~Cab!Exists(d)
    <3>1. ride' = ride
      BY <1>1, <2>2 DEF Cab!AssignDriver
    <3>2. ride' = [ride EXCEPT ![r] = ride[r]]
      BY <1>3, <3>1
    <3> QED BY <1>3, <2>2, <3>2
  <2> QED BY <2>1, <2>2
<1>6. PICK man \in DriverRows :
        /\ driver' = [driver EXCEPT ![d] = man]
        /\ man.status = driver[d].status /\ man.count = driver[d].count /\ man.sum = driver[d].sum
        /\ man.isAvailable = IF Cab!Exists(d) THEN FALSE ELSE driver[d].isAvailable
  <2>1. CASE Cab!Exists(d)
    <3>1. PICK man : man = [driver[d] EXCEPT !.isAvailable = FALSE]
      OBVIOUS
    <3>2. driver' = [driver EXCEPT ![d] = man]
      BY <1>1, <1>3, <2>1, <3>1 DEF Cab!AssignDriver
    <3>3. /\ man \in DriverRows /\ man.status = driver[d].status /\ man.count = driver[d].count
          /\ man.sum = driver[d].sum /\ man.isAvailable = FALSE
      BY <1>3, <3>1 DEF DriverRows
    <3> QED BY <2>1, <3>2, <3>3
  <2>2. CASE ~Cab!Exists(d)
    <3>1. driver' = driver
      BY <1>1, <2>2 DEF Cab!AssignDriver
    <3>2. driver' = [driver EXCEPT ![d] = driver[d]]
      BY <1>3, <3>1
    <3> QED BY <1>3, <2>2, <3>2
  <2> QED BY <2>1, <2>2
<1>7. /\ ride'[r] = row /\ \A q \in Rides : q # r => ride'[q] = ride[q]
      /\ driver'[d] = man /\ \A e \in Drivers : e # d => driver'[e] = driver[e]
      /\ ride' \in [Rides -> RideRows] /\ driver' \in [Drivers -> DriverRows]
      /\ \A e : Cab!Exists(e)' <=> Cab!Exists(e)
  BY <1>3, <1>5, <1>6, Zenon DEF Cab!Exists
<1>8. rideReq' \in [RideWorkers -> RideJobs \cup {Cab!Idle}]
  BY <1>1, <1>2, <1>7, RideGoes DEF RidesInv, RidesBase, RidesTyped, Cab!AssignDriver, RideStages
<1>9. PICK job \in RideJobs :
        /\ RideStep(w, r, job) /\ job.at = "end" /\ job.r = r /\ job.to = rideReq[w].to
        /\ job.rating = rideReq[w].rating
  BY <1>1, <1>2, <1>7, RideGoes DEF RidesInv, RidesBase, RidesTyped, Cab!AssignDriver, RideStages
<1>10. RidesBase'
  <2>1. RidesTyped'
    BY <1>7, <1>8 DEF RidesInv, RidesBase, RidesTyped, Cab!AssignDriver, Cab!postings
  <2>2. Knows(job)'
    BY <1>9 DEF Knows
  <2>3. RideKnown(r)'
    <3>1. CASE Cab!Exists(d)
      BY <1>5, <1>7, <3>1 DEF RideKnown
    <3>2. CASE ~Cab!Exists(d)
      BY <1>5, <1>7, <3>2 DEF RidesInv, RidesBase, RideKnown
    <3> QED BY <3>1, <3>2
  <2> QED BY <1>7, <1>9, <2>1, <2>2, <2>3, BaseStep DEF RidesInv
<1>11. /\ \A q \in Rides : q # r => \A e \in Drivers : Keeps(q, e)' <=> Keeps(q, e)
       /\ \A e \in Drivers : ~Keeps(r, e)
       /\ \A e \in Drivers : Keeps(r, e)' <=> e = d /\ Cab!Exists(d)
  <2>1. /\ \A q \in Rides : q # r => (Past(q)' <=> Past(q))
        /\ ~Past(r)'
    BY <1>9, StepApart DEF RidesInv
  <2>2. \A e \in Drivers : Keeps(r, e)' <=> e = d /\ Cab!Exists(d)
    <3>1. CASE Cab!Exists(d)
      BY <1>5, <1>7, <2>1, <3>1 DEF Keeps, Cab!Live
    <3>2. CASE ~Cab!Exists(d)
      BY <1>4, <1>5, <1>7, <2>1, <3>2 DEF Keeps, Cab!Live
    <3> QED BY <3>1, <3>2
  <2> QED BY <1>4, <1>7, <2>1, <2>2 DEF Keeps, Cab!Live
<1>12. Flagged'
  <2> SUFFICES ASSUME deadRides = {} PROVE (Accounted /\ (FreshScreens => Exclusive))'
    BY DEF Flagged, Cab!AssignDriver
  <2>1. Accounted'
    <3>1. ASSUME NEW e \in Drivers, Cab!Exists(e), ~driver'[e].isAvailable
          PROVE  \E q \in Rides : Keeps(q, e)'
      <4>1. CASE e = d
        BY <1>11, <3>1, <4>1
      <4>2. CASE e # d
        <5>1. PICK q \in Rides : Keeps(q, e)
          BY <1>7, <3>1, <4>2 DEF RidesInv, Flagged, Accounted
        <5> QED BY <1>11, <5>1
      <4> QED BY <4>1, <4>2
    <3> QED BY <1>7, <3>1 DEF Accounted
  <2>2. ASSUME FreshScreens PROVE Exclusive'
    <3>1. Exclusive
      BY <2>2 DEF RidesInv, Flagged
    <3>2. \A v \in RideWorkers : ~Cab!At(v, "assign")'
      BY <1>2, <1>9, <3>1 DEF Cab!At, RideStep, Exclusive
    <3>3. Cab!Exists(d) => driver[d].isAvailable
      BY <1>1, <1>2, <3>1 DEF Exclusive, Cab!At
    <3>4. Cab!Exists(d) => \A q \in Rides : ~Keeps(q, d)
      BY <3>1, <3>3 DEF Exclusive
    <3>5. \A q \in Rides, e \in Drivers : Keeps(q, e)' =>
            \/ q = r /\ e = d /\ Cab!Exists(d)
            \/ Keeps(q, e) /\ (Cab!Exists(d) => e # d)
      BY <1>11, <3>4
    <3>6. \A q \in Rides, e \in Drivers : Keeps(q, e)' => ~driver'[e].isAvailable
      <4> SUFFICES ASSUME NEW q \in Rides, NEW e \in Drivers, Keeps(q, e)'
                   PROVE  ~driver'[e].isAvailable
        OBVIOUS
      <4>1. CASE e = d /\ Cab!Exists(d)
        BY <1>6, <1>7, <4>1
      <4>2. CASE Keeps(q, e) /\ (Cab!Exists(d) => e # d)
        BY <1>6, <1>7, <3>1, <4>2 DEF Exclusive
      <4> QED BY <3>5, <4>1, <4>2
    <3>7. \A q, s \in Rides, e \in Drivers : Keeps(q, e)' /\ Keeps(s, e)' => q = s
      BY <3>1, <3>5 DEF Exclusive
    <3> QED BY <3>2, <3>6, <3>7 DEF Exclusive
  <2> QED BY <2>1, <2>2
<1>13. Settled'
  <2>1. /\ Cab!Booked(r)' <=> Cab!Booked(r)
        /\ ride'[r].status = "CANCELLED" <=> ride[r].status = "CANCELLED"
        /\ ride'[r].paid = ride[r].paid /\ ride'[r].tip = ride[r].tip
    <3>1. CASE Cab!Exists(d)
      BY <1>4, <1>5, <1>7, <3>1 DEF Cab!Booked
    <3>2. CASE ~Cab!Exists(d)
      BY <1>5, <1>7, <3>2 DEF Cab!Booked
    <3> QED BY <3>1, <3>2
  <2> QED BY <1>2, <1>9, <2>1, MoneyQuiet DEF RidesInv, Cab!AssignDriver
<1>14. Rated'
  <2>1. \A e \in Drivers : driver'[e].count = driver[e].count /\ driver'[e].sum = driver[e].sum
    BY <1>6, <1>7
  <2> QED BY <1>2, <1>9, <2>1, RatedQuiet DEF RidesInv, Cab!AssignDriver, Reviewing
<1> QED BY <1>10, <1>12, <1>13, <1>14, Zenon DEF RidesInv

LEMMA RespondKeeps ==
  ASSUME RidesInv, NEW w \in RideWorkers, Cab!Respond(w)
  PROVE  RidesInv'
<1>1. PICK r \in Rides : r = rideReq[w].r
  BY RideJobTyped DEF RidesInv, RidesBase, Cab!Respond, Cab!At, Cab!Running
<1>2. Cab!Running(w) /\ rideReq[w].at = "end"
  BY DEF Cab!Respond, Cab!At, Cab!Running
<1>3. RideStep(w, r, Cab!Idle) /\ rideReq' \in [RideWorkers -> RideJobs \cup {Cab!Idle}]
  BY <1>1, <1>2, RideBecomes DEF RidesInv, RidesBase, Cab!Respond, Cab!End
<1>4. Cab!Idle.at = "idle" /\ rideReq'[w] = Cab!Idle
  BY <1>3 DEF Cab!Idle, RideStep
<1>5. RidesBase'
  <2>1. RidesTyped'
    BY <1>3 DEF RidesInv, RidesBase, RidesTyped, Cab!Respond, Cab!postings
  <2>2. ~Cab!Running(w)' /\ \A d : Cab!Exists(d)' <=> Cab!Exists(d)
    BY <1>4 DEF Cab!Running, Cab!At, Cab!Respond, Cab!Exists
  <2>3. RideKnown(r)'
    BY <2>2 DEF RidesInv, RidesBase, RideKnown, Cab!Respond
  <2> QED BY <1>3, <2>1, <2>2, <2>3, BaseStep DEF RidesInv
<1>6. Flagged'
  <2>1. \A d \in Drivers : Keeps(r, d)' <=> Keeps(r, d)
    <3>1. ~Past(r) /\ ~Past(r)'
      BY <1>2, <1>3, <1>4, StepApart DEF RidesInv
    <3> QED BY <3>1 DEF Keeps, Cab!Live, Cab!Respond
  <2> QED BY <1>3, <1>4, <2>1, FlaggedStep DEF RidesInv, Cab!Respond, Cab!Exists
<1>7. Settled'
  BY <1>2, <1>3, <1>4, MoneyQuiet DEF RidesInv, Cab!Respond, Cab!Booked
<1>8. Rated'
  BY <1>2, <1>3, <1>4, RatedQuiet DEF RidesInv, Cab!Respond
<1> QED BY <1>5, <1>6, <1>7, <1>8 DEF RidesInv

LEMMA FreeDriverKeeps ==
  ASSUME RidesInv, NEW w \in RideWorkers, Cab!FreeDriver(w)
  PROVE  RidesInv'
<1>1. PICK r \in Rides : r = rideReq[w].r
  BY RideJobTyped DEF RidesInv, RidesBase, Cab!FreeDriver, Cab!At, Cab!Running
<1>2. Cab!Running(w) /\ rideReq[w].at = "free" /\ Knows(rideReq[w])
  BY DEF RidesInv, RidesBase, Cab!FreeDriver, Cab!At, Cab!Running
<1>3. PICK d : d = rideReq[w].seen.driver
  OBVIOUS
<1>4. /\ Ends(rideReq[w].to) /\ rideReq[w].to \in Cab!Statuses /\ (Cab!Exists(d) => ride[r].driver = d)
      /\ ride[r].status # "none"
      /\ FreshScreens => rideReq[w].to \in Cab!Allowed[ride[r].status]
  BY <1>1, <1>2, <1>3 DEF Knows
<1>5. ride' = ride
  BY DEF Cab!FreeDriver
<1>6. CASE ~Cab!Exists(d)
  <2>1. driver' = driver /\ Cab!Go(w, "end")
    BY <1>3, <1>6 DEF Cab!FreeDriver
  <2>2. rideReq' \in [RideWorkers -> RideJobs \cup {Cab!Idle}]
    BY <1>1, <1>2, <1>5, <2>1, RideGoes DEF RidesInv, RidesBase, RideStages
  <2>3. PICK job \in RideJobs :
          /\ RideStep(w, r, job) /\ job.at = "end" /\ job.r = r /\ job.to = rideReq[w].to
          /\ job.rating = rideReq[w].rating
    BY <1>1, <1>2, <1>5, <2>1, RideGoes DEF RidesInv, RidesBase, RideStages
  <2>4. RidesBase'
    <3>1. RidesTyped'
      BY <1>5, <2>1, <2>2 DEF RidesInv, RidesBase, RidesTyped, Cab!FreeDriver, Cab!postings
    <3>2. Knows(job)' /\ \A e : Cab!Exists(e)' <=> Cab!Exists(e)
      BY <2>1, <2>3 DEF Knows, Cab!Exists
    <3>3. RideKnown(r)'
      BY <1>5, <3>2 DEF RidesInv, RidesBase, RideKnown
    <3> QED BY <2>3, <3>1, <3>2, <3>3, BaseStep DEF RidesInv
  <2>5. Flagged'
    <3>1. \A e \in Drivers : Keeps(r, e)' <=> Keeps(r, e)
      <4>1. ~Past(r) /\ ~Past(r)'
        BY <1>2, <2>3, StepApart DEF RidesInv
      <4> QED BY <1>5, <4>1 DEF Keeps, Cab!Live
    <3> QED BY <2>1, <2>3, <3>1, FlaggedStep DEF RidesInv, Cab!FreeDriver, Cab!Exists
  <2>6. Settled'
    BY <1>2, <1>5, <2>3, MoneyQuiet DEF RidesInv, Cab!FreeDriver, Cab!Booked
  <2>7. Rated'
    BY <1>2, <2>1, <2>3, RatedQuiet DEF RidesInv, Cab!FreeDriver, Reviewing
  <2> QED BY <2>4, <2>5, <2>6, <2>7 DEF RidesInv
<1>7. CASE Cab!Exists(d)
  <2>1. d \in Drivers /\ driver[d] \in DriverRows /\ driver \in [Drivers -> DriverRows]
    BY <1>7 DEF Cab!Exists, RidesInv, RidesBase, RidesTyped
  <2>2. PICK man \in DriverRows :
          /\ driver' = [driver EXCEPT ![d] = man]
          /\ man.status = driver[d].status /\ man.count = driver[d].count
          /\ man.sum = driver[d].sum /\ man.isAvailable = TRUE
    <3>1. PICK man : man = [driver[d] EXCEPT !.isAvailable = TRUE]
      OBVIOUS
    <3>2. driver' = [driver EXCEPT ![d] = man]
      BY <1>3, <1>7, <3>1 DEF Cab!FreeDriver
    <3>3. /\ man \in DriverRows /\ man.status = driver[d].status /\ man.count = driver[d].count
          /\ man.sum = driver[d].sum /\ man.isAvailable = TRUE
      BY <2>1, <3>1 DEF DriverRows
    <3> QED BY <3>2, <3>3
  <2>3. /\ driver'[d] = man /\ \A e \in Drivers : e # d => driver'[e] = driver[e]
        /\ driver' \in [Drivers -> DriverRows]
        /\ \A e : Cab!Exists(e)' <=> Cab!Exists(e)
    BY <2>1, <2>2 DEF Cab!Exists
  <2>4. Cab!Go(w, "reread")
    BY <1>3, <1>7 DEF Cab!FreeDriver
  <2>5. rideReq' \in [RideWorkers -> RideJobs \cup {Cab!Idle}]
    BY <1>1, <1>2, <1>5, <2>4, RideGoes DEF RidesInv, RidesBase, RideStages
  <2>6. PICK job \in RideJobs :
          /\ RideStep(w, r, job) /\ job.at = "reread" /\ job.r = r /\ job.to = rideReq[w].to
          /\ job.rating = rideReq[w].rating
    BY <1>1, <1>2, <1>5, <2>4, RideGoes DEF RidesInv, RidesBase, RideStages
  <2>7. RidesBase'
    <3>1. RidesTyped'
      BY <1>5, <2>3, <2>5 DEF RidesInv, RidesBase, RidesTyped, Cab!FreeDriver, Cab!postings
    <3>2. Knows(job)'
      BY <1>4, <1>5, <2>6 DEF Knows
    <3>3. RideKnown(r)'
      BY <1>5, <2>3 DEF RidesInv, RidesBase, RideKnown
    <3> QED BY <2>3, <2>6, <3>1, <3>2, <3>3, BaseStep DEF RidesInv
  <2>8. /\ \A q \in Rides : q # r => \A e \in Drivers : Keeps(q, e)' <=> Keeps(q, e)
        /\ \A e \in Drivers : ~Keeps(r, e)'
        /\ ride[r].driver = d
        /\ FreshScreens => Keeps(r, d)
    <3>1. /\ \A q \in Rides : q # r => (Past(q)' <=> Past(q))
          /\ ~Past(r) /\ Past(r)'
      BY <1>2, <1>4, <2>6, StepApart DEF RidesInv
    <3>2. ride[r].driver = d
      BY <1>4, <1>7
    <3>3. ride[r].status \in Cab!Statuses /\ ride[r].status # "REQUESTED"
      BY <1>4, <2>1, <3>2, NoneIsNoDriver
      DEF RidesInv, RidesBase, RideKnown, RidesTyped, RideRows
    <3>4. FreshScreens => Cab!Live(r)
      BY <1>4, <3>3 DEF Cab!Live, Cab!Statuses, Cab!Allowed, Ends
    <3> QED BY <1>5, <3>1, <3>2, <3>4 DEF Keeps, Cab!Live
  <2>9. Flagged'
    <3> SUFFICES ASSUME deadRides = {} PROVE (Accounted /\ (FreshScreens => Exclusive))'
      BY DEF Flagged, Cab!FreeDriver
    <3>1. Accounted'
      <4>1. ASSUME NEW e \in Drivers, Cab!Exists(e), ~driver'[e].isAvailable
            PROVE  \E q \in Rides : Keeps(q, e)'
        <5>1. e # d
          BY <2>2, <2>3, <4>1
        <5>2. PICK q \in Rides : Keeps(q, e)
          BY <2>3, <4>1, <5>1 DEF RidesInv, Flagged, Accounted
        <5>3. q # r
          BY <2>8, <5>1, <5>2 DEF Keeps
        <5> QED BY <2>8, <5>2, <5>3
      <4> QED BY <2>3, <4>1 DEF Accounted
    <3>2. ASSUME FreshScreens PROVE Exclusive'
      <4>1. Exclusive
        BY <3>2 DEF RidesInv, Flagged
      <4>2. \A v \in RideWorkers : Cab!At(v, "assign")' => Cab!At(v, "assign") /\ rideReq'[v] = rideReq[v]
        BY <2>6 DEF Cab!At, RideStep
      <4>3. \A q \in Rides, e \in Drivers : Keeps(q, e)' => Keeps(q, e) /\ e # d
        <5> SUFFICES ASSUME NEW q \in Rides, NEW e \in Drivers, Keeps(q, e)'
                     PROVE  Keeps(q, e) /\ e # d
          OBVIOUS
        <5>1. q # r /\ Keeps(q, e)
          BY <2>8
        <5> QED BY <2>1, <2>8, <3>2, <4>1, <5>1 DEF Exclusive
      <4>4. \A q \in Rides, e \in Drivers : Keeps(q, e)' => ~driver'[e].isAvailable
        BY <2>3, <4>1, <4>3 DEF Exclusive
      <4>5. \A q, s \in Rides, e \in Drivers : Keeps(q, e)' /\ Keeps(s, e)' => q = s
        BY <4>1, <4>3 DEF Exclusive
      <4>6. \A v, u \in RideWorkers : Cab!At(v, "assign")' /\ Cab!At(u, "assign")' => v = u
        BY <4>1, <4>2 DEF Exclusive
      <4>7. ASSUME NEW v \in RideWorkers, Cab!At(v, "assign")', Cab!Exists(rideReq[v].found)'
            PROVE  driver'[rideReq'[v].found].isAvailable
        <5>1. Cab!At(v, "assign") /\ rideReq'[v] = rideReq[v]
          BY <4>2, <4>7
        <5>2. rideReq'[v].found \in Drivers
          BY <4>7 DEF Cab!Exists
        <5>3. Cab!Exists(rideReq[v].found)
          BY <2>3, <4>7, <5>1 DEF Cab!Exists
        <5>4. driver[rideReq[v].found].isAvailable
          BY <4>1, <5>1, <5>3 DEF Exclusive
        <5> QED BY <2>2, <2>3, <5>1, <5>2, <5>4
      <4> QED BY <4>4, <4>5, <4>6, <4>7 DEF Exclusive
    <3> QED BY <3>1, <3>2
  <2>10. Settled'
    BY <1>2, <1>5, <2>6, MoneyQuiet DEF RidesInv, Cab!FreeDriver, Cab!Booked
  <2>11. Rated'
    <3>1. \A e \in Drivers : driver'[e].count = driver[e].count /\ driver'[e].sum = driver[e].sum
      BY <2>2, <2>3
    <3> QED BY <1>2, <2>6, <3>1, RatedQuiet DEF RidesInv, Cab!FreeDriver, Reviewing
  <2> QED BY <2>7, <2>9, <2>10, <2>11 DEF RidesInv
<1> QED BY <1>6, <1>7

LEMMA RereadKeeps ==
  ASSUME RidesInv, NEW w \in RideWorkers, Cab!Reread(w)
  PROVE  RidesInv'
<1>1. PICK r \in Rides : r = rideReq[w].r
  BY RideJobTyped, Zenon DEF RidesInv, RidesBase, Cab!Reread, Cab!At, Cab!Running
<1>2. Cab!Running(w) /\ rideReq[w].at = "reread" /\ Knows(rideReq[w]) /\ rideReq[w].to \in Cab!Statuses
  BY DEF RidesInv, RidesBase, Cab!Reread, Cab!At, Cab!Running, Knows
<1>3. PICK job \in RideJobs :
        /\ RideStep(w, r, job) /\ job.r = r /\ job.to = rideReq[w].to
        /\ rideReq' \in [RideWorkers -> RideJobs \cup {Cab!Idle}]
        /\ job.rating = rideReq[w].rating \/ job.rating = Cab!NoReview
        /\ IF rideReq[w].to \in Cab!Allowed[ride[r].status] THEN job.at = "write" /\ job.seen = ride[r]
           ELSE job.at = "end"
  <2>1. ASSUME rideReq[w].to \notin Cab!Allowed[ride[r].status]
        PROVE  \E job \in RideJobs :
                 /\ RideStep(w, r, job) /\ job.r = r /\ job.to = rideReq[w].to
                 /\ rideReq' \in [RideWorkers -> RideJobs \cup {Cab!Idle}]
                 /\ job.rating = rideReq[w].rating /\ job.at = "end"
    <3>1. Cab!Go(w, "end")
      BY <1>1, <2>1 DEF Cab!Reread
    <3> QED BY <1>1, <1>2, <3>1, RideGoes DEF RidesInv, RidesBase, Cab!Reread, RideStages
  <2>2. ASSUME rideReq[w].to \in Cab!Allowed[ride[r].status]
        PROVE  \E job \in RideJobs :
                 /\ RideStep(w, r, job) /\ job.r = r /\ job.to = rideReq[w].to
                 /\ rideReq' \in [RideWorkers -> RideJobs \cup {Cab!Idle}]
                 /\ job.rating = Cab!NoReview /\ job.at = "write" /\ job.seen = ride[r]
    <3>1. PICK job : job = Cab!Job("write", r, rideReq[w].to)
      OBVIOUS
    <3>2. /\ job \in RideJobs /\ job.at = "write" /\ job.r = r /\ job.to = rideReq[w].to
          /\ job.seen = ride[r] /\ job.rating = Cab!NoReview
      BY <1>2, <3>1, JobIs DEF RidesInv, RidesBase, RideStages
    <3>3. Cab!Become(w, job)
      BY <1>1, <2>2, <3>1 DEF Cab!Reread
    <3>4. RideStep(w, r, job) /\ rideReq' \in [RideWorkers -> RideJobs \cup {Cab!Idle}]
      BY <1>1, <1>2, <3>2, <3>3, RideBecomes DEF RidesInv, RidesBase, Cab!Reread
    <3> QED BY <3>2, <3>4
  <2> QED BY <2>1, <2>2
<1>4. ride[r].status # "none" /\ (FreshScreens => rideReq[w].to \in Cab!Allowed[ride[r].status])
  BY <1>1, <1>2 DEF Knows
<1>5. RidesBase'
  <2>1. RidesTyped'
    BY <1>3 DEF RidesInv, RidesBase, RidesTyped, Cab!Reread, Cab!postings
  <2>2. Knows(job)' /\ \A d : Cab!Exists(d)' <=> Cab!Exists(d)
    BY <1>2, <1>3, <1>4 DEF Knows, Cab!Reread, Cab!Exists
  <2>3. RideKnown(r)'
    BY <2>2 DEF RidesInv, RidesBase, RideKnown, Cab!Reread
  <2> QED BY <1>3, <2>1, <2>2, <2>3, BaseStep DEF RidesInv
<1>6. Flagged'
  <2>1. /\ Past(r)' => Past(r)
        /\ FreshScreens => (Past(r)' <=> Past(r))
    <3>1. /\ Past(r) <=> rideReq[w].at \in {"reread", "write"} /\ Ends(rideReq[w].to)
          /\ Past(r)' <=> job.at \in {"reread", "write"} /\ Ends(job.to)
      BY <1>3, StepApart DEF RidesInv
    <3> QED BY <1>2, <1>3, <1>4, <3>1
  <2>2. /\ \A d \in Drivers : Keeps(r, d) => Keeps(r, d)'
        /\ FreshScreens => \A d \in Drivers : Keeps(r, d)' => Keeps(r, d)
    BY <2>1 DEF Keeps, Cab!Live, Cab!Reread
  <2>3. job.at # "assign"
    BY <1>3
  <2> QED BY <1>3, <2>2, <2>3, FlaggedStep DEF RidesInv, Cab!Reread, Cab!Exists
<1>7. Settled'
  BY <1>2, <1>3, MoneyQuiet DEF RidesInv, Cab!Reread, Cab!Booked
<1>8. Rated'
  BY <1>2, <1>3, RatedQuiet DEF RidesInv, Cab!Reread, Reviewing
<1> QED BY <1>5, <1>6, <1>7, <1>8 DEF RidesInv

LEMMA WriteStatusKeeps ==
  ASSUME RidesInv, NEW w \in RideWorkers, Cab!WriteStatus(w)
  PROVE  RidesInv'
<1>1. PICK r \in Rides : r = rideReq[w].r
  BY RideJobTyped, Zenon DEF RidesInv, RidesBase, Cab!WriteStatus, Cab!At, Cab!Running
<1>2. Cab!Running(w) /\ rideReq[w].at = "write" /\ Knows(rideReq[w]) /\ rideReq[w].to \in Cab!Statuses
  BY DEF RidesInv, RidesBase, Cab!WriteStatus, Cab!At, Cab!Running, Knows
<1>3. ride[r] \in RideRows /\ ride \in [Rides -> RideRows]
  BY DEF RidesInv, RidesBase, RidesTyped
<1>4. PICK to : to = rideReq[w].to
  OBVIOUS
<1>5. /\ to \in Cab!Statuses /\ to \in Cab!Allowed[ride[r].status] /\ rideReq[w].seen.paid = ride[r].paid
      /\ ride[r].status \in Cab!Statuses
  BY <1>1, <1>2, <1>3, <1>4 DEF Knows, RideRows
<1>6. Cab!Refundable(rideReq[w]) <=> to = "CANCELLED" /\ r \in PaidRides /\ ride[r].paid = "PAID"
  BY <1>1, <1>4, <1>5 DEF Cab!Refundable
<1>7. PICK row \in RideRows :
        /\ ride' = [ride EXCEPT ![r] = row] /\ row.status = to
        /\ row.driver = ride[r].driver /\ row.tip = ride[r].tip
        /\ row.paid = CASE Cab!Refundable(rideReq[w]) -> "REFUNDED"
                        [] to = "COMPLETED" -> "PAID"
                        [] OTHER -> ride[r].paid
  <2>1. PICK paid : paid = CASE Cab!Refundable(rideReq[w]) -> "REFUNDED"
                             [] to = "COMPLETED" -> "PAID"
                             [] OTHER -> ride[r].paid
    OBVIOUS
  <2>2. paid \in {"PENDING", "PAID", "REFUNDED"}
    BY <1>3, <2>1 DEF RideRows
  <2>3. PICK row : row = [ride[r] EXCEPT !.status = to, !.paid = paid]
    OBVIOUS
  <2>4. /\ row \in RideRows /\ row.status = to /\ row.driver = ride[r].driver
        /\ row.tip = ride[r].tip /\ row.paid = paid
    BY <1>3, <1>5, <2>2, <2>3 DEF RideRows
  <2>5. ride' = [ride EXCEPT ![r] = row]
    <3>1. ride' = [ride EXCEPT ![r].status = to, ![r].paid = paid]
      <4>1. CASE Cab!Refundable(rideReq[w])
        BY <1>1, <1>4, <2>1, <4>1 DEF Cab!WriteStatus
      <4>2. CASE ~Cab!Refundable(rideReq[w]) /\ to = "COMPLETED"
        BY <1>1, <1>4, <2>1, <4>2 DEF Cab!WriteStatus
      <4>3. CASE ~Cab!Refundable(rideReq[w]) /\ to # "COMPLETED"
        BY <1>1, <1>4, <2>1, <4>3 DEF Cab!WriteStatus
      <4> QED BY <4>1, <4>2, <4>3
    <3> QED BY <1>3, <2>3, <3>1 DEF RideRows
  <2> QED BY <2>1, <2>4, <2>5
<1>8. /\ ride'[r] = row /\ ride' \in [Rides -> RideRows]
      /\ \A q \in Rides : q # r => ride'[q] = ride[q]
  BY <1>3, <1>7
<1>9. PICK stage \in RideStages : /\ stage = IF Cab!Refundable(rideReq[w]) THEN "refund" ELSE "end"
                                  /\ Cab!Go(w, stage)
  BY <1>1 DEF Cab!WriteStatus, RideStages
<1>10. rideReq' \in [RideWorkers -> RideJobs \cup {Cab!Idle}]
  BY <1>1, <1>2, <1>8, <1>9, RideGoes DEF RidesInv, RidesBase
<1>11. PICK job \in RideJobs :
         /\ RideStep(w, r, job) /\ job.at = stage /\ job.r = r /\ job.to = rideReq[w].to
         /\ job.rating = rideReq[w].rating
  BY <1>1, <1>2, <1>8, <1>9, RideGoes DEF RidesInv, RidesBase
<1>12. \A d : Cab!Exists(d)' <=> Cab!Exists(d)
  BY DEF Cab!Exists, Cab!WriteStatus
<1>13. /\ to \in {"DRIVER_ARRIVED", "ONGOING", "COMPLETED", "CANCELLED"}
       /\ ~Ends(to) => Cab!Live(r)
       /\ ride[r].status \notin {"CANCELLED", "COMPLETED"}
  BY <1>5 DEF Cab!Allowed, Cab!Statuses, Cab!Live, Ends
<1>14. RidesBase'
  <2>1. RidesTyped'
    BY <1>8, <1>10 DEF RidesInv, RidesBase, RidesTyped, Cab!WriteStatus, Cab!postings
  <2>2. Knows(job)'
    BY <1>6, <1>7, <1>8, <1>9, <1>11 DEF Knows
  <2>3. RideKnown(r)'
    BY <1>7, <1>8, <1>12, <1>13 DEF RidesInv, RidesBase, RideKnown
  <2> QED BY <1>11, <1>12, <2>1, <2>2, <2>3, BaseStep, Zenon DEF RidesInv
<1>15. Flagged'
  <2>1. (Past(r) <=> Ends(to)) /\ ~Past(r)'
    BY <1>2, <1>4, <1>9, <1>11, StepApart DEF RidesInv
  <2>2. Ends(to) => ~Cab!Live(r)'
    BY <1>7, <1>8 DEF Ends, Cab!Live
  <2>3. ~Ends(to) => Cab!Live(r) /\ Cab!Live(r)'
    BY <1>7, <1>8, <1>13 DEF Cab!Live, Ends
  <2>4. ride'[r].driver = ride[r].driver
    BY <1>7, <1>8
  <2>5. \A d \in Drivers : Keeps(r, d)' <=> Keeps(r, d)
    BY <2>1, <2>2, <2>3, <2>4 DEF Keeps
  <2> QED BY <1>9, <1>11, <2>5, FlaggedStep DEF RidesInv, Cab!WriteStatus, Cab!Exists
<1>16. Settled'
  <2>1. MoneyKept(r)
    BY DEF RidesInv, Settled
  <2>2. /\ OnRide(r, "refund")' <=> Cab!Refundable(rideReq[w])
        /\ ~OnRide(r, "insert")' /\ ~OnRide(r, "writeTip")'
        /\ ~OnRide(r, "insert") /\ ~OnRide(r, "writeTip") /\ ~OnRide(r, "refund")
    <3>1. \A s : s # "idle" => (OnRide(r, s) <=> rideReq[w].at = s) /\ (OnRide(r, s)' <=> job.at = s)
      BY <1>11, StepApart DEF RidesInv
    <3> QED BY <1>2, <1>9, <1>11, <3>1
  <2>3. /\ Cab!Booked(r) /\ Cab!Booked(r)' /\ ride'[r].status = to /\ ride'[r].tip = ride[r].tip
        /\ r \in PaidRides => ride[r].paid = "PAID"
    BY <1>5, <1>7, <1>8, <1>13, <2>1 DEF Cab!Booked, Cab!Statuses, MoneyKept
  <2>4. /\ Charged(r)' <=> Charged(r)
        /\ TipTaken(r)' <=> TipTaken(r)
        /\ ~Repaid(r)
        /\ ~Repaid(r)'
    BY <1>6, <1>13, <2>2, <2>3 DEF Charged, TipTaken, Repaid
  <2>5. r \in PaidRides /\ to # "CANCELLED" => ride'[r].paid = "PAID"
    BY <1>6, <1>7, <1>8, <2>3, Zenon
  <2>6. MoneyKept(r)'
    BY <1>6, <2>1, <2>2, <2>3, <2>4, <2>5 DEF MoneyKept, Cab!WriteStatus, Cab!postings
  <2> QED BY <1>11, <2>6, SettledStep DEF RidesInv, Cab!WriteStatus, Cab!postings
<1>17. Rated'
  BY <1>2, <1>9, <1>11, RatedQuiet DEF RidesInv, Cab!WriteStatus, Reviewing
<1> QED BY <1>14, <1>15, <1>16, <1>17 DEF RidesInv

LEMMA RefundKeeps ==
  ASSUME RidesInv, NEW w \in RideWorkers, Cab!Refund(w)
  PROVE  RidesInv'
<1>1. PICK r \in Rides : r = rideReq[w].r
  BY RideJobTyped DEF RidesInv, RidesBase, Cab!Refund, Cab!At, Cab!Running
<1>2. Cab!Running(w) /\ rideReq[w].at = "refund" /\ Knows(rideReq[w])
  BY DEF RidesInv, RidesBase, Cab!Refund, Cab!At, Cab!Running
<1>3. rideReq' \in [RideWorkers -> RideJobs \cup {Cab!Idle}]
  BY <1>2, RideGoes DEF RidesInv, RidesBase, Cab!Refund, RideStages
<1>4. PICK job \in RideJobs :
        /\ RideStep(w, r, job) /\ job.at = "end" /\ job.r = r /\ job.to = rideReq[w].to
        /\ job.rating = rideReq[w].rating
  BY <1>1, <1>2, RideGoes DEF RidesInv, RidesBase, Cab!Refund, RideStages
<1>5. RidesBase'
  <2>1. RidesTyped'
    BY <1>1, <1>3 DEF RidesInv, RidesBase, RidesTyped, Cab!Refund
  <2>2. Knows(job)' /\ \A d : Cab!Exists(d)' <=> Cab!Exists(d)
    BY <1>1, <1>2, <1>4 DEF Knows, Cab!Refund, Cab!Exists
  <2>3. RideKnown(r)'
    BY <2>2 DEF RidesInv, RidesBase, RideKnown, Cab!Refund
  <2> QED BY <1>4, <2>1, <2>2, <2>3, BaseStep DEF RidesInv
<1>6. Flagged'
  <2>1. \A d \in Drivers : ~Keeps(r, d) /\ ~Keeps(r, d)'
    BY <1>1, <1>2 DEF Knows, Keeps, Cab!Live, Cab!Refund
  <2> QED BY <1>4, <2>1, FlaggedStep DEF RidesInv, Cab!Refund, Cab!Exists
<1>7. Settled'
  <2>1. MoneyKept(r)
    BY DEF RidesInv, Settled
  <2>2. /\ ~OnRide(r, "insert")' /\ ~OnRide(r, "refund")' /\ ~OnRide(r, "writeTip")'
        /\ ~OnRide(r, "insert") /\ OnRide(r, "refund") /\ ~OnRide(r, "writeTip")
    <3>1. \A stage : stage # "idle" => /\ OnRide(r, stage) <=> rideReq[w].at = stage
                                       /\ OnRide(r, stage)' <=> job.at = stage
      BY <1>4, StepApart DEF RidesInv
    <3> QED BY <1>2, <1>4, <3>1
  <2>3. ride[r].status = "CANCELLED" /\ ride' = ride
    BY <1>1, <1>2 DEF Knows, Cab!Refund
  <2>4. /\ refunded'[r] = refunded[r] + 1
        /\ \A q \in Rides : q # r => refunded'[q] = refunded[q]
    BY <1>1 DEF Cab!Refund, RidesInv, RidesBase, RidesTyped
  <2>5. (Charged(r)' <=> Charged(r)) /\ ~Repaid(r) /\ (TipTaken(r)' <=> TipTaken(r))
    BY <2>2, <2>3 DEF Charged, Repaid, TipTaken, Cab!Booked
  <2>6. refunded[r] = 0 /\ refunded'[r] = 1 /\ r \in PaidRides
    BY <2>1, <2>2, <2>4, <2>5 DEF MoneyKept
  <2>7. Repaid(r)'
    BY <2>2, <2>3, <2>6 DEF Repaid
  <2>8. MoneyKept(r)'
    BY <2>1, <2>2, <2>3, <2>5, <2>6, <2>7 DEF MoneyKept, Cab!Refund, Cab!Booked
  <2> QED BY <1>4, <2>4, <2>8, SettledStep DEF RidesInv, Cab!Refund
<1>8. Rated'
  BY <1>2, <1>4, RatedQuiet DEF RidesInv, Cab!Refund, Reviewing
<1> QED BY <1>5, <1>6, <1>7, <1>8 DEF RidesInv

LEMMA DebitTipKeeps ==
  ASSUME RidesInv, NEW w \in RideWorkers, Cab!DebitTip(w)
  PROVE  RidesInv'
<1>1. PICK r \in Rides : r = rideReq[w].r
  BY RideJobTyped DEF RidesInv, RidesBase, Cab!DebitTip, Cab!At, Cab!Running
<1>2. Cab!Running(w) /\ rideReq[w].at = "debitTip" /\ Knows(rideReq[w])
  BY DEF RidesInv, RidesBase, Cab!DebitTip, Cab!At, Cab!Running
<1>3. rideReq' \in [RideWorkers -> RideJobs \cup {Cab!Idle}]
  BY <1>2, RideGoes DEF RidesInv, RidesBase, Cab!DebitTip, RideStages
<1>4. PICK job \in RideJobs :
        /\ RideStep(w, r, job) /\ job.at = "writeTip" /\ job.r = r /\ job.to = rideReq[w].to
        /\ job.rating = rideReq[w].rating
  BY <1>1, <1>2, RideGoes DEF RidesInv, RidesBase, Cab!DebitTip, RideStages
<1>5. RidesBase'
  <2>1. RidesTyped'
    BY <1>1, <1>3 DEF RidesInv, RidesBase, RidesTyped, Cab!DebitTip
  <2>2. Knows(job)' /\ \A d : Cab!Exists(d)' <=> Cab!Exists(d)
    BY <1>1, <1>2, <1>4 DEF Knows, Cab!DebitTip, Cab!Exists
  <2>3. RideKnown(r)'
    BY <2>2 DEF RidesInv, RidesBase, RideKnown, Cab!DebitTip
  <2> QED BY <1>4, <2>1, <2>2, <2>3, BaseStep DEF RidesInv
<1>6. Flagged'
  <2>1. \A d \in Drivers : ~Keeps(r, d) /\ ~Keeps(r, d)'
    BY <1>1, <1>2 DEF Knows, Keeps, Cab!Live, Cab!DebitTip
  <2> QED BY <1>4, <2>1, FlaggedStep DEF RidesInv, Cab!DebitTip, Cab!Exists
<1>7. Settled'
  <2>1. MoneyKept(r)
    BY DEF RidesInv, Settled
  <2>2. /\ ~OnRide(r, "insert")' /\ ~OnRide(r, "refund")' /\ OnRide(r, "writeTip")'
        /\ ~OnRide(r, "insert") /\ ~OnRide(r, "refund") /\ ~OnRide(r, "writeTip")
    <3>1. \A stage : stage # "idle" => /\ OnRide(r, stage) <=> rideReq[w].at = stage
                                       /\ OnRide(r, stage)' <=> job.at = stage
      BY <1>4, StepApart DEF RidesInv
    <3> QED BY <1>2, <1>4, <3>1
  <2>3. ride' = ride /\ r \in PaidRides /\ ~ride[r].tip
    BY <1>1, <1>2 DEF Knows, Cab!DebitTip
  <2>4. /\ tipped'[r] = tipped[r] + 1 /\ tipped[r] \in Nat
        /\ \A q \in Rides : q # r => tipped'[q] = tipped[q]
    BY <1>1 DEF Cab!DebitTip, RidesInv, RidesBase, RidesTyped
  <2>5. (Charged(r)' <=> Charged(r)) /\ (Repaid(r)' <=> Repaid(r)) /\ ~TipTaken(r) /\ TipTaken(r)'
    BY <2>2, <2>3 DEF Charged, Repaid, TipTaken, Cab!Booked
  <2>6. MoneyKept(r)'
    BY <2>1, <2>2, <2>3, <2>4, <2>5 DEF MoneyKept, Cab!DebitTip, Cab!Booked
  <2> QED BY <1>4, <2>4, <2>6, SettledStep DEF RidesInv, Cab!DebitTip
<1>8. Rated'
  BY <1>2, <1>4, RatedQuiet DEF RidesInv, Cab!DebitTip, Reviewing
<1> QED BY <1>5, <1>6, <1>7, <1>8 DEF RidesInv

LEMMA WriteTipKeeps ==
  ASSUME RidesInv, NEW w \in RideWorkers, Cab!WriteTip(w)
  PROVE  RidesInv'
<1>1. PICK r \in Rides : r = rideReq[w].r
  BY RideJobTyped DEF RidesInv, RidesBase, Cab!WriteTip, Cab!At, Cab!Running
<1>2. Cab!Running(w) /\ rideReq[w].at = "writeTip" /\ Knows(rideReq[w])
  BY DEF RidesInv, RidesBase, Cab!WriteTip, Cab!At, Cab!Running
<1>3. ride[r] \in RideRows /\ ride \in [Rides -> RideRows]
  BY DEF RidesInv, RidesBase, RidesTyped
<1>4. PICK row : row = [ride[r] EXCEPT !.tip = TRUE]
  OBVIOUS
<1>5. /\ row \in RideRows /\ row.status = ride[r].status /\ row.driver = ride[r].driver
      /\ row.paid = ride[r].paid /\ row.tip = TRUE
  BY <1>3, <1>4 DEF RideRows
<1>6. ride' = [ride EXCEPT ![r] = row]
  BY <1>1, <1>3, <1>4 DEF Cab!WriteTip
<1>7. /\ ride'[r] = row /\ ride' \in [Rides -> RideRows]
      /\ \A q \in Rides : q # r => ride'[q] = ride[q]
  BY <1>3, <1>5, <1>6, Zenon
<1>8. rideReq' \in [RideWorkers -> RideJobs \cup {Cab!Idle}]
  BY <1>1, <1>2, <1>7, RideGoes, Zenon DEF RidesInv, RidesBase, Cab!WriteTip, RideStages
<1>9. PICK job \in RideJobs :
        /\ RideStep(w, r, job) /\ job.at = "end" /\ job.r = r /\ job.to = rideReq[w].to
        /\ job.rating = rideReq[w].rating
  BY <1>1, <1>2, <1>7, RideGoes DEF RidesInv, RidesBase, Cab!WriteTip, RideStages
<1>10. ride[r].status = "COMPLETED" /\ ~ride[r].tip
  BY <1>1, <1>2 DEF Knows
<1>11. RidesBase'
  <2>1. RidesTyped'
    BY <1>7, <1>8 DEF RidesInv, RidesBase, RidesTyped, Cab!WriteTip, Cab!postings
  <2>2. Knows(job)' /\ \A d : Cab!Exists(d)' <=> Cab!Exists(d)
    BY <1>9 DEF Knows, Cab!WriteTip, Cab!Exists
  <2>3. RideKnown(r)'
    BY <1>5, <1>7, <1>10, <2>2 DEF RidesInv, RidesBase, RideKnown
  <2> QED BY <1>9, <2>1, <2>2, <2>3, BaseStep DEF RidesInv
<1>12. Flagged'
  <2>1. \A d \in Drivers : ~Keeps(r, d) /\ ~Keeps(r, d)'
    BY <1>5, <1>7, <1>10 DEF Keeps, Cab!Live
  <2> QED BY <1>9, <2>1, FlaggedStep DEF RidesInv, Cab!WriteTip, Cab!Exists
<1>13. Settled'
  <2>1. MoneyKept(r)
    BY DEF RidesInv, Settled
  <2>2. /\ ~OnRide(r, "insert")' /\ ~OnRide(r, "refund")' /\ ~OnRide(r, "writeTip")'
        /\ ~OnRide(r, "insert") /\ ~OnRide(r, "refund") /\ OnRide(r, "writeTip")
    <3>1. \A stage : stage # "idle" => /\ OnRide(r, stage) <=> rideReq[w].at = stage
                                       /\ OnRide(r, stage)' <=> job.at = stage
      BY <1>9, StepApart DEF RidesInv
    <3> QED BY <1>2, <1>9, <3>1
  <2>3. ride'[r].status = ride[r].status /\ ride'[r].paid = ride[r].paid /\ ride'[r].tip = TRUE
    BY <1>5, <1>7
  <2>4. (Charged(r)' <=> Charged(r)) /\ (Repaid(r)' <=> Repaid(r)) /\ (TipTaken(r)' <=> TipTaken(r))
    BY <2>2, <2>3 DEF Charged, Repaid, TipTaken, Cab!Booked
  <2>5. MoneyKept(r)'
    BY <2>1, <2>2, <2>3, <2>4 DEF MoneyKept, Cab!WriteTip, Cab!Booked, Cab!postings
  <2> QED BY <1>9, <2>5, SettledStep DEF RidesInv, Cab!WriteTip, Cab!postings
<1>14. Rated'
  BY <1>2, <1>9, RatedQuiet DEF RidesInv, Cab!WriteTip, Reviewing
<1> QED BY <1>11, <1>12, <1>13, <1>14 DEF RidesInv

(* A review, and the rating that follows from it.                            *)
LEMMA IsReviewing ==
  ASSUME RidesBase, NEW w \in RideWorkers, rideReq[w].at \in {"review", "aggregate", "rate"}
  PROVE  Reviewing(w) /\ rideReq[w].rating.driver \in Drivers
<1>1. Cab!Running(w)
  BY DEF Cab!Running, Cab!At
<1>2. rideReq[w].rating.driver \in Drivers
  BY <1>1 DEF RidesBase, Knows
<1> QED BY <1>1, <1>2, NoneIsNoDriver DEF Reviewing, Cab!NoReview

LEMMA AggregateTyped ==
  ASSUME RidesTyped, NEW d \in Drivers
  PROVE  Cab!Aggregate(d) \in Totals
<1>1. Cab!Said(d) \subseteq Rides \X (Ratings \cup {0})
  BY DEF Cab!Said, Cab!ReviewsOf, RidesTyped, ReviewRows
<1> QED BY <1>1, SameCardinality DEF Cab!Aggregate, Totals

LEMMA WriteReviewKeeps ==
  ASSUME RidesInv, NEW w \in RideWorkers, Cab!WriteReview(w)
  PROVE  RidesInv'
<1>1. PICK r \in Rides : r = rideReq[w].r
  BY RideJobTyped DEF RidesInv, RidesBase, Cab!WriteReview, Cab!At, Cab!Running
<1>2. Cab!Running(w) /\ rideReq[w].at = "review" /\ Knows(rideReq[w]) /\ ride' = ride
  BY DEF RidesInv, RidesBase, Cab!WriteReview, Cab!At, Cab!Running
<1>3. PICK d \in Drivers : d = rideReq[w].rating.driver
  BY <1>2 DEF Knows
<1>4. rideReq[w].rating \in ReviewRows /\ Reviewing(w)
  BY <1>2, RideJobTyped, IsReviewing DEF RidesInv, RidesBase
<1>5. PICK stage \in {"aggregate", "end"} : Cab!Go(w, stage)
  BY DEF Cab!WriteReview
<1>6. /\ stage = "end" => review' = review
      /\ stage = "aggregate" => /\ review[r] = Cab!NoReview
                                /\ review' = [review EXCEPT ![r] = rideReq[w].rating]
  <2>1. PICK job \in RideJobs : Cab!Become(w, job) /\ job.at = stage
    BY <1>2, <1>5, RideJobGoes DEF RidesInv, RidesBase, RideStages
  <2>2. rideReq'[w].at = stage
    BY <2>1, RideJobMoves DEF RidesInv, RidesBase
  <2>3. \A s \in {"aggregate", "end"} : Cab!Go(w, s) => s = stage
    <3>1. ASSUME NEW s \in {"aggregate", "end"}, Cab!Go(w, s) PROVE s = stage
      <4>1. PICK one \in RideJobs : Cab!Become(w, one) /\ one.at = s
        BY <1>2, <3>1, RideJobGoes DEF RidesInv, RidesBase, RideStages
      <4>2. rideReq'[w].at = s
        BY <4>1, RideJobMoves DEF RidesInv, RidesBase
      <4> QED BY <2>2, <4>2
    <3> QED BY <3>1
  <2> QED BY <1>1, <2>3 DEF Cab!WriteReview
<1>7. review' \in [Rides -> ReviewRows]
  BY <1>4, <1>6 DEF RidesInv, RidesBase, RidesTyped
<1>8. rideReq' \in [RideWorkers -> RideJobs \cup {Cab!Idle}]
  BY <1>2, <1>5, RideGoes DEF RidesInv, RidesBase, RideStages
<1>9. PICK job \in RideJobs :
        /\ RideStep(w, r, job) /\ job.at = stage /\ job.r = r /\ job.to = rideReq[w].to
        /\ job.rating = rideReq[w].rating
  BY <1>1, <1>2, <1>5, RideGoes DEF RidesInv, RidesBase, RideStages
<1>10. RidesBase'
  <2>1. RidesTyped'
    BY <1>7, <1>8 DEF RidesInv, RidesBase, RidesTyped, Cab!WriteReview, Cab!postings
  <2>2. Knows(job)' /\ \A e : Cab!Exists(e)' <=> Cab!Exists(e)
    BY <1>2, <1>9 DEF Knows, Cab!WriteReview, Cab!Exists
  <2>3. RideKnown(r)'
    BY <1>2, <2>2 DEF RidesInv, RidesBase, RideKnown
  <2> QED BY <1>9, <2>1, <2>2, <2>3, BaseStep DEF RidesInv
<1>11. Flagged'
  <2>1. ~Past(r) /\ ~Past(r)'
    BY <1>2, <1>9, StepApart DEF RidesInv
  <2>2. \A e \in Drivers : Keeps(r, e)' <=> Keeps(r, e)
    BY <1>2, <2>1 DEF Keeps, Cab!Live
  <2>3. job.at # "assign"
    BY <1>9
  <2> QED BY <1>9, <2>2, <2>3, FlaggedStep DEF RidesInv, Cab!WriteReview, Cab!Exists
<1>12. Settled'
  BY <1>2, <1>9, MoneyQuiet DEF RidesInv, Cab!WriteReview, Cab!Booked
<1>13. Rated'
  <2>1. ASSUME stage = "end" PROVE Rated'
    BY <1>2, <1>4, <1>6, <1>9, <2>1, RatedQuiet DEF RidesInv, Cab!WriteReview
  <2>2. ASSUME stage = "aggregate" PROVE Rated'
    <3> SUFFICES ASSUME deadRides = {}
                 PROVE  /\ \A u, v \in RideWorkers : (Reviewing(u) /\ Reviewing(v))' => u = v
                        /\ \A e \in Drivers : (RatingKept(e) \/ Rates(e))'
                        /\ \A v \in RideWorkers : Cab!At(v, "rate")' =>
                             rideReq'[v].total = Cab!Aggregate(rideReq[v].rating.driver)'
      BY DEF Rated, Cab!WriteReview
    <3>1. \A v \in RideWorkers : Reviewing(v)' => Reviewing(v)
      BY <1>4, <1>9 DEF Reviewing, Cab!Running, Cab!At, RideStep
    <3>2. \A v \in RideWorkers : Reviewing(v) => v = w
      BY <1>4 DEF RidesInv, Rated
    <3>3. \A v \in RideWorkers : ~Cab!At(v, "rate") /\ ~Cab!At(v, "aggregate")
      BY <1>2, <3>2, IsReviewing DEF RidesInv, Cab!At
    <3>4. \A e \in Drivers : RatingKept(e)
      BY <3>3 DEF RidesInv, Rated, Rates
    <3>5. Rates(d)'
      BY <1>3, <1>9, <2>2 DEF Rates, Cab!At, RideStep
    <3>6. ASSUME NEW e \in Drivers, e # d PROVE RatingKept(e)'
      <4>1. review'[r].driver # e /\ review[r].driver # e
        BY <1>3, <1>6, <2>2, <3>6, NoneIsNoDriver DEF Cab!NoReview, RidesInv, RidesBase, RidesTyped
      <4>2. \A q \in Rides : q # r => review'[q] = review[q]
        BY <1>6, <2>2 DEF RidesInv, RidesBase, RidesTyped
      <4>3. Cab!ReviewsOf(e)' = Cab!ReviewsOf(e) /\ \A q \in Cab!ReviewsOf(e) : review'[q] = review[q]
        BY <4>1, <4>2 DEF Cab!ReviewsOf
      <4>4. Cab!Said(e)' = Cab!Said(e)
        BY <4>3 DEF Cab!Said
      <4>5. Cab!Aggregate(e)' = Cab!Aggregate(e)
        BY <4>4 DEF Cab!Aggregate
      <4> QED BY <3>4, <4>5 DEF RatingKept, Cab!WriteReview
    <3>7. \A v \in RideWorkers : ~Cab!At(v, "rate")'
      BY <1>9, <2>2, <3>3 DEF Cab!At, RideStep
    <3> QED BY <3>1, <3>2, <3>5, <3>6, <3>7
  <2> QED BY <2>1, <2>2
<1> QED BY <1>10, <1>11, <1>12, <1>13 DEF RidesInv

LEMMA ReadRatingKeeps ==
  ASSUME RidesInv, NEW w \in RideWorkers, Cab!ReadRating(w)
  PROVE  RidesInv'
<1>1. PICK r \in Rides : r = rideReq[w].r
  BY RideJobTyped DEF RidesInv, RidesBase, Cab!ReadRating, Cab!At, Cab!Running
<1>2. Cab!Running(w) /\ rideReq[w].at = "aggregate" /\ Knows(rideReq[w]) /\ ride' = ride
  BY DEF RidesInv, RidesBase, Cab!ReadRating, Cab!At, Cab!Running
<1>3. PICK d \in Drivers : d = rideReq[w].rating.driver
  BY <1>2 DEF Knows
<1>4. PICK job : job = [rideReq[w] EXCEPT !.at = "rate", !.total = Cab!Aggregate(d)]
  OBVIOUS
<1>5. /\ job \in RideJobs /\ job.at = "rate" /\ job.r = r /\ job.to = rideReq[w].to
      /\ job.rating = rideReq[w].rating /\ job.total = Cab!Aggregate(d)
  <2>1. rideReq[w] \in RideJobs /\ Cab!Aggregate(d) \in Totals
    BY <1>2, RideJobTyped, AggregateTyped DEF RidesInv, RidesBase
  <2> QED BY <1>1, <1>4, <2>1 DEF RideJobs, RideStages
<1>6. RideStep(w, r, job) /\ rideReq' \in [RideWorkers -> RideJobs \cup {Cab!Idle}]
  BY <1>1, <1>2, <1>3, <1>4, <1>5, RideBecomes DEF RidesInv, RidesBase, Cab!ReadRating
<1>7. RidesBase'
  <2>1. RidesTyped'
    BY <1>6 DEF RidesInv, RidesBase, RidesTyped, Cab!ReadRating, Cab!postings
  <2>2. Knows(job)' /\ \A e : Cab!Exists(e)' <=> Cab!Exists(e)
    BY <1>2, <1>5 DEF Knows, Cab!ReadRating, Cab!Exists
  <2>3. RideKnown(r)'
    BY <1>2, <2>2 DEF RidesInv, RidesBase, RideKnown
  <2> QED BY <1>6, <2>1, <2>2, <2>3, BaseStep DEF RidesInv
<1>8. Flagged'
  <2>1. ~Past(r) /\ ~Past(r)'
    BY <1>2, <1>5, <1>6, StepApart DEF RidesInv
  <2>2. \A e \in Drivers : Keeps(r, e)' <=> Keeps(r, e)
    BY <1>2, <2>1 DEF Keeps, Cab!Live
  <2> QED BY <1>5, <1>6, <2>2, FlaggedStep DEF RidesInv, Cab!ReadRating, Cab!Exists
<1>9. Settled'
  BY <1>2, <1>5, <1>6, MoneyQuiet DEF RidesInv, Cab!ReadRating, Cab!Booked
<1>10. Rated'
  <2> SUFFICES ASSUME deadRides = {}
               PROVE  /\ \A u, v \in RideWorkers : (Reviewing(u) /\ Reviewing(v))' => u = v
                      /\ \A e \in Drivers : (RatingKept(e) \/ Rates(e))'
                      /\ \A v \in RideWorkers : Cab!At(v, "rate")' =>
                           rideReq'[v].total = Cab!Aggregate(rideReq[v].rating.driver)'
    BY DEF Rated, Cab!ReadRating
  <2>1. \A v \in RideWorkers : Reviewing(v) => v = w
    BY <1>2, IsReviewing DEF RidesInv, Rated
  <2>2. \A v \in RideWorkers : Reviewing(v)' => v = w
    BY <1>6, <2>1 DEF Reviewing, Cab!Running, Cab!At, RideStep
  <2>3. \A v \in RideWorkers : Cab!At(v, "rate")' => v = w
    <3>1. \A v \in RideWorkers : Cab!At(v, "rate") => v = w
      BY <2>1, IsReviewing DEF RidesInv, Cab!At
    <3> QED BY <1>6, <3>1 DEF Cab!At, RideStep
  <2>4. \A e : Cab!Aggregate(e)' = Cab!Aggregate(e)
    BY DEF Cab!Aggregate, Cab!Said, Cab!ReviewsOf, Cab!ReadRating
  <2>5. \A e \in Drivers : RatingKept(e)' <=> RatingKept(e)
    BY <2>4 DEF RatingKept, Cab!ReadRating
  <2>6. \A e \in Drivers : Rates(e) => Rates(e)'
    <3>1. Rates(d)'
      BY <1>3, <1>5, <1>6 DEF Rates, Cab!At, RideStep
    <3>2. \A e \in Drivers : Rates(e) => e = d
      <4>1. ASSUME NEW e \in Drivers, Rates(e) PROVE e = d
        <5>1. PICK v \in RideWorkers : (Cab!At(v, "aggregate") \/ Cab!At(v, "rate")) /\ rideReq[v].rating.driver = e
          BY <4>1 DEF Rates
        <5>2. v = w
          BY <2>1, <5>1, IsReviewing DEF RidesInv, Cab!At
        <5> QED BY <1>3, <5>1, <5>2
      <4> QED BY <4>1
    <3> QED BY <3>1, <3>2
  <2>7. rideReq'[w].total = Cab!Aggregate(rideReq[w].rating.driver)'
    <3>1. rideReq'[w].total = Cab!Aggregate(d) /\ rideReq'[w].rating.driver = d
      BY <1>3, <1>5, <1>6 DEF RideStep
    <3>2. Cab!Aggregate(rideReq[w].rating.driver)' = Cab!Aggregate(d)'
      BY <3>1 DEF Cab!Aggregate, Cab!Said, Cab!ReviewsOf
    <3> QED BY <2>4, <3>1, <3>2
  <2> QED BY <2>2, <2>3, <2>5, <2>6, <2>7 DEF RidesInv, Rated
<1> QED BY <1>7, <1>8, <1>9, <1>10 DEF RidesInv

LEMMA WriteRatingKeeps ==
  ASSUME RidesInv, NEW w \in RideWorkers, Cab!WriteRating(w)
  PROVE  RidesInv'
<1>1. PICK r \in Rides : r = rideReq[w].r
  BY RideJobTyped, Zenon DEF RidesInv, RidesBase, Cab!WriteRating, Cab!At, Cab!Running
<1>2. Cab!Running(w) /\ rideReq[w].at = "rate" /\ Knows(rideReq[w]) /\ ride' = ride
  BY DEF RidesInv, RidesBase, Cab!WriteRating, Cab!At, Cab!Running
<1>3. PICK d \in Drivers : d = rideReq[w].rating.driver
  BY <1>2 DEF Knows
<1>4. driver \in [Drivers -> DriverRows] /\ driver[d] \in DriverRows /\ rideReq[w].total \in Totals
  BY <1>2, RideJobTyped DEF RidesInv, RidesBase, RidesTyped, RideJobs
<1>5. PICK man : man = [driver[d] EXCEPT !.count = rideReq[w].total.count, !.sum = rideReq[w].total.sum]
  OBVIOUS
<1>6. /\ man \in DriverRows /\ man.status = driver[d].status
      /\ man.isAvailable = driver[d].isAvailable
      /\ man.count = rideReq[w].total.count /\ man.sum = rideReq[w].total.sum
  BY <1>4, <1>5 DEF DriverRows, Totals
<1>7. driver' = [driver EXCEPT ![d] = man]
  BY <1>3, <1>4, <1>5 DEF Cab!WriteRating, DriverRows
<1>8. /\ driver'[d] = man /\ \A e \in Drivers : e # d => driver'[e] = driver[e]
      /\ driver' \in [Drivers -> DriverRows]
      /\ \A e : Cab!Exists(e)' <=> Cab!Exists(e)
  BY <1>4, <1>6, <1>7 DEF Cab!Exists
<1>9. rideReq' \in [RideWorkers -> RideJobs \cup {Cab!Idle}]
  BY <1>2, RideGoes, Zenon DEF RidesInv, RidesBase, Cab!WriteRating, RideStages
<1>10. PICK job \in RideJobs :
         /\ RideStep(w, r, job) /\ job.at = "end" /\ job.r = r /\ job.to = rideReq[w].to
         /\ job.rating = rideReq[w].rating
  BY <1>1, <1>2, RideGoes DEF RidesInv, RidesBase, Cab!WriteRating, RideStages
<1>11. RidesBase'
  <2>1. RidesTyped'
    BY <1>8, <1>9 DEF RidesInv, RidesBase, RidesTyped, Cab!WriteRating, Cab!postings
  <2>2. Knows(job)'
    BY <1>10 DEF Knows
  <2>3. RideKnown(r)'
    BY <1>2, <1>8, Zenon DEF RidesInv, RidesBase, RideKnown
  <2> QED BY <1>8, <1>10, <2>1, <2>2, <2>3, BaseStep, Zenon DEF RidesInv
<1>12. Flagged'
  <2>1. ~Past(r) /\ ~Past(r)'
    BY <1>2, <1>10, StepApart DEF RidesInv
  <2>2. \A e \in Drivers : Keeps(r, e)' <=> Keeps(r, e)
    BY <1>2, <2>1 DEF Keeps, Cab!Live
  <2>3. \A e \in Drivers : driver'[e].isAvailable = driver[e].isAvailable
    BY <1>6, <1>8, Zenon
  <2> QED BY <1>8, <1>10, <2>2, <2>3, FlaggedStep, Zenon DEF RidesInv, Cab!WriteRating
<1>13. Settled'
  BY <1>2, <1>10, MoneyQuiet DEF RidesInv, Cab!WriteRating, Cab!Booked
<1>14. Rated'
  <2> SUFFICES ASSUME deadRides = {}
               PROVE  /\ \A u, v \in RideWorkers : (Reviewing(u) /\ Reviewing(v))' => u = v
                      /\ \A e \in Drivers : (RatingKept(e) \/ Rates(e))'
                      /\ \A v \in RideWorkers : Cab!At(v, "rate")' =>
                           rideReq'[v].total = Cab!Aggregate(rideReq[v].rating.driver)'
    BY DEF Rated, Cab!WriteRating
  <2>1. \A v \in RideWorkers : Reviewing(v) => v = w
    BY <1>2, IsReviewing DEF RidesInv, Rated
  <2>2. \A v \in RideWorkers : Reviewing(v)' => v = w
    BY <1>10, <2>1 DEF Reviewing, Cab!Running, Cab!At, RideStep
  <2>3. \A v \in RideWorkers : ~Cab!At(v, "rate")'
    <3>1. \A v \in RideWorkers : Cab!At(v, "rate") => v = w
      BY <2>1, IsReviewing, Zenon DEF RidesInv, Cab!At
    <3> QED BY <1>10, <3>1 DEF Cab!At, RideStep
  <2>4. \A e : Cab!Aggregate(e)' = Cab!Aggregate(e)
    BY DEF Cab!Aggregate, Cab!Said, Cab!ReviewsOf, Cab!WriteRating
  <2>5. RatingKept(d)'
    <3>1. rideReq[w].total = Cab!Aggregate(d)
      BY <1>2, <1>3 DEF RidesInv, Rated, Cab!At
    <3>2. rideReq[w].total = [count |-> driver'[d].count, sum |-> driver'[d].sum]
      BY <1>4, <1>6, <1>8 DEF Totals
    <3> QED BY <2>4, <3>1, <3>2 DEF RatingKept
  <2>6. ASSUME NEW e \in Drivers, e # d PROVE RatingKept(e)'
    <3>1. ~Rates(e)
      <4>1. ASSUME NEW v \in RideWorkers, Cab!At(v, "aggregate") \/ Cab!At(v, "rate")
            PROVE  rideReq[v].rating.driver = d
        BY <1>3, <2>1, <4>1, IsReviewing DEF RidesInv, Cab!At
      <4> QED BY <2>6, <4>1 DEF Rates
    <3> QED BY <1>8, <2>4, <2>6, <3>1 DEF RidesInv, Rated, RatingKept
  <2> QED BY <2>2, <2>3, <2>5, <2>6, Zenon
<1> QED BY <1>11, <1>12, <1>13, <1>14, Zenon DEF RidesInv

(* The edits of the drivers, and the end of a process.                       *)
LEMMA EditKeeps ==
  ASSUME RidesInv, UNCHANGED <<ride, review, Cab!postings, deadRides, rideReq>>,
         driver' \in [Drivers -> DriverRows], \A e : Cab!Exists(e)' <=> Cab!Exists(e),
         \A e \in Drivers : /\ driver'[e].isAvailable = driver[e].isAvailable
                            /\ driver'[e].count = driver[e].count
                            /\ driver'[e].sum = driver[e].sum
  PROVE  RidesInv'
<1>1. RidesBase'
  <2>1. RidesTyped' /\ RideAlone'
    BY Zenon DEF RidesInv, RidesBase, RidesTyped, RideAlone, Cab!Running, Cab!At, Cab!postings
  <2>2. \A w \in RideWorkers : Cab!Running(w)' => Knows(rideReq[w])'
    BY DEF RidesInv, RidesBase, Cab!Running, Cab!At, Knows
  <2>3. \A r \in Rides : RideKnown(r)'
    BY DEF RidesInv, RidesBase, RideKnown
  <2> QED BY <2>1, <2>2, <2>3 DEF RidesBase
<1>2. \A r \in Rides, d \in Drivers : Keeps(r, d)' <=> Keeps(r, d)
  BY DEF Keeps, Cab!Live, Past, Cab!At
<1>3. Flagged'
  BY <1>2 DEF RidesInv, Flagged, Accounted, Exclusive, Cab!At, Cab!Exists
<1>4. Settled'
  BY DEF RidesInv, Settled, MoneyKept, Charged, Repaid, TipTaken, OnRide, Cab!At, Cab!Booked, Cab!postings
<1>5. Rated'
  <2>1. \A d : Cab!Aggregate(d)' = Cab!Aggregate(d)
    BY DEF Cab!Aggregate, Cab!Said, Cab!ReviewsOf
  <2>2. /\ \A w \in RideWorkers : Reviewing(w)' <=> Reviewing(w)
        /\ \A d \in Drivers : RatingKept(d)' <=> RatingKept(d)
        /\ \A d \in Drivers : Rates(d)' <=> Rates(d)
    BY <2>1 DEF Reviewing, Cab!Running, Cab!At, RatingKept, Rates
  <2>3. ASSUME deadRides = {}, NEW w \in RideWorkers, Cab!At(w, "rate")
        PROVE  rideReq'[w].total = Cab!Aggregate(rideReq[w].rating.driver)'
    <3>1. rideReq[w].total = Cab!Aggregate(rideReq[w].rating.driver)
      BY <2>3 DEF RidesInv, Rated
    <3>2. Cab!Aggregate(rideReq[w].rating.driver)' = Cab!Aggregate(rideReq[w].rating.driver)
      BY DEF Cab!Aggregate, Cab!Said, Cab!ReviewsOf
    <3> QED BY <3>1, <3>2
  <2>4. \A w \in RideWorkers : Cab!At(w, "rate")' <=> Cab!At(w, "rate")
    BY DEF Cab!At
  <2> QED BY <2>2, <2>3, <2>4 DEF RidesInv, Rated
<1> QED BY <1>1, <1>3, <1>4, <1>5 DEF RidesInv

LEMMA ToggleOnlineKeeps ==
  ASSUME RidesInv, NEW d \in Drivers, Cab!ToggleOnline(d)
  PROVE  RidesInv'
<1>1. driver \in [Drivers -> DriverRows] /\ driver[d] \in DriverRows
  BY DEF RidesInv, RidesBase, RidesTyped
<1>2. PICK man : man = [driver[d] EXCEPT !.isOnline = ~driver[d].isOnline]
  OBVIOUS
<1>3. /\ man \in DriverRows /\ man.status = driver[d].status
      /\ man.isAvailable = driver[d].isAvailable
      /\ man.count = driver[d].count /\ man.sum = driver[d].sum
  <2>1. \A x \in BOOLEAN : \E b \in BOOLEAN : b = ~x
    OBVIOUS
  <2>2. driver[d].isOnline \in BOOLEAN
    BY <1>1 DEF DriverRows
  <2>3. PICK b \in BOOLEAN : b = ~driver[d].isOnline
    BY <2>1, <2>2
  <2> QED BY <1>1, <1>2, <2>3 DEF DriverRows
<1>4. driver' = [driver EXCEPT ![d] = man]
  BY <1>2 DEF Cab!ToggleOnline
<1>5. /\ driver'[d] = man /\ \A e \in Drivers : e # d => driver'[e] = driver[e]
      /\ driver' \in [Drivers -> DriverRows]
      /\ \A e : Cab!Exists(e)' <=> Cab!Exists(e)
  BY <1>1, <1>3, <1>4 DEF Cab!Exists
<1>6. \A e \in Drivers : /\ driver'[e].isAvailable = driver[e].isAvailable
                         /\ driver'[e].count = driver[e].count
                         /\ driver'[e].sum = driver[e].sum
  BY <1>3, <1>5
<1> QED BY <1>5, <1>6, EditKeeps DEF Cab!ToggleOnline, Cab!Edit

LEMMA ChangeStatusKeeps ==
  ASSUME RidesInv, NEW d \in Drivers, Cab!ChangeStatus(d)
  PROVE  RidesInv'
<1>1. driver \in [Drivers -> DriverRows] /\ driver[d] \in DriverRows
  BY DEF RidesInv, RidesBase, RidesTyped
<1>2. PICK status \in {"APPROVED", "SUSPENDED"} :
        status = IF driver[d].status = "APPROVED" THEN "SUSPENDED" ELSE "APPROVED"
  OBVIOUS
<1>3. PICK man : man = [driver[d] EXCEPT !.status = status]
  OBVIOUS
<1>4. /\ man \in DriverRows /\ man.status = status
      /\ man.isAvailable = driver[d].isAvailable
      /\ man.count = driver[d].count /\ man.sum = driver[d].sum
  BY <1>1, <1>3 DEF DriverRows
<1>5. driver' = [driver EXCEPT ![d] = man] /\ Cab!Exists(d)
  BY <1>2, <1>3 DEF Cab!ChangeStatus, Cab!Edit
<1>6. /\ driver'[d] = man /\ \A e \in Drivers : e # d => driver'[e] = driver[e]
      /\ driver' \in [Drivers -> DriverRows]
  BY <1>1, <1>4, <1>5
<1>7. \A e : Cab!Exists(e)' <=> Cab!Exists(e)
  BY <1>4, <1>5, <1>6 DEF Cab!Exists
<1>8. \A e \in Drivers : /\ driver'[e].isAvailable = driver[e].isAvailable
                         /\ driver'[e].count = driver[e].count
                         /\ driver'[e].sum = driver[e].sum
  BY <1>4, <1>6
<1> QED BY <1>6, <1>7, <1>8, EditKeeps DEF Cab!ChangeStatus, Cab!Edit

LEMMA RemoveDriverKeeps ==
  ASSUME RidesInv, NEW d \in Drivers, Cab!RemoveDriver(d)
  PROVE  RidesInv'
<1>1. /\ driver \in [Drivers -> DriverRows] /\ driver[d] \in DriverRows
      /\ ride \in [Rides -> RideRows]
  BY DEF RidesInv, RidesBase, RidesTyped
<1>2. PICK man : man = [driver[d] EXCEPT !.status = "DELETED"]
  OBVIOUS
<1>3. /\ man \in DriverRows /\ man.status = "DELETED"
      /\ man.isAvailable = driver[d].isAvailable
      /\ man.count = driver[d].count /\ man.sum = driver[d].sum
  BY <1>1, <1>2 DEF DriverRows
<1>4. driver' = [driver EXCEPT ![d] = man] /\ UNCHANGED <<review, Cab!postings, deadRides, rideReq>>
  BY <1>2 DEF Cab!RemoveDriver, Cab!Edit
<1>5. /\ driver'[d] = man /\ \A e \in Drivers : e # d => driver'[e] = driver[e]
      /\ driver' \in [Drivers -> DriverRows]
  BY <1>1, <1>3, <1>4
<1>6. \A e : Cab!Exists(e)' <=> Cab!Exists(e) /\ e # d
  BY <1>3, <1>5 DEF Cab!Exists
<1>7. \A e \in Drivers : /\ driver'[e].isAvailable = driver[e].isAvailable
                         /\ driver'[e].count = driver[e].count
                         /\ driver'[e].sum = driver[e].sum
  BY <1>3, <1>5
<1>8. ASSUME NEW q \in Rides
      PROVE  /\ ride'[q] \in RideRows /\ ride'[q].status = ride[q].status
             /\ ride'[q].paid = ride[q].paid /\ ride'[q].tip = ride[q].tip
             /\ ride'[q].driver = IF ride[q].driver = d THEN Cab!None ELSE ride[q].driver
  <2>1. ride[q] \in RideRows
    BY <1>1
  <2>2. CASE ride[q].driver = d
    <3>1. PICK row : row = [ride[q] EXCEPT !.driver = Cab!None]
      OBVIOUS
    <3>2. ride'[q] = row
      BY <2>2, <3>1 DEF Cab!RemoveDriver
    <3>3. /\ row \in RideRows /\ row.status = ride[q].status /\ row.paid = ride[q].paid
          /\ row.tip = ride[q].tip /\ row.driver = Cab!None
      BY <2>1, <3>1 DEF RideRows
    <3> QED BY <2>2, <3>2, <3>3
  <2>3. CASE ride[q].driver # d
    BY <2>1, <2>3 DEF Cab!RemoveDriver
  <2> QED BY <2>2, <2>3
<1>9. ride' \in [Rides -> RideRows]
  BY <1>8 DEF Cab!RemoveDriver
<1>10. RidesBase'
  <2>1. RidesTyped' /\ RideAlone'
    BY <1>4, <1>5, <1>9 DEF RidesInv, RidesBase, RidesTyped, RideAlone, Cab!Running, Cab!At, Cab!postings
  <2>2. ASSUME NEW w \in RideWorkers, Cab!Running(w)' PROVE Knows(rideReq[w])'
    <3>1. Cab!Running(w) /\ rideReq' = rideReq
      BY <1>4, <2>2 DEF Cab!Running, Cab!At
    <3>2. Knows(rideReq[w]) /\ rideReq[w].r \in Rides
      BY <3>1, RideJobTyped DEF RidesInv, RidesBase
    <3>3. /\ ride'[rideReq[w].r].status = ride[rideReq[w].r].status
          /\ ride'[rideReq[w].r].paid = ride[rideReq[w].r].paid /\ ride'[rideReq[w].r].tip = ride[rideReq[w].r].tip
          /\ ride'[rideReq[w].r].driver = IF ride[rideReq[w].r].driver = d THEN Cab!None
                                          ELSE ride[rideReq[w].r].driver
      BY <1>8, <3>2
    <3> QED BY <1>6, <3>1, <3>2, <3>3 DEF Knows
  <2>3. ASSUME NEW r \in Rides PROVE RideKnown(r)'
    <3>1. RideKnown(r)
      BY DEF RidesInv, RidesBase
    <3> QED BY <1>6, <1>8, <3>1 DEF RideKnown
  <2> QED BY <2>1, <2>2, <2>3 DEF RidesBase
<1>11. \A r \in Rides, e \in Drivers : Keeps(r, e)' <=> Keeps(r, e) /\ e # d
  <2> SUFFICES ASSUME NEW r \in Rides, NEW e \in Drivers
               PROVE  Keeps(r, e)' <=> Keeps(r, e) /\ e # d
    OBVIOUS
  <2>1. Past(r)' <=> Past(r)
    BY <1>4 DEF Past, Cab!At
  <2>2. Cab!Live(r)' <=> Cab!Live(r)
    BY <1>8 DEF Cab!Live
  <2>3. ride'[r].driver = e <=> ride[r].driver = e /\ e # d
    BY <1>8, NoneIsNoDriver
  <2> QED BY <2>1, <2>2, <2>3 DEF Keeps
<1>12. Flagged'
  <2> SUFFICES ASSUME deadRides = {} PROVE (Accounted /\ (FreshScreens => Exclusive))'
    BY <1>4 DEF Flagged
  <2>1. Accounted'
    BY <1>6, <1>7, <1>11 DEF RidesInv, Flagged, Accounted
  <2>2. ASSUME FreshScreens PROVE Exclusive'
    <3>1. Exclusive
      BY <2>2 DEF RidesInv, Flagged
    <3>2. /\ \A r \in Rides, e \in Drivers : Keeps(r, e)' => ~driver'[e].isAvailable
          /\ \A r, s \in Rides, e \in Drivers : Keeps(r, e)' /\ Keeps(s, e)' => r = s
      BY <1>7, <1>11, <3>1 DEF Exclusive
    <3>3. /\ \A v, w \in RideWorkers : Cab!At(v, "assign")' /\ Cab!At(w, "assign")' => v = w
          /\ \A w \in RideWorkers : Cab!At(w, "assign")' => Cab!At(w, "assign") /\ rideReq'[w] = rideReq[w]
      BY <1>4, <3>1 DEF Exclusive, Cab!At
    <3>4. ASSUME NEW w \in RideWorkers, Cab!At(w, "assign")', Cab!Exists(rideReq[w].found)'
          PROVE  driver'[rideReq'[w].found].isAvailable
      <4>1. Cab!At(w, "assign") /\ rideReq'[w] = rideReq[w]
        BY <3>3, <3>4
      <4>2. rideReq[w].found \in Drivers
        BY <3>4, <4>1 DEF Cab!Exists
      <4>3. Cab!Exists(rideReq[w].found)
        BY <1>5, <1>3, <3>4, <4>1, <4>2 DEF Cab!Exists
      <4> QED BY <1>7, <3>1, <4>1, <4>2, <4>3 DEF Exclusive
    <3> QED BY <3>2, <3>3, <3>4 DEF Exclusive
  <2> QED BY <2>1, <2>2
<1>13. Settled'
  <2>1. ASSUME NEW r \in Rides PROVE MoneyKept(r)'
    <3>1. MoneyKept(r)
      BY DEF RidesInv, Settled
    <3>2. /\ ride'[r].status = ride[r].status /\ ride'[r].paid = ride[r].paid
          /\ ride'[r].tip = ride[r].tip
      BY <1>8
    <3>3. /\ OnRide(r, "insert")' <=> OnRide(r, "insert")
          /\ OnRide(r, "refund")' <=> OnRide(r, "refund")
          /\ OnRide(r, "writeTip")' <=> OnRide(r, "writeTip")
      BY <1>4 DEF OnRide, Cab!At
    <3>4. /\ Cab!Booked(r)' <=> Cab!Booked(r)
          /\ Charged(r)' <=> Charged(r)
          /\ Repaid(r)' <=> Repaid(r)
          /\ TipTaken(r)' <=> TipTaken(r)
      BY <3>2, <3>3 DEF Charged, Repaid, TipTaken, Cab!Booked
    <3> QED BY <1>4, <3>1, <3>2, <3>3, <3>4 DEF MoneyKept, Cab!postings
  <2> QED BY <2>1 DEF Settled
<1>14. Rated'
  <2>1. \A e : Cab!Aggregate(e)' = Cab!Aggregate(e)
    BY <1>4 DEF Cab!Aggregate, Cab!Said, Cab!ReviewsOf
  <2>2. /\ \A w \in RideWorkers : Reviewing(w)' <=> Reviewing(w)
        /\ \A e \in Drivers : RatingKept(e)' <=> RatingKept(e)
        /\ \A e \in Drivers : Rates(e)' <=> Rates(e)
        /\ \A w \in RideWorkers : Cab!At(w, "rate")' <=> Cab!At(w, "rate")
    BY <1>4, <1>7, <2>1 DEF Reviewing, Cab!Running, Cab!At, RatingKept, Rates
  <2>3. ASSUME deadRides = {}, NEW w \in RideWorkers, Cab!At(w, "rate")
        PROVE  rideReq'[w].total = Cab!Aggregate(rideReq[w].rating.driver)'
    <3>1. rideReq[w].total = Cab!Aggregate(rideReq[w].rating.driver)
      BY <2>3 DEF RidesInv, Rated
    <3>2. Cab!Aggregate(rideReq[w].rating.driver)' = Cab!Aggregate(rideReq[w].rating.driver)
      BY <1>4 DEF Cab!Aggregate, Cab!Said, Cab!ReviewsOf
    <3> QED BY <1>4, <3>1, <3>2
  <2> QED BY <1>4, <2>2, <2>3 DEF RidesInv, Rated
<1> QED BY <1>10, <1>12, <1>13, <1>14 DEF RidesInv

LEMMA CrashKeeps ==
  ASSUME RidesInv, NEW w \in RideWorkers, Cab!Crash(w)
  PROVE  RidesInv'
<1>1. PICK r \in Rides : r = rideReq[w].r
  BY RideJobTyped DEF RidesInv, RidesBase, Cab!Crash
<1>2. Cab!Running(w) /\ deadRides' = deadRides \cup {r} /\ UNCHANGED <<ride, driver, review, Cab!postings, toggles>>
  BY <1>1 DEF Cab!Crash
<1>3. RideStep(w, r, Cab!Idle) /\ rideReq' \in [RideWorkers -> RideJobs \cup {Cab!Idle}]
  BY <1>1, <1>2, RideBecomes DEF RidesInv, RidesBase, Cab!Crash, Cab!End
<1>4. Cab!Idle.at = "idle" /\ rideReq'[w] = Cab!Idle
  BY <1>3 DEF Cab!Idle, RideStep
<1>5. RidesBase'
  <2>1. RidesTyped'
    BY <1>2, <1>3 DEF RidesInv, RidesBase, RidesTyped, Cab!postings
  <2>2. ~Cab!Running(w)' /\ \A d : Cab!Exists(d)' <=> Cab!Exists(d)
    BY <1>2, <1>4 DEF Cab!Running, Cab!At, Cab!Exists
  <2>3. RideKnown(r)'
    BY <1>2, <2>2 DEF RidesInv, RidesBase, RideKnown
  <2> QED BY <1>3, <2>1, <2>2, <2>3, BaseStep DEF RidesInv
<1>6. deadRides' # {}
  BY <1>2
<1>7. Flagged' /\ Rated'
  BY <1>6 DEF Flagged, Rated
<1>8. Settled'
  <2>1. MoneyKept(r)
    BY DEF RidesInv, Settled
  <2>2. ~OnRide(r, "insert")' /\ ~OnRide(r, "refund")' /\ ~OnRide(r, "writeTip")'
    <3>1. \A stage : stage # "idle" => (OnRide(r, stage)' <=> Cab!Idle.at = stage)
      BY <1>3, StepApart DEF RidesInv
    <3> QED BY <1>4, <3>1
  <2>3. (Charged(r)' => Charged(r)) /\ (Repaid(r) => Repaid(r)') /\ (TipTaken(r)' => TipTaken(r))
    BY <1>2, <2>2 DEF Charged, Repaid, TipTaken, Cab!Booked
  <2>4. MoneyKept(r)'
    BY <1>2, <2>1, <2>2, <2>3 DEF MoneyKept, Cab!postings, Cab!Booked
  <2> QED BY <1>2, <1>3, <2>4, SettledStep DEF RidesInv, Cab!postings
<1> QED BY <1>5, <1>7, <1>8 DEF RidesInv

LEMMA NextRidesInv ==
  ASSUME ~StepsOverlap, RidesInv, [Cab!Next]_(Cab!vars)
  PROVE  RidesInv'
<1>1. ASSUME NEW w \in RideWorkers, Cab!Arrive(w) PROVE RidesInv'
  <2>1. PICK r \in Rides : \/ Cab!Create(w, r) \/ Cab!CancelRequest(w, r) \/ Cab!TipRequest(w, r)
                           \/ \E to \in Cab!Statuses : Cab!StatusRequest(w, r, to)
                           \/ \E n \in Ratings : Cab!ReviewRequest(w, r, n)
    BY <1>1 DEF Cab!Arrive
  <2> QED BY <2>1, CreateKeeps, CancelRequestKeeps, TipRequestKeeps, StatusRequestKeeps,
             ReviewRequestKeeps
<1>2. ASSUME NEW w \in RideWorkers, Cab!Step(w) PROVE RidesInv'
  BY <1>2, DebitKeeps, InsertKeeps, FindDriverKeeps, AssignDriverKeeps, RespondKeeps,
     FreeDriverKeeps, RereadKeeps, WriteStatusKeeps, RefundKeeps, DebitTipKeeps, WriteTipKeeps,
     WriteReviewKeeps, ReadRatingKeeps, WriteRatingKeeps DEF Cab!Step
<1>3. ASSUME NEW w \in RideWorkers, Cab!Crash(w) PROVE RidesInv'
  BY <1>3, CrashKeeps
<1>4. ASSUME NEW d \in Drivers, Cab!ToggleOnline(d) \/ Cab!ChangeStatus(d) \/ Cab!RemoveDriver(d)
      PROVE  RidesInv'
  BY <1>4, ToggleOnlineKeeps, ChangeStatusKeeps, RemoveDriverKeeps
<1>5. ASSUME UNCHANGED Cab!vars PROVE RidesInv'
  <2>1. UNCHANGED <<ride, driver, review, Cab!postings, deadRides, rideReq>>
    BY <1>5 DEF Cab!vars
  <2>2. driver' \in [Drivers -> DriverRows]
    BY <2>1 DEF RidesInv, RidesBase, RidesTyped
  <2> QED BY <2>1, <2>2, EditKeeps DEF Cab!Exists
<1> QED BY <1>1, <1>2, <1>3, <1>4, <1>5 DEF Cab!Next

(* What follows from the invariant.                                          *)
LEMMA RidesAtRest ==
  ASSUME RidesInv, NEW r \in Rides, ~Cab!Busy(r)
  PROVE  ~Past(r) /\ ~Cab!Freed(r) /\ \A stage : stage # "idle" => ~OnRide(r, stage)
BY DEF Cab!Busy, Past, Cab!Freed, OnRide, Cab!Running, Cab!At

LEMMA AllAtRest ==
  ASSUME RidesInv, \A r \in Rides : Cab!Resting(r)
  PROVE  deadRides = {}
BY DEF RidesInv, RidesBase, RidesTyped, Cab!Resting

LEMMA OneRideFollows ==
  ASSUME FreshScreens, RidesInv
  PROVE  Cab!OneRide
<1> SUFFICES ASSUME deadRides = {}, NEW d \in Drivers
             PROVE  /\ Cardinality(Cab!OnRides(d)) <= 1
                    /\ Cab!OnRides(d) # {} => d \notin Cab!Candidates
  BY SameCardinality DEF Cab!OneRide
<1>1. Exclusive
  BY DEF RidesInv, Flagged
<1>2. \A r \in Cab!OnRides(d) : r \in Rides /\ Keeps(r, d)
  BY DEF Cab!OnRides, Cab!Freed, Keeps, Past, Ends, Cab!Running, Cab!At
<1>3. \A r, s \in Cab!OnRides(d) : r = s
  BY <1>1, <1>2 DEF Exclusive
<1>4. Cardinality(Cab!OnRides(d)) <= 1
  <2>1. CASE Cab!OnRides(d) = {}
    BY <2>1, FS_EmptySet
  <2>2. ASSUME NEW r \in Cab!OnRides(d) PROVE Cardinality(Cab!OnRides(d)) <= 1
    <3>1. Cab!OnRides(d) = {r}
      BY <1>3
    <3>2. Cardinality({r}) = 1
      BY FS_Singleton
    <3> QED BY <3>1, <3>2
  <2> QED BY <2>1, <2>2
<1>5. Cab!OnRides(d) # {} => d \notin Cab!Candidates
  BY <1>1, <1>2 DEF Exclusive, Cab!Candidates
<1> QED BY <1>4, <1>5

LEMMA DriversFreeFollows ==
  ASSUME RidesInv
  PROVE  Cab!DriversFree
<1> SUFFICES ASSUME \A r \in Rides : Cab!Resting(r),
                    NEW d \in Drivers, Cab!Exists(d), ~driver[d].isAvailable
             PROVE  Cab!OnRides(d) # {}
  BY DEF Cab!DriversFree
<1>1. deadRides = {}
  BY AllAtRest
<1>2. PICK r \in Rides : Keeps(r, d)
  BY <1>1 DEF RidesInv, Flagged, Accounted
<1>3. ~Cab!Freed(r)
  BY RidesAtRest DEF Cab!Resting
<1> QED BY <1>2, <1>3 DEF Cab!OnRides, Keeps

LEMMA PostingsMatchFollows ==
  ASSUME RidesInv
  PROVE  Cab!PostingsMatch
<1> SUFFICES ASSUME NEW r \in Rides
             PROVE  /\ refunded[r] <= debited[r] /\ (r \in PaidRides /\ ride[r].tip => tipped[r] >= 1)
                    /\ Cab!Resting(r) =>
                         /\ debited[r] = IF Cab!Booked(r) /\ r \in PaidRides THEN 1 ELSE 0
                         /\ refunded[r] = IF ride[r].status = "CANCELLED" THEN debited[r] ELSE 0
                         /\ tipped[r] = IF ride[r].tip /\ r \in PaidRides THEN 1 ELSE 0
  BY DEF Cab!PostingsMatch
<1>1. MoneyKept(r) /\ debited[r] \in Nat
  BY DEF RidesInv, Settled, RidesBase, RidesTyped
<1>2. Repaid(r) => Charged(r)
  BY DEF Repaid, Charged, Cab!Booked
<1>3. refunded[r] <= debited[r] /\ (r \in PaidRides /\ ride[r].tip => tipped[r] >= 1)
  BY <1>1, <1>2 DEF MoneyKept, TipTaken
<1>4. ASSUME Cab!Resting(r)
      PROVE  /\ debited[r] = IF Cab!Booked(r) /\ r \in PaidRides THEN 1 ELSE 0
             /\ refunded[r] = IF ride[r].status = "CANCELLED" THEN debited[r] ELSE 0
             /\ tipped[r] = IF ride[r].tip /\ r \in PaidRides THEN 1 ELSE 0
  <2>1. ~OnRide(r, "insert") /\ ~OnRide(r, "refund") /\ ~OnRide(r, "writeTip") /\ r \notin deadRides
    BY <1>4, RidesAtRest DEF Cab!Resting
  <2>2. /\ Charged(r) <=> Cab!Booked(r) /\ r \in PaidRides
        /\ Repaid(r) <=> ride[r].status = "CANCELLED" /\ r \in PaidRides
        /\ TipTaken(r) <=> ride[r].tip /\ r \in PaidRides
    BY <2>1 DEF Charged, Repaid, TipTaken
  <2>3. /\ debited[r] = IF Cab!Booked(r) /\ r \in PaidRides THEN 1 ELSE 0
        /\ tipped[r] = IF ride[r].tip /\ r \in PaidRides THEN 1 ELSE 0
        /\ refunded[r] = IF ride[r].status = "CANCELLED" /\ r \in PaidRides THEN 1 ELSE 0
    BY <1>1, <2>1, <2>2 DEF MoneyKept
  <2> QED BY <2>3 DEF Cab!Booked
<1> QED BY <1>3, <1>4

LEMMA RatingExactFollows ==
  ASSUME RidesInv
  PROVE  Cab!RatingExact
<1> SUFFICES ASSUME \A r \in Rides : Cab!Resting(r), NEW d \in Drivers
             PROVE  [count |-> driver[d].count, sum |-> driver[d].sum] = Cab!Aggregate(d)
  BY DEF Cab!RatingExact
<1>1. deadRides = {}
  BY AllAtRest
<1>2. \A w \in RideWorkers : ~Cab!Running(w)
  BY RideJobTyped DEF RidesInv, RidesBase, Cab!Resting, Cab!Busy
<1>3. ~Rates(d)
  BY <1>2 DEF Rates, Cab!Running, Cab!At
<1> QED BY <1>1, <1>3 DEF RidesInv, Rated, RatingKept

(***************************************************************************)
(* The fleet: rides and deliveries share no row, so that every step of the *)
(* fleet is one of the rides or leaves them alone.                         *)
(***************************************************************************)

LEMMA FleetStep ==
  [FleetNext]_<<focus, pool, foodVars, groceryVars, rideVars>> => [Cab!Next]_(Cab!vars)
<1>1. UNCHANGED rideVars => UNCHANGED Cab!vars
  BY DEF rideVars, Cab!vars, Cab!postings
<1> QED BY <1>1 DEF FleetNext

LEMMA RidesStay == ASSUME ~StepsOverlap PROVE FleetSpec => []RidesInv
<1>1. FleetInit => RidesInv
  BY InitRidesInv DEF FleetInit
<1>2. RidesInv /\ [FleetNext]_<<focus, pool, foodVars, groceryVars, rideVars>> => RidesInv'
  BY FleetStep, NextRidesInv
<1> QED BY <1>1, <1>2, PTL DEF FleetSpec

(* A driver is on one ride at a time and is not a candidate for another, as  *)
(* long as no request has died (RidesService.tryAssignDriver claims a driver *)
(* without a condition): it needs the two searches apart and an admin who    *)
(* sees the status that is being changed.                                    *)
THEOREM OneRideEach == ASSUME ~StepsOverlap, FreshScreens PROVE FleetSpec => []OneRide
<1>1. RidesInv => OneRide
  BY OneRideFollows DEF OneRide
<1> QED BY <1>1, RidesStay, PTL

(* A driver who is not available is on a ride, when nothing is under way:    *)
(* cancel and adminUpdateStatus let nobody go missing, whatever the screens  *)
(* show.                                                                     *)
THEOREM DriversStayFree == ASSUME ~StepsOverlap PROVE FleetSpec => []DriversFree
<1>1. RidesInv => DriversFree
  BY DriversFreeFollows DEF DriversFree
<1> QED BY <1>1, RidesStay, PTL

(* The wallet rows of a ride agree with the ride, and what a request leaves  *)
(* behind that dies never favours the customer: create debits before it      *)
(* inserts, applyStatusChange refunds after it has written, and tipDriver    *)
(* debits before it writes the tip.                                          *)
THEOREM PostingsStay == ASSUME ~StepsOverlap PROVE FleetSpec => []PostingsMatch
<1>1. RidesInv => PostingsMatch
  BY PostingsMatchFollows DEF PostingsMatch
<1> QED BY <1>1, RidesStay, PTL

(* The rating of a driver is that of the reviews, when none is being made    *)
(* and none has died half-way (createReview recomputes the aggregate).       *)
THEOREM RatingsStayExact == ASSUME ~StepsOverlap PROVE FleetSpec => []RatingExact
<1>1. RidesInv => RatingExact
  BY RatingExactFollows DEF RatingExact
<1> QED BY <1>1, RidesStay, PTL
=============================================================================
