-------------------------------- MODULE Rides -------------------------------
(* RidesService and DriversService (apps/api/src/cab/): booking a ride, the  *)
(* search for a driver, status changes, tips and reviews.  A driver is       *)
(* claimed without a condition, unlike a delivery rider (DeliveryPool), and  *)
(* released before the status that releases them is written.                 *)
EXTENDS Handlers, FiniteSetsExt

CONSTANTS Rides,
          OnWallet,         \* the rides paid from the wallet
          Drivers,
          Ratings,          \* what a review may say
          StepsOverlap,     \* may requests on one ride, two searches or two reviews overlap?
          FreshScreens,     \* does an admin see the status that is being changed?
          MaxPostings,      \* bound: debits, refunds and tips of a ride
          MaxToggles,       \* bound: edits of drivers
          MaxCrashes        \* bound: requests that die half-way

None == "none"

VARIABLES ride,      \* the Ride rows
          driver,    \* the Driver rows
          review,    \* the RideReview of each ride: the driver and the rating
          debited, refunded, tipped,   \* wallet rows that name the ride
          dead,      \* the rides on which a request has died
          toggles

postings == <<debited, refunded, tipped>>
vars == <<ride, driver, review, postings, dead, toggles, req>>

Statuses == {"REQUESTED", "DRIVER_ASSIGNED", "DRIVER_ARRIVED", "ONGOING", "COMPLETED", "CANCELLED"}

Allowed == [REQUESTED |-> {"CANCELLED"},
            DRIVER_ASSIGNED |-> {"DRIVER_ARRIVED", "CANCELLED"},
            DRIVER_ARRIVED |-> {"ONGOING", "CANCELLED"},
            ONGOING |-> {"COMPLETED"},
            COMPLETED |-> {},
            CANCELLED |-> {}]

Unbooked == [status |-> "none", paid |-> "PENDING", driver |-> None, tip |-> FALSE]
NoReview == [driver |-> None, rating |-> 0]
NewDriver == [status |-> "APPROVED", isOnline |-> TRUE, isAvailable |-> TRUE, count |-> 0, sum |-> 0]

Booked(r) == ride[r].status # "none"
Live(r) == ride[r].status \in {"DRIVER_ASSIGNED", "DRIVER_ARRIVED", "ONGOING"}
Exists(d) == d \in Drivers /\ driver[d].status # "DELETED"
Busy(r) == \E w \in Workers : Running(w) /\ req[w].r = r
Free(r) == StepsOverlap \/ ~Busy(r)

TypeOK ==
  /\ ride \in [Rides -> [status : Statuses \cup {"none"}, paid : {"PENDING", "PAID", "REFUNDED"},
                         driver : Drivers \cup {None}, tip : BOOLEAN]]
  /\ driver \in [Drivers -> [status : {"APPROVED", "SUSPENDED", "DELETED"}, isOnline : BOOLEAN,
                             isAvailable : BOOLEAN, count : Nat, sum : Nat]]
  /\ review \in [Rides -> [driver : Drivers \cup {None}, rating : Ratings \cup {0}]]
  /\ \A m \in {debited, refunded, tipped} : m \in [Rides -> Nat]
  /\ dead \subseteq Rides

Init ==
  /\ ride = [r \in Rides |-> Unbooked]
  /\ driver = [d \in Drivers |-> NewDriver]
  /\ review = [r \in Rides |-> NoReview]
  /\ debited = [r \in Rides |-> 0] /\ refunded = debited /\ tipped = debited
  /\ dead = {} /\ toggles = 0
  /\ NoRequests

(***************************************************************************)
(* create, once the fare is known (the phone, the zone, the ride type and   *)
(* the coupon only refuse, see Placement), and tryAssignDriver.             *)
(***************************************************************************)

Job(stage, r, to) == [at |-> stage, r |-> r, to |-> to, seen |-> ride[r], found |-> None,
                      rating |-> NoReview, total |-> [count |-> 0, sum |-> 0]]
Posted(r) == debited[r] + refunded[r] + tipped[r] < MaxPostings

Create(w, r) ==
  /\ ~Busy(r) /\ ~Booked(r) /\ Posted(r)
  /\ Start(w, Job(IF r \in OnWallet THEN "debit" ELSE "insert", r, "REQUESTED"))
  /\ UNCHANGED <<ride, driver, review, postings, dead, toggles>>

Debit(w) ==
  /\ At(w, "debit")
  /\ debited' = [debited EXCEPT ![req[w].r] = @ + 1]
  /\ Go(w, "insert")
  /\ UNCHANGED <<ride, driver, review, refunded, tipped, dead, toggles>>

Insert(w) ==
  /\ At(w, "insert")
  /\ LET r == req[w].r IN
       ride' = [ride EXCEPT ![r] = [Unbooked EXCEPT
                  !.status = "REQUESTED", !.paid = IF r \in OnWallet THEN "PAID" ELSE "PENDING"]]
  /\ Go(w, "find")
  /\ UNCHANGED <<driver, review, postings, dead, toggles>>

(* Slip: drivers who are on a ride are candidates too.                       *)
CandidatesBusy == {d \in Drivers : driver[d].status = "APPROVED" /\ driver[d].isOnline}

Candidates == {d \in Drivers : /\ driver[d].status = "APPROVED"
                               /\ driver[d].isOnline /\ driver[d].isAvailable}
Searching == \E w \in Workers : At(w, "assign")

(* The nearest candidate: any of them, positions being arbitrary.            *)
FindDriver(w) ==
  /\ At(w, "find") /\ (StepsOverlap \/ ~Searching)
  /\ \/ Candidates = {} /\ Go(w, "end")
     \/ \E d \in Candidates : Become(w, [req[w] EXCEPT !.at = "assign", !.found = d])
  /\ UNCHANGED <<ride, driver, review, postings, dead, toggles>>

(* Both rows in one transaction, neither looked at again.                    *)
AssignDriver(w) ==
  /\ At(w, "assign")
  /\ LET r == req[w].r
         d == req[w].found
     IN  IF Exists(d)
         THEN /\ ride' = [ride EXCEPT ![r].driver = d, ![r].status = "DRIVER_ASSIGNED"]
              /\ driver' = [driver EXCEPT ![d].isAvailable = FALSE]
         ELSE UNCHANGED <<ride, driver>>
  /\ Go(w, "end")
  /\ UNCHANGED <<review, postings, dead, toggles>>

Respond(w) == /\ At(w, "end") /\ End(w)
              /\ UNCHANGED <<ride, driver, review, postings, dead, toggles>>

(***************************************************************************)
(* cancel and adminUpdateStatus: the driver is freed, then applyStatusChange *)
(* reads the ride again.                                                    *)
(***************************************************************************)

CancelRequest(w, r) ==
  /\ Free(r) /\ ride[r].status \in {"REQUESTED", "DRIVER_ASSIGNED"} /\ Posted(r)
  /\ Start(w, Job(IF ride[r].driver # None THEN "free" ELSE "reread", r, "CANCELLED"))
  /\ UNCHANGED <<ride, driver, review, postings, dead, toggles>>

StatusRequest(w, r, to) ==
  /\ Free(r) /\ Booked(r) /\ Posted(r)
  /\ FreshScreens => to \in Allowed[ride[r].status]
  /\ Start(w, Job(IF to \in {"CANCELLED", "COMPLETED"} /\ ride[r].driver # None
                  THEN "free" ELSE "reread", r, to))
  /\ UNCHANGED <<ride, driver, review, postings, dead, toggles>>

(* Slip: only the customer's cancellation frees the driver.                  *)
FreeDriverCancelled(w) ==
  /\ At(w, "free")
  /\ driver' = IF req[w].to = "CANCELLED" /\ Exists(req[w].seen.driver)
               THEN [driver EXCEPT ![req[w].seen.driver].isAvailable = TRUE] ELSE driver
  /\ Go(w, "reread")
  /\ UNCHANGED <<ride, review, postings, dead, toggles>>

(* The update of a driver who is gone throws.                                *)
FreeDriver(w) ==
  /\ At(w, "free")
  /\ LET d == req[w].seen.driver IN
       IF Exists(d) THEN driver' = [driver EXCEPT ![d].isAvailable = TRUE] /\ Go(w, "reread")
       ELSE driver' = driver /\ Go(w, "end")
  /\ UNCHANGED <<ride, review, postings, dead, toggles>>

Reread(w) ==
  /\ At(w, "reread")
  /\ LET q == req[w] IN
       IF q.to \in Allowed[ride[q.r].status] THEN Become(w, Job("write", q.r, q.to))
       ELSE Go(w, "end")
  /\ UNCHANGED <<ride, driver, review, postings, dead, toggles>>

Refundable(q) == q.to = "CANCELLED" /\ q.r \in OnWallet /\ q.seen.paid = "PAID"

WriteStatus(w) ==
  /\ At(w, "write")
  /\ LET q == req[w] IN
       /\ ride' = [ride EXCEPT ![q.r].status = q.to,
                               ![q.r].paid = CASE Refundable(q) -> "REFUNDED"
                                               [] q.to = "COMPLETED" -> "PAID"
                                               [] OTHER -> @]
       /\ Go(w, IF Refundable(q) THEN "refund" ELSE "end")
  /\ UNCHANGED <<driver, review, postings, dead, toggles>>

Refund(w) ==
  /\ At(w, "refund")
  /\ refunded' = [refunded EXCEPT ![req[w].r] = @ + 1]
  /\ Go(w, "end")
  /\ UNCHANGED <<ride, driver, review, debited, tipped, dead, toggles>>

(***************************************************************************)
(* tipDriver and createReview.                                             *)
(***************************************************************************)

(* Slip: a ride that has been tipped may be tipped again.                    *)
TippableTwice(r) == ride[r].status = "COMPLETED" /\ ride[r].driver # None

Tippable(r) == ride[r].status = "COMPLETED" /\ ride[r].driver # None /\ ~ride[r].tip

TipRequest(w, r) ==
  /\ Free(r) /\ Posted(r) /\ Tippable(r)
  /\ Start(w, Job(IF r \in OnWallet THEN "debitTip" ELSE "writeTip", r, None))
  /\ UNCHANGED <<ride, driver, review, postings, dead, toggles>>

DebitTip(w) ==
  /\ At(w, "debitTip")
  /\ tipped' = [tipped EXCEPT ![req[w].r] = @ + 1]
  /\ Go(w, "writeTip")
  /\ UNCHANGED <<ride, driver, review, debited, refunded, dead, toggles>>

WriteTip(w) ==
  /\ At(w, "writeTip")
  /\ ride' = [ride EXCEPT ![req[w].r].tip = TRUE]
  /\ Go(w, "end")
  /\ UNCHANGED <<driver, review, postings, dead, toggles>>

ReviewsOf(d) == {r \in Rides : review[r].driver = d}
(* What the reviews of a driver say; each counts, even if two say the same.  *)
Said(d) == {<<r, review[r].rating>> : r \in ReviewsOf(d)}
Total(said) == MapThenSumSet(LAMBDA s : s[2], said)
Aggregate(d) == [count |-> Cardinality(Said(d)), sum |-> Total(Said(d))]

ReviewRequest(w, r, n) ==
  /\ Free(r) /\ ride[r].status = "COMPLETED" /\ ride[r].driver # None /\ review[r] = NoReview
  /\ StepsOverlap \/ ~\E v \in Workers : Running(v) /\ req[v].rating # NoReview
  /\ Start(w, [Job("review", r, None) EXCEPT !.rating = [driver |-> ride[r].driver, rating |-> n]])
  /\ UNCHANGED <<ride, driver, review, postings, dead, toggles>>

(* The review names a driver who may have been deleted meanwhile, and a ride *)
(* that may have been reviewed (rideId is unique).                           *)
WriteReview(w) ==
  /\ At(w, "review")
  /\ LET q == req[w] IN
       IF Exists(q.rating.driver) /\ review[q.r] = NoReview
       THEN review' = [review EXCEPT ![q.r] = q.rating] /\ Go(w, "aggregate")
       ELSE review' = review /\ Go(w, "end")
  /\ UNCHANGED <<ride, driver, postings, dead, toggles>>

(* Slip: the aggregate is read before the review is there.                   *)
ReadRatingBefore(w) ==
  /\ At(w, "aggregate")
  /\ Become(w, [req[w] EXCEPT !.at = "rate", !.total =
                  [count |-> Cardinality(ReviewsOf(req[w].rating.driver)) - 1, sum |-> 0]])
  /\ UNCHANGED <<ride, driver, review, postings, dead, toggles>>

ReadRating(w) ==
  /\ At(w, "aggregate")
  /\ Become(w, [req[w] EXCEPT !.at = "rate", !.total = Aggregate(req[w].rating.driver)])
  /\ UNCHANGED <<ride, driver, review, postings, dead, toggles>>

WriteRating(w) ==
  /\ At(w, "rate")
  /\ LET q == req[w] IN
       driver' = [driver EXCEPT ![q.rating.driver].count = q.total.count,
                                ![q.rating.driver].sum = q.total.sum]
  /\ Go(w, "end")
  /\ UNCHANGED <<ride, review, postings, dead, toggles>>

(***************************************************************************)
(* DriversService, and the end of a process.                               *)
(***************************************************************************)

Edit(d) == /\ toggles < MaxToggles /\ toggles' = toggles + 1
           /\ Exists(d)
           /\ UNCHANGED <<review, postings, dead, req>>

ToggleOnline(d) == /\ Edit(d)
                   /\ driver' = [driver EXCEPT ![d].isOnline = ~@]
                   /\ ride' = ride
ChangeStatus(d) == /\ Edit(d)
                   /\ driver' = [driver EXCEPT ![d].status =
                                   IF @ = "APPROVED" THEN "SUSPENDED" ELSE "APPROVED"]
                   /\ ride' = ride
(* Reviews keep a driver (ON DELETE RESTRICT), rides forget theirs.          *)
RemoveDriver(d) == /\ Edit(d) /\ ReviewsOf(d) = {}
                   /\ driver' = [driver EXCEPT ![d].status = "DELETED"]
                   /\ ride' = [r \in Rides |-> IF ride[r].driver = d
                                               THEN [ride[r] EXCEPT !.driver = None] ELSE ride[r]]

Crash(w) == /\ Running(w) /\ Cardinality(dead) < MaxCrashes
            /\ dead' = dead \cup {req[w].r}
            /\ End(w)
            /\ UNCHANGED <<ride, driver, review, postings, toggles>>

Arrive(w) == \E r \in Rides :
               \/ Create(w, r) \/ CancelRequest(w, r) \/ TipRequest(w, r)
               \/ \E to \in Statuses : StatusRequest(w, r, to)
               \/ \E n \in Ratings : ReviewRequest(w, r, n)

Step(w) == \/ Debit(w) \/ Insert(w) \/ FindDriver(w) \/ AssignDriver(w) \/ Respond(w)
           \/ FreeDriver(w) \/ Reread(w) \/ WriteStatus(w) \/ Refund(w)
           \/ DebitTip(w) \/ WriteTip(w)
           \/ WriteReview(w) \/ ReadRating(w) \/ WriteRating(w)

Next == \/ \E w \in Workers : Arrive(w) \/ Step(w) \/ Crash(w)
        \/ \E d \in Drivers : ToggleOnline(d) \/ ChangeStatus(d) \/ RemoveDriver(d)

Spec == Init /\ [][Next]_vars

(***************************************************************************)
(* Properties.                                                             *)
(***************************************************************************)

Resting(r) == ~Busy(r) /\ r \notin dead
Freed(r) == \E w \in Workers : Running(w) /\ req[w].r = r /\ req[w].to \in {"CANCELLED", "COMPLETED"}
OnRides(d) == {r \in Rides : Live(r) /\ ride[r].driver = d /\ ~Freed(r)}

(* A driver is on one ride at a time and is not offered another, as long as  *)
(* no two searches overlap and no request dies between freeing the driver    *)
(* and writing the status: the flag is all that keeps the rides apart.       *)
OneRide == dead = {} => \A d \in Drivers : /\ Cardinality(OnRides(d)) <= 1
                                           /\ OnRides(d) # {} => d \notin Candidates

(* A driver who is not available is on a ride, when nothing is under way.    *)
DriversFree ==
  (\A r \in Rides : Resting(r)) =>
    \A d \in Drivers : Exists(d) /\ ~driver[d].isAvailable => OnRides(d) # {}

(* Money and rows agree when a ride is at rest: a wallet ride is paid back   *)
(* exactly when it is cancelled, and its tip is taken exactly once.  What a  *)
(* request leaves behind that dies never favours the customer.               *)
PostingsMatch ==
  \A r \in Rides :
    /\ refunded[r] <= debited[r] /\ (r \in OnWallet /\ ride[r].tip => tipped[r] >= 1)
    /\ Resting(r) =>
         /\ debited[r] = IF Booked(r) /\ r \in OnWallet THEN 1 ELSE 0
         /\ refunded[r] = IF ride[r].status = "CANCELLED" THEN debited[r] ELSE 0
         /\ tipped[r] = IF ride[r].tip /\ r \in OnWallet THEN 1 ELSE 0

(* A driver's rating is that of the reviews, when none is being made: a      *)
(* write that was overtaken by another would leave it wrong.                 *)
RatingExact ==
  (\A r \in Rides : Resting(r)) =>
    \A d \in Drivers : [count |-> driver[d].count, sum |-> driver[d].sum] = Aggregate(d)
=============================================================================
