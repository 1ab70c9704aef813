----------------------------- MODULE FoodOrders -----------------------------
(* OrdersService (apps/api/src/orders/orders.service.ts) with the parts of   *)
(* PaymentsService, WalletService and DeliveryPartnersService it calls, and  *)
(* the controllers of the customer, the restaurant, the admin and the rider. *)
(*                                                                           *)
(* Nothing in the service is locked: between two awaits any other request    *)
(* may run, in this process or in another one.  Each action is therefore one *)
(* database statement, and a request keeps what it has read in "seen".       *)
(* wallet.credit and wallet.debit are single steps: module Wallet proves     *)
(* that they behave like the steps of WalletLedger.                          *)
EXTENDS DeliveryPool, FiniteSets

CONSTANTS Orders,            \* the orders that may be placed
          Method,            \* the paymentMethod each order is placed with
          Workers,           \* the requests that may be in flight at once
          Requests,          \* the kinds of request that are made at all
          SameOrderOverlap,  \* may two requests on one order overlap?
          StaleScreens,      \* may a rider answer for an order that has finished?
          MaxPostings,       \* bound: refunds and awards an order may collect
          MaxCrashes         \* bound: requests that die half-way

ASSUME MethodIsKnown == Method \in [Orders -> {"COD", "ONLINE", "WALLET"}]
ASSUME KindsAreKnown ==
  Requests \subseteq {"status", "cancel", "assign", "accept", "reject", "pay", "payFailed",
                      "online", "suspend", "remove"}
ASSUME BoundsAreNat == MaxPostings \in Nat /\ MaxCrashes \in Nat

VARIABLES order,      \* the Order rows
          payment,    \* Payment.status of each order
          history,    \* the statuses in the OrderStatusHistory rows of an order
          charged,    \* how often the wallet was debited for an order
          refunded,   \* how often the wallet was credited for an order
          points,     \* how often loyalty points were awarded for an order
          req,        \* what each request is doing
          crashes     \* how many requests have died

books == <<payment, charged, refunded, points>>
vars == <<pool, order, history, books, req, crashes>>

(***************************************************************************)
(* Data.                                                                   *)
(***************************************************************************)

Statuses == {"PENDING", "ACCEPTED", "PREPARING", "READY", "OUT_FOR_DELIVERY",
             "DELIVERED", "CANCELLED", "REFUNDED"}
Finished == {"DELIVERED", "CANCELLED", "REFUNDED"}

(* Slip: a delivered order may be delivered again.                           *)
AllowedRepeat == [PENDING |-> {"ACCEPTED", "CANCELLED"}, ACCEPTED |-> {"PREPARING", "CANCELLED"},
                  PREPARING |-> {"READY", "CANCELLED"}, READY |-> {"OUT_FOR_DELIVERY"},
                  OUT_FOR_DELIVERY |-> {"DELIVERED"}, DELIVERED |-> {"DELIVERED"},
                  CANCELLED |-> {"REFUNDED"}, REFUNDED |-> {}]

(* Slip: an order that waits for its rider can still be cancelled.           *)
AllowedLate == [PENDING |-> {"ACCEPTED", "CANCELLED"}, ACCEPTED |-> {"PREPARING", "CANCELLED"},
                PREPARING |-> {"READY", "CANCELLED"}, READY |-> {"OUT_FOR_DELIVERY", "CANCELLED"},
                OUT_FOR_DELIVERY |-> {"DELIVERED"}, DELIVERED |-> {},
                CANCELLED |-> {"REFUNDED"}, REFUNDED |-> {}]

Allowed == [PENDING |-> {"ACCEPTED", "CANCELLED"},
            ACCEPTED |-> {"PREPARING", "CANCELLED"},
            PREPARING |-> {"READY", "CANCELLED"},
            READY |-> {"OUT_FOR_DELIVERY"},
            OUT_FOR_DELIVERY |-> {"DELIVERED"},
            DELIVERED |-> {},
            CANCELLED |-> {"REFUNDED"},
            REFUNDED |-> {}]

PaymentStatuses == {"PENDING", "PAID", "REFUNDED"}
OrderRows == [status : Statuses \cup {"none"}, paid : PaymentStatuses,
              partner : Partners \cup {None}, acceptance : {"NONE", "PENDING", "ACCEPTED"}]
Unplaced == [status |-> "none", paid |-> "PENDING", partner |-> None, acceptance |-> "NONE"]

Placed(o) == order[o].status # "none"
Live(o) == Placed(o) /\ order[o].status \notin Finished

Stages == {"insert", "payment", "markPaid", "reread", "write", "refundPayment", "refundOrder",
           "credit", "find", "claim", "attach", "release", "loyalty", "vet", "unassign",
           "mark", "accept", "free", "clear", "payOrder"}
(* o is the order, at the statement that comes next, to the status asked     *)
(* for, seen the order as read at the start, partner the rider the request   *)
(* is about to assign or to release, excluded the one who rejected, ranked   *)
(* the candidates of tryAssign that are left.                                *)
Jobs == [at : Stages, o : Orders, to : Statuses \cup {None}, seen : OrderRows,
         partner : Partners \cup {None}, excluded : Partners \cup {None},
         ranked : SUBSET Partners]
Idle == [at |-> "idle"]

TypeOK == /\ PoolTypeOK
          /\ order \in [Orders -> OrderRows]
          /\ payment \in [Orders -> {"none", "FAILED"} \cup PaymentStatuses]
          /\ history \in [Orders -> SUBSET Statuses]
          /\ charged \in [Orders -> Nat]
          /\ refunded \in [Orders -> Nat]
          /\ points \in [Orders -> Nat]
          /\ req \in [Workers -> Jobs \cup {Idle}]
          /\ crashes \in Nat

Init == /\ PoolInit
        /\ order = [o \in Orders |-> Unplaced]
        /\ payment = [o \in Orders |-> "none"]
        /\ history = [o \in Orders |-> {}]
        /\ charged = [o \in Orders |-> 0]
        /\ refunded = [o \in Orders |-> 0]
        /\ points = [o \in Orders |-> 0]
        /\ req = [w \in Workers |-> Idle]
        /\ crashes = 0

(***************************************************************************)
(* Requests: how they start, move on and end.                              *)
(***************************************************************************)

At(w, stage) == req[w] # Idle /\ req[w].at = stage
Busy(o) == \E w \in Workers : req[w] # Idle /\ req[w].o = o
MayStart(w, o) == req[w] = Idle /\ (SameOrderOverlap \/ ~Busy(o))

Job(stage, o, to, partner, excluded) ==
  [at |-> stage, o |-> o, to |-> to, seen |-> order[o], partner |-> partner,
   excluded |-> excluded, ranked |-> {}]
Begin(w, job) == req' = [req EXCEPT ![w] = job]
Go(w, stage) == req' = [req EXCEPT ![w] = IF stage = "idle" THEN Idle
                                          ELSE [@ EXCEPT !.at = stage]]
End(w) == Go(w, "idle")


(***************************************************************************)
(* create: debit the wallet, insert the order, write its payment.          *)
(***************************************************************************)

(* The order is priced and, if it is paid from the wallet, debited; a debit  *)
(* that is refused ends the request before it has done anything.             *)
Create(w, o) ==
  /\ MayStart(w, o) /\ ~Busy(o) /\ ~Placed(o) /\ charged[o] = 0
  /\ Begin(w, Job("insert", o, None, None, None))
  /\ charged' = [charged EXCEPT ![o] = IF Method[o] = "WALLET" THEN 1 ELSE 0]
  /\ UNCHANGED <<pool, order, history, payment, refunded, points, crashes>>

Insert(w) ==
  /\ At(w, "insert")
  /\ order' = [order EXCEPT ![req[w].o].status = "PENDING"]
  /\ history' = [history EXCEPT ![req[w].o] = @ \cup {"PENDING"}]
  /\ Go(w, "payment")
  /\ UNCHANGED <<pool, books, crashes>>

(* createOrderForPayment, or the payment row of a wallet or cash order.      *)
CreatePayment(w) ==
  /\ At(w, "payment")
  /\ LET byWallet == Method[req[w].o] = "WALLET" IN
       /\ payment' = [payment EXCEPT ![req[w].o] = IF byWallet THEN "PAID" ELSE "PENDING"]
       /\ Go(w, IF byWallet THEN "markPaid" ELSE "idle")
  /\ UNCHANGED <<pool, order, history, charged, refunded, points, crashes>>

(* razorpay.orders.create throws: the order stays, without a payment row.    *)
GatewayFails(w) ==
  /\ At(w, "payment") /\ Method[req[w].o] = "ONLINE"
  /\ End(w)
  /\ UNCHANGED <<pool, order, history, books, crashes>>

MarkOrderPaid(w) ==
  /\ At(w, "markPaid")
  /\ order' = [order EXCEPT ![req[w].o].paid = "PAID"]
  /\ End(w)
  /\ UNCHANGED <<pool, history, books, crashes>>

(***************************************************************************)
(* Payments.                                                               *)
(***************************************************************************)

(* markPaid, reached from a verified signature or from the mock gateway: the *)
(* payment row first.  It has to exist, and nothing else is looked at:       *)
(* neither its method nor what has become of the order.                      *)
Pay(w, o) ==
  /\ "pay" \in Requests /\ MayStart(w, o) /\ payment[o] # "none"
  /\ payment' = [payment EXCEPT ![o] = "PAID"]
  /\ Begin(w, Job("payOrder", o, None, None, None))
  /\ UNCHANGED <<pool, order, history, charged, refunded, points, crashes>>

PayOrder(w) ==
  /\ At(w, "payOrder")
  /\ order' = [order EXCEPT ![req[w].o].paid = "PAID"]
  /\ End(w)
  /\ UNCHANGED <<pool, history, books, crashes>>

(* markFailed, after a signature that does not match.                        *)
PayFailed(o) ==
  /\ "payFailed" \in Requests /\ payment[o] # "none"
  /\ SameOrderOverlap \/ ~Busy(o)
  /\ payment' = [payment EXCEPT ![o] = "FAILED"]
  /\ UNCHANGED <<pool, order, history, charged, refunded, points, req, crashes>>

(***************************************************************************)
(* applyStatusChange.                                                      *)
(***************************************************************************)

Postable(o) == refunded[o] + points[o] < MaxPostings

(* The restaurant or an admin sets a status: the order is read and the       *)
(* transition is checked on what was read.                                   *)
StatusRequest(w, o, to) ==
  /\ "status" \in Requests /\ MayStart(w, o) /\ Placed(o) /\ Postable(o)
  /\ to \in Allowed[order[o].status]
  /\ Begin(w, Job("write", o, to, None, None))
  /\ UNCHANGED <<pool, order, history, books, crashes>>

(* The customer cancels, or the rider sets a status: the handler makes its   *)
(* own check first, and applyStatusChange reads the order again.             *)
CancelRequest(w, o) ==
  /\ "cancel" \in Requests /\ MayStart(w, o) /\ Postable(o)
  /\ order[o].status \in {"PENDING", "ACCEPTED"}
  /\ Begin(w, Job("reread", o, "CANCELLED", None, None))
  /\ UNCHANGED <<pool, order, history, books, crashes>>

RiderStatusRequest(w, o, p, to) ==
  /\ "status" \in Requests /\ MayStart(w, o) /\ Placed(o) /\ Postable(o)
  /\ order[o].partner = p
  /\ Begin(w, Job("reread", o, to, None, None))
  /\ UNCHANGED <<pool, order, history, books, crashes>>

(* Slip: the transition is not checked on the second read.                   *)
RereadUnchecked(w) ==
  /\ At(w, "reread")
  /\ Begin(w, Job("write", req[w].o, req[w].to, None, None))
  /\ UNCHANGED <<pool, order, history, books, crashes>>

Reread(w) ==
  /\ At(w, "reread")
  /\ LET r == req[w] IN
       Begin(w, IF r.to \in Allowed[order[r.o].status]
                THEN Job("write", r.o, r.to, None, None) ELSE Idle)
  /\ UNCHANGED <<pool, order, history, books, crashes>>

(* What follows the write and the refund, decided on the order as it was     *)
(* read at the start.                                                        *)
(* Slip: a cancellation does not release the rider.                          *)
AfterRefundKeep(r) == "idle"

AfterRefund(r) == IF r.seen.partner # None THEN "release" ELSE "idle"
(* Slips: the rider is released when the meal is picked up; a paid order is  *)
(* refunded whatever its new status.                                         *)
AfterWriteReleaseEarly(r) ==
  CASE r.to = "CANCELLED" -> IF r.seen.paid = "PAID" THEN "refundPayment" ELSE AfterRefund(r)
    [] r.to = "READY"     -> IF r.seen.partner = None THEN "find" ELSE "idle"
    [] r.to \in {"OUT_FOR_DELIVERY", "DELIVERED"} ->
                             IF r.seen.partner # None THEN "release" ELSE "idle"
    [] OTHER              -> "idle"
AfterWriteRefundAny(r) == IF r.seen.paid = "PAID" THEN "refundPayment" ELSE AfterRefund(r)

AfterWrite(r) ==
  CASE r.to = "CANCELLED" -> IF r.seen.paid = "PAID" THEN "refundPayment" ELSE AfterRefund(r)
    [] r.to = "READY"     -> IF r.seen.partner = None THEN "find" ELSE "idle"
    [] r.to = "DELIVERED" -> IF r.seen.partner # None THEN "release" ELSE "loyalty"
    [] OTHER              -> "idle"

(* Slip: the status changes without a history row.                           *)
WriteStatusSilent(w) ==
  /\ At(w, "write")
  /\ order' = [order EXCEPT ![req[w].o].status = req[w].to]
  /\ Go(w, AfterWrite(req[w]))
  /\ UNCHANGED <<pool, history, books, crashes>>

WriteStatus(w) ==
  /\ At(w, "write")
  /\ order' = [order EXCEPT ![req[w].o].status = req[w].to]
  /\ history' = [history EXCEPT ![req[w].o] = @ \cup {req[w].to}]
  /\ Go(w, AfterWrite(req[w]))
  /\ UNCHANGED <<pool, books, crashes>>

RefundPayment(w) ==
  /\ At(w, "refundPayment")
  /\ payment' = [payment EXCEPT ![req[w].o] = "REFUNDED"]
  /\ Go(w, "refundOrder")
  /\ UNCHANGED <<pool, order, history, charged, refunded, points, crashes>>

(* Slips: no wallet is credited; the wallet is credited however the customer *)
(* paid.                                                                     *)
RefundOrderOnly(w) ==
  /\ At(w, "refundOrder")
  /\ order' = [order EXCEPT ![req[w].o].paid = "REFUNDED"]
  /\ Go(w, AfterRefund(req[w]))
  /\ UNCHANGED <<pool, history, books, crashes>>
RefundOrderCredit(w) ==
  /\ At(w, "refundOrder")
  /\ order' = [order EXCEPT ![req[w].o].paid = "REFUNDED"]
  /\ Go(w, "credit")
  /\ UNCHANGED <<pool, history, books, crashes>>

RefundOrder(w) ==
  /\ At(w, "refundOrder")
  /\ order' = [order EXCEPT ![req[w].o].paid = "REFUNDED"]
  /\ Go(w, IF Method[req[w].o] = "WALLET" THEN "credit" ELSE AfterRefund(req[w]))
  /\ UNCHANGED <<pool, history, books, crashes>>

RefundCredit(w) ==
  /\ At(w, "credit")
  /\ refunded' = [refunded EXCEPT ![req[w].o] = @ + 1]
  /\ Go(w, AfterRefund(req[w]))
  /\ UNCHANGED <<pool, order, history, payment, charged, points, crashes>>

(* Slip: the points are forgotten when there is a rider to release.          *)
ReleaseRiderLast(w) ==
  /\ At(w, "release")
  /\ pool' = Released(req[w].seen.partner)
  /\ End(w)
  /\ UNCHANGED <<order, history, books, crashes>>

ReleaseRider(w) ==
  /\ At(w, "release")
  /\ pool' = Released(req[w].seen.partner)
  /\ Go(w, IF req[w].to = "DELIVERED" THEN "loyalty" ELSE "idle")
  /\ UNCHANGED <<order, history, books, crashes>>

AwardPoints(w) ==
  /\ At(w, "loyalty")
  /\ points' = [points EXCEPT ![req[w].o] = @ + 1]
  /\ End(w)
  /\ UNCHANGED <<pool, order, history, payment, charged, refunded, crashes>>

(***************************************************************************)
(* tryAssign, and the write of the rider it has found.                     *)
(***************************************************************************)

FindRiders(w) ==
  /\ At(w, "find")
  /\ LET found == Candidates(req[w].excluded) IN
       Begin(w, IF found = {} THEN Idle
                ELSE [[req[w] EXCEPT !.ranked = found] EXCEPT !.at = "claim"])
  /\ UNCHANGED <<pool, order, history, books, crashes>>

(* The nearest of the candidates left: positions are arbitrary, so any one.  *)
ClaimRider(w, p) ==
  /\ At(w, "claim")
  /\ LET r == req[w]
         rest == r.ranked \ {p} IN
       /\ p \in r.ranked
       /\ \/ /\ ClaimWins(p)
             /\ pool' = Claimed(p)
             /\ Begin(w, [[r EXCEPT !.partner = p] EXCEPT !.at = "attach"])
          \/ /\ ~ClaimWins(p)
             /\ pool' = pool
             /\ Begin(w, IF rest = {} THEN Idle ELSE [r EXCEPT !.ranked = rest])
  /\ UNCHANGED <<order, history, books, crashes>>

(* The rider is put on the order; the foreign key rejects a deleted one.     *)
Attach(w) ==
  /\ At(w, "attach")
  /\ LET r == req[w] IN
       order' = IF Exists(r.partner)
                THEN [order EXCEPT ![r.o] = [[@ EXCEPT !.partner = r.partner]
                                                EXCEPT !.acceptance = "PENDING"]]
                ELSE order
  /\ End(w)
  /\ UNCHANGED <<pool, history, books, crashes>>

(***************************************************************************)
(* assignDeliveryPartner: an admin puts a rider on an order.               *)
(***************************************************************************)

AssignRequest(w, o, p) ==
  /\ "assign" \in Requests /\ MayStart(w, o) /\ Live(o)
  /\ Begin(w, Job("vet", o, None, p, None))
  /\ UNCHANGED <<pool, order, history, books, crashes>>

Vet(w) ==
  /\ At(w, "vet")
  /\ LET r == req[w] IN
       Go(w, CASE ~ManuallyAssignable(r.partner)       -> "idle"
               [] r.seen.partner \in {None, r.partner} -> "mark"
               [] OTHER                                -> "unassign")
  /\ UNCHANGED <<pool, order, history, books, crashes>>

Unassign(w) ==
  /\ At(w, "unassign")
  /\ pool' = Released(req[w].seen.partner)
  /\ Go(w, "mark")
  /\ UNCHANGED <<order, history, books, crashes>>

Mark(w) ==
  /\ At(w, "mark")
  /\ pool' = MarkedUnavailable(req[w].partner)
  /\ Go(w, "attach")
  /\ UNCHANGED <<order, history, books, crashes>>

(***************************************************************************)
(* respondToDeliveryAssignment: the rider accepts or rejects.              *)
(***************************************************************************)

(* The app lists live orders only; the handler itself does not look at the   *)
(* status, so an answer from a list fetched earlier is taken.                *)
Answerable(w, o, p) == /\ MayStart(w, o)
                       /\ StaleScreens \/ Live(o)
                       /\ order[o].partner = p
                       /\ order[o].acceptance = "PENDING"

AcceptRequest(w, o, p) ==
  /\ "accept" \in Requests /\ Answerable(w, o, p)
  /\ Begin(w, Job("accept", o, None, p, None))
  /\ UNCHANGED <<pool, order, history, books, crashes>>

Accept(w) ==
  /\ At(w, "accept")
  /\ order' = [order EXCEPT ![req[w].o].acceptance = "ACCEPTED"]
  /\ End(w)
  /\ UNCHANGED <<pool, history, books, crashes>>

RejectRequest(w, o, p) ==
  /\ "reject" \in Requests /\ Answerable(w, o, p)
  /\ Begin(w, Job("free", o, None, p, p))
  /\ UNCHANGED <<pool, order, history, books, crashes>>

FreeRejecter(w) ==
  /\ At(w, "free")
  /\ pool' = Released(req[w].partner)
  /\ Go(w, "clear")
  /\ UNCHANGED <<order, history, books, crashes>>

(* Slip: the order is left in the acceptance status REJECTED, which nothing  *)
(* else in the service knows.                                                *)
ClearAssignmentRejected(w) ==
  /\ At(w, "clear")
  /\ order' = [order EXCEPT ![req[w].o] = [[@ EXCEPT !.partner = None]
                                              EXCEPT !.acceptance = "REJECTED"]]
  /\ Go(w, IF req[w].seen.status \in {"READY", "OUT_FOR_DELIVERY"} THEN "find" ELSE "idle")
  /\ UNCHANGED <<pool, history, books, crashes>>

ClearAssignment(w) ==
  /\ At(w, "clear")
  /\ order' = [order EXCEPT ![req[w].o] = [[@ EXCEPT !.partner = None]
                                              EXCEPT !.acceptance = "NONE"]]
  /\ Go(w, IF req[w].seen.status \in {"READY", "OUT_FOR_DELIVERY"} THEN "find" ELSE "idle")
  /\ UNCHANGED <<pool, history, books, crashes>>

(***************************************************************************)
(* The riders themselves, crashes, and the specification.                  *)
(***************************************************************************)

Unmoved == UNCHANGED <<order, history, books, req, crashes>>

RiderToggles(p) == "online" \in Requests /\ ToggleOnline(p) /\ Unmoved
AdminSuspends(p) == "suspend" \in Requests /\ ChangeStatus(p) /\ Unmoved

(* Deleting a rider sets the foreign key of their orders to null, and leaves *)
(* deliveryAcceptanceStatus as it was.                                       *)
AdminRemoves(p) ==
  /\ "remove" \in Requests /\ Remove(p)
  /\ order' = [o \in Orders |-> IF order[o].partner = p THEN [order[o] EXCEPT !.partner = None]
                                ELSE order[o]]
  /\ UNCHANGED <<history, books, req, crashes>>

(* The process dies, or the database refuses a statement: what the request   *)
(* has written stays, what it had still to do is never done.                 *)
Crash(w) ==
  /\ req[w] # Idle /\ crashes < MaxCrashes
  /\ End(w)
  /\ crashes' = crashes + 1
  /\ UNCHANGED <<pool, order, history, books>>

RiderStatuses == {"OUT_FOR_DELIVERY", "DELIVERED"}   \* the buttons of the rider's app

Arrive(w) ==
  \E o \in Orders :
    \/ Create(w, o) \/ Pay(w, o) \/ CancelRequest(w, o)
    \/ \E to \in Statuses : StatusRequest(w, o, to)
    \/ \E p \in Partners : \/ \E to \in RiderStatuses : RiderStatusRequest(w, o, p, to)
                           \/ AssignRequest(w, o, p)
                           \/ AcceptRequest(w, o, p)
                           \/ RejectRequest(w, o, p)

Step(w) ==
  \/ Insert(w) \/ CreatePayment(w) \/ GatewayFails(w) \/ MarkOrderPaid(w) \/ PayOrder(w)
  \/ Reread(w) \/ WriteStatus(w) \/ RefundPayment(w) \/ RefundOrder(w) \/ RefundCredit(w)
  \/ ReleaseRider(w) \/ AwardPoints(w)
  \/ FindRiders(w) \/ (\E p \in Partners : ClaimRider(w, p)) \/ Attach(w)
  \/ Vet(w) \/ Unassign(w) \/ Mark(w)
  \/ Accept(w) \/ FreeRejecter(w) \/ ClearAssignment(w)

Next == \/ \E w \in Workers : Arrive(w) \/ Step(w) \/ Crash(w)
        \/ \E o \in Orders : PayFailed(o)
        \/ \E p \in Partners : RiderToggles(p) \/ AdminSuspends(p) \/ AdminRemoves(p)

Spec == Init /\ [][Next]_vars

(* Node resumes every request whose database call has returned.  Nothing     *)
(* makes a user, a rider or an admin send one.                               *)
FairSpec == Spec /\ \A w \in Workers : WF_vars(Step(w))

(***************************************************************************)
(* Properties.                                                             *)
(***************************************************************************)

Resting(o) == ~Busy(o)
AllResting == \A o \in Orders : Resting(o)

(* However requests race, nothing gets into an order's history without one   *)
(* of its predecessors: nobody is handed a meal the restaurant never         *)
(* accepted, prepared and gave out, and nothing is REFUNDED uncancelled.     *)
HistoryGrounded ==
  \A o \in Orders : \A s \in history[o] :
    s = "PENDING" \/ \E before \in history[o] : s \in Allowed[before]

(* A wallet is credited a refund only for an order it was debited for, and   *)
(* that has been cancelled.                                                  *)
RefundGrounded ==
  \A o \in Orders : refunded[o] > 0 => charged[o] = 1 /\ "CANCELLED" \in history[o]

(* A rider who has rejected an order is not handed it back by the same       *)
(* rejection ("excludePartnerId").                                           *)
RejecterSkipped ==
  \A w \in Workers : At(w, "attach") => req[w].partner # req[w].excluded

(* What a rider is on: live orders that name them, unless a request is just  *)
(* taking them off (reject and a reassignment free the rider first and write *)
(* the order last), and claims that are not yet written to an order.         *)
TakenOff(o, p) == \E w \in Workers :
                    /\ At(w, "clear") \/ At(w, "mark") \/ At(w, "attach")
                    /\ req[w].o = o /\ req[w].seen.partner = p
                    /\ req[w].partner # p \/ req[w].excluded = p
OnOrders(p) == {o \in Orders : Live(o) /\ order[o].partner = p /\ ~TakenOff(o, p)}
OnClaims(p) == {w \in Workers : At(w, "attach") /\ req[w].partner = p}

(* The point of the conditional claim in tryAssign: a rider is on at most    *)
(* one delivery, counting the claims not yet written to an order.            *)
SingleDelivery ==
  \A p \in Partners : Cardinality(OnOrders(p)) + Cardinality(OnClaims(p)) <= 1

(* "isAvailable: false while on an active delivery".                         *)
BookedUnavailable ==
  \A p \in Partners : OnOrders(p) # {} => ~Exists(p) \/ ~pool[p].isAvailable

(* No rider stays "stuck unavailable": once the requests have come to rest,  *)
(* a rider who cannot be claimed is on a live order.                         *)
NoneStuck ==
  AllResting => \A p \in Partners : Exists(p) /\ ~pool[p].isAvailable => OnOrders(p) # {}

(* Once the requests on it have ended, a wallet order has been paid back if  *)
(* and only if it has been cancelled (create's debit, cancel's refund).      *)
RefundedOnce ==
  \A o \in Orders :
    Resting(o) => (refunded[o] = 1 <=> charged[o] = 1 /\ "CANCELLED" \in history[o])

(* No order rests cancelled and still PAID.                                  *)
CancelledNotPaid ==
  \A o \in Orders : Resting(o) /\ order[o].status = "CANCELLED" => order[o].paid # "PAID"

(* A delivered order is worth its loyalty points once.                       *)
AwardedOnce == \A o \in Orders : points[o] <= 1

(* The status changes as the README draws it, and by nothing else.           *)
Lifecycle == INSTANCE OrderLifecycle WITH status <- [o \in Orders |-> order[o].status]
ImplementsLifecycle == Lifecycle!Spec

(* What a request in flight still knows to be so, whatever the others do:    *)
(* enough for the properties above to survive its next step.                 *)
JobSound(r) ==
  /\ r.at = "insert" /\ Method[r.o] = "WALLET" => charged[r.o] = 1
  /\ r.at = "reread" => r.to \in Statuses /\ Placed(r.o)
  /\ r.at = "write" => /\ r.to \in Statuses
                      /\ r.seen.status \in history[r.o]
                      /\ r.to \in Allowed[r.seen.status]
  /\ r.at \in {"refundPayment", "refundOrder", "credit"} => "CANCELLED" \in history[r.o]
  /\ r.at = "credit" => Method[r.o] = "WALLET"
  /\ r.at \in {"vet", "unassign", "mark"} => r.partner \in Partners /\ r.excluded = None
  /\ r.at = "claim" => r.excluded \notin r.ranked
  /\ r.at = "attach" => r.partner \in Partners /\ r.partner # r.excluded
JobsSound == \A w \in Workers : req[w] # Idle => JobSound(req[w])

(* The rows of an order agree: its status is the subject of a history row,   *)
(* and a wallet order that is placed has been charged.                       *)
RowsAgree ==
  \A o \in Orders :
    /\ Placed(o) <=> history[o] # {}
    /\ Placed(o) => order[o].status \in history[o]
    /\ Placed(o) /\ Method[o] = "WALLET" => charged[o] = 1

(* Auto-assignment does not take an order away from the rider it names.      *)
NoSilentSwap ==
  [][\A w \in Workers : (At(w, "attach") /\ Attach(w) /\ req[w].to = "READY")
       => LET was == order[req[w].o].partner
          IN  was = None \/ order'[req[w].o].partner = was]_vars

(* What a status change owes is done in the end: the refund of a cancelled   *)
(* wallet order, the points of a delivered one.                              *)
RefundArrives ==
  \A o \in Orders :
    (order[o].status = "CANCELLED" /\ charged[o] = 1) ~> (refunded[o] = 1)
PointsArrive == \A o \in Orders : (order[o].status = "DELIVERED") ~> (points[o] > 0)

(* An order that was READY and lost its rider gets the next one: it does not *)
(* stay unassigned for good while a rider is online, approved and idle.      *)
Stranded(o) == order[o].status = "READY" /\ order[o].partner = None
Redispatched ==
  \A o \in Orders : (Stranded(o) /\ Candidates(None) # {}) ~>
                      (~Stranded(o) \/ Candidates(None) = {})
=============================================================================
