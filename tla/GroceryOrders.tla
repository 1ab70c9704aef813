---------------------------- MODULE GroceryOrders ---------------------------
(* GroceryOrdersService after an order has been priced (see Placement): the  *)
(* transaction that inserts it and takes its stock, the status changes that  *)
(* put the stock back, pay the customer back and dispatch a rider, and the   *)
(* rider's answers.  Riders are DeliveryPool's, shared with food orders.     *)
EXTENDS DeliveryPool, Handlers, Integers

CONSTANTS Orders,
          OnWallet,          \* the orders paid from the wallet, the rest is COD
          Products,
          Lines,             \* the products of each order: one unit of each
          InStock,           \* the stock of each product at first
          SameOrderOverlap,  \* may two requests on one order overlap?
          FreshScreens,      \* is every screen up to date when a button is pressed?
          ByHand,            \* the orders admins assign riders to by hand
          MaxPostings,       \* bound: refunds, awards and returns of an order
          MaxCrashes         \* bound: requests that die half-way

ASSUME OrdersHaveLines == Lines \in [Orders -> SUBSET Products] /\ OnWallet \subseteq Orders
ASSUME StockIsNat == InStock \in [Products -> Nat] /\ MaxPostings \in Nat /\ MaxCrashes \in Nat

VARIABLES order,      \* the GroceryOrder rows
          history,    \* the statuses in an order's GroceryOrderStatusHistory rows
          stock,      \* GroceryProduct.stockQty
          returned,   \* how often each line of an order has been put back
          refunded,   \* how often the wallet was credited for an order
          points,     \* how often loyalty points were awarded for an order
          dead        \* the orders on which a request has died

posts == <<refunded, points>>
vars == <<pool, order, history, stock, returned, posts, dead, req>>

Statuses == {"PENDING", "ACCEPTED", "PREPARING", "READY", "OUT_FOR_DELIVERY",
             "DELIVERED", "CANCELLED", "REFUNDED"}
Finished == {"DELIVERED", "CANCELLED", "REFUNDED"}

(* Slip: a READY order may be prepared again.                                *)
AllowedLate == [PENDING |-> {"ACCEPTED", "CANCELLED"}, ACCEPTED |-> {"PREPARING", "CANCELLED"},
                PREPARING |-> {"READY", "CANCELLED"}, READY |-> {"OUT_FOR_DELIVERY", "PREPARING"},
                OUT_FOR_DELIVERY |-> {"DELIVERED"}, DELIVERED |-> {},
                CANCELLED |-> {"REFUNDED"}, REFUNDED |-> {}]

Allowed == [PENDING |-> {"ACCEPTED", "CANCELLED"},
            ACCEPTED |-> {"PREPARING", "CANCELLED"},
            PREPARING |-> {"READY", "CANCELLED"},
            READY |-> {"OUT_FOR_DELIVERY"},
            OUT_FOR_DELIVERY |-> {"DELIVERED"},
            DELIVERED |-> {},
            CANCELLED |-> {"REFUNDED"},
            REFUNDED |-> {}]

Rows == [status : Statuses \cup {"none"}, paid : {"PENDING", "PAID", "REFUNDED"},
         partner : Partners \cup {None}, acceptance : {"NONE", "PENDING", "ACCEPTED"}]
Unplaced == [status |-> "none", paid |-> "PENDING", partner |-> None, acceptance |-> "NONE"]

Placed(o) == order[o].status # "none"
Live(o) == Placed(o) /\ order[o].status \notin Finished
Busy(o) == \E w \in Workers : Running(w) /\ req[w].o = o

TypeOK == /\ PoolTypeOK
          /\ order \in [Orders -> Rows]
          /\ history \in [Orders -> SUBSET Statuses]
          /\ stock \in [Products -> Int]
          /\ returned \in [Orders -> [Products -> Nat]]
          /\ refunded \in [Orders -> Nat] /\ points \in [Orders -> Nat]
          /\ dead \subseteq Orders

Init == /\ PoolInit
        /\ order = [o \in Orders |-> Unplaced]
        /\ history = [o \in Orders |-> {}]
        /\ stock = InStock
        /\ returned = [o \in Orders |-> [p \in Products |-> 0]]
        /\ refunded = [o \in Orders |-> 0] /\ points = [o \in Orders |-> 0]
        /\ dead = {}
        /\ NoRequests

(***************************************************************************)
(* Requests.                                                               *)
(***************************************************************************)

Free(o) == SameOrderOverlap \/ ~Busy(o)
Job(stage, o, to, partner, excluded) ==
  [at |-> stage, o |-> o, to |-> to, seen |-> order[o], left |-> Lines[o],
   partner |-> partner, excluded |-> excluded, ranked |-> {}]
Settled(o) == \A p \in Products : returned[o][p] + refunded[o] + points[o] < MaxPostings

(* create, from the check of the stock on.                                   *)
Create(w, o) ==
  /\ ~Busy(o) /\ ~Placed(o) /\ \A p \in Lines[o] : stock[p] >= 1
  /\ Start(w, Job("insert", o, None, None, None))
  /\ UNCHANGED <<pool, order, history, stock, returned, posts, dead>>

(* One transaction; a wallet order has been debited and is PAID at once.     *)
Insert(w) ==
  /\ At(w, "insert")
  /\ LET o == req[w].o IN
       /\ order' = [order EXCEPT ![o] = [Unplaced EXCEPT
                      !.status = "PENDING", !.paid = IF o \in OnWallet THEN "PAID" ELSE "PENDING"]]
       /\ history' = [history EXCEPT ![o] = @ \cup {"PENDING"}]
       /\ stock' = [p \in Products |-> IF p \in Lines[o] THEN stock[p] - 1 ELSE stock[p]]
  /\ End(w)
  /\ UNCHANGED <<pool, returned, posts, dead>>

(* cancel checks the status, puts the stock back, and only then changes the  *)
(* status, which reads the order again.                                      *)
CancelRequest(w, o) ==
  /\ Free(o) /\ Settled(o) /\ order[o].status \in {"PENDING", "ACCEPTED"}
  /\ Start(w, Job("restock", o, "CANCELLED", None, None))
  /\ UNCHANGED <<pool, order, history, stock, returned, posts, dead>>

(* adminUpdateStatus puts the stock back whatever the order's status is: a   *)
(* screen that is up to date offers only what the table allows.              *)
StatusRequest(w, o, to) ==
  /\ Free(o) /\ Settled(o) /\ Placed(o)
  /\ FreshScreens => to \in Allowed[order[o].status]
  /\ Start(w, Job(IF to = "CANCELLED" THEN "restock" ELSE "reread", o, to, None, None))
  /\ UNCHANGED <<pool, order, history, stock, returned, posts, dead>>

(* Slip: the first product that is put back ends the loop.                   *)
RestockOnce(w) ==
  /\ At(w, "restock")
  /\ LET o == req[w].o IN
       \E p \in req[w].left :
         /\ stock' = [stock EXCEPT ![p] = @ + 1]
         /\ returned' = [returned EXCEPT ![o][p] = @ + 1]
         /\ Go(w, "reread")
  /\ UNCHANGED <<pool, order, history, posts, dead>>

(* restockItems: one product after the other.                                *)
Restock(w) ==
  /\ At(w, "restock")
  /\ LET o == req[w].o IN
       IF req[w].left = {} THEN Go(w, "reread") /\ UNCHANGED <<stock, returned>>
       ELSE \E p \in req[w].left :
              /\ stock' = [stock EXCEPT ![p] = @ + 1]
              /\ returned' = [returned EXCEPT ![o][p] = @ + 1]
              /\ Become(w, [req[w] EXCEPT !.left = @ \ {p}])
  /\ UNCHANGED <<pool, order, history, posts, dead>>

Reread(w) ==
  /\ At(w, "reread")
  /\ LET r == req[w] IN
       IF r.to \in Allowed[order[r.o].status]
       THEN Become(w, Job("write", r.o, r.to, None, None)) ELSE End(w)
  /\ UNCHANGED <<pool, order, history, stock, returned, posts, dead>>

AfterRefund(r) == IF r.seen.partner # None THEN "release" ELSE "end"

(* Slip: the refund forgets that a COD order was never paid.                 *)
AfterWriteRefundAll(r) ==
  CASE r.to = "CANCELLED" -> "refund"
    [] r.to = "READY"     -> IF r.seen.partner = None THEN "find" ELSE "end"
    [] r.to = "DELIVERED" -> IF r.seen.partner # None THEN "release" ELSE "loyalty"
    [] OTHER              -> "end"

(* Slip: the rider of a delivered order stays booked.                        *)
AfterWriteKeep(r) ==
  CASE r.to = "CANCELLED" -> IF r.seen.paid = "PAID" THEN "refund" ELSE AfterRefund(r)
    [] r.to = "READY"     -> IF r.seen.partner = None THEN "find" ELSE "end"
    [] r.to = "DELIVERED" -> "loyalty"
    [] OTHER              -> "end"

AfterWrite(r) ==
  CASE r.to = "CANCELLED" -> IF r.seen.paid = "PAID" THEN "refund" ELSE AfterRefund(r)
    [] r.to = "READY"     -> IF r.seen.partner = None THEN "find" ELSE "end"
    [] r.to = "DELIVERED" -> IF r.seen.partner # None THEN "release" ELSE "loyalty"
    [] OTHER              -> "end"

WriteStatus(w) ==
  /\ At(w, "write")
  /\ LET r == req[w] IN
       /\ order' = [order EXCEPT ![r.o].status = r.to]
       /\ history' = [history EXCEPT ![r.o] = @ \cup {r.to}]
       /\ Go(w, AfterWrite(r))
  /\ UNCHANGED <<pool, stock, returned, posts, dead>>

Respond(w) == /\ At(w, "end") /\ End(w)
              /\ UNCHANGED <<pool, order, history, stock, returned, posts, dead>>

RefundOrder(w) ==
  /\ At(w, "refund")
  /\ order' = [order EXCEPT ![req[w].o].paid = "REFUNDED"]
  /\ Go(w, "credit")
  /\ UNCHANGED <<pool, history, stock, returned, posts, dead>>

RefundCredit(w) ==
  /\ At(w, "credit")
  /\ refunded' = [refunded EXCEPT ![req[w].o] = @ + 1]
  /\ Go(w, AfterRefund(req[w]))
  /\ UNCHANGED <<pool, order, history, stock, returned, points, dead>>

ReleaseRider(w) ==
  /\ At(w, "release")
  /\ pool' = Released(req[w].seen.partner)
  /\ Go(w, IF req[w].to = "DELIVERED" THEN "loyalty" ELSE "end")
  /\ UNCHANGED <<order, history, stock, returned, posts, dead>>

AwardPoints(w) ==
  /\ At(w, "loyalty")
  /\ points' = [points EXCEPT ![req[w].o] = @ + 1]
  /\ Go(w, "end")
  /\ UNCHANGED <<pool, order, history, stock, returned, refunded, dead>>

(***************************************************************************)
(* Riders.                                                                 *)
(***************************************************************************)

(* tryAssign(null, null): no distances, so the candidates come in any order. *)
FindRiders(w) ==
  /\ At(w, "find")
  /\ LET found == Candidates(req[w].excluded) IN
       Become(w, [req[w] EXCEPT !.ranked = found, !.at = IF found = {} THEN "end" ELSE "claim"])
  /\ UNCHANGED <<pool, order, history, stock, returned, posts, dead>>

ClaimRider(w, p) ==
  /\ At(w, "claim") /\ p \in req[w].ranked
  /\ IF ClaimWins(p)
     THEN pool' = Claimed(p) /\ Become(w, [req[w] EXCEPT !.partner = p, !.at = "attach"])
     ELSE /\ pool' = pool
          /\ Become(w, [req[w] EXCEPT !.ranked = @ \ {p},
                                      !.at = IF req[w].ranked = {p} THEN "end" ELSE @])
  /\ UNCHANGED <<order, history, stock, returned, posts, dead>>

Attach(w) ==
  /\ At(w, "attach")
  /\ order' = IF Exists(req[w].partner)
              THEN [order EXCEPT ![req[w].o].partner = req[w].partner,
                                 ![req[w].o].acceptance = "PENDING"]
              ELSE order
  /\ Go(w, "end")
  /\ UNCHANGED <<pool, history, stock, returned, posts, dead>>

AssignRequest(w, o, p) ==
  /\ o \in ByHand /\ Free(o) /\ Live(o) /\ ManuallyAssignable(p)
  /\ Start(w, Job(IF order[o].partner \in {None, p} THEN "mark" ELSE "unassign", o, None, p, None))
  /\ UNCHANGED <<pool, order, history, stock, returned, posts, dead>>

Unassign(w) ==
  /\ At(w, "unassign")
  /\ pool' = Released(req[w].seen.partner)
  /\ Go(w, "mark")
  /\ UNCHANGED <<order, history, stock, returned, posts, dead>>

Mark(w) ==
  /\ At(w, "mark")
  /\ pool' = MarkedUnavailable(req[w].partner)
  /\ Go(w, "attach")
  /\ UNCHANGED <<order, history, stock, returned, posts, dead>>

(* The rider's app lists live orders; the handler does not look at the status. *)
AnswerRequest(w, o, p, accept) ==
  /\ Free(o) /\ (FreshScreens => Live(o))
  /\ order[o].partner = p /\ order[o].acceptance = "PENDING"
  /\ Start(w, Job(IF accept THEN "accept" ELSE "free", o, None, p, p))
  /\ UNCHANGED <<pool, order, history, stock, returned, posts, dead>>

Accept(w) ==
  /\ At(w, "accept")
  /\ order' = [order EXCEPT ![req[w].o].acceptance = "ACCEPTED"]
  /\ End(w)
  /\ UNCHANGED <<pool, history, stock, returned, posts, dead>>

FreeRejecter(w) ==
  /\ At(w, "free")
  /\ pool' = Released(req[w].partner)
  /\ Go(w, "clear")
  /\ UNCHANGED <<order, history, stock, returned, posts, dead>>

ClearAssignment(w) ==
  /\ At(w, "clear")
  /\ order' = [order EXCEPT ![req[w].o].partner = None, ![req[w].o].acceptance = "NONE"]
  /\ Go(w, IF req[w].seen.status \in {"READY", "OUT_FOR_DELIVERY"} THEN "find" ELSE "end")
  /\ UNCHANGED <<pool, history, stock, returned, posts, dead>>

(***************************************************************************)
(* The specification.                                                      *)
(***************************************************************************)

Crash(w) == /\ Running(w) /\ Cardinality(dead) < MaxCrashes
            /\ dead' = dead \cup {req[w].o}
            /\ End(w)
            /\ UNCHANGED <<pool, order, history, stock, returned, posts>>

Arrive(w) ==
  \E o \in Orders :
    \/ Create(w, o) \/ CancelRequest(w, o)
    \/ \E to \in Statuses : StatusRequest(w, o, to)
    \/ \E p \in Partners : AssignRequest(w, o, p) \/ \E b \in BOOLEAN : AnswerRequest(w, o, p, b)

Step(w) == \/ Insert(w) \/ Restock(w) \/ Reread(w) \/ WriteStatus(w) \/ Respond(w)
           \/ RefundOrder(w) \/ RefundCredit(w) \/ ReleaseRider(w) \/ AwardPoints(w)
           \/ FindRiders(w) \/ (\E p \in Partners : ClaimRider(w, p)) \/ Attach(w)
           \/ Unassign(w) \/ Mark(w) \/ Accept(w) \/ FreeRejecter(w) \/ ClearAssignment(w)

Next == \E w \in Workers : Arrive(w) \/ Step(w) \/ Crash(w)

Spec == Init /\ [][Next]_vars

(***************************************************************************)
(* Properties.                                                             *)
(***************************************************************************)

Resting(o) == ~Busy(o) /\ o \notin dead
Cancelled(o) == "CANCELLED" \in history[o]

(* The stock of a cancelled order is back on the shelf when the order says   *)
(* CANCELLED, although the two are written apart and the process may die.    *)
CancelledRestocked ==
  \A o \in Orders : Cancelled(o) => \A p \in Lines[o] : returned[o][p] >= 1

(* When nothing is under way, what is missing from the shelf is what the     *)
(* orders that were not cancelled have taken: nothing is put back twice.     *)
(* adminUpdateStatus puts the stock back before it checks the transition, so *)
(* this rests on admins who see the status they change (FreshScreens) and on *)
(* one request at a time on an order: then no cancellation is refused after  *)
(* it has restocked.  Orders whose request died are left out.                *)
Takers(p) == {o \in Orders : Placed(o) /\ ~Cancelled(o) /\ p \in Lines[o]}
StockBalanced ==
  (\A o \in Orders : Resting(o)) =>
    \A p \in Products : stock[p] = InStock[p] - Cardinality(Takers(p))

(* A wallet order is paid back if and only if it has been cancelled, once.   *)
RefundedOnce ==
  \A o \in Orders : Resting(o) => (refunded[o] = 1 <=> o \in OnWallet /\ Cancelled(o))

(* No two requests on one order overlapping, each order follows the README's *)
(* life cycle, which the two services implement apart from each other.       *)
Lifecycle == INSTANCE OrderLifecycle WITH status <- [o \in Orders |-> order[o].status]
ImplementsLifecycle == Lifecycle!Spec

(* What a rider is on: live orders that name them, but for a request that is *)
(* just taking them off, and claims that no order names yet.                 *)
TakenOff(o, p) == \E w \in Workers :
                    /\ At(w, "clear") \/ At(w, "mark") \/ At(w, "attach")
                    /\ req[w].o = o /\ req[w].seen.partner = p
                    /\ req[w].partner # p \/ req[w].excluded = p
OnOrders(p) == {o \in Orders : Live(o) /\ order[o].partner = p /\ ~TakenOff(o, p)}
OnClaims(p) == {w \in Workers : At(w, "attach") /\ req[w].partner = p}
=============================================================================
