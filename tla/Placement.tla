----------------------------- MODULE Placement ------------------------------
(* Placing an order, food or grocery: OrdersService.create and               *)
(* GroceryOrdersService.create up to the row and its coupon, with            *)
(* CouponsService, SettingsService and WalletService.debit, while customers  *)
(* cancel and the back office edits the rows the request has already read.   *)
(* What happens to an order later is in FoodOrders and GroceryOrders.        *)
EXTENDS Handlers, Integers, FiniteSetsExt

CONSTANTS Attempts,    \* the calls of create
          Grocery,     \* those of them that go to the grocery service
          OnWallet,    \* those paid from the wallet
          WithCoupon,  \* those that send the coupon's code
          Customer,    \* the user of each
          Goods,       \* menu items and grocery products
          Lines,       \* the units of each good on its lines: all, and on the largest
          MaxUnits,    \* bound: the units of one good in a grocery order
          MaxRepeats,  \* bound: those of them that are not on its largest line
          Price,       \* of each good
          MinOrder,    \* Restaurant.minOrderAmount
          PerUser,     \* Coupon.perUserLimit
          Value,       \* Coupon.value, of a FLAT coupon
          Limits,      \* the usageLimit the coupon may have been given
          InStock,     \* the stock of each good at first
          MaxEdits,    \* bound: edits by the back office and the customers
          MaxCrashes   \* bound: requests that die half-way

ASSUME AttemptsAreKnown == Grocery \cup OnWallet \cup WithCoupon \subseteq Attempts
ASSUME LinesAreUnits ==
  /\ Lines \in [Attempts -> [Goods -> [total : Nat, largest : Nat]]]
  /\ MaxUnits \in Nat /\ MaxRepeats \in Nat
  /\ \A a \in Attempts, g \in Goods :
       LET l == Lines[a][g] IN
         /\ l.largest <= l.total /\ (l.largest = 0 => l.total = 0)
         /\ a \in Grocery => l.total <= MaxUnits /\ l.total <= l.largest + MaxRepeats
ASSUME NumbersAreNat ==
  /\ Price \in [Goods -> Nat] /\ InStock \in [Goods -> Nat] /\ Limits \subseteq Nat
  /\ MinOrder \in Nat /\ PerUser \in Nat /\ Value \in Nat
  /\ MaxEdits \in Nat /\ MaxCrashes \in Nat

VARIABLES good,      \* MenuItem and GroceryProduct rows
          site,      \* the other rows a request reads: phone, address, restaurant
          coupon,    \* the Coupon row
          settings,  \* the Setting rows, as the version each was saved in
          order,     \* Order and GroceryOrder rows
          charged,   \* the attempts whose wallet debit has been made
          dead,      \* the attempts whose request died
          edits

rows == <<good, site, coupon, settings>>
vars == <<rows, order, charged, dead, edits, req>>

None == [status |-> "none"]
Placed(a) == order[a] # None
UsersOrders(u) == {a \in Attempts : Placed(a) /\ Customer[a] = u}

Bought(a) == {g \in Goods : Lines[a][g].total > 0}
Subtotal(a) == MapThenSumSet(LAMBDA g : Price[g] * Lines[a][g].total, Bought(a))

TypeOK ==
  /\ good \in [Goods -> [exists : BOOLEAN, isAvailable : BOOLEAN, stockQty : Int]]
  /\ site \in [{"phone", "address", "restaurant"} -> BOOLEAN]
  /\ coupon \in [exists : BOOLEAN, isActive : BOOLEAN, usedCount : Nat, usageLimit : Limits]
  /\ settings \in [tax : Nat, fee : Nat]
  /\ \A a \in Attempts : Placed(a) =>
       order[a] \in [status : {"PENDING", "CANCELLED"}, coupon : BOOLEAN, items : Nat,
                     tax : Nat, fee : Nat]
  /\ charged \subseteq Attempts /\ dead \subseteq Attempts
  /\ \A w \in Workers : Running(w) => req[w].a \in Attempts

Init ==
  /\ good = [g \in Goods |-> [exists |-> TRUE, isAvailable |-> TRUE, stockQty |-> InStock[g]]]
  /\ site = [r \in {"phone", "address", "restaurant"} |-> TRUE]
  /\ coupon \in [exists : {TRUE}, isActive : {TRUE}, usedCount : {0}, usageLimit : Limits]
  /\ settings = [tax |-> 0, fee |-> 0]
  /\ order = [a \in Attempts |-> None]
  /\ charged = {} /\ dead = {} /\ edits = 0
  /\ NoRequests

(***************************************************************************)
(* create, statement by statement.                                         *)
(***************************************************************************)

Underway(a) == \E w \in Workers : Running(w) /\ req[w].a = a
Untried(a) == ~Placed(a) /\ a \notin charged \cup dead /\ ~Underway(a)

Create(w, a) ==
  /\ Untried(a)
  /\ Start(w, [at |-> "validate", a |-> a, discount |-> 0, tax |-> 0, fee |-> 0])
  /\ UNCHANGED <<rows, order, charged, dead, edits>>

(* Slip: the order is paid for before it is validated.                       *)
ValidatePaid(w) ==
  /\ At(w, "validate")
  /\ charged' = IF req[w].a \in OnWallet THEN charged \cup {req[w].a} ELSE charged
  /\ IF site["phone"] /\ site["address"] /\ (req[w].a \in Grocery \/ site["restaurant"])
     THEN Go(w, "goods") ELSE End(w)
  /\ UNCHANGED <<rows, order, dead, edits>>

(* The phone, the address and, for food, the restaurant: rows of different   *)
(* tables, each read once, and each only able to refuse.                     *)
Validate(w) ==
  /\ At(w, "validate")
  /\ IF site["phone"] /\ site["address"] /\ (req[w].a \in Grocery \/ site["restaurant"])
     THEN Go(w, "goods") ELSE End(w)
  /\ UNCHANGED <<rows, order, charged, dead, edits>>

(* Slip: the stock is not looked at.                                         *)
SellableUnstocked(a, g) == good[g].exists /\ good[g].isAvailable

(* Every line is compared with the stock by itself, so the largest decides.  *)
Sellable(a, g) == /\ good[g].exists /\ good[g].isAvailable
                  /\ a \in Grocery => good[g].stockQty >= Lines[a][g].largest

ReadGoods(w) ==
  /\ At(w, "goods")
  /\ LET a == req[w].a
         fine == /\ \A g \in Bought(a) : Sellable(a, g)
                 /\ a \in Grocery \/ Subtotal(a) >= MinOrder
     IN  IF ~fine THEN End(w) ELSE Go(w, IF a \in WithCoupon THEN "coupon" ELSE "price")
  /\ UNCHANGED <<rows, order, charged, dead, edits>>

Discount(subtotal) == IF Value < subtotal THEN Value ELSE subtotal

(* Slip: the usage limit is not looked at.                                   *)
CouponUsableAlways == coupon.exists /\ coupon.isActive

CouponUsable == /\ coupon.exists /\ coupon.isActive
                /\ coupon.usedCount < coupon.usageLimit

(* computeDiscount reads the coupon, then counts the user's orders with it.  *)
ReadCoupon(w) ==
  /\ At(w, "coupon")
  /\ IF CouponUsable THEN Go(w, "usage") ELSE End(w)
  /\ UNCHANGED <<rows, order, charged, dead, edits>>

UsesBy(u) == {a \in UsersOrders(u) : order[a].coupon /\ order[a].status # "CANCELLED"}

CountUses(w) ==
  /\ At(w, "usage")
  /\ LET a == req[w].a IN
       IF Cardinality(UsesBy(Customer[a])) >= PerUser THEN End(w)
       ELSE Become(w, [req[w] EXCEPT !.at = "price", !.discount = Discount(Subtotal(a))])
  /\ UNCHANGED <<rows, order, charged, dead, edits>>

(* getAll and getTaxRate: every setting in one query.                        *)
ReadSettings(w) ==
  /\ At(w, "price")
  /\ Become(w, [req[w] EXCEPT !.tax = settings.tax, !.fee = settings.fee,
                              !.at = IF req[w].a \in OnWallet THEN "debit" ELSE "insert"])
  /\ UNCHANGED <<rows, order, charged, dead, edits>>

(* The balance covers the total, or the debit ends the request.              *)
Debit(w) ==
  /\ At(w, "debit")
  /\ \/ charged' = charged \cup {req[w].a} /\ Go(w, "insert")
     \/ charged' = charged /\ End(w)
  /\ UNCHANGED <<rows, order, dead, edits>>

(* Every foreign key of the new row has to hold when it is written.          *)
KeysHold(a, withCoupon) == /\ site["address"]
                           /\ \A g \in Bought(a) : good[g].exists
                           /\ withCoupon => coupon.exists

(* The row and, for groceries in the same transaction, the stock.            *)
Insert(w) ==
  /\ At(w, "insert")
  /\ LET r == req[w]
         a == r.a
         withCoupon == a \in WithCoupon
     IN  IF KeysHold(a, withCoupon)
         THEN /\ order' = [order EXCEPT ![a] =
                    [status |-> "PENDING", coupon |-> withCoupon,
                     items |-> Subtotal(a) - r.discount, tax |-> r.tax, fee |-> r.fee]]
              /\ good' = [g \in Goods |-> IF a \in Grocery
                                THEN [good[g] EXCEPT !.stockQty = @ - Lines[a][g].total]
                                ELSE good[g]]
              /\ IF withCoupon THEN Go(w, "record") ELSE End(w)
         ELSE UNCHANGED <<order, good>> /\ End(w)
  /\ UNCHANGED <<site, coupon, settings, charged, dead, edits>>

RecordUsage(w) ==
  /\ At(w, "record")
  /\ coupon' = IF coupon.exists THEN [coupon EXCEPT !.usedCount = @ + 1] ELSE coupon
  /\ End(w)
  /\ UNCHANGED <<good, site, settings, order, charged, dead, edits>>

(***************************************************************************)
(* What the others do meanwhile.                                           *)
(***************************************************************************)

Edit == /\ edits < MaxEdits
        /\ edits' = edits + 1
        /\ UNCHANGED <<charged, dead, req>>

(* Orders that name a row keep it from being deleted (ON DELETE RESTRICT).   *)
Named(g) == \E a \in Attempts : Placed(a) /\ g \in Bought(a)

ToggleGood(g) == /\ Edit /\ good[g].exists
                 /\ good' = [good EXCEPT ![g].isAvailable = ~@]
                 /\ UNCHANGED <<site, coupon, settings, order>>
DeleteGood(g) == /\ Edit /\ good[g].exists /\ ~Named(g)
                 /\ good' = [good EXCEPT ![g].exists = FALSE]
                 /\ UNCHANGED <<site, coupon, settings, order>>
RestaurantCloses == /\ Edit
                    /\ site' = [site EXCEPT !["restaurant"] = ~@]
                    /\ UNCHANGED <<good, coupon, settings, order>>
DeleteAddress == /\ Edit /\ site["address"] /\ \A a \in Attempts : ~Placed(a)
                 /\ site' = [site EXCEPT !["address"] = FALSE]
                 /\ UNCHANGED <<good, coupon, settings, order>>
PhoneRemoved == /\ Edit
                /\ site' = [site EXCEPT !["phone"] = ~@]
                /\ UNCHANGED <<good, coupon, settings, order>>
ToggleCoupon == /\ Edit /\ coupon.exists
                /\ coupon' = [coupon EXCEPT !.isActive = ~@]
                /\ UNCHANGED <<good, site, settings, order>>
(* The orders that used the coupon forget it (ON DELETE SET NULL).           *)
DeleteCoupon == /\ Edit /\ coupon.exists
                /\ coupon' = [coupon EXCEPT !.exists = FALSE]
                /\ order' = [a \in Attempts |-> IF Placed(a) THEN [order[a] EXCEPT !.coupon = FALSE]
                                                ELSE order[a]]
                /\ UNCHANGED <<good, site, settings>>

(* Slip: the settings are saved one by one.                                  *)
SaveSettingsSplit == /\ Edit
                     /\ \/ settings' = [settings EXCEPT !.tax = @ + 1]
                        \/ settings' = [settings EXCEPT !.fee = settings.tax]
                     /\ UNCHANGED <<good, site, coupon, order>>

(* update saves every changed setting in one transaction.                    *)
SaveSettings == /\ Edit
                /\ settings' = [tax |-> settings.tax + 1, fee |-> settings.fee + 1]
                /\ UNCHANGED <<good, site, coupon, order>>

Cancel(a) == /\ Edit /\ Placed(a) /\ order[a].status = "PENDING"
             /\ order' = [order EXCEPT ![a].status = "CANCELLED"]
             /\ UNCHANGED rows

Crash(w) == /\ Running(w) /\ Cardinality(dead) < MaxCrashes
            /\ dead' = dead \cup {req[w].a}
            /\ End(w)
            /\ UNCHANGED <<rows, order, charged, edits>>

Step(w) == \/ Validate(w) \/ ReadGoods(w) \/ ReadCoupon(w) \/ CountUses(w) \/ ReadSettings(w)
           \/ Debit(w) \/ Insert(w) \/ RecordUsage(w)

Next == \/ \E w \in Workers : (\E a \in Attempts : Create(w, a)) \/ Step(w) \/ Crash(w)
        \/ \E g \in Goods : ToggleGood(g) \/ DeleteGood(g)
        \/ RestaurantCloses \/ DeleteAddress \/ PhoneRemoved
        \/ ToggleCoupon \/ DeleteCoupon \/ SaveSettings
        \/ \E a \in Attempts : Cancel(a)

Spec == Init /\ [][Next]_vars

(***************************************************************************)
(* Properties.                                                             *)
(***************************************************************************)

Overlap == Cardinality(Workers) - 1

(* The limits of a coupon, on the orders that carry it and on those of one   *)
(* customer (cancelled ones not counting), are compared long before the use  *)
(* is recorded.  They can be overrun, but by no more than the requests that  *)
(* overlap, whatever is cancelled or edited.  An order whose request died    *)
(* before it recorded the use is the exception: the coupon never hears of it *)
(* and is given once more, so the first bound is on the other orders.        *)
CouponOrders == {a \in Attempts : Placed(a) /\ order[a].coupon}
CouponLimits ==
  /\ Cardinality(CouponOrders \ dead) <= coupon.usageLimit + Overlap
  /\ \A a \in Attempts : Cardinality(UsesBy(Customer[a])) <= PerUser + Overlap

(* Stock is compared outside the transaction that takes it, line by line: it *)
(* is oversold by no more than what the other requests under way may take,   *)
(* and what an order repeats on lines of its own.                            *)
StockLimit == \A g \in Goods : good[g].stockQty + Overlap * MaxUnits + MaxRepeats >= 0

(* A wallet is charged for nothing only when the process died or a row the   *)
(* order names was deleted under the request.                                *)
NoChargeWithoutOrder ==
  \A a \in charged :
    \/ Placed(a) \/ a \in dead \/ Underway(a)
    \/ ~KeysHold(a, a \in WithCoupon)

(* An order is priced with one version of the settings, however its request  *)
(* and the admin who saves them overlap.                                     *)
PricedTogether == \A a \in Attempts : Placed(a) => order[a].tax = order[a].fee
=============================================================================
