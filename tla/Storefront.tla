----------------------------- MODULE Storefront -----------------------------
(* What the customer sees before ordering and what is charged: the carts in  *)
(* the browser, the two checkouts and the cab desk with their estimates,     *)
(* coupons and payment sheet, and the requests that may get lost.            *)
EXTENDS Naturals, Sequences, SequencesExt

CONSTANTS MaxSteps,    \* bound: what the customer does in the forms
          MaxOrders,    \* bound: presses of "Place order" that are not refused
          MaxAgain,     \* bound: presses when there is an order already
          MaxChanges,   \* bound: changes of prices
          MaxFlaws      \* bound: answers lost, sheets closed, pages reloaded meanwhile

VARIABLES desk,       \* "food", "grocery" or "cab"
          terms,      \* what the API charges by
          basket,     \* the cart, or the trip
          saved,      \* localStorage
          stage,      \* "cart", "checkout" or "done"; the cab desk is a checkout, and is
                      \* "leaving" from the answer until the page of the ride is there
          known,      \* the terms the page has loaded or assumes
          asked,      \* estimates on their way, oldest first
          code, discount,   \* of the coupon field
          applying,   \* coupon requests on their way
          late,       \* the discount was worked out for another code or amount
          placing,    \* the button is disabled
          requests,   \* orders on their way to the API
          paying,     \* the payment "sheet" is open, a "mock" payment on its way, or "no"
          verifying,  \* payments made, on their way to be verified
          orders,     \* what the API has charged
          again,      \* presses of the button after an order, before the page was left
          steps, changes, flaws

shop == <<desk, terms, changes>>
trip == <<basket, saved>>
form == <<known, asked, code, discount, applying, late>>
deal == <<placing, requests, paying, verifying, orders, again>>
vars == <<shop, trip, stage, form, deal, steps, flaws>>

(***************************************************************************)
(* What the API charges, and what the pages say it will.                   *)
(***************************************************************************)

Codes == {"", "flat", "half"}
NoDiscount == 99
Nothing == [price |-> 0, count |-> 0, place |-> 0]
FreeFrom == 3

Discount(ticket, amount) == CASE ticket = "" -> 0
                              [] ticket = "flat" -> IF amount < 1 THEN amount ELSE 1
                              [] ticket = "half" -> amount \div 2

Above0(a, b) == IF a > b THEN a - b ELSE 0

FoodTotal(subtotal, by, off) == Above0(subtotal + by.fee + by.rate * subtotal, off)

GroceryTotal(subtotal, by, off) ==
  Above0(subtotal + (IF subtotal >= FreeFrom THEN 0 ELSE by.fee) + by.rate * subtotal, off)

Fare(by, place) == by.price * place

(* The amount a coupon is worked out on, by prices the cart or the estimate  *)
(* has kept.                                                                 *)
Amount(by, what) == IF desk = "cab" THEN Fare(by, by.place) ELSE what.price * what.count

Total(by, what, off) == CASE desk = "food" -> FoodTotal(Amount(by, what), by, off)
                          [] desk = "grocery" -> GroceryTotal(Amount(by, what), by, off)
                          [] desk = "cab" -> Above0(Amount(by, what), off)

Off == IF discount = NoDiscount THEN 0 ELSE discount
Shown == Total(known, basket, Off)

(* The prices and settings behind a total, to tell an outdated one.          *)
Basis(by, what) == IF desk = "cab" THEN <<by.price, by.place>>
                                   ELSE <<by.fee, by.rate, what.price>>
Current(what) == [terms EXCEPT !.place = what.place]
Repriced(what) == [what EXCEPT !.price = terms.price]

(* A page that has no settings yet assumes some (5 %, a fee of 25 or none).  *)
Assumed == [price |-> 0, fee |-> 0, rate |-> 1, place |-> 0]
FirstStage == IF desk = "cab" THEN "checkout" ELSE "cart"
OnForm == stage \in {"checkout", "leaving"}

TypeOK == /\ desk \in {"food", "grocery", "cab"} /\ stage \in {"cart", "checkout", "leaving", "done"}
          /\ paying \in {"no", "sheet", "mock"} /\ verifying \in Nat /\ again \in Nat
          /\ code \in Codes /\ discount \in {NoDiscount} \cup 0 .. 9
          /\ steps <= MaxSteps /\ flaws <= MaxFlaws

Init == /\ desk \in {"food", "grocery", "cab"}
        /\ terms = [price |-> 2, fee |-> 1, rate |-> 2, place |-> 0] /\ changes = 0
        /\ basket = Nothing /\ saved = Nothing /\ stage = FirstStage
        /\ known = Assumed /\ asked = <<>>
        /\ code = "" /\ discount = NoDiscount /\ applying = <<>> /\ late = FALSE
        /\ placing = FALSE /\ requests = <<>> /\ paying = "no" /\ verifying = 0
        /\ orders = <<>> /\ again = 0
        /\ steps = 0 /\ flaws = 0

Step == steps < MaxSteps /\ steps' = steps + 1
Flaw == flaws < MaxFlaws /\ flaws' = flaws + 1

(* A restaurant, the office: another price.                                  *)
TermsChange == /\ changes < MaxChanges /\ changes' = changes + 1
               /\ terms' = [terms EXCEPT !.price = 3]
               /\ UNCHANGED <<desk, trip, stage, form, deal, steps, flaws>>

(***************************************************************************)
(* The carts.                                                              *)
(***************************************************************************)

(* A line keeps the price of the moment it was added; every change goes to   *)
(* localStorage as well.                                                     *)
Keep(what) == basket' = what /\ saved' = what

AddItem == /\ stage = "cart" /\ basket.count < 2
           /\ Keep([basket EXCEPT !.count = @ + 1,
                                  !.price = IF basket.count = 0 THEN terms.price ELSE @])
           /\ UNCHANGED <<shop, stage, form, deal, steps, flaws>>

RemoveItem == /\ stage = "cart" /\ basket.count > 0
              /\ Keep(IF basket.count = 1 THEN Nothing ELSE [basket EXCEPT !.count = @ - 1])
              /\ UNCHANGED <<shop, stage, form, deal, steps, flaws>>

FreshForm == /\ known' = Assumed /\ asked' = <<>> /\ late' = FALSE
             /\ code' = "" /\ discount' = NoDiscount /\ applying' = <<>>

GoToCheckout == /\ stage = "cart" /\ basket.count > 0
                /\ stage' = "checkout" /\ FreshForm
                /\ UNCHANGED <<shop, trip, deal, steps, flaws>>

(* Settings and restaurant arrive, or never do: errors are ignored.          *)
SettingsArrive == /\ desk # "cab" /\ stage = "checkout"
                  /\ known' = terms
                  /\ UNCHANGED <<shop, trip, stage, asked, code, discount, applying, late,
                                 deal, steps, flaws>>

(***************************************************************************)
(* The cab desk.                                                           *)
(***************************************************************************)

(* The old fare, and the discount, stay until new ones come.                 *)
ChoosePlace(place) ==
  /\ desk = "cab" /\ OnForm /\ place # basket.place /\ Len(asked) < 2 /\ Step
  /\ basket' = [basket EXCEPT !.place = place] /\ UNCHANGED saved
  /\ asked' = Append(asked, Current(basket'))
  /\ late' = (late \/ discount # NoDiscount)
  /\ UNCHANGED <<shop, stage, known, code, discount, applying, deal, flaws>>

(* Nothing tells the answers about one trip from those about the next.       *)
EstimateArrives(i) ==
  /\ i \in DOMAIN asked /\ asked' = RemoveAt(asked, i)
  /\ known' = asked[i]
  /\ late' = (late \/ discount # NoDiscount)
  /\ UNCHANGED <<shop, trip, stage, code, discount, applying, deal, steps, flaws>>

(***************************************************************************)
(* The coupon field.                                                       *)
(***************************************************************************)

(* Slip: another code, and the old discount stays beside it.                 *)
TypeCodeKeep(ticket) ==
  /\ OnForm /\ ticket # code /\ Step
  /\ code' = ticket /\ late' = FALSE
  /\ UNCHANGED <<shop, trip, stage, known, asked, discount, applying, deal, flaws>>

(* Any change of the field takes the discount away: clearing it is like      *)
(* typing a code and not applying it.                                        *)
TypeCode(ticket) ==
  /\ OnForm /\ ticket # code /\ Step
  /\ code' = ticket /\ discount' = NoDiscount /\ late' = FALSE
  /\ UNCHANGED <<shop, trip, stage, known, asked, applying, deal, flaws>>

(* Only the cab desk waits for the answer before it sends another request.   *)
ApplyCoupon ==
  /\ OnForm /\ code # "" /\ Len(applying) < 2 /\ Step
  /\ desk = "cab" => applying = <<>> /\ known.place # 0
  /\ applying' = Append(applying, [code |-> code, amount |-> Amount(known, basket)])
  /\ UNCHANGED <<shop, trip, stage, known, asked, code, discount, late, deal, flaws>>

CouponAnswer(i, valid) ==
  /\ i \in DOMAIN applying /\ applying' = RemoveAt(applying, i)
  /\ discount' = IF valid THEN Discount(applying[i].code, applying[i].amount) ELSE NoDiscount
  /\ late' = (valid /\ applying[i] # [code |-> code, amount |-> Amount(known, basket)])
  /\ UNCHANGED <<shop, trip, stage, known, asked, code, deal, steps, flaws>>

(***************************************************************************)
(* Placing the order.                                                      *)
(***************************************************************************)

(* A discount of nothing is not sent with an order, but with a ride it is.   *)
SentCode == IF discount \in {NoDiscount} \cup (IF desk = "cab" THEN {} ELSE {0}) THEN "" ELSE code

Request == [what |-> basket, code |-> SentCode, shown |-> Shown, late |-> late,
            basis |-> Basis(known, basket), heard |-> TRUE, done |-> FALSE]

(* The button is disabled while the order is on its way, and not while the   *)
(* page is leaving for it or a payment is being verified.                    *)
Place == /\ OnForm /\ ~placing /\ paying # "sheet"
         /\ Len(orders) + Len(requests) < MaxOrders
         /\ desk = "cab" => known.place # 0
         /\ requests' = Append(requests, Request) /\ placing' = TRUE
         /\ IF stage = "leaving" \/ verifying > 0
              THEN again < MaxAgain /\ again' = again + 1
              ELSE UNCHANGED again
         /\ UNCHANGED <<shop, trip, stage, form, paying, verifying, orders, steps, flaws>>

(* OrdersService.create and its siblings work the total out again.           *)
Serve(i) ==
  /\ i \in DOMAIN requests /\ ~requests[i].done
  /\ LET r == requests[i]
         by == Current(r.what)
         off == Discount(r.code, Amount(by, Repriced(r.what)))
     IN  orders' = Append(orders,
           [charged |-> Total(by, Repriced(r.what), off), shown |-> r.shown,
            excused |-> r.late \/ r.basis # Basis(by, Repriced(r.what))])
  /\ requests' = IF requests[i].heard THEN [requests EXCEPT ![i].done = TRUE]
                                      ELSE RemoveAt(requests, i)
  /\ UNCHANGED <<shop, trip, stage, form, placing, paying, verifying, again, steps, flaws>>

Refuse(i) ==
  /\ i \in DOMAIN requests /\ requests[i].heard /\ ~requests[i].done
  /\ requests' = RemoveAt(requests, i) /\ placing' = FALSE
  /\ UNCHANGED <<shop, trip, stage, form, paying, verifying, orders, again, steps, flaws>>

ClearCart == Keep(Nothing) /\ stage' = "done" /\ FreshForm

(* Cash or wallet: done, and the form is gone with the cart; the form of the *)
(* cab desk stays until the next page is there.  Otherwise the sheet opens,  *)
(* with the button enabled behind it and the cart still full; or, where the  *)
(* gateway is a mock, a second request pays.                                 *)
Answer(i, how) ==
  /\ i \in DOMAIN requests /\ requests[i].heard /\ requests[i].done
  /\ how # "no" => desk = "food"
  /\ how = "mock" => verifying = 0
  /\ requests' = RemoveAt(requests, i)
  /\ placing' = (how = "mock") /\ paying' = how
  /\ IF how # "no" THEN UNCHANGED <<trip, stage, form>>
     ELSE IF desk = "cab" THEN stage' = "leaving" /\ UNCHANGED <<trip, form>>
     ELSE ClearCart
  /\ UNCHANGED <<shop, verifying, orders, again, steps, flaws>>

(* Nobody waits for the answer any more: what the API has done is done, what *)
(* it has not begun it still does.                                           *)
Unheard(i) == IF requests[i].done THEN RemoveAt(requests, i)
                                  ELSE [requests EXCEPT ![i].heard = FALSE]

Heard == {i \in DOMAIN requests : requests[i].heard}
LeavePage == /\ IF Heard = {} THEN UNCHANGED requests
                             ELSE \E i \in Heard : requests' = Unheard(i)
             /\ placing' = FALSE

(* router.push has brought up the page of the ride.                          *)
Navigate == /\ stage = "leaving" /\ stage' = "done" /\ FreshForm /\ LeavePage
            /\ UNCHANGED <<shop, trip, paying, verifying, orders, again, steps, flaws>>

(* /payments/mock: paid, or an error, with cart and button as they were.     *)
MockPaid == /\ paying = "mock" /\ paying' = "no" /\ placing' = FALSE /\ ClearCart
            /\ UNCHANGED <<shop, requests, verifying, orders, again, steps, flaws>>

MockFails == /\ paying = "mock" /\ paying' = "no" /\ placing' = FALSE /\ Flaw
             /\ UNCHANGED <<shop, trip, stage, form, requests, verifying, orders, again, steps>>

(* The customer pays in the sheet, and /payments/verify is asked.            *)
Pay == /\ paying = "sheet" /\ paying' = "no" /\ verifying' = verifying + 1
       /\ UNCHANGED <<shop, trip, stage, form, placing, requests, orders, again, steps, flaws>>

Verified == /\ verifying > 0 /\ verifying' = verifying - 1 /\ ClearCart /\ LeavePage
            /\ UNCHANGED <<shop, paying, orders, again, steps, flaws>>

(* The page of the order all the same, and the cart is still full.           *)
VerifyFails == /\ verifying > 0 /\ verifying' = verifying - 1 /\ Flaw /\ LeavePage
               /\ stage' = "cart" /\ FreshForm
               /\ UNCHANGED <<shop, trip, paying, orders, again, steps>>

(* The order is there, and so are cart and button.                           *)
CloseSheet == /\ paying = "sheet" /\ paying' = "no" /\ Flaw
              /\ UNCHANGED <<shop, trip, stage, form, placing, requests, verifying, orders,
                             again, steps>>

(* The answer is lost: an error, and the button again.                       *)
Lose(i) == /\ i \in Heard /\ Flaw
           /\ requests' = Unheard(i) /\ placing' = FALSE
           /\ UNCHANGED <<shop, trip, stage, form, paying, verifying, orders, again, steps>>

(* The cart is read from localStorage again, everything else is forgotten,   *)
(* with the answers the page may be waiting for.                             *)
Pending == requests # <<>> \/ paying # "no" \/ verifying > 0 \/ stage = "leaving"

Reload == /\ stage # "done" /\ Step
          /\ IF Pending THEN Flaw ELSE UNCHANGED flaws
          /\ basket' = saved /\ UNCHANGED saved
          /\ stage' = FirstStage /\ FreshForm
          /\ LeavePage /\ paying' = "no" /\ verifying' = 0
          /\ UNCHANGED <<shop, orders, again>>

Next == \/ TermsChange \/ AddItem \/ RemoveItem \/ GoToCheckout \/ SettingsArrive
        \/ \E place \in 1 .. 2 : ChoosePlace(place)
        \/ \E i \in DOMAIN asked : EstimateArrives(i)
        \/ \E ticket \in Codes \ {""} : TypeCode(ticket)
        \/ ApplyCoupon
        \/ \E i \in DOMAIN applying, valid \in BOOLEAN : CouponAnswer(i, valid)
        \/ Place \/ Navigate \/ Reload
        \/ MockPaid \/ MockFails \/ Pay \/ Verified \/ VerifyFails \/ CloseSheet
        \/ \E i \in DOMAIN requests :
             \/ Serve(i) \/ Refuse(i) \/ Lose(i)
             \/ \E how \in {"no", "sheet", "mock"} : Answer(i, how)

(***************************************************************************)
(* Properties.                                                             *)
(***************************************************************************)

(* A customer pays what the button said, unless prices or settings have      *)
(* changed or were not loaded, the estimate on the screen is still, or again, *)
(* that of another trip, or a coupon answer came for what is no longer there; *)
(* and orders once, unless an answer or a payment got lost, or the button    *)
(* was pressed again before the page had left for the order.                 *)
ChargedAsShown == \A i \in DOMAIN orders : orders[i].excused \/ orders[i].charged = orders[i].shown
PlacedOnce == Len(orders) <= 1 + flaws + again
CheckoutSound == ChargedAsShown /\ PlacedOnce
=============================================================================
