# Glido: a TLA+ model of its API, its web client and its seed script

Glido is a delivery platform: a NestJS API over Postgres (`apps/api`), a Next.js client (`apps/web`) and
Flutter apps. The API is stateless; all state is in the database, and requests of customers,
restaurants, riders and admins run concurrently, in one process or, on the serverless deployment, in
several. No handler takes a lock, and few use transactions, so **every `await` between two database
statements is a place where another request may run**. That is what the modules about the API model: an
action is one statement, and a request carries what it has read. The modules about the client model the
same thing on the other side: an answer is about the past, and may be late, lost or overtaken.

## Inventory

| Component | State | Operations | What makes it hard, and correct | Modules |
|---|---|---|---|---|
| Food orders `orders/` | `Order`, `OrderStatusHistory` | create, cancel, status changes, manual assignment, accept / reject | read, check, write without a condition; refund, dispatch, release and points follow the write. An order follows its life cycle, is refunded once iff it was paid and cancelled, earns its points once | `Placement`, `FoodOrders` |
| Grocery orders `grocery/` | `GroceryOrder`, `GroceryProduct.stockQty` | as food orders, and stock | restock before the transition check; stock check outside the transaction. What was cancelled is on the shelf again, once | `Placement`, `GroceryOrders` |
| Delivery partners `delivery/`, `partner/` | `DeliveryPartner` (`status`, `isOnline`, `isAvailable`) | tryAssign, release, markUnavailable, go online, suspend, delete | one flag is the only claim on a rider, for both kinds of order. Nobody is on two deliveries, or stuck without one | `DeliveryPool`, `SharedRiders`; partly |
| Rides and drivers `cab/` | `Ride`, `Driver`, `RideReview` | create and match, cancel, status, tip, review | unconditional claim of a driver, a driver freed before the transition check, money moved apart from the row | `Rides`; partly |
| Wallet `wallet/` | `Wallet`, `WalletTransaction` | credit, debit, topUp | checks outside the transaction. The balance is never negative and equals the sum of the rows | `Wallet`, `WalletLedger` |
| Payments `payments/` | `Payment`, `Order.paymentStatus` | create, verify, mock pay, fail | the gateway may fail or answer late; two rows are written separately | `FoodOrders` |
| Coupons `coupons/` | `Coupon.usedCount` | computeDiscount, recordUsage, edits | limits checked before and counted after, over orders that are cancelled meanwhile | `Placement`; partly |
| Authentication `auth/` | `Otp`, `RefreshToken`, `User` | request and verify code, register, login, refresh, logout, reset | token rotation with reuse detection, against clients that lose answers; attempts and windows counted, then written | `Sessions`, `Signup` |
| Users, loyalty `users/` | `User.loyaltyPoints`, `Address` | redeem, addresses, block | check, decrement, credit; one default address | `Profile`, `Sessions` |
| Staff `staff/` | `User.adminRole`, audit rows | create, update; logins for riders and restaurants | the last active super admin; a change without its audit row | `Staff` |
| Reviews `reviews/` | `Review`, the rating | review | the rating is written from an aggregate that is stale | `Profile`, `Rides` |
| Rate limiting `common/throttler-storage.service.ts` | `ThrottleHit` | increment | a window kept in the database | `Throttler`; partly |
| Settings `settings/`, restaurants, catalogue | single rows | save; CRUD | read by orders while they are edited | `Placement`, `Pages`; partly |
| Rider location `tracking/`, `location_tracker.dart` | last position, pushes | fix, heartbeat, snapshot | which fix reaches whom, how old it is | `Tracking`; live tracking partly |
| Support chat `support/` | `SupportMessage.isRead` | send, read, the inbox of the office | a thread filled from four sources that nothing orders | `Support` |
| Web client `apps/web` | what a page shows, carts, tokens | lists, details, checkouts, cab desk | answers that are late, lost or overtaken; buttons pressed again | `Pages`, `DetailPages`, `Storefront`; partly |
| Seed script `prisma/seed.ts` | all tables | `main` | no transaction, run again after a failure | `Seed` |
| Notifications, realtime gateway | pushes | fire and forget | pushes that get lost; the bell polls | `Bell`, `Support`, `Tracking`; partly |
| Administration, reports | – | queries | read only; their pages are in `Pages` | not modelled |
| Mobile, rider and restaurant apps | – | user interfaces | the environment that sends the requests | not modelled |

Interactions: orders and rides call payments (`createOrderForPayment`), the wallet (`debit`, `credit`),
coupons (`computeDiscount`, `recordUsage`), settings and the delivery partners (`tryAssign`, `release`,
`markUnavailable`, `getForManualAssign`) by method call; food and grocery orders share the riders;
payments write `Order.paymentStatus`; authentication and loyalty credit wallets; clients send requests,
poll and listen to pushes. Everything else is shared through the tables.

## Modules

| Module | Role |
|---|---|
| `WalletLedger` | Abstract: money moves in single, recorded, covered steps. |
| `Wallet` | `WalletService`, with the row lock of `$transaction`, roll-back and crashes. |
| `OrderLifecycle` | Abstract: the order state machine of the repository's README. Food and grocery orders implement it. |
| `DeliveryPool` | `DeliveryPartnersService`: the rider rows and the operations on them. |
| `FoodOrders` | `OrdersService` and `PaymentsService` over `DeliveryPool`. |
| `Handlers` | The request slots that all the later modules use. |
| `Placement` | `create` of both kinds of order, from validation to the coupon's use, over rows that are edited. |
| `GroceryOrders` | `GroceryOrdersService` over `DeliveryPool`. |
| `SharedRiders` | Composes `FoodOrders` and `GroceryOrders` over one pool. |
| `Rides` | `RidesService` and `DriversService`. |
| `Fleet` | Composes `SharedRiders` and `Rides`. |
| `Sessions`, `Signup` | `AuthService`: refresh tokens; codes, accounts and referrals. |
| `Profile`, `Staff`, `Throttler` | Addresses, points and reviews; staff and audit; the rate limit. |
| `Accounts` | Composes the five before. |
| `Pages`, `DetailPages` | The web client's lists, and its pages about one order or ride. |
| `Bell` | The bell with the notifications, above every page. |
| `Support`, `Tracking` | The chat and the map: service, pushes and screens. |
| `Storefront` | Carts, both checkouts, the cab desk. |
| `Seed` | `prisma/seed.ts`. |
| `Clients` | Composes the seven before. |
| `…Proofs` | Theorems about `Wallet`, `FoodOrders`, `GroceryOrders`, `SharedRiders`, `Placement`, `Accounts` with its five components, `Fleet` (its rides) and `Clients` (lists, pages about one order, checkouts, seed script). |
| `MC…` | Instances for TLC. |

`SharedRiders` is a composition of components that interact: both kinds of order claim the same rows. The
parts of `Fleet`, `Accounts` and `Clients` share no rows with one another; a behaviour of these modules is
about one part (`focus`, `part`), and the module only puts the parts into one run.

Definitions headed `Slip:` are not part of the model. Each is a plausible mistake in the definition
it precedes; replacing the definition by it must break a property of a run, which shows that the
property watches the code and not the shape of the model.

### `Wallet`

`balance` is `Wallet.balance`; `credits`, `debits` and `today` are sums over `WalletTransaction`
rows; `lock` is the Postgres row lock an open transaction holds; `call` is what each request is
doing. `DebitStart` is the check before the transaction, `Update` the first statement of the
transaction (`increment` / `decrement`, from the committed balance, under the row lock),
`CheckFails` / `CheckPasses` the re-check, `Commit` the row and the commit. `DayPasses` moves
top-ups out of the 24-hour window. Amounts are integers: the code's floats are rupees with two
decimals, and rounding is not modelled.

### `FoodOrders`

`order`, `payment`, `history` are the rows; `charged`, `refunded`, `points` count the debits and
credits made for an order and the awards of its points; `pool` are the riders; `req[w]` is the
request in slot `w`: the statement that comes next (`at`), the order as read at the start (`seen`),
the status asked for, and the rider found. `wallet.debit` and `wallet.credit` are single steps,
which is what `Wallet` implements `WalletLedger` means.

| Code | Actions |
|---|---|
| `create` | `Create` (validation, `wallet.debit`), `Insert`, `CreatePayment` / `GatewayFails`, `MarkOrderPaid` |
| `verifySignature`, `mockPay`, `markPaid`, `markFailed` | `Pay`, `PayOrder`, `PayFailed` |
| `adminUpdateStatus` (restaurant, admin) | `StatusRequest` (read and check), then `WriteStatus` |
| `cancel`, the rider's status change | `CancelRequest`, `RiderStatusRequest`, `Reread`, then `WriteStatus` |
| the rest of `applyStatusChange` | `RefundPayment`, `RefundOrder`, `RefundCredit`; `FindRiders`, `ClaimRider`, `Attach`; `ReleaseRider`; `AwardPoints`, in the order `AfterWrite` and `AfterRefund` give |
| `assignDeliveryPartner` | `AssignRequest`, `Vet`, `Unassign`, `Mark`, `Attach` |
| `respondToDeliveryAssignment` | `AcceptRequest`, `Accept`; `RejectRequest`, `FreeRejecter`, `ClearAssignment`, then the search |
| the rider's profile, the admin's rider pages | `RiderToggles`, `AdminSuspends`, `AdminRemoves` |
| a process dies, a statement is refused | `Crash` |

Abstractions: an order's total is at least ₹10, so delivering it is worth a point; distances are
arbitrary, so `ClaimRider` takes any candidate that is left; realtime events, notifications and the
audit log are output; pricing and validation are the choice of `Create` (they are in `Placement`).

Four constants say which part of the environment a run is about: `Requests` (the kinds of request
made), `SameOrderOverlap` (whether two requests on one order may overlap), `StaleScreens` (whether a
rider answers for an order that has finished, which the handler allows and the app's list of live
orders makes rare), `MaxCrashes`. `MaxPostings` bounds the refunds and awards an order collects, so
that the counters are finite.

### `Placement`

The part of `create` before `FoodOrders` and `GroceryOrders` begin, with everything it reads: `good`
(menu items or products), `coupon`, `settings`, the restaurant and the address. An attempt goes through
`Create`, `Validate`, `ReadGoods`, `ReadCoupon`, `CountUses` (the two halves of
`CouponsService.computeDiscount`), `ReadSettings`, `Debit`, `Insert` and `RecordUsage`. `Insert` fails when
a foreign key is broken, and for groceries takes the stock in the same transaction. `Lines` is what an order
takes of a good: the units on all its lines, and those on the largest. `Sellable` compares the stock with the
largest line, since the code looks at each line by itself, and `Insert` takes the units of all. Between any two
statements the back office may edit: `ToggleGood`, `DeleteGood`, `RestaurantCloses`, `DeleteAddress`,
`PhoneRemoved`, `ToggleCoupon`, `DeleteCoupon`, `SaveSettings`; and orders are cancelled. Prices are small
numbers, and the two settings an order uses are represented by the version they were saved in.

### `GroceryOrders`, `SharedRiders`

As `FoodOrders`, without payments: what differs is `Restock`, which `adminUpdateStatus` does line by line
before `Reread` and the check of the transition (so a change that is refused has put the stock back), and the stock each order takes (`Insert`) and gives
back (`returned`). `ByHand` are the orders that admins assign riders to by hand.
`SharedRiders` runs both services over one `pool`; its properties `OneDelivery` and `NoneStuck` range over
the orders of both.

### `Rides`, `Fleet`

`ride`, `driver`, `review` are the rows; `debited`, `refunded`, `tipped` count wallet postings.
`create` is `Create`, `Debit`, `Insert`, `FindDriver`, `AssignDriver`; a cancellation or status change is
`CancelRequest` / `StatusRequest`, `FreeDriver`, `Reread`, `WriteStatus`, `Refund`; a tip `TipRequest`,
`DebitTip`, `WriteTip`; a review `ReviewRequest`, `WriteReview`, `ReadRating`, `WriteRating`.
`ToggleOnline`, `ChangeStatus` and `RemoveDriver` are the office.

### `Sessions`, `Signup`, `Profile`, `Staff`, `Throttler`, `Accounts`

`Sessions`: `token` are the `RefreshToken` rows (live, rotated away, closed by a sign-out, expired) and the login
each descends from, `issued` their number, `store` what each browser keeps. `issueTokens`, `refresh` with the
search of the last revoked tokens (`Window`), `logout`, `logoutAll`, `resetPassword` and the office's `Block` are
its operations. Answers may be lost (`cut` are the browsers that have lost one). A browser makes any number of calls
at once, and each that is answered 401 refreshes by itself, because `request()` of `api.ts` has no single flight: `raced`
are the logins with a token that two refreshes have rotated. `logout` finds the live tokens (`FindLogout`) and revokes
one later (`LogoutToken`).
`Signup`: `code` are the `Otp` rows of an address, `account` the user, `bonus` the two credits of a
referral, written by each of the ways to an account. `Profile`: addresses and the default flag, the
loyalty points redeemed into a wallet, reviews and the restaurant's rating; `disturbed` says that two reviews have
overlapped, or one has died, since a review last ran alone. `Staff`: create and update with the check for the last super
admin and the audit row after it; `crossed` says that staff changed while an update that had been checked was
still to be written; logins for outlets. `Throttler`: one
row for a key, its window and the hits the instances have let through.

### `Pages`, `Bell`, `DetailPages`, `Support`, `Tracking`, `Storefront`, `Seed`, `Clients`

`Pages` describes 32 pages that do not poll, by one record each (which filters, who cuts the list into pages, what its
buttons change, whether it loads again afterwards, hides errors); the actions are the same for all. Nothing is
disabled while a page loads, so users click at any time, answers come in any order, and a tab chosen on a later page
asks twice. `overtaken` says that what is on the screen was asked for before, and came after, something else.
`Bell` has the number beside the bell and the list below it, which are asked for apart; the list is polled while
it is open, and what is marked as read is marked on the screen before the API hears of it.
`DetailPages` has seven pages about one order or ride: the buttons offered for the status shown, the dialog that
stays open while the page is polled, and what the API then accepts. `Support` is `SupportService` with the office's
inbox and the customer's widget, whose answers come in any order or not at all. `Tracking` is the rider's phone,
`TrackingService`, the gateway and the page's hook, which asks by its timer, on pushes and at the first fix, one
question beside the other; `outrun` says that the last answer is older than one before it. `Storefront` is what
customers see before they order: carts in `localStorage`, estimates, coupon field, payment sheet, mock payment and
verification, and the terms by which the API then charges; the cab desk is `leaving`, with its button enabled, until the
page of the ride is there. `Seed` goes through the statements of the groups of rows of `main()`, and dies between any
two of them: the demo review, its average and the restaurant's rating are three.

## Runs

| Run | Question and result |
|---|---|
| `wallet` | Three overlapping calls on a wallet, crashes: isolation of transactions, balance = rows and ≥ 0, refinement of the ledger. Holds. |
| `dispatch` | Two orders, two riders, two requests at once on different orders. No rider is on two deliveries; a booked rider is unavailable; points once; every order implements `OrderLifecycle`. Holds, for automatic dispatch and riders who answer live orders. |
| `dispatch_live` | Refunds and points arrive under fairness. Holds. |
| `serial` | One request at a time, every kind of request: nobody is stuck unavailable, refund iff cancelled, the rejecter is skipped. Holds. |
| `overlap` | Everything overlaps on one order and a request dies: what still holds. |
| `placement` | Four orders of two customers for the last units of a product, some with two lines of it, and the last use of a coupon, while everything they read is edited. `CouponLimits`: the orders that carry the coupon, those left out whose request died before it recorded the use, exceed the limit by no more than the requests that overlap. `StockLimit`: the stock is oversold by no more than what the overlapping requests may take, and what one order repeats on lines of its own. `NoChargeWithoutOrder`: money is taken for nothing only by a crash or a row deleted meanwhile. `PricedTogether`: tax and fee are of one version. Holds. |
| `grocery` | Two grocery orders with a common product and a common rider, overlapping and with a crash: `CancelledRestocked`, `StockBalanced`, `RefundedOnce`, `ImplementsLifecycle`. Holds while no two requests on one order overlap and, for `StockBalanced`, screens are up to date: `FreshScreens` keeps out changes that are refused, which have put the stock back. |
| `fleet` | A food and a grocery order compete for two riders, or two rides for two drivers: `OneDelivery`, `NoneStuck`, `OneRide`, `DriversFree`, `PostingsMatch`, `RatingExact`. Holds while no two requests on one delivery or ride, no two searches for a driver and no two ride reviews overlap. |
| `accounts` | Two requests at a time around an account. `SessionsSound`: one live token per login, unless two refreshes have rotated one token, and no browser left with a token that will be taken for a theft, unless an answer was lost. Limits on codes and calls, one bonus. `ProfileSound`: points, default addresses, and the rating unless reviews have overlapped or died since one ran alone. `LastSuperAdmin`: unless staff changed between an update's check and its write. Audit rows. Holds. |
| `clients` | `ScreensSound`: screens show what was chosen, unless an answer was overtaken, and offer what is accepted. `CheckoutSound`: a customer pays what was shown and orders once, but for what was lost and for presses of a button that should be gone. `SeededOnce`: a seed that dies can be run again. `Converges`: bell, detail pages, chat and map end up with what the database holds. Holds. |
| `revived` | Two overlapping status changes take an order out of its life cycle. Violated. |
| `wrong_conversation` | A refresh of the conversation the admin has left overwrites the one on the screen, which the comment of that page (`admin/support/page.tsx:56-58`) rules out. Violated. |

`CouponLimits`, `StockLimit`, `LimitsKept`, and the parts of `ProfileSound` about points and addresses are
stated relative to `Overlap`, the number of further requests that run beside one: the code compares in one
statement and counts in another, so a limit is overrun by what each further request takes. A request takes one use of a
coupon or one code, up to `MaxUnits` of a product, and, of the throttler, a whole rate and one call, since a row
that is replaced by a new window forgets the hits of all requests that counted in the old one. The bounds of stock,
coupon and throttler are reached at the settings of the runs, and losing a bound (counting twice, forgetting to count,
not checking) breaks the property.

`raced`, `disturbed`, `crossed`, `overtaken`, `outrun` and `again` record, as history, that one particular race has
happened; the property excuses only what that race has touched. They are not hypotheses: the runs and the proofs go
through the races, and the properties say what is left after them.

### Bounds

The `.cfg` of a run names each bound. Two orders compete for a rider, two riders replace one another, two
requests overlap: an order interacts with another only through one rider, product or coupon, and with
itself only through one stale read. Three calls are needed on a wallet for one to wait for the lock while a
second commits and a third checks; four orders for the last use of a coupon to be taken, freed by a
cancellation and taken again; lines of up to three units, so that one order can repeat a unit beyond its largest line;
three tokens for a rotation, the use of the rotated one, and a new login; three addresses, since two requests at a time
leave at most two defaults; two answers on their way to a screen for one to overtake the other, and three rows, one
on a page, for a second page and a page past the end. Riders,
requests and browsers are symmetric where the module treats them alike; orders are not (their payment methods
and lines differ). Runs of liveness use no symmetry. Runs without deadlock checking say in their `.cfg` why.

### Fairness

In the API only `Step(w)`, the next statement of a request in flight, is weakly fair: Node resumes every request
whose database call has returned. Liveness of refunds and points is checked without crashes: a request that
dies is never retried by the code. In the clients (`Clients!Fairness`) the timers of the bell, of an open page and the
heartbeat of the rider's phone fire, what was asked is served and answered, and a push that has been emitted
arrives or is lost, in the end. No user, rider or admin is assumed to do anything, so `Converges` is about the
end of a behaviour in which people rest.

### Assumptions about the environment

Each is a constant of a module, TRUE or FALSE in a `.cfg`, or said in the comment of an action:

* `SameOrderOverlap`: whether two requests on one order overlap; `StepsOverlap`: two requests on one ride, two
  searches for a driver or two ride reviews. With the other value the properties named in the next section fail: the
  code has nothing that would keep such requests apart. The accounts and the clients have no such constant.
* `StaleScreens`, `FreshScreens`: whether people answer for what has finished. `StockBalanced` and `OneRide` rest on
  it, since both services undo (stock, driver) before they check.
* One seed runs at a time, and a request is shorter than a throttle window.

### What the code does not keep

| Configuration | What happens | Where |
|---|---|---|
| `BugRevived` (run `revived`) | the later of two overlapping changes is written over the earlier: a cancelled order is prepared | `orders.service.ts:395` |
| `BugConversation` (run `wrong_conversation`) | the answer of the timer's refresh is not compared with the selection | `admin/support/page.tsx:75` |
| `MCWallet` with `TopUpCapped` | two top-ups pass the daily cap on the same sum | `wallet.service.ts:53` |
| `BugRefundLost` | cancelling an order before `create` has marked it paid refunds nothing | `orders.service.ts:137-172` |
| `BugPaidLate` | a payment confirmed after the cancellation stays with a cancelled order | `payments.service.ts:124` |
| `BugManualBooking` | a rider with two orders is freed while on the second | `orders.service.ts:428` |
| `BugSwap` | auto-assign replaces a rider assigned by hand meanwhile | `orders.service.ts:415` |
| `BugStranded` | a rejected READY order is never dispatched again | `orders.service.ts:371` |
| `BugTwoRides` | two rides that search at once get the same driver | `cab/rides.service.ts:176` |

Those that are not runs are there to be started by hand (`tlc -config BugSwap.cfg MCFoodOrders`, `BugTwoRides.cfg`
with `MCRides`, `MCWallet.cfg` with `TopUpCapped` added to its invariants). The same models answer other questions of this kind
when a property is run with other settings: with overlapping requests on one food order `AwardedOnce` (two
deliveries award twice), `RefundedOnce` (two cancellations refund twice) and `NoneStuck` (of two manual
assignments one rider stays unavailable) fail; on one grocery order `StockBalanced` and `RefundedOnce`; with
`StaleScreens` and two orders, `BookedUnavailable`; with `StepsOverlap`, `OneRide`, `DriversFree` and
`RatingExact` of rides, and `PostingsMatch` (two cancellations refund twice, two tips are debited for one that is
written); without `FreshScreens`, `StockBalanced` (a refused cancellation has restocked). The excuses in the
properties are findings of the same kind: without `raced`, `SessionsSound` fails (two calls of one browser that are
answered 401 refresh with one token, and both get a live one); without `disturbed`, `RatingExact` of `Profile` (the
older aggregate is written last); without `crossed`, `LastSuperAdmin` (two super admins demote one another); without
`overtaken`, `ScreensSound` (of two tabs, the first one's rows under the second's name); without `again`,
`CheckoutSound` (a second press books a second ride).

## What is proved

For every value of the constants, with TLAPS:

* `WalletProofs`: `TypeCorrect`, `TransactionsIsolated`, `BalancedAlways`, `WalletImplementsLedger`. The inductive
  invariant adds `Isolated` to the types: an open transaction holds the row of its wallet, so the balance it has
  computed is the committed one moved by its own amount, and at the last statement it is not negative.
* `FoodOrdersProofs`: `TypeCorrect`, `HistoryAlwaysGrounded`, `RefundAlwaysGrounded`,
  `RowsAlwaysAgree`, `RejecterAlwaysSkipped`, with any number of orders, riders, overlapping requests
  and crashes. None of the first three after the types is inductive: a request acts on what it read long
  ago. `JobsSound` says what each request still knows when it acts (the status it read is in the history,
  the order it refunds was cancelled, ...), and it is stable because history rows, charges and placements are
  never taken back. There is one lemma per group of actions, and `QuietStep`, `JobsKeep` and
  `OutsideStep` say once why the steps of others do not disturb what a request knows.
  When `SameOrderOverlap` is FALSE, which is what a lock per order would give, `SerialFollowsLifecycle` (the orders
  implement `OrderLifecycle`), `SerialAwardsOnce` and `SerialRefundsOnce`. The invariant adds that a request has its order for itself (`Alone`), so the status it
  read is the status it overwrites (`SeenCurrent`), that a request which still owes an order its points finds it
  DELIVERED and unawarded (`AwardJobs`), and, for the refund, how the order's payment, its charge and its refund
  stand to one another at each statement of the request that is at work on it. `SerialRefundsOnce` says
  `crashes = 0 => RefundedOnce`: a request that dies between the status and the refund is never repeated. The run
  `revived` and, with other settings, `AwardedOnce` and `RefundedOnce` show that the hypothesis on overlaps is
  needed.
  Under the same hypotheses `SerialNoneStuck`, and when also nobody is assigned by hand
  and riders answer live orders only (the settings of the run `dispatch`), `SerialBookedUnavailable` and
  `SerialSingleDelivery`. `isAvailable` is the only claim on a rider and says neither for which order it is held
  nor by whom. The invariant does: `Guides` is what a request that searches, claims, attaches or releases knows of
  its order and of its rider; `Accounted` names for every unavailable rider the live order or the request in
  flight that holds them (for `NoneStuck`); `Sole` says that there is only one such order or request, and that a
  rider who has one is unavailable, so that the conditional update of `tryAssign` cannot succeed for a second.
  `Sole` needs the two further hypotheses: an admin assigns without asking `isAvailable`, and a rider who answers
  for a finished order frees themselves (`BugManualBooking`, and `BookedUnavailable` with `StaleScreens`).
* `GroceryOrdersProofs`: `CancelledAlwaysRestocked`, however requests overlap or die. A cancellation carries the
  lines it has still to put back (`Restocking`): those that are gone from it are on the shelf, and at the write
  none is left. Under `~SameOrderOverlap` also `SerialRefundsOnce` and `GroceryFollowsLifecycle`; the
  invariant then adds `Alone`, `Current` (what was read is what is there) and `Consistent`, which relates an
  order's status and payment to the refunds made and the one refund that may be under way. With `FreshScreens` as
  well, `SerialStockBalanced`: the shelf lacks what the orders hold that have taken a product and whose request, if
  any, has not put it back yet. `FreshScreens` is needed because `adminUpdateStatus` puts the stock back before it
  checks the transition.
* `SharedRidersProofs`: `OneDeliveryEach` and `NobodyStuck`, over both services and their common pool, under
  `ServicesDispatch` (one request at a time on an order, nobody assigned by hand, no rider deleted: the settings of
  the run `fleet`) and as long as no request has died (`NoneDied`). Neither service reads the other's orders, so the two
  invariants of one service each do not add up to this one. `Rider` says whom an order holds, from its row and the request
  at work on it: whoever the request has claimed, the rider of a delivered order that has not let them go yet, or the one the
  row of a live order names unless they have rejected it and been freed. `HeldOnce` counts over both services: a rider has
  at most one of these `Holders` and is available exactly when there is none. `Orderly` is what each service needs of its own
  rows and requests; `DealKeeps` says once, for a holder of either kind, what a step may do to the pool: leave the flags
  alone, claim a free rider, or let go the one it holds.
* `PlacementProofs`: `NothingForMoney` and `PricesBelong`. A request that has debited is past its checks and
  before its insert (`InOrder`), it alone works on its attempt (`Alone`), and the insert can only fail by a
  broken key; a key that is broken stays broken (`KeysGo`), because nothing the office deletes comes back.
  `OneVersion`: what a request has read of the settings is of one version. `StockKept` and `CouponKept`: what has
  been used of a limit and the requests that have compared and not yet counted are together no more than the limit and
  the requests that can overlap (`Covered`). The reservation of a request is thus counted from the comparison
  on, and the bound is that no request is counted twice. Stock is counted in units, `MaxUnits` for each request that
  has compared but the last, which has seen room for its largest line (`StockCovered`). For coupons, the orders that
  carry one are those counted in `usedCount`, those whose request has still to record it, and those it died on.
* `AccountsProofs`, about `Accounts` and its five parts: a behaviour is about one part, whose invariant is kept by its
  steps, and the rows of the other parts do not move (`FocusStays`).
  * `SessionsAreKept`, with any number of calls of a browser under way. A browser holds a token in its storage or in a
    call. Two browsers share no login (`Disjoint`); a login has one live token, or one call that has rotated it away and is
    going to be given the next, until two calls have read one token as live and both rotate it, which puts the login in
    `raced` (`OneHeir`); and a browser whose stored token has been rotated is waiting for a call that will bring the
    next, unless it has lost an answer (`StaleWaits`). All steps but `Issue` are of one kind (`Ordinary`): a browser
    drops or rotates what it holds; `Issue` gives an heir its token.
  * `BonusPaidOnce`. Who pays has created the account, and only one request can (`PaysAlone`); it pays the referee
    first (`PaysInOrder`).
  * `LimitsAreKept`. As in `Placement`: codes sent, wrong guesses, uses, and hits are counted together with the
    requests that are about to be counted (`WindowKept`, `TriesKept`, `UsesKept`, `HitsBounded`).
  * `ProfileStaysSound`. Points that are to be taken are covered by those that are there and by the overdraft of the
    overlapping requests, and those that are to be credited are counted as paid (`NoPointLost`); default addresses are
    counted with those about to be saved (`DefaultsKept`); while reviews have not been `disturbed`, there is at most one under
    way, and the rating is that of the reviews but for the one it carries (`RatingKept`).
  * `LastSuperAdminStays`. An update that has been checked leaves another super admin when it is written (`BossRemains`),
    unless staff changed after its check, which is when `crossed` becomes true.
    `NothingStaysUnlinked`: a change without its audit row, or a login that is not linked, has a
    request that is going to write it, or one that died (`NothingLost`).
* `FleetProofs`, about the rides of `Fleet` (rides and deliveries share no row, so every step of the fleet is one of the
  rides or leaves them alone, `FleetStep`): `DriversStayFree`, and also `OneRideEach` (with `FreshScreens`), `PostingsStay` and
  `RatingsStayExact`, all under `~StepsOverlap`. They say that one request after the other keeps the books, however
  many rides, drivers, refusals and deaths there are, and nothing about the races of searches, tips and reviews, which
  are in the section before. One invariant, `RidesInv`, in four parts.
  * `RidesBase`: a ride has one request at a time, and what that request has read still holds when it acts (`Knows`).
  * `Flagged`. A ride keeps its driver while it is live and its request has not let the driver go (`Keeps`: between the
    release and the status that says so, the flag is right and the row is late). `Accounted`: who is not available is
    kept by a ride. `Exclusive`: who is kept is not available and kept by one ride, and the one driver a search has found is
    available. The claim of `tryAssignDriver` has no condition, so `Exclusive` needs the searches apart; it needs
    `FreshScreens` because a refused change has freed the driver of a ride that goes on.
  * `Settled`: a wallet ride is `Charged`, `Repaid` and `TipTaken` by its row or by the statement its request comes to
    next, and the wallet rows are exactly that if no request on it has died; if one has, it has been charged at least once and
    paid back at most once.
  * `Rated`: there is one review at a time, and all ratings but the one it is about to write are those of the reviews.
* `ClientsProofs`, about `Clients`: a behaviour is about one part, as in `Accounts`. No hypotheses and no assumptions.
  * `ScreensStaySound`. For the lists, `LastFits`: of the answers on their way, the one asked for last, or the screen when
    none is on its way, has the filter and the page that are chosen and the user's own last change (`Fits`), unless it is
    late. An answer that arrives makes all that were asked for before it late, so that the screen can be out of
    date only when it is `overtaken`. For the pages about one order or ride, `DetailInv`: what was pressed on an
    up-to-date screen, or is asked in a dialog that is still up to date, is something the API still accepts, because each
    page's buttons are among the moves of its table (`ButtonsLead`) and a status that moves makes every screen before it
    stale.
  * `CheckoutsStaySound`. `FormInv` is about the form: unless it is known to be late, the discount on the screen is none or
    that of the code and the amount beside it (`DiscountRight`). `DealInv` is about the orders: each request under way
    repeats what the button said (`Honest`), the page waits for at most one of them (`OneHeard`), a payment belongs to an
    order that is there (`PaysRight`), and the orders that are there and those on their way are together no more than
    the lost answers and closed sheets (`flaws`), the presses after an order (`again`), one while the page waits, pays,
    leaves or is done (`Bought`), and one for the request that is served and not yet heard of (`Served`), which is counted
    twice (`Counted`). It is this count, not the number of orders, that every step keeps.
  * `SeedRunsAgain`. What a group promises holds except for the one group the script is in the middle of (`HalfDone`) and
    those a run died in the middle of (`torn`); the review and the rating go together unless they are one of these.

The properties that bound something by the number of overlapping requests rest on lemmas about counting request
slots (`CountMoves`, `SlotsMove`, `NoSlots`, `SlotsAreFew` and their like): a step moves one slot, so a count of slots
changes by at most one, and disjoint sets of slots are together no more than there are slots.

Hypotheses about overlap, screens and crashes are not weakenings for the proof's sake: they are the settings under
which the runs find the property to hold, and for each of them the section before names the property that fails
without it.

Assumptions on constants, each checked by TLC in a run: `None` is not a rider (`NoneIsNoPartner`); amounts are natural
numbers and `None` is not a request (`Wallet`); `NumbersAreNat` and `LinesAreUnits` (`Placement`); `OrdersHaveLines`
(`GroceryOrders`); `WorkersAreFinite` (`Handlers`: a process has finitely many requests in flight, and the bounds by
overlap count them); in `Accounts`, limits, points and bounds are natural numbers and the rate of the throttler
is at least one (`TokensAreNat`, `LimitsAreNat`, `PointsAreNat`, `RateIsPositive`: constants of the code or settings
validated as such), the super admin the seed creates is an admin (`BossIsAdmin`), and the value that stands for no
address is not an address (`NoneIsNoEmail`); in `Fleet`, "none" is not a driver (`NoneIsNoDriver`).

Only model-checked: all liveness (`RefundArrives`, `PointsArrive`, `Converges`), which the prover does not reach. Every
invariant and every action property of the passing runs is stated by a theorem.

## Not modelled

* `users` list of the office: search with paging (`admin/users/page.tsx`): one effect on one line, read by hand.
  The quick filters and sorting of the restaurant list: pure functions of what is shown.
* Administration and reports: queries over the tables.
* Mobile, rider and restaurant apps: user interfaces over the API of which only requests reach the model; the
  tracker of the rider's phone is modelled.
* Geocoding and the estimated time of arrival: output that nothing reads back.
* Creation of riders, drivers and coupons, and the CRUD of restaurants, menus, cities and banners: single rows that
  nothing races with; what orders read of them is edited in `Placement`.
* Validity dates and minimum amounts of coupons, zones of rides: they only refuse.
* The sweep of throttle rows that expired a day ago; the rounding of floats; forms, layout, maps, invoices.

## Plan

Abstract specifications still to be stated, with the refinement each would need: a coupon as a counter with a limit, a
session family with one live token. The other way to go is along the hazards without a property, each of which is a decision
about the code before it is one about the model.
