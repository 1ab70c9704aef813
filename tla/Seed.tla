-------------------------------- MODULE Seed --------------------------------
(* prisma/seed.ts, a script without a transaction that is run again after a  *)
(* change or a failure, on a database that people use in between.            *)
EXTENDS Naturals, Sequences

CONSTANTS MaxRuns,     \* bound: times the script is started
          MaxDeaths,   \* bound: times it dies on the way
          MaxEdits     \* bound: what people do between two runs

VARIABLES rows,      \* how many copies of each group of rows there are
          busy,      \* orders and rides whose rider or driver is marked unavailable
          reviewed,  \* the order with the demo review has it
          rated,     \* and the restaurant the rating of its reviews
          over,      \* orders and rides that people have brought to their end
          step, at,  \* the group the script works on, and the statement there
          torn,      \* groups created by a run that died right after
          runs, deaths, edits

vars == <<rows, busy, reviewed, rated, over, step, at, torn, runs, deaths, edits>>

(***************************************************************************)
(* The groups of rows, in the order of main(): how each is found again, and  *)
(* what is written after it is created.  Orders and rides that are neither *)
(* under way nor reviewed are like the first of these, with nothing after. *)
(***************************************************************************)

Group(row, how, then) == [row |-> row, how |-> how, then |-> then]

Cities        == Group("cities", "upsert", "nothing")
People        == Group("people", "upsert", "nothing")
Menus         == Group("menus", "find", "nothing")
ClosedKitchen == Group("closed_kitchen", "upsert", "nothing")
Coupons       == Group("coupons", "upsert", "nothing")
Groceries     == Group("groceries", "find", "nothing")
Owner         == Group("owner", "upsert", "nothing")
RideTypes     == Group("ride_types", "upsert", "nothing")
Drivers       == Group("drivers", "upsert", "nothing")
Partners      == Group("partners", "upsert", "nothing")
RiderLogin    == Group("rider_login", "upsert", "nothing")
FoodDelivered == Group("food_delivered", "ensure", "review")
FoodUnderWay  == Group("food_under_way", "ensure", "busy")
GroceryOrder  == Group("grocery_under_way", "ensure", "busy")
RideUnderWay  == Group("ride_under_way", "ensure", "busy")
Banners       == Group("banners", "find", "nothing")

Plan == <<Cities, People, Menus, ClosedKitchen, Coupons, Groceries, Owner, RideTypes, Drivers,
          Partners, RiderLogin, FoodDelivered, FoodUnderWay, GroceryOrder, RideUnderWay, Banners>>

Names == {Plan[i].row : i \in DOMAIN Plan}
UnderWay == {FoodUnderWay.row, GroceryOrder.row, RideUnderWay.row}
Removable == {Menus.row, Groceries.row, Banners.row}

TypeOK == /\ rows \in [Names -> Nat] /\ step \in 0 .. Len(Plan) /\ at \in {"find", "then", "average", "rate"}
          /\ busy \subseteq UnderWay /\ over \subseteq UnderWay /\ torn \subseteq Names

Init == /\ rows = [n \in Names |-> 0] /\ busy = {} /\ reviewed = FALSE /\ rated = FALSE /\ over = {}
        /\ step = 0 /\ at = "find" /\ torn = {}
        /\ runs = 0 /\ deaths = 0 /\ edits = 0

Idle == step = 0
Current == Plan[step]
NextGroup == step' = IF step = Len(Plan) THEN 0 ELSE step + 1

Start == /\ Idle /\ runs < MaxRuns /\ runs' = runs + 1 /\ step' = 1
         /\ UNCHANGED <<rows, busy, reviewed, rated, over, at, torn, deaths, edits>>

(* Unique keys hold the rows of an upsert together.                          *)
Upsert == /\ ~Idle /\ Current.how = "upsert"
          /\ rows' = [rows EXCEPT ![Current.row] = IF @ = 0 THEN 1 ELSE @]
          /\ NextGroup
          /\ UNCHANGED <<busy, reviewed, rated, over, at, torn, runs, deaths, edits>>

(* Slip: menus, products and banners are created without looking.            *)
FindBlind == /\ ~Idle /\ Current.how = "find"
             /\ rows' = [rows EXCEPT ![Current.row] = @ + 1]
             /\ NextGroup
             /\ UNCHANGED <<busy, reviewed, rated, over, at, torn, runs, deaths, edits>>

(* Nothing in the schema keeps these unique: the script looks for them.      *)
Find == /\ ~Idle /\ Current.how = "find"
        /\ rows' = [rows EXCEPT ![Current.row] = IF @ = 0 THEN @ + 1 ELSE @]
        /\ NextGroup
        /\ UNCHANGED <<busy, reviewed, rated, over, at, torn, runs, deaths, edits>>

(* An order that exists is skipped, with everything that belongs to it.      *)
Ensure == /\ ~Idle /\ Current.how = "ensure" /\ at = "find"
          /\ IF rows[Current.row] > 0
               THEN NextGroup /\ UNCHANGED <<rows, at>>
               ELSE /\ rows' = [rows EXCEPT ![Current.row] = 1]
                    /\ at' = "then" /\ UNCHANGED step
          /\ UNCHANGED <<busy, reviewed, rated, over, torn, runs, deaths, edits>>

(* The rider or driver of an order under way, or the review of one that is   *)
(* delivered; the rating is read and written in two statements more.         *)
AfterCreate == /\ at = "then"
               /\ IF Current.then = "busy"
                    THEN /\ busy' = busy \cup {Current.row} /\ UNCHANGED reviewed
                         /\ at' = "find" /\ NextGroup
                    ELSE /\ reviewed' = TRUE /\ UNCHANGED <<busy, step>>
                         /\ at' = "average"
               /\ UNCHANGED <<rows, rated, over, torn, runs, deaths, edits>>

Average == /\ at = "average" /\ at' = "rate"
           /\ UNCHANGED <<rows, busy, reviewed, rated, over, step, torn, runs, deaths, edits>>

Rate == /\ at = "rate" /\ at' = "find" /\ rated' = TRUE
        /\ NextGroup
        /\ UNCHANGED <<rows, busy, reviewed, over, torn, runs, deaths, edits>>

Die == /\ ~Idle /\ deaths < MaxDeaths /\ deaths' = deaths + 1
       /\ torn' = IF at # "find" THEN torn \cup {Current.row} ELSE torn
       /\ step' = 0 /\ at' = "find"
       /\ UNCHANGED <<rows, busy, reviewed, rated, over, runs, edits>>

Edit == Idle /\ edits < MaxEdits /\ edits' = edits + 1

(* Office and riders take over: menus, groceries and banners are deleted, and *)
(* orders come to an end.  Nobody deletes a driver or hands an order over.    *)
Remove(row) == /\ Edit /\ row \in Removable /\ rows[row] > 0
               /\ rows' = [rows EXCEPT ![row] = @ - 1]
               /\ UNCHANGED <<busy, reviewed, rated, over, step, at, torn, runs, deaths>>

Complete(row) == /\ Edit /\ row \in UnderWay \ over /\ rows[row] > 0
                 /\ over' = over \cup {row} /\ busy' = busy \ {row}
                 /\ UNCHANGED <<rows, reviewed, rated, step, at, torn, runs, deaths>>

Next == \/ Start \/ Upsert \/ Find \/ Ensure \/ AfterCreate \/ Average \/ Rate \/ Die
        \/ \E row \in Names : Remove(row) \/ Complete(row)

(***************************************************************************)
(* Properties.                                                             *)
(***************************************************************************)

(* However often the script is run, dies and is run again, with menus,       *)
(* groceries and banners deleted and orders completed in between, nothing is *)
(* there twice; an order it has placed under way has its rider marked        *)
(* unavailable, and the demo review and its rating are written, unless a run *)
(* died between the order and what is written after it.                      *)
SeededOnce ==
  /\ \A n \in Names : rows[n] <= 1
  /\ Idle => /\ \A n \in UnderWay \ torn : rows[n] = 1 => (n \in busy <=> n \notin over)
             /\ rows[FoodDelivered.row] = 1 /\ FoodDelivered.row \notin torn => reviewed /\ rated
=============================================================================
