---------------------------- MODULE SharedRiders ----------------------------
(* Food and grocery orders over one pool of riders: the two services know    *)
(* nothing of each other but the flag isAvailable.                           *)
EXTENDS DeliveryPool, FiniteSets

CONSTANTS FoodOrder, FoodWorkers, FoodRequests,   \* see FoodOrders
          GroceryOrder, GroceryWorkers,           \* see GroceryOrders
          OnWallet, Products, Lines, InStock, SameOrderOverlap, ByHand,
          MaxPostings, MaxCrashes

VARIABLES foodRow, payment, foodHistory, charged, foodRefunded, foodPoints, foodReq, crashes,
          groceryRow, groceryHistory, stock, returned, groceryRefunded, groceryPoints, dead,
          groceryReq

Food == INSTANCE FoodOrders WITH
          Orders <- FoodOrder, Method <- [o \in FoodOrder |-> "COD"], Workers <- FoodWorkers,
          Requests <- FoodRequests, StaleScreens <- FALSE,
          order <- foodRow, history <- foodHistory, refunded <- foodRefunded,
          points <- foodPoints, req <- foodReq
Grocery == INSTANCE GroceryOrders WITH
          Orders <- GroceryOrder, Workers <- GroceryWorkers, FreshScreens <- TRUE,
          order <- groceryRow, history <- groceryHistory, refunded <- groceryRefunded,
          points <- groceryPoints, req <- groceryReq

foodVars == <<foodRow, payment, foodHistory, charged, foodRefunded, foodPoints, foodReq, crashes>>
groceryVars == <<groceryRow, groceryHistory, stock, returned, groceryRefunded, groceryPoints,
                 dead, groceryReq>>

Init == Food!Init /\ Grocery!Init
Next == \/ Food!Next /\ UNCHANGED groceryVars
        \/ Grocery!Next /\ UNCHANGED foodVars
Spec == Init /\ [][Next]_<<pool, foodVars, groceryVars>>

(* Whatever is dispatched at once, a rider is on one delivery at a time, of  *)
(* either kind.                                                              *)
OneDelivery ==
  \A p \in Partners :
    Cardinality(Food!OnOrders(p)) + Cardinality(Food!OnClaims(p))
      + Cardinality(Grocery!OnOrders(p)) + Cardinality(Grocery!OnClaims(p)) <= 1

(* A rider who can no longer be claimed is on an order of either kind.       *)
NoneStuck ==
  (\A o \in FoodOrder : ~Food!Busy(o)) /\ (\A o \in GroceryOrder : Grocery!Resting(o)) =>
    \A p \in Partners :
      Exists(p) /\ ~pool[p].isAvailable => Food!OnOrders(p) \cup Grocery!OnOrders(p) # {}
=============================================================================
