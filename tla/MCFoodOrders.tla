---------------------------- MODULE MCFoodOrders ----------------------------
(* Instances of FoodOrders for TLC: two orders, so that two of them compete  *)
(* for a rider, two riders, so that one can replace the other.               *)
EXTENDS FoodOrders, TLC

CONSTANTS o1, o2, p1, p2

AllWallet == [o \in Orders |-> "WALLET"]
AllCash   == [o \in Orders |-> "COD"]
AllOnline == [o \in Orders |-> "ONLINE"]
Mixed     == [o \in Orders |-> IF o = o1 THEN "WALLET" ELSE "ONLINE"]

Serial == {"status", "cancel", "assign", "reject", "pay", "payFailed", "remove"}
Racing == {"status", "cancel", "assign", "reject"}
Dispatch == {"status", "cancel", "accept", "reject", "online", "suspend"}
Deliveries == {"status", "cancel", "reject"}
StatusOnly == {"status"}
CancelOnly == {"cancel"}
PayAndCancel == {"pay", "cancel"}
Manual == {"status", "assign"}
Answers == {"status", "accept", "reject"}

Symmetry == Permutations(Partners) \cup Permutations(Workers)
=============================================================================
