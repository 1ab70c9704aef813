------------------------------ MODULE MCGrocery -----------------------------
(* Two grocery orders that want the same product: one request at a time on   *)
(* an order, every kind of request, one of them dies.                        *)
EXTENDS GroceryOrders, TLC

CONSTANTS o1, o2, g1, g2, p1, p2, w1, w2

Wants == [o \in Orders |-> IF o = o1 THEN {g1, g2} ELSE {g1}]
OneEach == [g \in Products |-> 1]
Symmetry == Permutations(Partners) \cup Permutations(Workers)
=============================================================================
