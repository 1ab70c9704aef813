---------------------------- MODULE MCPlacement -----------------------------
(* Three grocery orders that want the last units of a product, two of them   *)
(* of one customer, who also places a food order; all with one coupon.       *)
EXTENDS Placement, TLC

CONSTANTS a1, a2, a3, a4, g1, g2, u1, u2, w1, w2

CustomerOf == [a \in Attempts |-> IF a = a4 THEN u2 ELSE u1]
(* Two of the grocery orders put the product on two lines.                   *)
LinesOf == [a \in Attempts |-> [g \in Goods |->
              CASE a = a1 /\ g = g2 -> [total |-> 2, largest |-> 2]
                [] a = a2 /\ g = g1 -> [total |-> 2, largest |-> 2]
                [] a \in {a3, a4} /\ g = g1 -> [total |-> 3, largest |-> 2]
                [] OTHER -> [total |-> 0, largest |-> 0]]]
PriceOf == [g \in Goods |-> IF g = g1 THEN 1 ELSE 3]
TwoEach == [g \in Goods |-> 2]
LimitsTried == {1, 9}
Symmetry == Permutations(Workers)
=============================================================================
