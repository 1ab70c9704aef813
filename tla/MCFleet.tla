------------------------------- MODULE MCFleet ------------------------------
(* A food and a grocery order that compete for two riders; two rides, one of *)
(* them paid from the wallet, that compete for two drivers.                  *)
EXTENDS Fleet, TLC

CONSTANTS f1, o1, g1, p1, p2, w1, v1, r1, r2, d1, d2, x1, x2

Wants == [o \in GroceryOrder |-> {g1}]
OneEach == [g \in Products |-> 1]
Dispatch == {"status", "cancel", "reject", "accept", "online"}
Symmetry == Permutations(Partners) \cup Permutations(Drivers) \cup Permutations(RideWorkers)
=============================================================================
