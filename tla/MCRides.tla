------------------------------- MODULE MCRides ------------------------------
(* Two rides, one of them paid from the wallet, two drivers, two requests at *)
(* a time.                                                                   *)
EXTENDS Rides, TLC

CONSTANTS r1, r2, d1, d2, w1, w2

Symmetry == Permutations(Drivers) \cup Permutations(Workers)
=============================================================================
