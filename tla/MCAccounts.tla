----------------------------- MODULE MCAccounts -----------------------------
(* Two requests at a time; two browsers of one user, one new e-mail address, *)
(* three addresses and orders of a customer, two admins, one throttled key.  *)
EXTENDS Accounts, TLC

Symmetry == Permutations(Browsers) \cup Permutations(Workers)
=============================================================================
