------------------------------ MODULE MCWallet ------------------------------
(* Instances of Wallet for TLC: few wallets, few concurrent requests.        *)
EXTENDS Wallet, TLC

Symmetry == Permutations(Users) \cup Permutations(Workers)
=============================================================================
