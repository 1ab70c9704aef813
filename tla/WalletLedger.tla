---------------------------- MODULE WalletLedger ----------------------------
(* What the wallet promises its callers, whatever its implementation does:   *)
(* money moves in single steps, every step is recorded as a credit or as a   *)
(* debit row, and a debit is taken only when the balance covers it.          *)
EXTENDS Naturals

CONSTANTS Users,    \* the owners of wallets
          Amounts   \* the amounts a single credit or debit may have

VARIABLES balance,  \* Wallet.balance
          credits,  \* the sum of the CREDIT rows of a wallet
          debits    \* the sum of the DEBIT rows of a wallet

vars == <<balance, credits, debits>>

Init == /\ balance = [u \in Users |-> 0]
        /\ credits = [u \in Users |-> 0]
        /\ debits  = [u \in Users |-> 0]

Credit(u, a) == /\ balance' = [balance EXCEPT ![u] = @ + a]
                /\ credits' = [credits EXCEPT ![u] = @ + a]
                /\ UNCHANGED debits

Debit(u, a) == /\ a <= balance[u]
               /\ balance' = [balance EXCEPT ![u] = @ - a]
               /\ debits' = [debits EXCEPT ![u] = @ + a]
               /\ UNCHANGED credits

Next == \E u \in Users, a \in Amounts : Credit(u, a) \/ Debit(u, a)

Spec == Init /\ [][Next]_vars
=============================================================================
