---------------------------- MODULE WalletProofs ----------------------------
(* Wallet for any users, amounts, number of concurrent requests and bounds:  *)
(* its types, its balance and that it implements WalletLedger.               *)
EXTENDS Wallet, TLAPS

(* The balance is the sum of the rows, and no transaction acts on a balance  *)
(* that another one may change under it.                                     *)
IInv == TypeOK /\ Isolated /\ Balanced

LEMMA InitIInv == Init => IInv
BY NoneIsNoWorker DEF Init, IInv, TypeOK, Isolated, InTransaction, Balanced, Idle, Calls

(* A request that starts has opened no transaction yet.                      *)
LEMMA StartIInv ==
  ASSUME IInv, NEW w \in Workers, NEW u \in Users, NEW a \in Amounts,
         NEW k \in {"credit", "debit", "topup"}, Start(w, k, u, a)
  PROVE  IInv'
<1>1. TypeOK'
  BY DEF IInv, TypeOK, Start, Committed, Calls, Idle
<1>2. Balanced'
  BY DEF IInv, Balanced, Start, Committed
<1>3. Isolated'
  BY DEF IInv, TypeOK, Isolated, InTransaction, Moved, Start, Committed, Calls, Idle
<1> QED BY <1>1, <1>2, <1>3 DEF IInv

(* Taking the row lock keeps every other transaction off this wallet.        *)
LEMMA UpdateIInv ==
  ASSUME IInv, NEW w \in Workers, Update(w)
  PROVE  IInv'
<1>1. call[w] \in Calls
  BY DEF IInv, TypeOK, Update, Idle
<1>2. /\ call[w].user \in Users /\ call[w].amount \in Nat
      /\ balance[call[w].user] \in Nat
  BY <1>1, AmountsAreNat DEF IInv, TypeOK, Calls
<1> DEFINE next == [at |-> IF call[w].kind = "debit" THEN "check" ELSE "row",
                    kind |-> call[w].kind, user |-> call[w].user,
                    amount |-> call[w].amount, draft |-> Moved(call[w])]
<1>3. call' = [call EXCEPT ![w] = next]
  BY DEF Update
<1>4. next \in Calls
  BY <1>1, <1>2 DEF Calls, Moved
<1>5. TypeOK'
  BY <1>2, <1>3, <1>4 DEF IInv, TypeOK, Update, Committed
<1>6. Balanced'
  BY DEF IInv, Balanced, Update, Committed
<1>7. Isolated'
  BY <1>2, <1>3, <1>4, NoneIsNoWorker
  DEF IInv, TypeOK, Isolated, InTransaction, Moved, Update, Committed, Calls, Idle
<1> QED BY <1>5, <1>6, <1>7 DEF IInv

(* A rollback leaves the tables as they were.                                *)
LEMMA RollbackIInv ==
  ASSUME IInv, NEW w \in Workers, Rollback(w)
  PROVE  IInv'
<1>1. TypeOK'
  BY DEF IInv, TypeOK, Rollback, Committed, Idle
<1>2. Balanced'
  BY DEF IInv, Balanced, Rollback, Committed
<1>3. Isolated'
  BY DEF IInv, TypeOK, Isolated, InTransaction, Moved, Rollback, Committed, Calls, Idle
<1> QED BY <1>1, <1>2, <1>3 DEF IInv

LEMMA CheckPassesIInv ==
  ASSUME IInv, NEW w \in Workers, CheckPasses(w)
  PROVE  IInv'
<1>1. call[w] \in Calls
  BY DEF IInv, TypeOK, CheckPasses, Idle
<1>2. TypeOK'
  BY <1>1 DEF IInv, TypeOK, CheckPasses, Committed, Calls, Idle
<1>3. Balanced'
  BY DEF IInv, Balanced, CheckPasses, Committed
<1>4. Isolated'
  BY <1>1 DEF IInv, TypeOK, Isolated, InTransaction, Moved, CheckPasses, Committed, Calls, Idle
<1> QED BY <1>2, <1>3, <1>4 DEF IInv

(* The facts every commit rests on: the lock is its own, so the balance it   *)
(* writes is the committed one moved by its amount, and it is not negative.  *)
LEMMA CommitFacts ==
  ASSUME IInv, NEW w \in Workers, Commit(w)
  PROVE  /\ call[w] \in Calls
         /\ lock[call[w].user] = w
         /\ call[w].draft = Moved(call[w])
         /\ call[w].draft \in Nat
<1>1. call[w] \in Calls
  BY DEF IInv, TypeOK, Commit, Idle
<1> QED BY <1>1 DEF IInv, TypeOK, Isolated, InTransaction, Commit, Calls, Idle

LEMMA CommitIInv ==
  ASSUME IInv, NEW w \in Workers, Commit(w)
  PROVE  IInv'
<1> DEFINE c == call[w]
<1>1. /\ c \in Calls
      /\ lock[c.user] = w
      /\ c.draft = Moved(c)
      /\ c.draft \in Nat
  BY CommitFacts
<1>2. c.user \in Users /\ c.amount \in Nat
  BY <1>1, AmountsAreNat DEF Calls
<1>3. TypeOK'
  BY <1>1, <1>2 DEF IInv, TypeOK, Commit, Idle
<1>4. Balanced'
  BY <1>1, <1>2 DEF IInv, TypeOK, Balanced, Moved, Commit
<1>5. Isolated'
  BY <1>1, <1>2 DEF IInv, TypeOK, Isolated, InTransaction, Moved, Commit, Calls, Idle
<1> QED BY <1>3, <1>4, <1>5 DEF IInv

LEMMA NextIInv == IInv /\ [Next]_vars => IInv'
<1> SUFFICES ASSUME IInv, [Next]_vars PROVE IInv'
  OBVIOUS
<1>1. ASSUME NEW w \in Workers, NEW u \in Users, NEW a \in Amounts,
             CreditStart(w, u, a) \/ DebitStart(w, u, a) \/ TopUpStart(w, u, a)
      PROVE  IInv'
  BY <1>1, StartIInv DEF CreditStart, DebitStart, TopUpStart
<1>2. ASSUME NEW w \in Workers, Step(w) \/ Crash(w)
      PROVE  IInv'
  BY <1>2, UpdateIInv, RollbackIInv, CheckPassesIInv, CommitIInv DEF Step, CheckFails, Crash
<1>3. ASSUME NEW u \in Users, DayPasses(u)
      PROVE  IInv'
  BY <1>3 DEF IInv, TypeOK, Isolated, InTransaction, Balanced, Moved, DayPasses
<1>4. CASE UNCHANGED vars
  BY <1>4 DEF IInv, TypeOK, Isolated, InTransaction, Balanced, Moved, vars
<1> QED BY <1>1, <1>2, <1>3, <1>4 DEF Next

(* Every variable keeps its type: in particular no committed balance is ever *)
(* negative, which wallet.service.ts checks inside debit's transaction.      *)
THEOREM TypeCorrect == Spec => []TypeOK
<1>1. IInv => TypeOK
  BY DEF IInv
<1> QED BY InitIInv, NextIInv, <1>1, PTL DEF Spec

(* The balance of every wallet is the sum of its rows and never negative.    *)
THEOREM BalancedAlways == Spec => []Balanced
<1>1. IInv => Balanced
  BY DEF IInv
<1> QED BY InitIInv, NextIInv, <1>1, PTL DEF Spec

(* Between the update and the commit of a transaction nobody else moves its  *)
(* wallet: what it writes is the committed balance moved by its own amount.  *)
THEOREM TransactionsIsolated == Spec => []Isolated
<1>1. IInv => Isolated
  BY DEF IInv
<1> QED BY InitIInv, NextIInv, <1>1, PTL DEF Spec

(* The initial state of the wallet is one of the ledger.                     *)
LEMMA InitLedger == Init => Ledger!Init
BY DEF Init, Ledger!Init

(* A commit is one credit or one covered debit of the ledger; no other step  *)
(* moves money.                                                              *)
LEMMA NextLedger == IInv /\ [Next]_vars => [Ledger!Next]_(Ledger!vars)
<1> SUFFICES ASSUME IInv, [Next]_vars PROVE [Ledger!Next]_(Ledger!vars)
  OBVIOUS
<1> USE DEF Ledger!vars
<1>1. ASSUME NEW w \in Workers, NEW u \in Users, NEW a \in Amounts,
             CreditStart(w, u, a) \/ DebitStart(w, u, a) \/ TopUpStart(w, u, a)
      PROVE  UNCHANGED Ledger!vars
  BY <1>1 DEF CreditStart, DebitStart, TopUpStart, Start, Committed
<1>2. ASSUME NEW w \in Workers, Update(w) \/ CheckFails(w) \/ CheckPasses(w) \/ Crash(w)
      PROVE  UNCHANGED Ledger!vars
  BY <1>2 DEF Update, CheckFails, CheckPasses, Crash, Rollback, Committed
<1>3. ASSUME NEW w \in Workers, Commit(w)
      PROVE  Ledger!Next
  <2> DEFINE c == call[w]
  <2>1. /\ c \in Calls
        /\ c.draft = Moved(c)
        /\ c.draft \in Nat
    BY <1>3, CommitFacts
  <2>2. c.user \in Users /\ c.amount \in Amounts /\ c.amount \in Nat
    BY <2>1, AmountsAreNat DEF Calls
  <2>3. balance[c.user] \in Nat
    BY <2>2 DEF IInv, TypeOK
  <2>4. CASE c.kind = "debit"
    <3>1. Ledger!Debit(c.user, c.amount)
      BY <1>3, <2>1, <2>2, <2>3, <2>4 DEF Commit, Moved, Ledger!Debit
    <3> QED BY <3>1, <2>2 DEF Ledger!Next
  <2>5. CASE c.kind # "debit"
    <3>1. Ledger!Credit(c.user, c.amount)
      BY <1>3, <2>1, <2>2, <2>3, <2>5 DEF Commit, Moved, Ledger!Credit
    <3> QED BY <3>1, <2>2 DEF Ledger!Next
  <2> QED BY <2>4, <2>5
<1>4. ASSUME NEW u \in Users, DayPasses(u)
      PROVE  UNCHANGED Ledger!vars
  BY <1>4 DEF DayPasses
<1>5. CASE UNCHANGED vars
  BY <1>5 DEF vars
<1> QED BY <1>1, <1>2, <1>3, <1>4, <1>5 DEF Next, Step

(* WalletService implements the ledger it promises, for any number of        *)
(* concurrent calls and with crashes at any point.                           *)
THEOREM WalletImplementsLedger == Spec => ImplementsLedger
BY InitIInv, NextIInv, InitLedger, NextLedger, PTL
DEF Spec, ImplementsLedger, Ledger!Spec
=============================================================================
