------------------------------- MODULE Wallet -------------------------------
(* WalletService (apps/api/src/wallet/wallet.service.ts): credit, debit and  *)
(* topUp, as called by any number of concurrent requests.                    *)
(*                                                                           *)
(* A request is suspended at every await, so each action below is what runs  *)
(* between two awaits.  The two statements of a $transaction are separate    *)
(* actions: the first takes the row lock of the wallet and computes a value  *)
(* nobody else sees, the second writes the WalletTransaction row and commits *)
(* both.  Postgres re-reads the row after it waited for the lock, so the     *)
(* decrement starts from the committed balance, never from the value read    *)
(* before the transaction.  A crash rolls the transaction back.              *)
(* A definition headed "Slip:" is no part of the model: it is a plausible    *)
(* mistake in the code it precedes, one that the properties have to notice.  *)
EXTENDS Integers

CONSTANTS Users,       \* the owners of wallets
          Amounts,     \* the amounts a call may be made with
          Workers,     \* the requests that may be in flight at once
          DailyCap,    \* dailyCap of topUp, in the unit of Amounts
          MaxCredits   \* bound: no new credit is asked for beyond this total

ASSUME AmountsAreNat == Amounts \subseteq Nat
ASSUME BoundsAreNat == DailyCap \in Nat /\ MaxCredits \in Nat

None == "none"
ASSUME NoneIsNoWorker == None \notin Workers

VARIABLES balance,   \* Wallet.balance, committed
          credits,   \* the sum of the committed CREDIT rows
          debits,    \* the sum of the committed DEBIT rows
          today,     \* the sum of the "Wallet top-up" rows of the last 24 hours
          lock,      \* the request whose transaction holds the wallet's row
          call       \* what each request is doing

vars == <<balance, credits, debits, today, lock, call>>

Idle == [at |-> "idle"]
(* draft is the balance the open transaction has computed and not committed. *)
Calls == [at : {"update", "check", "row"}, kind : {"credit", "debit", "topup"},
          user : Users, amount : Amounts, draft : Int]

TypeOK == /\ balance \in [Users -> Nat]
          /\ credits \in [Users -> Nat]
          /\ debits \in [Users -> Nat]
          /\ today \in [Users -> Nat]
          /\ lock \in [Users -> Workers \cup {None}]
          /\ call \in [Workers -> Calls \cup {Idle}]

Init == /\ balance = [u \in Users |-> 0]
        /\ credits = [u \in Users |-> 0]
        /\ debits = [u \in Users |-> 0]
        /\ today = [u \in Users |-> 0]
        /\ lock = [u \in Users |-> None]
        /\ call = [w \in Workers |-> Idle]

Committed == <<balance, credits, debits, today>>

Start(w, kind, u, a) ==
  /\ call[w] = Idle
  /\ call' = [call EXCEPT ![w] = [at |-> "update", kind |-> kind, user |-> u,
                                  amount |-> a, draft |-> 0]]
  /\ UNCHANGED <<Committed, lock>>

(* A caller asks for a credit: a refund, a referral reward, redeemed points. *)
CreditStart(w, u, a) == /\ credits[u] + a <= MaxCredits
                        /\ Start(w, "credit", u, a)

(* The balance check before the transaction, on a value that may be stale;   *)
(* when it fails the call throws and nothing has happened.                   *)
DebitStart(w, u, a) == /\ a <= balance[u]
                       /\ Start(w, "debit", u, a)

(* topUp adds up the rows of the last day, checks the cap, then credits.     *)
TopUpStart(w, u, a) == /\ a > 0
                       /\ today[u] + a <= DailyCap
                       /\ credits[u] + a <= MaxCredits
                       /\ Start(w, "topup", u, a)

(* The balance an open transaction leaves.                                  *)
Moved(c) == IF c.kind = "debit" THEN balance[c.user] - c.amount
                                ELSE balance[c.user] + c.amount

(* Slip: the new balance is computed from a row nobody has locked.           *)
UpdateUnlocked(w) ==
  LET c == call[w] IN
  /\ c.at = "update"
  /\ lock' = [lock EXCEPT ![c.user] = w]
  /\ call' = [call EXCEPT ![w] = [at |-> IF c.kind = "debit" THEN "check" ELSE "row",
                                  kind |-> c.kind, user |-> c.user,
                                  amount |-> c.amount, draft |-> Moved(c)]]
  /\ UNCHANGED Committed

(* The UPDATE of the transaction: it takes the row lock.                     *)
Update(w) ==
  LET c == call[w] IN
  /\ c.at = "update"
  /\ lock[c.user] = None
  /\ lock' = [lock EXCEPT ![c.user] = w]
  /\ call' = [call EXCEPT ![w] = [at |-> IF c.kind = "debit" THEN "check" ELSE "row",
                                  kind |-> c.kind, user |-> c.user,
                                  amount |-> c.amount, draft |-> Moved(c)]]
  /\ UNCHANGED Committed

(* End of a transaction without effect: a throw inside it, or a crash.       *)
Rollback(w) == /\ call' = [call EXCEPT ![w] = Idle]
               /\ lock' = [u \in Users |-> IF lock[u] = w THEN None ELSE lock[u]]
               /\ UNCHANGED Committed

(* The re-check of the decremented balance inside the transaction.           *)
CheckFails(w) == /\ call[w].at = "check"
                 /\ call[w].draft < 0
                 /\ Rollback(w)

(* Slip: no re-check, the balance read before the transaction is trusted.    *)
CheckSkipped(w) == /\ call[w].at = "check"
                   /\ call' = [call EXCEPT ![w].at = "row"]
                   /\ UNCHANGED <<Committed, lock>>

CheckPasses(w) == /\ call[w].at = "check"
                  /\ call[w].draft >= 0
                  /\ call' = [call EXCEPT ![w].at = "row"]
                  /\ UNCHANGED <<Committed, lock>>

(* The WalletTransaction row is written and the transaction commits.         *)
Commit(w) ==
  LET c == call[w]
      Sum(f, yes) == IF yes THEN [f EXCEPT ![c.user] = @ + c.amount] ELSE f
  IN
  /\ c.at = "row"
  /\ balance' = [balance EXCEPT ![c.user] = c.draft]
  /\ credits' = Sum(credits, c.kind # "debit")
  /\ debits' = Sum(debits, c.kind = "debit")
  /\ today' = Sum(today, c.kind = "topup")
  /\ lock' = [lock EXCEPT ![c.user] = None]
  /\ call' = [call EXCEPT ![w] = Idle]

(* The process serving the request dies: Postgres rolls back what is open.   *)
Crash(w) == call[w] # Idle /\ Rollback(w)

(* The top-ups of a wallet leave the window of 24 hours.                     *)
DayPasses(u) == /\ today[u] > 0
                /\ today' = [today EXCEPT ![u] = 0]
                /\ UNCHANGED <<balance, credits, debits, lock, call>>

Step(w) == Update(w) \/ CheckFails(w) \/ CheckPasses(w) \/ Commit(w)

Next == \/ \E w \in Workers, u \in Users, a \in Amounts :
             CreditStart(w, u, a) \/ DebitStart(w, u, a) \/ TopUpStart(w, u, a)
        \/ \E w \in Workers : Step(w) \/ Crash(w)
        \/ \E u \in Users : DayPasses(u)

Spec == Init /\ [][Next]_vars

(***************************************************************************)
(* Properties.                                                             *)
(***************************************************************************)

(* The balance of a wallet is what its rows add up to, and never negative,   *)
(* however many orders, tips, refunds and top-ups run against it at once and *)
(* wherever a process dies: the re-check inside debit's transaction.         *)
Balanced == \A u \in Users : balance[u] >= 0 /\ balance[u] + debits[u] = credits[u]

(* What an open transaction knows: it holds the row of its wallet, and the   *)
(* balance it has computed is the committed one moved by its own amount.     *)
InTransaction(w) == call[w] # Idle /\ call[w].at \in {"check", "row"}
Isolated == \A w \in Workers :
              InTransaction(w) => /\ lock[call[w].user] = w
                                  /\ call[w].draft = Moved(call[w])
                                  /\ call[w].at = "row" => call[w].draft >= 0

(* topUp "is capped per-day": the top-ups of a day stay within dailyCap.     *)
TopUpCapped == \A u \in Users : today[u] <= DailyCap

(* The wallet implements its ledger: each commit is one credit or one        *)
(* covered debit, every other step is invisible.                             *)
Ledger == INSTANCE WalletLedger
ImplementsLedger == Ledger!Spec
=============================================================================
