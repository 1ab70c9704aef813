------------------------- MODULE GroceryOrdersProofs ------------------------
(* Grocery orders for any customers, products, stock, riders and crashes:    *)
(* cancelled goods are back on the shelf, and, when no two requests on one   *)
(* order overlap, orders follow the life cycle, are paid back once, and the  *)
(* shelf misses what the orders that stand have taken.                       *)
EXTENDS GroceryOrders, Sequences, FiniteSetTheorems, TLAPS

Stages == {"insert", "restock", "reread", "write", "end", "refund", "credit", "release",
           "loyalty", "find", "claim", "attach", "unassign", "mark", "accept", "free", "clear"}
Jobs == [at : Stages, o : Orders, to : Statuses \cup {None}, seen : Rows, left : SUBSET Products,
         partner : Partners \cup {None}, excluded : Partners \cup {None}, ranked : SUBSET Partners]

RowsTyped ==
  /\ order \in [Orders -> Rows]
  /\ history \in [Orders -> SUBSET Statuses]
  /\ returned \in [Orders -> [Products -> Nat]]
  /\ refunded \in [Orders -> Nat]
  /\ req \in [Workers -> Jobs \cup {Idle}]

(* The goods in S that order o has taken are back.                           *)
Back(o, S) == \A p \in S : returned[o][p] >= 1

(* A cancellation puts everything back before it looks at the status.        *)
Restocking(r) ==
  /\ r.at \in {"restock", "reread", "write"} => r.to \in Statuses /\ Placed(r.o)
  /\ r.to = "CANCELLED" =>
       /\ r.at = "restock" => r.left \subseteq Lines[r.o] /\ Back(r.o, Lines[r.o] \ r.left)
       /\ r.at \in {"reread", "write"} => Back(r.o, Lines[r.o])

(* One request at a time on an order: what it has read still holds.          *)
Refunds(r) == r.at \in {"refund", "credit"}
Current(r) ==
  /\ r.at = "insert" => ~Placed(r.o)
  /\ r.at = "write" => r.to \in Allowed[order[r.o].status] /\ r.seen.paid = order[r.o].paid
  /\ Refunds(r) => r.o \in OnWallet /\ Cancelled(r.o) /\ refunded[r.o] = 0
                   /\ r.to = "CANCELLED"
Alone == \A v, w \in Workers : Running(v) /\ Running(w) /\ req[v].o = req[w].o => v = w

(* The money of an order is settled, unless a request is about to or died.   *)
Refunding(o) == \E w \in Workers : Running(w) /\ req[w].o = o /\ Refunds(req[w])
Consistent(o) ==
  /\ Cancelled(o) <=> order[o].status \in {"CANCELLED", "REFUNDED"}
  /\ ~Cancelled(o) => refunded[o] = 0
  /\ Placed(o) /\ ~Cancelled(o) => (order[o].paid = "PAID" <=> o \in OnWallet)
  /\ Cancelled(o) => \/ Refunding(o) \/ o \in dead
                     \/ refunded[o] = 1 <=> o \in OnWallet

Serial == /\ Alone
          /\ \A w \in Workers : Running(w) => Current(req[w])
          /\ \A o \in Orders : Consistent(o)
IInv == /\ RowsTyped
        /\ CancelledRestocked
        /\ \A w \in Workers : Running(w) => Restocking(req[w])
        /\ ~SameOrderOverlap => Serial

LEMMA InitIInv == Init => IInv
<1> SUFFICES ASSUME Init PROVE IInv
  OBVIOUS
<1>1. RowsTyped
  BY DEF Init, NoRequests, RowsTyped, Unplaced, Rows
<1>2. \A w \in Workers : ~Running(w)
  BY DEF Init, NoRequests, Running, At, Idle
<1>3. \A o \in Orders : ~Cancelled(o) /\ ~Placed(o) /\ order[o].status = "none" /\ refunded[o] = 0
  BY DEF Init, Cancelled, Placed, Unplaced
<1>4. CancelledRestocked
  BY <1>3 DEF CancelledRestocked
<1>5. Serial
  BY <1>2, <1>3 DEF Serial, Alone, Consistent
<1> QED BY <1>1, <1>2, <1>4, <1>5 DEF IInv

(* A step of one request: it moves rows of its own order only, and leaves    *)
(* them as the invariant wants them.                                         *)
LEMMA Moves ==
  ASSUME IInv, NEW w \in Workers, NEW o \in Orders, NEW job \in Jobs \cup {Idle},
         req' = [req EXCEPT ![w] = job], RowsTyped',
         Running(w) => req[w].o = o,
         ~SameOrderOverlap => \A v \in Workers \ {w} : Running(v) => req[v].o # o,
         job # Idle => /\ job.o = o /\ Restocking(job)'
                       /\ ~SameOrderOverlap => Current(job)',
         \A q \in Orders \ {o} : /\ order'[q] = order[q] /\ history'[q] = history[q]
                                 /\ refunded'[q] = refunded[q],
         \A q \in Orders, p \in Products : returned'[q][p] >= returned[q][p],
         dead \subseteq dead', Placed(o) => Placed(o)',
         Cancelled(o)' => Back(o, Lines[o])',
         ~SameOrderOverlap => Consistent(o)'
  PROVE  IInv'
<1>1. req'[w] = job /\ \A v \in Workers \ {w} : req'[v] = req[v]
  BY DEF IInv, RowsTyped
<1>2. ASSUME NEW v \in Workers, Running(v)'
      PROVE  /\ v = w => job # Idle
             /\ v # w => Running(v) /\ req'[v] = req[v]
             /\ req'[v] \in Jobs
  BY <1>1, <1>2 DEF RowsTyped, Running, At, Idle
<1>3. ASSUME NEW r \in Jobs, Restocking(r) PROVE Restocking(r)'
  <2>1. \A q \in Orders : Lines[q] \subseteq Products
    BY OrdersHaveLines
  <2>2. \A q \in Orders, p \in Products : returned[q][p] \in Nat /\ returned'[q][p] \in Nat
    BY DEF IInv, RowsTyped
  <2>3. \A q \in Orders, S \in SUBSET Products : Back(q, S) => Back(q, S)'
    BY <2>2 DEF Back
  <2>4. r.o \in Orders
    BY DEF Jobs
  <2>5. \A q \in Orders : Placed(q) => Placed(q)'
    BY DEF Placed
  <2> QED BY <1>3, <2>1, <2>3, <2>4, <2>5 DEF Restocking
<1>4. \A v \in Workers : Running(v)' => Restocking(req[v])'
  <2> SUFFICES ASSUME NEW v \in Workers, Running(v)' PROVE Restocking(req[v])'
    OBVIOUS
  <2>1. PICK r \in Jobs : r = req'[v]
    BY <1>2
  <2>2. Restocking(r)'
    BY <1>1, <1>2, <1>3, <2>1 DEF IInv
  <2> QED BY <2>1, <2>2 DEF Restocking, Back, Placed
<1>5. CancelledRestocked'
  <2> SUFFICES ASSUME NEW q \in Orders, Cancelled(q)', NEW p \in Lines[q]
               PROVE  returned'[q][p] >= 1
    BY DEF CancelledRestocked
  <2>1. CASE q = o
    BY <2>1 DEF Back
  <2>2. CASE q # o
    <3>1. p \in Products
      BY OrdersHaveLines
    <3>2. returned[q][p] >= 1 /\ returned[q][p] \in Nat /\ returned'[q][p] \in Nat
      BY <2>2, <3>1 DEF Cancelled, IInv, CancelledRestocked, RowsTyped
    <3> QED BY <3>1, <3>2
  <2> QED BY <2>1, <2>2
<1>6. ASSUME ~SameOrderOverlap PROVE Serial'
  <2>1. Serial
    BY <1>6 DEF IInv
  <2>2. Alone'
    BY <1>1, <1>2, <1>6, <2>1 DEF Serial, Alone
  <2>3. ASSUME NEW v \in Workers, Running(v)' PROVE Current(req[v])'
    <3>1. PICK r \in Jobs : r = req'[v]
      BY <1>2, <2>3
    <3>2. Current(r)'
      <4>1. CASE v = w
        BY <1>1, <1>2, <1>6, <2>3, <3>1, <4>1
      <4>2. CASE v # w
        <5>1. Current(r) /\ r.o \in Orders \ {o}
          BY <1>2, <1>6, <2>1, <2>3, <3>1, <4>2 DEF Serial, Jobs
        <5> QED BY <5>1 DEF Current, Placed, Cancelled
      <4> QED BY <4>1, <4>2
    <3> QED BY <3>1, <3>2 DEF Current, Refunds, Placed, Cancelled
  <2>4. ASSUME NEW q \in Orders PROVE Consistent(q)'
    <3>1. CASE q = o
      BY <1>6, <3>1
    <3>2. CASE q # o
      <4>1. Refunding(q) => Refunding(q)'
        BY <1>1, <3>2 DEF Refunding, Running, At, Refunds
      <4>2. Consistent(q)
        BY <2>1 DEF Serial
      <4> QED BY <3>2, <4>1, <4>2 DEF Consistent, Placed, Cancelled
    <3> QED BY <3>1, <3>2
  <2> QED BY <2>2, <2>3, <2>4 DEF Serial
<1> QED BY <1>4, <1>5, <1>6 DEF IInv

(* A step that moves no row of any order.                                    *)
LEMMA Quiet ==
  ASSUME IInv, NEW w \in Workers, NEW o \in Orders, NEW job \in Jobs \cup {Idle},
         req' = [req EXCEPT ![w] = job], UNCHANGED <<order, history, returned, refunded, dead>>,
         Running(w) => req[w].o = o /\ ~Refunds(req[w]),
         ~SameOrderOverlap => \A v \in Workers \ {w} : Running(v) => req[v].o # o,
         job # Idle => /\ job.o = o /\ Restocking(job)
                       /\ ~SameOrderOverlap => Current(job)
  PROVE  IInv'
<1>1. RowsTyped'
  BY DEF IInv, RowsTyped
<1>2. job # Idle => Restocking(job)' /\ (~SameOrderOverlap => Current(job)')
  BY DEF Restocking, Back, Current, Placed, Cancelled
<1>0. Placed(o) => Placed(o)'
  BY DEF Placed
<1>3. \A q \in Orders, p \in Products : returned'[q][p] >= returned[q][p]
  BY DEF IInv, RowsTyped
<1>4. Cancelled(o)' => Back(o, Lines[o])'
  BY DEF IInv, CancelledRestocked, Cancelled, Back
<1>5. ASSUME ~SameOrderOverlap PROVE Consistent(o)'
  <2>1. Consistent(o)
    BY <1>5 DEF IInv, Serial
  <2>2. Refunding(o) => Refunding(o)'
    <3>1. \A v \in Workers \ {w} : req'[v] = req[v]
      BY DEF IInv, RowsTyped
    <3>2. \A v \in Workers : v # w /\ Running(v) => Running(v)'
      BY <3>1 DEF Running, At
    <3> QED BY <3>1, <3>2 DEF Refunding
  <2> QED BY <2>1, <2>2 DEF Consistent, Placed, Cancelled
<1> QED BY <1>0, <1>1, <1>2, <1>3, <1>4, <1>5, Moves

LEMMA AtJob ==
  ASSUME IInv, NEW w \in Workers, Running(w)
  PROVE  /\ req[w] \in Jobs /\ req[w].o \in Orders /\ Restocking(req[w])
         /\ ~SameOrderOverlap => Current(req[w])
         /\ ~SameOrderOverlap => \A v \in Workers \ {w} : Running(v) => req[v].o # req[w].o
BY DEF IInv, RowsTyped, Serial, Alone, Jobs, Running, At, Idle

(* What a request does after it has done with the rows of the order.         *)
Late == {"end", "release", "loyalty", "find", "claim", "attach", "unassign", "mark", "accept",
         "free", "clear"}

LEMMA GoesLate ==
  ASSUME IInv, NEW w \in Workers, Running(w), ~Refunds(req[w]), NEW s \in Late, Go(w, s),
         UNCHANGED <<order, history, returned, refunded, dead>>
  PROVE  IInv'
<1>1. PICK o \in Orders : o = req[w].o
  BY AtJob
<1>2. PICK job : job = [req[w] EXCEPT !.at = s]
  OBVIOUS
<1>3. req[w] \in Jobs /\ s \in Stages
  BY AtJob DEF Late, Stages
<1>4. job \in Jobs /\ job.at = s /\ job.o = o
  BY <1>1, <1>2, <1>3 DEF Jobs
<1>5. Restocking(job) /\ Current(job)
  BY <1>4 DEF Restocking, Current, Late, Refunds
<1>6. req' = [req EXCEPT ![w] = job]
  BY <1>2 DEF Go, Become
<1> QED BY <1>1, <1>4, <1>5, <1>6, AtJob, Quiet

LEMMA Ends ==
  ASSUME IInv, NEW w \in Workers, Running(w), ~Refunds(req[w]), End(w),
         UNCHANGED <<order, history, returned, refunded, dead>>
  PROVE  IInv'
<1>1. PICK o \in Orders : o = req[w].o
  BY AtJob
<1>2. PICK job : job = Idle
  OBVIOUS
<1>3. req' = [req EXCEPT ![w] = job]
  BY <1>2 DEF End, Become
<1> QED BY <1>1, <1>2, <1>3, AtJob, Quiet

LEMMA JobType ==
  ASSUME IInv, NEW s \in Stages, NEW o \in Orders, NEW to \in Statuses \cup {None},
         NEW p \in Partners \cup {None}, NEW x \in Partners \cup {None}
  PROVE  Job(s, o, to, p, x) \in Jobs
<1>1. Lines[o] \in SUBSET Products /\ order[o] \in Rows
  BY OrdersHaveLines DEF IInv, RowsTyped
<1> QED BY <1>1 DEF Job, Jobs

(* A request arrives: nothing it will rely on has been read yet.             *)
LEMMA Starts ==
  ASSUME IInv, NEW w \in Workers, NEW o \in Orders,
         NEW s \in {"insert", "restock", "reread", "mark", "unassign", "accept", "free"},
         NEW to \in Statuses \cup {None}, NEW p \in Partners \cup {None},
         NEW x \in Partners \cup {None},
         Start(w, Job(s, o, to, p, x)), Free(o),
         s = "insert" => ~Placed(o), s \in {"insert", "reread"} => to # "CANCELLED",
         s \in {"restock", "reread"} => to \in Statuses /\ Placed(o),
         UNCHANGED <<order, history, returned, refunded, dead>>
  PROVE  IInv'
<1>1. PICK job \in Jobs : job = Job(s, o, to, p, x)
  BY JobType DEF Stages
<1>2. job.at = s /\ job.o = o /\ job.to = to /\ job.left = Lines[o]
  BY <1>1 DEF Job
<1>3. Restocking(job) /\ Current(job)
  BY <1>2 DEF Restocking, Back, Current, Refunds
<1>4. req' = [req EXCEPT ![w] = job] /\ ~Running(w)
  BY <1>1 DEF Start, Become, Running, At
<1>5. ~SameOrderOverlap => \A v \in Workers : Running(v) => req[v].o # o
  BY DEF Free, Busy
<1> QED BY <1>2, <1>3, <1>4, <1>5, Quiet

LEMMA ArriveStep ==
  ASSUME IInv, NEW w \in Workers, Arrive(w)
  PROVE  IInv'
<1>1. ASSUME NEW o \in Orders, Create(w, o) PROVE IInv'
  BY <1>1, Starts DEF Create, Free, posts, None, Statuses
<1>2. ASSUME NEW o \in Orders, CancelRequest(w, o) PROVE IInv'
  BY <1>2, Starts DEF CancelRequest, posts, Statuses, Placed
<1>3. ASSUME NEW o \in Orders, NEW to \in Statuses, StatusRequest(w, o, to) PROVE IInv'
  <2>1. CASE to = "CANCELLED"
    BY <1>3, <2>1, Starts DEF StatusRequest, posts
  <2>2. CASE to # "CANCELLED"
    BY <1>3, <2>2, Starts DEF StatusRequest, posts
  <2> QED BY <2>1, <2>2
<1>4. ASSUME NEW o \in Orders, NEW p \in Partners, AssignRequest(w, o, p) PROVE IInv'
  <2>1. PICK s \in {"mark", "unassign"} : Start(w, Job(s, o, None, p, None))
    BY <1>4 DEF AssignRequest
  <2> QED BY <1>4, <2>1, Starts DEF AssignRequest, posts
<1>5. ASSUME NEW o \in Orders, NEW p \in Partners, NEW b \in BOOLEAN, AnswerRequest(w, o, p, b)
      PROVE  IInv'
  <2>1. PICK s \in {"accept", "free"} : Start(w, Job(s, o, None, p, p))
    BY <1>5 DEF AnswerRequest
  <2> QED BY <1>5, <2>1, Starts DEF AnswerRequest, posts
<1> QED BY <1>1, <1>2, <1>3, <1>4, <1>5 DEF Arrive

(***************************************************************************)
(* The statements.                                                         *)
(***************************************************************************)

(* The row is inserted: an order that was none, uncancelled and unrefunded.  *)
LEMMA InsertStep ==
  ASSUME IInv, NEW w \in Workers, Insert(w)
  PROVE  /\ IInv'
         /\ ~SameOrderOverlap => \E o \in Orders : /\ ~Placed(o)
              /\ order' = [order EXCEPT ![o] = order'[o]] /\ order'[o].status = "PENDING"
<1>1. Running(w) /\ req[w].at = "insert"
  BY DEF Insert, Running, At
<1>2. PICK o \in Orders : o = req[w].o
  BY <1>1, AtJob
<1>3. PICK row \in Rows : /\ order' = [order EXCEPT ![o] = row] /\ row.status = "PENDING"
                          /\ row.paid = "PAID" <=> o \in OnWallet
  <2>1. \A d \in {"PAID", "PENDING"} :
          LET row == [Unplaced EXCEPT !.status = "PENDING", !.paid = d]
          IN  row \in Rows /\ row.status = "PENDING" /\ row.paid = d
    BY DEF Unplaced, Rows, Statuses
  <2> QED BY <1>2, <2>1 DEF Insert
<1>4. /\ order'[o] = row /\ \A q \in Orders \ {o} : order'[q] = order[q]
      /\ history'[o] = history[o] \cup {"PENDING"}
      /\ \A q \in Orders \ {o} : history'[q] = history[q]
  BY <1>2, <1>3 DEF Insert, IInv, RowsTyped
<1>5. PICK job : job = Idle
  OBVIOUS
<1>6. req' = [req EXCEPT ![w] = job] /\ UNCHANGED <<returned, refunded, dead>>
  BY <1>5 DEF Insert, End, Become, posts
<1>7. RowsTyped'
  BY <1>2, <1>3, <1>5, <1>6 DEF IInv, RowsTyped, Insert, Statuses
<1>8. Cancelled(o)' => Cancelled(o)
  BY <1>4 DEF Cancelled
<1>9. Cancelled(o)' => Back(o, Lines[o])'
  BY <1>6, <1>8 DEF IInv, CancelledRestocked, Back
<1>10. ASSUME ~SameOrderOverlap PROVE ~Placed(o) /\ Consistent(o)'
  <2>1. ~Placed(o) /\ Consistent(o)
    BY <1>1, <1>2, <1>10, AtJob DEF IInv, Serial, Current
  <2> QED BY <1>3, <1>4, <1>6, <1>8, <2>1 DEF Consistent, Placed
<1>11. \A q \in Orders, p \in Products : returned'[q][p] >= returned[q][p]
  BY <1>6 DEF IInv, RowsTyped
<1>14. Placed(o)'
  BY <1>3, <1>4 DEF Placed
<1>12. IInv'
  BY <1>1, <1>14, <1>2, <1>4, <1>5, <1>6, <1>7, <1>9, <1>10, <1>11, AtJob, Moves
<1> QED BY <1>3, <1>4, <1>10, <1>12

(* One product of the order goes back on the shelf.                          *)
LEMMA RestockStep ==
  ASSUME IInv, NEW w \in Workers, Restock(w)
  PROVE  IInv'
<1>1. Running(w) /\ req[w].at = "restock" /\ ~Refunds(req[w]) /\ req[w] \in Jobs
  <2>1. Running(w) /\ req[w].at = "restock"
    BY DEF Restock, Running, At
  <2> QED BY <2>1, AtJob DEF Refunds
<1>2. PICK o \in Orders : o = req[w].o
  BY <1>1, AtJob
<1>3. UNCHANGED <<order, history, refunded, dead>>
  BY DEF Restock, posts
<1>4. CASE req[w].left = {}
  <2>1. PICK job : job = [req[w] EXCEPT !.at = "reread"]
    OBVIOUS
  <2>2. job \in Jobs /\ job.at = "reread" /\ job.o = o /\ job.to = req[w].to
    BY <1>1, <1>2, <2>1 DEF Jobs, Stages
  <2>3. req' = [req EXCEPT ![w] = job] /\ returned' = returned
    BY <1>4, <2>1 DEF Restock, Go, Become
  <2>4. Restocking(job) /\ Current(job)
    BY <1>1, <1>2, <1>4, <2>2, AtJob DEF Restocking, Current, Refunds, Back
  <2>5. /\ Running(w) => req[w].o = o /\ ~Refunds(req[w])
        /\ ~SameOrderOverlap => \A v \in Workers \ {w} : Running(v) => req[v].o # o
        /\ job # Idle => /\ job.o = o /\ Restocking(job)
                         /\ ~SameOrderOverlap => Current(job)
    BY <1>1, <1>2, <2>2, <2>4, AtJob, Zenon
  <2>6. UNCHANGED <<order, history, returned, refunded, dead>>
    BY <1>3, <2>3
  <2> QED BY <2>2, <2>3, <2>5, <2>6, Quiet, Zenon
<1>5. CASE req[w].left # {}
  <2>1. PICK p \in req[w].left :
          /\ returned' = [returned EXCEPT ![o][p] = @ + 1]
          /\ req' = [req EXCEPT ![w] = [req[w] EXCEPT !.left = @ \ {p}]]
    BY <1>2, <1>5 DEF Restock, Become
  <2>2. PICK job : job = [req[w] EXCEPT !.left = @ \ {p}]
    OBVIOUS
  <2>3. /\ job \in Jobs /\ job.at = "restock" /\ job.o = o /\ job.to = req[w].to
        /\ job.left = req[w].left \ {p} /\ p \in Products
    BY <1>1, <1>2, <2>2 DEF Jobs
  <2>4. /\ returned' \in [Orders -> [Products -> Nat]]
        /\ \A q \in Orders, g \in Products : returned'[q][g] >= returned[q][g]
        /\ returned'[o][p] >= 1
    <3>1. returned \in [Orders -> [Products -> Nat]]
      BY DEF IInv, RowsTyped
    <3>2. \A q \in Orders, g \in Products :
            returned'[q][g] = IF q = o /\ g = p THEN returned[q][g] + 1 ELSE returned[q][g]
      BY <2>1, <2>3, <3>1
    <3>3. returned' \in [Orders -> [Products -> Nat]]
      BY <2>1, <2>3, <3>1
    <3> QED BY <2>3, <3>1, <3>2, <3>3
  <2>5. RowsTyped'
    BY <1>3, <2>1, <2>2, <2>3, <2>4 DEF IInv, RowsTyped
  <2>6. \A S \in SUBSET Products : Back(o, S) => Back(o, S)' /\ Back(o, S \cup {p})'
    BY <2>4 DEF Back, IInv, RowsTyped
  <2>7. Lines[o] \subseteq Products
    BY OrdersHaveLines
  <2>8. Restocking(job)'
    <3>1. ASSUME job.to = "CANCELLED"
          PROVE  job.left \subseteq Lines[o] /\ Back(o, Lines[o] \ job.left)'
      <4>1. req[w].left \subseteq Lines[o] /\ Back(o, Lines[o] \ req[w].left)
        BY <1>1, <1>2, <2>3, <3>1, AtJob DEF Restocking
      <4>2. Lines[o] \ job.left = (Lines[o] \ req[w].left) \cup {p}
        BY <2>3, <4>1
      <4> QED BY <2>3, <2>6, <2>7, <4>1, <4>2
    <3>2. job.to \in Statuses /\ Placed(o)'
      BY <1>1, <1>2, <1>3, <2>3, AtJob DEF Restocking, Placed
    <3> QED BY <2>3, <3>1, <3>2 DEF Restocking
  <2>9. Current(job)' /\ (Cancelled(o)' => Back(o, Lines[o])')
    BY <1>3, <2>3, <2>6, <2>7 DEF Current, Refunds, Cancelled, IInv, CancelledRestocked, Back
  <2>10. ASSUME ~SameOrderOverlap PROVE Consistent(o)'
    <3>1. Consistent(o)
      BY <2>10 DEF IInv, Serial
    <3>2. Refunding(o) => Refunding(o)'
      <4>1. \A v \in Workers \ {w} : req'[v] = req[v]
        BY <2>1 DEF IInv, RowsTyped
      <4> QED BY <1>1, <4>1 DEF Refunding, Running, At
    <3> QED BY <1>3, <3>1, <3>2 DEF Consistent, Placed, Cancelled
  <2>11. req' = [req EXCEPT ![w] = job] /\ (Placed(o) => Placed(o)')
    BY <1>3, <2>1, <2>2 DEF Placed
  <2>12. ~SameOrderOverlap => \A v \in Workers \ {w} : Running(v) => req[v].o # o
    BY <1>1, <1>2, AtJob
  <2> QED BY <1>1, <1>2, <1>3, <2>3, <2>4, <2>5, <2>8, <2>9, <2>10, <2>11, <2>12, Moves
<1> QED BY <1>4, <1>5

(* The status is read again: what is written next is allowed by it.          *)
LEMMA RereadStep ==
  ASSUME IInv, NEW w \in Workers, Reread(w)
  PROVE  IInv'
<1>1. Running(w) /\ req[w].at = "reread" /\ ~Refunds(req[w]) /\ req[w] \in Jobs
  <2>1. Running(w) /\ req[w].at = "reread"
    BY DEF Reread, Running, At
  <2> QED BY <2>1, AtJob DEF Refunds
<1>2. PICK o \in Orders : o = req[w].o
  BY <1>1, AtJob
<1>3. UNCHANGED <<order, history, returned, refunded, dead>>
  BY DEF Reread, posts
<1>4. CASE End(w)
  BY <1>1, <1>3, <1>4, Ends
<1>5. CASE req[w].to \in Allowed[order[o].status] /\ Become(w, Job("write", o, req[w].to, None, None))
  <2>1. PICK job \in Jobs : job = Job("write", o, req[w].to, None, None)
    <3>1. req[w].to \in Statuses \cup {None}
      BY <1>1 DEF Jobs
    <3> QED BY <3>1, JobType DEF Stages
  <2>2. job.at = "write" /\ job.o = o /\ job.to = req[w].to /\ job.seen = order[o]
    BY <2>1, Zenon DEF Job
  <2>3. Restocking(job) /\ Current(job)
    BY <1>1, <1>2, <1>5, <2>2, AtJob DEF Restocking, Current, Refunds
  <2>4. req' = [req EXCEPT ![w] = job]
    BY <1>5, <2>1 DEF Become
  <2>5. ~SameOrderOverlap => \A v \in Workers \ {w} : Running(v) => req[v].o # o
    BY <1>1, <1>2, AtJob
  <2> QED BY <1>1, <1>2, <1>3, <2>2, <2>3, <2>4, <2>5, Quiet
<1>6. \/ End(w)
      \/ req[w].to \in Allowed[order[o].status] /\ Become(w, Job("write", o, req[w].to, None, None))
  BY <1>2 DEF Reread
<1> QED BY <1>4, <1>5, <1>6

LEMMA AfterWriteStages ==
  ASSUME NEW r \in Jobs
  PROVE  /\ AfterWrite(r) \in Late \cup {"refund"}
         /\ AfterWrite(r) = "refund" <=> r.to = "CANCELLED" /\ r.seen.paid = "PAID"
         /\ AfterRefund(r) \in Late
BY DEF AfterWrite, AfterRefund, Late

(* The status is written: by the table, and a cancellation of a paid order   *)
(* owes the customer the money.                                              *)
LEMMA WriteStep ==
  ASSUME IInv, NEW w \in Workers, WriteStatus(w)
  PROVE  /\ IInv'
         /\ ~SameOrderOverlap => \E o \in Orders : /\ order' = [order EXCEPT ![o] = order'[o]]
              /\ Placed(o) /\ order'[o].status \in Allowed[order[o].status]
<1>1. Running(w) /\ req[w].at = "write" /\ ~Refunds(req[w]) /\ req[w] \in Jobs
  <2>1. Running(w) /\ req[w].at = "write"
    BY DEF WriteStatus, Running, At
  <2> QED BY <2>1, AtJob DEF Refunds
<1>2. PICK o \in Orders : o = req[w].o
  BY <1>1, AtJob
<1>3. PICK to : to = req[w].to
  OBVIOUS
<1>4. to \in Statuses
  BY <1>1, <1>3, AtJob DEF Restocking
<1>5. PICK s \in Late \cup {"refund"} :
        /\ Go(w, s)
        /\ s = "refund" <=> to = "CANCELLED" /\ req[w].seen.paid = "PAID"
  BY <1>1, <1>3, AfterWriteStages DEF WriteStatus
<1>6. UNCHANGED <<returned, refunded, dead>>
  BY DEF WriteStatus, posts
<1>7. PICK row \in Rows : /\ order' = [order EXCEPT ![o] = row]
                          /\ row.status = to /\ row.paid = order[o].paid
  <2>1. PICK row : row = [order[o] EXCEPT !.status = to]
    OBVIOUS
  <2>2. row \in Rows /\ row.status = to /\ row.paid = order[o].paid
    BY <1>4, <2>1 DEF IInv, RowsTyped, Rows
  <2> QED BY <1>2, <1>3, <2>1, <2>2 DEF WriteStatus
<1>8. /\ order'[o] = row /\ \A q \in Orders \ {o} : order'[q] = order[q]
      /\ history'[o] = history[o] \cup {to}
      /\ \A q \in Orders \ {o} : history'[q] = history[q]
      /\ history' \in [Orders -> SUBSET Statuses]
  BY <1>2, <1>3, <1>4, <1>7 DEF WriteStatus, IInv, RowsTyped
<1>9. PICK job : job = [req[w] EXCEPT !.at = s]
  OBVIOUS
<1>10. job \in Jobs /\ job.at = s /\ job.o = o /\ job.to = to
  <2>1. s \in Stages
    BY DEF Late, Stages
  <2> QED BY <1>1, <1>2, <1>3, <1>9, <2>1 DEF Jobs
<1>11. req' = [req EXCEPT ![w] = job]
  BY <1>5, <1>9 DEF Go, Become
<1>12. RowsTyped'
  BY <1>6, <1>7, <1>8, <1>10, <1>11 DEF IInv, RowsTyped
<1>13. Cancelled(o)' <=> Cancelled(o) \/ to = "CANCELLED"
  BY <1>8 DEF Cancelled
<1>14. Cancelled(o)' => Back(o, Lines[o])'
  <2>1. CASE Cancelled(o)
    BY <1>6, <2>1 DEF IInv, CancelledRestocked, Back
  <2>2. CASE to = "CANCELLED"
    BY <1>1, <1>2, <1>3, <1>6, <2>2, AtJob DEF Restocking, Back
  <2> QED BY <1>13, <2>1, <2>2
<1>15. ASSUME ~SameOrderOverlap
       PROVE  /\ to \in Allowed[order[o].status]
              /\ Current(job)' /\ Consistent(o)'
  <2>1. to \in Allowed[order[o].status] /\ req[w].seen.paid = order[o].paid
    BY <1>1, <1>2, <1>3, <1>15, AtJob DEF Current
  <2>2. Consistent(o) /\ Placed(o) /\ order[o] \in Rows
    <3>1. Consistent(o) /\ order[o] \in Rows
      BY <1>15 DEF IInv, Serial, RowsTyped
    <3>2. Placed(o)
      BY <1>1, <1>2, AtJob DEF Restocking
    <3> QED BY <3>1, <3>2
  <2>3. to = "CANCELLED" => order[o].status \in {"PENDING", "ACCEPTED", "PREPARING"}
    BY <2>1, <2>2 DEF Allowed, Rows, Statuses, Placed
  <2>4. to = "REFUNDED" <=> order[o].status = "CANCELLED"
    BY <2>1, <2>2 DEF Allowed, Rows, Statuses, Placed
  <2>5. order[o].status # "REFUNDED"
    BY <2>1 DEF Allowed
  <2>6. to = "CANCELLED" => /\ ~Cancelled(o) /\ refunded[o] = 0
                            /\ order[o].paid = "PAID" <=> o \in OnWallet
    BY <2>2, <2>3 DEF Consistent
  <2>7. Current(job)'
    <3>1. Refunds(job) <=> s = "refund"
      BY <1>10 DEF Refunds, Late
    <3>2. job.at # "insert" /\ job.at # "write"
      BY <1>10 DEF Late
    <3>3. ASSUME s = "refund"
          PROVE  o \in OnWallet /\ Cancelled(o)' /\ refunded'[o] = 0 /\ to = "CANCELLED"
      <4>1. to = "CANCELLED" /\ req[w].seen.paid = "PAID"
        BY <1>5, <3>3
      <4> QED BY <1>6, <1>13, <2>1, <2>6, <4>1
    <3> QED BY <1>10, <3>1, <3>2, <3>3 DEF Current, Refunds
  <2>8. Consistent(o)'
    <3>1. Cancelled(o)' <=> order'[o].status \in {"CANCELLED", "REFUNDED"}
      BY <1>7, <1>8, <1>13, <2>2, <2>4, <2>5 DEF Consistent
    <3>2. /\ ~Cancelled(o)' => refunded'[o] = 0
          /\ ~Cancelled(o)' => (order'[o].paid = "PAID" <=> o \in OnWallet)
      BY <1>6, <1>7, <1>8, <1>13, <2>2 DEF Consistent
    <3>3. ASSUME Cancelled(o)'
          PROVE  Refunding(o)' \/ o \in dead' \/ (refunded'[o] = 1 <=> o \in OnWallet)
      <4>1. CASE to = "CANCELLED" /\ s = "refund"
        <5>1. req'[w] = job
          BY <1>11 DEF IInv, RowsTyped
        <5> QED BY <1>10, <4>1, <5>1 DEF Refunding, Running, At, Refunds
      <4>2. CASE to = "CANCELLED" /\ s # "refund"
        BY <1>5, <1>6, <2>1, <2>6, <4>2
      <4>3. CASE to # "CANCELLED"
        <5>1. ~Refunding(o)
          BY <1>1, <1>2, <1>15 DEF Refunding, IInv, Serial, Alone
        <5> QED BY <1>6, <1>13, <2>2, <3>3, <4>3, <5>1 DEF Consistent
      <4> QED BY <4>1, <4>2, <4>3
    <3> QED BY <3>1, <3>2, <3>3 DEF Consistent
  <2> QED BY <2>1, <2>7, <2>8
<1>16. Restocking(job)' /\ Placed(o)'
  BY <1>4, <1>7, <1>8, <1>10 DEF Restocking, Late, Placed, Statuses
<1>17. \A q \in Orders, p \in Products : returned'[q][p] >= returned[q][p]
  BY <1>6 DEF IInv, RowsTyped
<1>18. IInv'
  <2>1. ~SameOrderOverlap => \A v \in Workers \ {w} : Running(v) => req[v].o # o
    BY <1>1, <1>2, AtJob
  <2> QED BY <1>1, <1>2, <1>6, <1>8, <1>10, <1>11, <1>12, <1>14, <1>15, <1>16, <1>17, <2>1, Moves
<1>19. Placed(o)
  BY <1>1, <1>2, AtJob DEF Restocking
<1> QED BY <1>7, <1>8, <1>15, <1>18, <1>19

(* The order is marked REFUNDED; the money is still owed.                    *)
LEMMA RefundStep ==
  ASSUME IInv, NEW w \in Workers, RefundOrder(w)
  PROVE  IInv' /\ \A q \in Orders : order'[q].status = order[q].status
<1>1. Running(w) /\ req[w].at = "refund" /\ req[w] \in Jobs
  <2>1. Running(w) /\ req[w].at = "refund"
    BY DEF RefundOrder, Running, At
  <2> QED BY <2>1, AtJob
<1>2. PICK o \in Orders : o = req[w].o
  BY <1>1, AtJob
<1>3. PICK job : job = [req[w] EXCEPT !.at = "credit"]
  OBVIOUS
<1>4. job \in Jobs /\ job.at = "credit" /\ job.o = o /\ job.to = req[w].to
  BY <1>1, <1>2, <1>3 DEF Jobs, Stages
<1>5. req' = [req EXCEPT ![w] = job] /\ UNCHANGED <<history, returned, refunded, dead>>
  BY <1>3 DEF RefundOrder, Go, Become, posts
<1>6. PICK row \in Rows : order' = [order EXCEPT ![o] = row] /\ row.status = order[o].status
  <2>1. PICK row : row = [order[o] EXCEPT !.paid = "REFUNDED"]
    OBVIOUS
  <2>2. row \in Rows /\ row.status = order[o].status
    BY <2>1 DEF IInv, RowsTyped, Rows
  <2> QED BY <1>2, <2>1, <2>2 DEF RefundOrder
<1>7. order'[o] = row /\ \A q \in Orders \ {o} : order'[q] = order[q]
  BY <1>6 DEF IInv, RowsTyped
<1>8. RowsTyped'
  BY <1>4, <1>5, <1>6 DEF IInv, RowsTyped
<1>9. /\ Cancelled(o)' <=> Cancelled(o)
      /\ Placed(o)' <=> Placed(o)
      /\ Cancelled(o)' => Back(o, Lines[o])'
  BY <1>5, <1>6, <1>7 DEF Cancelled, Placed, IInv, CancelledRestocked, Back
<1>10. ASSUME ~SameOrderOverlap PROVE Current(job)' /\ Consistent(o)'
  <2>1. o \in OnWallet /\ Cancelled(o) /\ refunded[o] = 0 /\ job.to = "CANCELLED"
    BY <1>1, <1>2, <1>4, <1>10, AtJob DEF Current, Refunds
  <2>2. Current(job)'
    BY <1>4, <1>5, <1>9, <2>1 DEF Current, Refunds
  <2>3. Refunding(o)'
    <3>1. req'[w] = job
      BY <1>5 DEF IInv, RowsTyped
    <3> QED BY <1>4, <3>1 DEF Refunding, Running, At, Refunds
  <2>4. Consistent(o)
    BY <1>10 DEF IInv, Serial
  <2> QED BY <1>6, <1>7, <1>9, <2>1, <2>2, <2>3, <2>4 DEF Consistent
<1>11. Restocking(job)'
  BY <1>4 DEF Restocking
<1>12. \A q \in Orders, p \in Products : returned'[q][p] >= returned[q][p]
  BY <1>5 DEF IInv, RowsTyped
<1>13. ~SameOrderOverlap => \A v \in Workers \ {w} : Running(v) => req[v].o # o
  BY <1>1, <1>2, AtJob
<1>14. IInv'
  BY <1>1, <1>2, <1>4, <1>5, <1>7, <1>8, <1>9, <1>10, <1>11, <1>12, <1>13, Moves
<1> QED BY <1>6, <1>7, <1>14

(* The wallet is credited: one request in the life of the order comes here.  *)
LEMMA CreditStep ==
  ASSUME IInv, NEW w \in Workers, RefundCredit(w)
  PROVE  IInv'
<1>1. Running(w) /\ req[w].at = "credit" /\ req[w] \in Jobs
  <2>1. Running(w) /\ req[w].at = "credit"
    BY DEF RefundCredit, Running, At
  <2> QED BY <2>1, AtJob
<1>2. PICK o \in Orders : o = req[w].o
  BY <1>1, AtJob
<1>3. PICK s \in Late : Go(w, s)
  BY <1>1, AfterWriteStages DEF RefundCredit
<1>4. PICK job : job = [req[w] EXCEPT !.at = s]
  OBVIOUS
<1>5. job \in Jobs /\ job.at = s /\ job.o = o
  <2>1. s \in Stages
    BY DEF Late, Stages
  <2> QED BY <1>1, <1>2, <1>4, <2>1 DEF Jobs
<1>6. req' = [req EXCEPT ![w] = job] /\ UNCHANGED <<order, history, returned, dead>>
  BY <1>3, <1>4 DEF RefundCredit, Go, Become
<1>7. refunded' = [refunded EXCEPT ![o] = @ + 1]
  BY <1>2 DEF RefundCredit
<1>8. RowsTyped'
  BY <1>5, <1>6, <1>7 DEF IInv, RowsTyped
<1>9. /\ refunded'[o] = refunded[o] + 1
      /\ \A q \in Orders \ {o} : refunded'[q] = refunded[q]
  BY <1>7 DEF IInv, RowsTyped
<1>10. ASSUME ~SameOrderOverlap PROVE Consistent(o)'
  <2>1. o \in OnWallet /\ Cancelled(o) /\ refunded[o] = 0
    BY <1>1, <1>2, <1>10, AtJob DEF Current, Refunds
  <2>2. Consistent(o)
    BY <1>10 DEF IInv, Serial
  <2> QED BY <1>6, <1>9, <2>1, <2>2 DEF Consistent, Cancelled, Placed
<1>11. Restocking(job)' /\ Current(job)'
  BY <1>5 DEF Restocking, Current, Refunds, Late
<1>12. /\ \A q \in Orders, p \in Products : returned'[q][p] >= returned[q][p]
       /\ Cancelled(o)' => Back(o, Lines[o])'
       /\ Placed(o) => Placed(o)'
  BY <1>6 DEF IInv, RowsTyped, Cancelled, CancelledRestocked, Back, Placed
<1>13. ~SameOrderOverlap => \A v \in Workers \ {w} : Running(v) => req[v].o # o
  BY <1>1, <1>2, AtJob
<1> QED BY <1>1, <1>2, <1>5, <1>6, <1>8, <1>9, <1>10, <1>11, <1>12, <1>13, Moves

(* The statements after the money: they write nothing of the order but its   *)
(* rider, and nothing that a later statement relies on.                      *)
LEMMA LateStep ==
  ASSUME IInv, NEW w \in Workers,
         Respond(w) \/ ReleaseRider(w) \/ AwardPoints(w) \/ Unassign(w) \/ Mark(w) \/ FreeRejecter(w)
  PROVE  IInv'
<1>1. Running(w) /\ ~Refunds(req[w]) /\ UNCHANGED <<order, history, returned, refunded, dead>>
  BY DEF Respond, ReleaseRider, AwardPoints, Unassign, Mark, FreeRejecter, Running, At, Refunds,
         posts
<1>2. CASE End(w)
  BY <1>1, <1>2, Ends
<1>3. CASE \E s \in Late : Go(w, s)
  BY <1>1, <1>3, GoesLate
<1> QED BY <1>2, <1>3 DEF Respond, ReleaseRider, AwardPoints, Unassign, Mark, FreeRejecter, Late

(* The search for a rider stays with its order.                              *)
LEMMA SearchJob ==
  ASSUME IInv, NEW w \in Workers, FindRiders(w) \/ \E p \in Partners : ClaimRider(w, p),
         NEW o \in Orders, req[w].o = o
  PROVE  \E job \in Jobs : req' = [req EXCEPT ![w] = job] /\ job.at \in Late /\ job.o = o
<1>1. req[w] \in Jobs /\ req[w].o = o
  BY AtJob, Zenon DEF FindRiders, ClaimRider, Running, At
<1>2. CASE FindRiders(w)
  <2>1. PICK found \in SUBSET Partners, s \in {"end", "claim"} :
          Become(w, [req[w] EXCEPT !.ranked = found, !.at = s])
    BY <1>2, Zenon DEF FindRiders, Candidates
  <2>2. PICK job : job = [req[w] EXCEPT !.ranked = found, !.at = s]
    OBVIOUS
  <2>3. job \in Jobs /\ job.at = s /\ job.o = o
    BY <1>1, <2>2 DEF Jobs, Stages
  <2>4. req' = [req EXCEPT ![w] = job]
    BY <2>1, <2>2 DEF Become
  <2> QED BY <2>3, <2>4 DEF Late
<1>3. ASSUME NEW p \in Partners, ClaimRider(w, p)
      PROVE  \E job \in Jobs : req' = [req EXCEPT ![w] = job] /\ job.at \in Late /\ job.o = o
  <2>1. CASE Become(w, [req[w] EXCEPT !.partner = p, !.at = "attach"])
    <3>1. PICK job : job = [req[w] EXCEPT !.partner = p, !.at = "attach"]
      OBVIOUS
    <3>2. job \in Jobs /\ job.at = "attach" /\ job.o = o
      BY <1>1, <3>1 DEF Jobs, Stages
    <3>3. req' = [req EXCEPT ![w] = job]
      BY <2>1, <3>1 DEF Become
    <3> QED BY <3>2, <3>3 DEF Late
  <2>2. CASE \E s \in {"end", "claim"} : Become(w, [req[w] EXCEPT !.ranked = @ \ {p}, !.at = s])
    <3>1. PICK s \in {"end", "claim"} : Become(w, [req[w] EXCEPT !.ranked = @ \ {p}, !.at = s])
      BY <2>2
    <3>2. req[w].ranked \ {p} \in SUBSET Partners
      BY <1>1 DEF Jobs
    <3>3. PICK job : job = [req[w] EXCEPT !.ranked = @ \ {p}, !.at = s]
      OBVIOUS
    <3>4. job = [req[w] EXCEPT !.ranked = req[w].ranked \ {p}, !.at = s]
      BY <3>3
    <3>5. job \in Jobs /\ job.at = s /\ job.o = o
      BY <1>1, <3>2, <3>4 DEF Jobs, Stages
    <3>6. req' = [req EXCEPT ![w] = job]
      BY <3>1, <3>3 DEF Become
    <3> QED BY <3>5, <3>6 DEF Late
  <2> QED BY <1>3, <2>1, <2>2, Zenon DEF ClaimRider, At
<1> QED BY <1>2, <1>3, Zenon

LEMMA SearchStep ==
  ASSUME IInv, NEW w \in Workers, FindRiders(w) \/ \E p \in Partners : ClaimRider(w, p)
  PROVE  IInv'
<1>1. Running(w) /\ ~Refunds(req[w]) /\ UNCHANGED <<order, history, returned, refunded, dead>>
  BY Zenon DEF FindRiders, ClaimRider, Running, At, Refunds, posts
<1>2. req[w] \in Jobs
  BY <1>1, AtJob
<1>3. PICK o \in Orders : o = req[w].o
  BY <1>1, AtJob
<1>4. PICK job \in Jobs : req' = [req EXCEPT ![w] = job] /\ job.at \in Late /\ job.o = o
  BY <1>3, SearchJob
<1>5. Restocking(job) /\ Current(job)
  BY <1>4 DEF Restocking, Current, Refunds, Late
<1>6. ~SameOrderOverlap => \A v \in Workers \ {w} : Running(v) => req[v].o # o
  BY <1>1, <1>3, AtJob
<1> QED BY <1>1, <1>3, <1>4, <1>5, <1>6, Quiet

(* The rider of an order changes: its status and its money stay.             *)
LEMMA RiderStep ==
  ASSUME IInv, NEW w \in Workers, Attach(w) \/ Accept(w) \/ ClearAssignment(w)
  PROVE  IInv' /\ \A q \in Orders : order'[q].status = order[q].status
<1>1. Running(w) /\ ~Refunds(req[w]) /\ UNCHANGED <<history, returned, refunded, dead>>
  BY DEF Attach, Accept, ClearAssignment, Running, At, Refunds, posts
<1>2. req[w] \in Jobs
  BY <1>1, AtJob
<1>3. PICK o \in Orders : o = req[w].o
  BY <1>1, AtJob, Zenon
<1>4. PICK job \in Jobs \cup {Idle} :
        req' = [req EXCEPT ![w] = job] /\ (job # Idle => job.at \in Late /\ job.o = o)
  <2>1. CASE End(w)
    BY <2>1 DEF End, Become
  <2>2. CASE \E s \in {"end", "find"} : Go(w, s)
    <3>1. PICK s \in {"end", "find"} : Go(w, s)
      BY <2>2
    <3>2. [req[w] EXCEPT !.at = s] \in Jobs /\ [req[w] EXCEPT !.at = s].at = s
          /\ [req[w] EXCEPT !.at = s].o = o
      BY <1>2, <1>3 DEF Jobs, Stages
    <3> QED BY <3>1, <3>2 DEF Go, Become, Late
  <2> QED BY <2>1, <2>2 DEF Attach, Accept, ClearAssignment
<1>5. /\ order' \in [Orders -> Rows]
      /\ order'[o].status = order[o].status /\ order'[o].paid = order[o].paid
      /\ \A q \in Orders \ {o} : order'[q] = order[q]
  <2> DEFINE Fits == order' = order \/ \E row \in Rows : /\ order' = [order EXCEPT ![o] = row]
                                          /\ row.status = order[o].status
                                          /\ row.paid = order[o].paid
  <2>1. order[o] \in Rows
    BY DEF IInv, RowsTyped
  <2>2. ASSUME Attach(w) PROVE Fits
    <3>1. PICK p : p = req[w].partner
      OBVIOUS
    <3>2. CASE p \in Partners /\ order' # order
      <4>1. PICK row : row = [order[o] EXCEPT !.partner = p, !.acceptance = "PENDING"]
        OBVIOUS
      <4>2. row \in Rows /\ row.status = order[o].status /\ row.paid = order[o].paid
        BY <2>1, <3>2, <4>1 DEF Rows
      <4>3. order' = [order EXCEPT ![o].partner = p, ![o].acceptance = "PENDING"]
        BY <1>3, <2>2, <3>1, <3>2 DEF Attach
      <4>4. order' = [order EXCEPT ![o] = row]
        BY <4>1, <4>3 DEF IInv, RowsTyped
      <4> QED BY <4>2, <4>4
    <3> QED BY <2>2, <3>1, <3>2 DEF Attach, Exists
  <2>3. ASSUME Accept(w) PROVE Fits
    <3>1. PICK row : row = [order[o] EXCEPT !.acceptance = "ACCEPTED"]
      OBVIOUS
    <3>2. row \in Rows /\ row.status = order[o].status /\ row.paid = order[o].paid
      BY <2>1, <3>1 DEF Rows
    <3> QED BY <1>3, <2>3, <3>1, <3>2 DEF Accept
  <2>4. ASSUME ClearAssignment(w) PROVE Fits
    <3>1. PICK row : row = [order[o] EXCEPT !.partner = None, !.acceptance = "NONE"]
      OBVIOUS
    <3>2. row \in Rows /\ row.status = order[o].status /\ row.paid = order[o].paid
      BY <2>1, <3>1 DEF Rows
    <3>3. order' = [order EXCEPT ![o].partner = None, ![o].acceptance = "NONE"]
      BY <1>3, <2>4 DEF ClearAssignment
    <3>4. order' = [order EXCEPT ![o] = row]
      BY <3>1, <3>3 DEF IInv, RowsTyped
    <3> QED BY <3>2, <3>4
  <2>5. Fits
    BY <2>2, <2>3, <2>4
  <2> HIDE DEF Fits
  <2> QED BY <2>1, <2>5, Zenon DEF Fits, IInv, RowsTyped
<1>6. RowsTyped'
  BY <1>1, <1>4, <1>5 DEF IInv, RowsTyped
<1>7. /\ Cancelled(o)' <=> Cancelled(o)
      /\ Placed(o)' <=> Placed(o)
      /\ Cancelled(o)' => Back(o, Lines[o])'
  BY <1>1, <1>5 DEF Cancelled, Placed, IInv, CancelledRestocked, Back
<1>8. ~SameOrderOverlap => \A v \in Workers \ {w} : Running(v) => req[v].o # o
  BY <1>1, <1>3, AtJob
<1>9. ASSUME ~SameOrderOverlap PROVE Consistent(o)'
  <2>1. Consistent(o)
    BY <1>9 DEF IInv, Serial
  <2>2. ~Refunding(o)
    BY <1>1, <1>8, <1>9 DEF Refunding
  <2> QED BY <1>1, <1>5, <1>7, <2>1, <2>2 DEF Consistent
<1>10. job # Idle => Restocking(job)' /\ Current(job)'
  BY <1>4 DEF Restocking, Current, Refunds, Late
<1>11. \A q \in Orders, p \in Products : returned'[q][p] >= returned[q][p]
  BY <1>1 DEF IInv, RowsTyped
<1>12. IInv'
  BY <1>1, <1>3, <1>4, <1>5, <1>6, <1>7, <1>8, <1>9, <1>10, <1>11, Moves
<1> QED BY <1>5, <1>12, Zenon

(* A request that dies leaves its order to be settled by nobody.             *)
LEMMA CrashStep ==
  ASSUME IInv, NEW w \in Workers, Crash(w)
  PROVE  IInv'
<1>1. Running(w)
  BY DEF Crash
<1>2. PICK o \in Orders : o = req[w].o
  BY <1>1, AtJob
<1>3. PICK job : job = Idle
  OBVIOUS
<1>4. /\ req' = [req EXCEPT ![w] = job] /\ UNCHANGED <<order, history, returned, refunded>>
      /\ dead' = dead \cup {o}
  BY <1>2, <1>3 DEF Crash, End, Become, posts
<1>5. RowsTyped'
  BY <1>3, <1>4 DEF IInv, RowsTyped
<1>6. /\ \A q \in Orders, p \in Products : returned'[q][p] >= returned[q][p]
      /\ Cancelled(o)' => Back(o, Lines[o])'
      /\ Placed(o) => Placed(o)'
  BY <1>4 DEF IInv, RowsTyped, Cancelled, CancelledRestocked, Back, Placed
<1>7. ASSUME ~SameOrderOverlap PROVE Consistent(o)'
  <2>1. Consistent(o)
    BY <1>7 DEF IInv, Serial
  <2> QED BY <1>4, <2>1 DEF Consistent, Cancelled, Placed
<1>8. ~SameOrderOverlap => \A v \in Workers \ {w} : Running(v) => req[v].o # o
  BY <1>1, <1>2, AtJob
<1> QED BY <1>1, <1>2, <1>3, <1>4, <1>5, <1>6, <1>7, <1>8, Moves

LEMMA NextIInv == IInv /\ [Next]_vars => IInv'
<1> SUFFICES ASSUME IInv, [Next]_vars PROVE IInv'
  OBVIOUS
<1>1. CASE UNCHANGED vars
  BY <1>1, Zenon
  DEF IInv, RowsTyped, CancelledRestocked, Cancelled, Restocking, Back, Serial, Alone,
              Current, Refunds, Consistent, Refunding, Placed, Running, At, vars, posts
<1>2. ASSUME NEW w \in Workers, Arrive(w) PROVE IInv'
  BY <1>2, ArriveStep
<1>3. ASSUME NEW w \in Workers, Step(w) PROVE IInv'
  BY <1>3, InsertStep, RestockStep, RereadStep, WriteStep, RefundStep, CreditStep, LateStep,
     SearchStep, RiderStep DEF Step
<1>4. ASSUME NEW w \in Workers, Crash(w) PROVE IInv'
  BY <1>4, CrashStep
<1> QED BY <1>1, <1>2, <1>3, <1>4 DEF Next

(***************************************************************************)
(* The theorems.                                                           *)
(***************************************************************************)

LEMMA Invariant == Spec => []IInv
BY InitIInv, NextIInv, PTL DEF Spec

(* Whatever overlaps and wherever requests die, an order that says CANCELLED *)
(* has put back every product (cancel and adminUpdateStatus restock first).  *)
THEOREM CancelledAlwaysRestocked == Spec => []CancelledRestocked
<1>1. IInv => CancelledRestocked
  BY DEF IInv
<1> QED BY <1>1, Invariant, PTL

(* One request at a time on an order: a wallet order is paid back if and     *)
(* only if it is cancelled, and once (applyStatusChange).                    *)
THEOREM SerialRefundsOnce ==
  ASSUME ~SameOrderOverlap
  PROVE  Spec => []RefundedOnce
<1>1. IInv => RefundedOnce
  <2> SUFFICES ASSUME IInv, NEW o \in Orders, Resting(o)
               PROVE  refunded[o] = 1 <=> o \in OnWallet /\ Cancelled(o)
    BY DEF RefundedOnce
  <2>1. Consistent(o)
    BY DEF IInv, Serial
  <2>2. ~Refunding(o) /\ o \notin dead
    BY DEF Resting, Busy, Refunding
  <2> QED BY <2>1, <2>2 DEF Consistent
<1> QED BY <1>1, Invariant, PTL

(***************************************************************************)
(* The life cycle.                                                         *)
(***************************************************************************)

SameStatus == \A o \in Orders : order'[o].status = order[o].status

(* ALLOWED_TRANSITIONS of the grocery service is the life cycle.             *)
LEMMA AllowedIsLifecycle ==
  ASSUME NEW from \in Statuses, NEW to \in Allowed[from]
  PROVE  \/ \E i \in 1 .. Len(Lifecycle!Flow) - 1 :
              from = Lifecycle!Flow[i] /\ to = Lifecycle!Flow[i + 1]
         \/ \E i \in 1 .. Lifecycle!Cancellable : from = Lifecycle!Flow[i] /\ to = "CANCELLED"
         \/ from = "CANCELLED" /\ to = "REFUNDED"
BY DEF Statuses, Allowed, Lifecycle!Flow, Lifecycle!Cancellable

LEMMA WriteLifecycle ==
  ASSUME ~SameOrderOverlap, IInv, NEW w \in Workers, WriteStatus(w)
  PROVE  Lifecycle!Next
<1>1. PICK o \in Orders : /\ order' = [order EXCEPT ![o] = order'[o]]
                          /\ Placed(o) /\ order'[o].status \in Allowed[order[o].status]
  BY WriteStep
<1>2. PICK from, to : from = order[o].status /\ to = order'[o].status
  OBVIOUS
<1>3. from \in Statuses /\ to \in Allowed[from]
  BY <1>1, <1>2 DEF IInv, RowsTyped, Rows, Placed
<1>4. \A q \in Orders : order'[q].status = IF q = o THEN to ELSE order[q].status
  BY <1>1, <1>2 DEF IInv, RowsTyped
<1>5. CASE \E i \in 1 .. Len(Lifecycle!Flow) - 1 :
             from = Lifecycle!Flow[i] /\ to = Lifecycle!Flow[i + 1]
  BY <1>2, <1>4, <1>5 DEF Lifecycle!Next, Lifecycle!Advance
<1>6. CASE \E i \in 1 .. Lifecycle!Cancellable : from = Lifecycle!Flow[i] /\ to = "CANCELLED"
  BY <1>2, <1>4, <1>6 DEF Lifecycle!Next, Lifecycle!Cancel
<1>7. CASE from = "CANCELLED" /\ to = "REFUNDED"
  BY <1>2, <1>4, <1>7 DEF Lifecycle!Next, Lifecycle!Refund
<1> QED BY <1>3, <1>5, <1>6, <1>7, AllowedIsLifecycle

LEMMA InsertLifecycle ==
  ASSUME ~SameOrderOverlap, IInv, NEW w \in Workers, Insert(w)
  PROVE  Lifecycle!Next
<1>1. PICK o \in Orders : /\ ~Placed(o) /\ order' = [order EXCEPT ![o] = order'[o]]
                          /\ order'[o].status = "PENDING"
  BY InsertStep
<1>2. \A q \in Orders : order'[q].status = IF q = o THEN "PENDING" ELSE order[q].status
  BY <1>1 DEF IInv, RowsTyped
<1> QED BY <1>1, <1>2 DEF Lifecycle!Next, Lifecycle!Place, Placed

LEMMA StepLifecycle ==
  ASSUME ~SameOrderOverlap
  PROVE  IInv /\ [Next]_vars => [Lifecycle!Next]_([o \in Orders |-> order[o].status])
<1> SUFFICES ASSUME IInv, [Next]_vars PROVE SameStatus \/ Lifecycle!Next
  BY DEF SameStatus
<1>1. ASSUME NEW w \in Workers, Step(w) PROVE SameStatus \/ Lifecycle!Next
  <2>1. ASSUME Insert(w) \/ WriteStatus(w) PROVE Lifecycle!Next
    BY <2>1, InsertLifecycle, WriteLifecycle
  <2>2. ASSUME RefundOrder(w) \/ Attach(w) \/ Accept(w) \/ ClearAssignment(w) PROVE SameStatus
    BY <2>2, RefundStep, RiderStep, Zenon DEF SameStatus
  <2>3. ASSUME \/ Restock(w) \/ Reread(w) \/ Respond(w) \/ RefundCredit(w) \/ ReleaseRider(w)
               \/ AwardPoints(w) \/ FindRiders(w) \/ (\E p \in Partners : ClaimRider(w, p))
               \/ Unassign(w) \/ Mark(w) \/ FreeRejecter(w)
        PROVE  SameStatus
    BY <2>3, Zenon
      DEF SameStatus, Restock, Reread, Respond, RefundCredit, ReleaseRider, AwardPoints,
                FindRiders, ClaimRider, Unassign, Mark, FreeRejecter
  <2> QED BY <1>1, <2>1, <2>2, <2>3 DEF Step
<1>2. ASSUME NEW w \in Workers, Arrive(w) \/ Crash(w) PROVE SameStatus
  BY <1>2 DEF Arrive, Create, CancelRequest, StatusRequest, AssignRequest, AnswerRequest, Crash,
              SameStatus
<1>3. CASE UNCHANGED vars
  BY <1>3 DEF vars, SameStatus
<1> QED BY <1>1, <1>2, <1>3 DEF Next

LEMMA InitLifecycle == Init => Lifecycle!Init
BY DEF Init, Lifecycle!Init, Unplaced

(* One request at a time on an order: grocery orders follow the life cycle   *)
(* of the README, which their service implements apart from the food one's.  *)
THEOREM GroceryFollowsLifecycle ==
  ASSUME ~SameOrderOverlap
  PROVE  Spec => ImplementsLifecycle
BY InitIInv, NextIInv, StepLifecycle, InitLifecycle, PTL
DEF Spec, ImplementsLifecycle, Lifecycle!Spec

(***************************************************************************)
(* The shelf, when requests on one order do not overlap, screens are up to *)
(* date and nothing has died.                                              *)
(***************************************************************************)

(* A request that is cancelling its order has put back what it has ticked    *)
(* off, and will not be refused.                                             *)
Cancels(r) == r.to = "CANCELLED" /\ r.at \in {"restock", "reread", "write"}
Shelving(r) ==
  /\ r.at = "restock" => r.to = "CANCELLED" /\ r.left \subseteq Lines[r.o]
  /\ Cancels(r) =>
       /\ "CANCELLED" \in Allowed[order[r.o].status]
       /\ \A p \in Lines[r.o] :
            returned[r.o][p] = IF r.at = "restock" /\ p \in r.left THEN 0 ELSE 1
(* An order nobody is cancelling has put back everything or nothing.         *)
Cancelling(o) == \E w \in Workers : Running(w) /\ req[w].o = o /\ Cancels(req[w])
Shelved(o) == \A p \in Lines[o] : returned[o][p] = IF Cancelled(o) THEN 1 ELSE 0
(* What is missing of a product is what orders have taken and not put back.  *)
Out(p) == {o \in Orders : Placed(o) /\ p \in Lines[o] /\ returned[o][p] = 0}
Counted(p) == IsFiniteSet(Out(p)) /\ stock[p] = InStock[p] - Cardinality(Out(p))

Shelf == /\ stock \in [Products -> Int]
         /\ dead \subseteq Orders
         /\ dead = {} => /\ \A w \in Workers : Running(w) => Shelving(req[w])
                         /\ \A o \in Orders : Cancelling(o) \/ Shelved(o)
                         /\ \A p \in Products : Counted(p)

LEMMA InitShelf == Init => Shelf
<1> SUFFICES ASSUME Init PROVE Shelf
  OBVIOUS
<1>1. \A w \in Workers : ~Running(w)
  BY DEF Init, NoRequests, Running, At, Idle
<1>2. \A o \in Orders : ~Cancelled(o) /\ ~Placed(o)
  BY DEF Init, Cancelled, Placed, Unplaced
<1>3. \A o \in Orders : Shelved(o)
  BY <1>2, OrdersHaveLines DEF Init, Shelved
<1>4. stock = InStock /\ dead = {} /\ InStock \in [Products -> Nat]
  BY StockIsNat DEF Init
<1>5. ASSUME NEW p \in Products PROVE Counted(p)
  <2>1. Out(p) = {}
    BY <1>2 DEF Out
  <2>2. InStock[p] \in Nat
    BY <1>4
  <2> QED BY <1>4, <2>1, <2>2, FS_EmptySet DEF Counted
<1> QED BY <1>1, <1>3, <1>4, <1>5 DEF Shelf

(* A step of one request, on the rows of its own order.                      *)
LEMMA ShelfMoves ==
  ASSUME ~SameOrderOverlap, IInv, Shelf, NEW w \in Workers, NEW o \in Orders,
         Running(w) => req[w].o = o,
         NEW job \in Jobs \cup {Idle}, req' = [req EXCEPT ![w] = job], stock' \in [Products -> Int], dead' = dead,
         \A v \in Workers \ {w} : Running(v) => req[v].o # o,
         \A q \in Orders \ {o} : /\ order'[q] = order[q] /\ history'[q] = history[q]
                                 /\ returned'[q] = returned[q],
         job # Idle => job.o = o /\ (dead = {} => Shelving(job)'),
         dead = {} => /\ (job # Idle /\ Cancels(job)) \/ Shelved(o)'
                      /\ \A p \in Products : Counted(p)'
  PROVE  Shelf'
<1>1. req'[w] = job /\ \A v \in Workers \ {w} : req'[v] = req[v]
  BY DEF IInv, RowsTyped
<1> SUFFICES ASSUME dead = {}
             PROVE  /\ \A v \in Workers : Running(v)' => Shelving(req[v])'
                    /\ \A q \in Orders : Cancelling(q)' \/ Shelved(q)'
  BY DEF Shelf
<1>2. ASSUME NEW v \in Workers, Running(v)' PROVE Shelving(req[v])'
  <2>1. CASE v = w
    <3>1. job # Idle
      BY <1>1, <1>2, <2>1 DEF Running, At, Idle
    <3> QED BY <1>1, <2>1, <3>1 DEF Shelving, Cancels
  <2>2. CASE v # w
    <3>1. Running(v) /\ req'[v] = req[v] /\ req[v].o \in Orders \ {o} /\ Shelving(req[v])
      BY <1>1, <1>2, <2>2, AtJob DEF Running, At, Shelf
    <3> QED BY <3>1 DEF Shelving, Cancels
  <2> QED BY <2>1, <2>2
<1>3. ASSUME NEW q \in Orders PROVE Cancelling(q)' \/ Shelved(q)'
  <2>1. CASE q = o
    BY <1>1, <2>1 DEF Cancelling, Running, At, Cancels
  <2>2. CASE q # o
    <3>1. Shelved(q) => Shelved(q)'
      BY <2>2 DEF Shelved, Cancelled
    <3>2. ASSUME Cancelling(q) PROVE Cancelling(q)'
      <4>1. PICK v \in Workers : Running(v) /\ req[v].o = q /\ Cancels(req[v])
        BY <3>2 DEF Cancelling
      <4>2. CASE v = w
        BY <2>2, <4>1, <4>2
      <4>3. CASE v # w
        BY <1>1, <4>1, <4>3 DEF Cancelling, Running, At, Cancels
      <4> QED BY <4>2, <4>3
    <3> QED BY <3>1, <3>2 DEF Shelf
  <2> QED BY <2>1, <2>2
<1> QED BY <1>2, <1>3

(* A step that is no part of a cancellation.                                 *)
LEMMA ShelfQuiet ==
  ASSUME ~SameOrderOverlap, IInv, Shelf, NEW w \in Workers, NEW o \in Orders,
         NEW job \in Jobs \cup {Idle},
         req' = [req EXCEPT ![w] = job], UNCHANGED <<stock, history, returned, dead>>,
         Running(w) => req[w].o = o /\ ~Cancels(req[w]),
         \A v \in Workers \ {w} : Running(v) => req[v].o # o,
         job # Idle => job.o = o /\ ~Cancels(job) /\ job.at # "restock",
         \A q \in Orders : order'[q].status = order[q].status,
         \A q \in Orders \ {o} : order'[q] = order[q]
  PROVE  Shelf'
<1>1. job # Idle => Shelving(job)'
  BY DEF Shelving, Cancels
<1>2. \A p : Out(p)' = Out(p)
  BY DEF Out, Placed
<1>3. \A p \in Products : Counted(p) => Counted(p)'
  BY <1>2 DEF Counted
<1>4. dead = {} => Shelved(o)
  BY DEF Shelf, Cancelling
<1>5. dead = {} => Shelved(o)' /\ \A p \in Products : Counted(p)'
  BY <1>3, <1>4 DEF Shelf, Shelved, Cancelled
<1>6. stock' \in [Products -> Int] /\ dead' = dead
  BY DEF Shelf
<1>7. /\ Running(w) => req[w].o = o
      /\ \A q \in Orders \ {o} : /\ order'[q] = order[q] /\ history'[q] = history[q]
                                /\ returned'[q] = returned[q]
  OBVIOUS
<1>8. job # Idle => job.o = o /\ (dead = {} => Shelving(job)')
  BY <1>1
<1>9. dead = {} => /\ (job # Idle /\ Cancels(job)) \/ Shelved(o)'
                   /\ \A p \in Products : Counted(p)'
  BY <1>5
<1> QED BY <1>6, <1>7, <1>8, <1>9, ShelfMoves, ZenonT(30)

(* A request arrives: a cancellation has the order's goods still to put back.*)
LEMMA ShelfStarts ==
  ASSUME ~SameOrderOverlap, IInv, Shelf, NEW w \in Workers, NEW o \in Orders,
         NEW s \in {"insert", "restock", "reread", "mark", "unassign", "accept", "free"},
         NEW to \in Statuses \cup {None}, NEW p \in Partners \cup {None},
         NEW x \in Partners \cup {None}, Start(w, Job(s, o, to, p, x)), Free(o),
         s = "restock" => to = "CANCELLED" /\ Placed(o) /\ to \in Allowed[order[o].status],
         s = "reread" => to # "CANCELLED",
         UNCHANGED <<order, history, stock, returned, dead>>
  PROVE  Shelf'
<1>1. PICK job \in Jobs : job = Job(s, o, to, p, x)
  BY JobType DEF Stages
<1>2. job.at = s /\ job.o = o /\ job.to = to /\ job.left = Lines[o]
  BY <1>1 DEF Job
<1>3. req' = [req EXCEPT ![w] = job] /\ ~Running(w)
  BY <1>1 DEF Start, Become, Running, At
<1>4. \A v \in Workers : Running(v) => req[v].o # o
  BY DEF Free, Busy
<1>5. CASE s # "restock"
  <2>1. ~Cancels(job) /\ job.at # "restock"
    BY <1>2, <1>5 DEF Cancels
  <2>2. job # Idle => job.o = o /\ ~Cancels(job) /\ job.at # "restock"
    BY <1>2, <2>1
  <2>3. Running(w) => req[w].o = o /\ ~Cancels(req[w])
    BY <1>3
  <2>4. \A v \in Workers \ {w} : Running(v) => req[v].o # o
    BY <1>4
  <2> QED BY <1>3, <2>2, <2>3, <2>4, ShelfQuiet
<1>6. CASE s = "restock"
  <2>1. \A q : Out(q)' = Out(q) /\ (Counted(q) => Counted(q)')
    BY DEF Out, Placed, Counted
  <2>2. order[o].status \in {"PENDING", "ACCEPTED", "PREPARING"}
    BY <1>6 DEF Allowed, IInv, RowsTyped, Rows, Placed, Statuses
  <2>3. ~Cancelled(o)
    BY <2>2 DEF IInv, Serial, Consistent
  <2>4. dead = {} => Shelved(o)
    BY <1>4 DEF Shelf, Cancelling
  <2>5. dead = {} => Shelving(job)'
    BY <1>2, <1>6, <2>3, <2>4 DEF Shelving, Cancels, Shelved
  <2>6. Cancels(job) /\ stock' \in [Products -> Int] /\ dead' = dead
    BY <1>2, <1>6 DEF Cancels, Shelf
  <2>7. job # Idle => job.o = o /\ (dead = {} => Shelving(job)')
    BY <1>2, <2>5
  <2>8. dead = {} => /\ (job # Idle /\ Cancels(job)) \/ Shelved(o)'
                     /\ \A q \in Products : Counted(q)'
    BY <1>2, <1>6, <2>1, <2>6 DEF Shelf, Idle
  <2>9. \A v \in Workers \ {w} : Running(v) => req[v].o # o
    BY <1>4
  <2> QED BY <1>3, <2>6, <2>7, <2>8, <2>9, ShelfMoves
<1> QED BY <1>5, <1>6

LEMMA ArriveShelf ==
  ASSUME ~SameOrderOverlap, FreshScreens, IInv, Shelf, NEW w \in Workers, Arrive(w)
  PROVE  Shelf'
<1>1. ASSUME NEW o \in Orders, Create(w, o) PROVE Shelf'
  BY <1>1, ShelfStarts DEF Create, Free
<1>2. ASSUME NEW o \in Orders, CancelRequest(w, o) PROVE Shelf'
  BY <1>2, ShelfStarts DEF CancelRequest, Allowed, Placed, Statuses
<1>3. ASSUME NEW o \in Orders, NEW to \in Statuses, StatusRequest(w, o, to) PROVE Shelf'
  BY <1>3, ShelfStarts DEF StatusRequest
<1>4. ASSUME NEW o \in Orders, NEW p \in Partners, AssignRequest(w, o, p) PROVE Shelf'
  BY <1>4, ShelfStarts DEF AssignRequest
<1>5. ASSUME NEW o \in Orders, NEW p \in Partners, NEW b \in BOOLEAN, AnswerRequest(w, o, p, b)
      PROVE  Shelf'
  BY <1>5, ShelfStarts DEF AnswerRequest
<1> QED BY <1>1, <1>2, <1>3, <1>4, <1>5 DEF Arrive

(* The cancellation puts one product after the other back on the shelf.      *)
LEMMA RestockShelf ==
  ASSUME ~SameOrderOverlap, IInv, Shelf, NEW w \in Workers, Restock(w)
  PROVE  Shelf'
<1>1. Running(w) /\ req[w].at = "restock" /\ req[w] \in Jobs
  <2>1. Running(w) /\ req[w].at = "restock"
    BY DEF Restock, Running, At
  <2> QED BY <2>1, AtJob
<1>2. PICK o \in Orders : o = req[w].o
  BY <1>1, AtJob
<1>3. /\ UNCHANGED <<order, history, dead>>
      /\ \A v \in Workers \ {w} : Running(v) => req[v].o # o
      /\ Running(w) => req[w].o = o
  BY <1>1, <1>2, AtJob DEF Restock
<1>4. dead = {} => /\ req[w].to = "CANCELLED" /\ req[w].left \subseteq Lines[o]
                   /\ "CANCELLED" \in Allowed[order[o].status]
                   /\ \A p \in Lines[o] : returned[o][p] = IF p \in req[w].left THEN 0 ELSE 1
  BY <1>1, <1>2 DEF Shelf, Shelving, Cancels
<1>5. CASE req[w].left = {}
  <2>1. PICK job : job = [req[w] EXCEPT !.at = "reread"]
    OBVIOUS
  <2>2. job \in Jobs /\ job.at = "reread" /\ job.o = o /\ job.to = req[w].to
    BY <1>1, <1>2, <2>1 DEF Jobs, Stages
  <2>3. req' = [req EXCEPT ![w] = job] /\ UNCHANGED <<stock, returned>>
    BY <1>5, <2>1 DEF Restock, Go, Become
  <2>4. job # Idle => job.o = o /\ (dead = {} => Shelving(job)')
    BY <1>3, <1>4, <1>5, <2>2, <2>3 DEF Shelving, Cancels
  <2>5. \A p : Counted(p) => Counted(p)'
    BY <1>3, <2>3 DEF Counted, Out, Placed
  <2>6. dead = {} => /\ (job # Idle /\ Cancels(job)) \/ Shelved(o)'
                     /\ \A p \in Products : Counted(p)'
    BY <1>4, <2>2, <2>5 DEF Shelf, Cancels, Idle
  <2>7. \A q \in Orders \ {o} : /\ order'[q] = order[q] /\ history'[q] = history[q]
                                /\ returned'[q] = returned[q]
    BY <1>3, <2>3
  <2>8. stock' \in [Products -> Int] /\ dead' = dead
    BY <1>3, <2>3 DEF Shelf
  <2> QED BY <1>3, <2>2, <2>3, <2>4, <2>6, <2>7, <2>8, ShelfMoves
<1>6. CASE req[w].left # {}
  <2>1. PICK p \in req[w].left :
          /\ stock' = [stock EXCEPT ![p] = @ + 1]
          /\ returned' = [returned EXCEPT ![o][p] = @ + 1]
          /\ req' = [req EXCEPT ![w] = [req[w] EXCEPT !.left = @ \ {p}]]
    BY <1>2, <1>6 DEF Restock, Become
  <2>2. PICK job : job = [req[w] EXCEPT !.left = @ \ {p}]
    OBVIOUS
  <2>3. /\ job \in Jobs /\ job.at = "restock" /\ job.o = o /\ job.to = req[w].to
        /\ job.left = req[w].left \ {p} /\ p \in Products
    BY <1>1, <1>2, <2>2 DEF Jobs
  <2>4. /\ \A q \in Orders, g \in Products :
            returned'[q][g] = IF q = o /\ g = p THEN returned[q][g] + 1 ELSE returned[q][g]
        /\ \A q \in Orders \ {o} : returned'[q] = returned[q]
        /\ \A g \in Products : stock'[g] = IF g = p THEN stock[g] + 1 ELSE stock[g]
        /\ stock' \in [Products -> Int]
    BY <2>1, <2>3 DEF IInv, RowsTyped, Shelf
  <2>5. Lines[o] \subseteq Products
    BY OrdersHaveLines
  <2>6. job # Idle => job.o = o /\ (dead = {} => Shelving(job)')
    <3> SUFFICES ASSUME dead = {} PROVE Shelving(job)'
      BY <2>3
    <3>1. job.to = "CANCELLED" /\ job.left \subseteq Lines[o]
      BY <1>4, <2>3
    <3>2. "CANCELLED" \in Allowed[order'[o].status]
      BY <1>3, <1>4
    <3>3. \A g \in Lines[o] : returned'[o][g] = IF g \in job.left THEN 0 ELSE 1
      BY <1>4, <2>1, <2>3, <2>4, <2>5
    <3> QED BY <2>3, <3>1, <3>2, <3>3 DEF Shelving, Cancels
  <2>7. ASSUME dead = {}, NEW g \in Products PROVE Counted(g)'
    <3>1. Counted(g) /\ stock[g] \in Int
      BY <2>7 DEF Shelf
    <3>2. CASE g # p
      <4>1. Out(g)' = Out(g)
        BY <1>3, <2>4, <3>2 DEF Out, Placed
      <4> QED BY <2>4, <3>1, <3>2, <4>1 DEF Counted
    <3>3. CASE g = p
      <4>1. o \in Out(g) /\ returned[o][p] = 0
        BY <1>1, <1>2, <1>4, <2>1, <2>7, <3>3, AtJob DEF Out, Restocking
      <4>2. Out(g)' = Out(g) \ {o}
        <5>1. \A q \in Orders \ {o} : q \in Out(g)' <=> q \in Out(g)
          BY <1>3, <2>4 DEF Out, Placed
        <5>2. o \notin Out(g)'
          BY <2>3, <2>4, <3>3, <4>1 DEF Out
        <5>3. Out(g) \subseteq Orders /\ Out(g)' \subseteq Orders
          BY DEF Out
        <5> QED BY <5>1, <5>2, <5>3
      <4>3. IsFiniteSet(Out(g)') /\ Cardinality(Out(g)') = Cardinality(Out(g)) - 1
        BY <3>1, <4>1, <4>2, FS_RemoveElement DEF Counted
      <4>4. Cardinality(Out(g)) \in Nat /\ InStock[g] \in Nat
        BY <3>1, StockIsNat, FS_CardinalityType DEF Counted
      <4> QED BY <2>4, <3>1, <3>3, <4>3, <4>4 DEF Counted
    <3> QED BY <3>2, <3>3
  <2>8. dead = {} => /\ (job # Idle /\ Cancels(job)) \/ Shelved(o)'
                     /\ \A g \in Products : Counted(g)'
    BY <1>4, <2>3, <2>7 DEF Cancels, Idle
  <2>9. \A q \in Orders \ {o} : /\ order'[q] = order[q] /\ history'[q] = history[q]
                                /\ returned'[q] = returned[q]
    BY <1>3, <2>4
  <2>10. req' = [req EXCEPT ![w] = job] /\ dead' = dead /\ job \in Jobs \cup {Idle}
    BY <1>3, <2>1, <2>2, <2>3
  <2> QED BY <1>3, <2>4, <2>6, <2>8, <2>9, <2>10, ShelfMoves
<1> QED BY <1>5, <1>6

(* A cancellation that has put everything back is not refused.               *)
LEMMA RereadShelf ==
  ASSUME ~SameOrderOverlap, IInv, Shelf, NEW w \in Workers, Reread(w)
  PROVE  Shelf'
<1>1. Running(w) /\ req[w].at = "reread" /\ req[w] \in Jobs
  <2>1. Running(w) /\ req[w].at = "reread"
    BY DEF Reread, Running, At
  <2> QED BY <2>1, AtJob
<1>2. PICK o \in Orders : o = req[w].o
  BY <1>1, AtJob
<1>3. /\ UNCHANGED <<order, history, stock, returned, dead>>
      /\ \A v \in Workers \ {w} : Running(v) => req[v].o # o
      /\ Running(w) => req[w].o = o
  BY <1>1, <1>2, AtJob DEF Reread
<1>4. PICK job \in Jobs \cup {Idle} :
        /\ req' = [req EXCEPT ![w] = job]
        /\ job # Idle => job.at = "write" /\ job.o = o /\ job.to = req[w].to
        /\ req[w].to \in Allowed[order[o].status] => job # Idle
  <2>1. CASE req[w].to \in Allowed[order[o].status]
    <3>1. PICK job \in Jobs : job = Job("write", o, req[w].to, None, None)
      <4>1. req[w].to \in Statuses \cup {None}
        BY <1>1 DEF Jobs
      <4> QED BY <4>1, JobType DEF Stages
    <3>2. job.at = "write" /\ job.o = o /\ job.to = req[w].to /\ job # Idle
      BY <3>1 DEF Job, Idle
    <3>3. req' = [req EXCEPT ![w] = job]
      BY <1>2, <2>1, <3>1 DEF Reread, Become
    <3> QED BY <3>2, <3>3
  <2>2. CASE req[w].to \notin Allowed[order[o].status]
    BY <1>2, <2>2 DEF Reread, End, Become
  <2> QED BY <2>1, <2>2
<1>5. CASE req[w].to # "CANCELLED"
  <2>1. job # Idle => job.o = o /\ ~Cancels(job) /\ job.at # "restock"
    BY <1>4, <1>5 DEF Cancels
  <2>2. Running(w) => req[w].o = o /\ ~Cancels(req[w])
    BY <1>3, <1>5 DEF Cancels
  <2> QED BY <1>3, <1>4, <2>1, <2>2, ShelfQuiet
<1>6. CASE req[w].to = "CANCELLED"
  <2>1. dead = {} => /\ req[w].to \in Allowed[order[o].status]
                     /\ \A p \in Lines[o] : returned[o][p] = 1
    BY <1>1, <1>2, <1>6 DEF Shelf, Shelving, Cancels
  <2>2. job # Idle => job.o = o /\ (dead = {} => Shelving(job)')
    BY <1>3, <1>4, <1>6, <2>1 DEF Shelving, Cancels
  <2>3. \A p : Counted(p) => Counted(p)'
    BY <1>3 DEF Counted, Out, Placed
  <2>4. dead = {} => /\ (job # Idle /\ Cancels(job)) \/ Shelved(o)'
                     /\ \A p \in Products : Counted(p)'
    BY <1>4, <1>6, <2>1, <2>3 DEF Shelf, Cancels
  <2>5. stock' \in [Products -> Int] /\ dead' = dead
    BY <1>3 DEF Shelf
  <2>6. \A q \in Orders \ {o} : /\ order'[q] = order[q] /\ history'[q] = history[q]
                                /\ returned'[q] = returned[q]
    BY <1>3
  <2> QED BY <1>3, <1>4, <2>2, <2>4, <2>5, <2>6, ShelfMoves
<1> QED BY <1>5, <1>6

(* The status is written: CANCELLED once everything is back.                 *)
LEMMA WriteShelf ==
  ASSUME ~SameOrderOverlap, IInv, Shelf, NEW w \in Workers, WriteStatus(w)
  PROVE  Shelf'
<1>1. Running(w) /\ req[w].at = "write" /\ req[w] \in Jobs
  <2>1. Running(w) /\ req[w].at = "write"
    BY DEF WriteStatus, Running, At
  <2> QED BY <2>1, AtJob
<1>2. PICK o \in Orders : o = req[w].o
  BY <1>1, AtJob
<1>3. /\ UNCHANGED <<stock, returned, dead>>
      /\ \A v \in Workers \ {w} : Running(v) => req[v].o # o
      /\ Running(w) => req[w].o = o
  BY <1>1, <1>2, AtJob DEF WriteStatus
<1>4. req[w].to \in Statuses /\ Placed(o)
  BY <1>1, <1>2, AtJob DEF Restocking
<1>5. /\ order' = [order EXCEPT ![o].status = req[w].to]
      /\ history' = [history EXCEPT ![o] = @ \cup {req[w].to}]
      /\ Go(w, AfterWrite(req[w]))
  BY <1>2 DEF WriteStatus
<1>6. /\ \A q \in Orders \ {o} : /\ order'[q] = order[q] /\ history'[q] = history[q]
                                 /\ returned'[q] = returned[q]
      /\ order'[o].status = req[w].to /\ history'[o] = history[o] \cup {req[w].to}
  BY <1>3, <1>5 DEF IInv, RowsTyped, Rows
<1>7. PICK job \in Jobs : /\ req' = [req EXCEPT ![w] = job]
                          /\ job.o = o /\ job.at \in Late \cup {"refund"}
  <2>1. PICK job : job = [req[w] EXCEPT !.at = AfterWrite(req[w])]
    OBVIOUS
  <2>2. AfterWrite(req[w]) \in Late \cup {"refund"}
    BY <1>1, AfterWriteStages
  <2>3. job \in Jobs /\ job.o = o /\ job.at = AfterWrite(req[w])
    BY <1>1, <1>2, <2>1, <2>2 DEF Jobs, Stages, Late
  <2> QED BY <1>5, <2>1, <2>2, <2>3 DEF Go, Become
<1>8. job # Idle => job.o = o /\ (dead = {} => Shelving(job)')
  BY <1>7 DEF Shelving, Cancels, Late
<1>9. \A q \in Orders : Placed(q)' <=> Placed(q)
  BY <1>4, <1>6 DEF Placed, Statuses
<1>10. \A p : Counted(p) => Counted(p)'
  <2>1. \A p : Out(p)' = Out(p)
    BY <1>3, <1>9 DEF Out
  <2> QED BY <1>3, <2>1 DEF Counted
<1>11. dead = {} => Shelved(o)'
  <2> SUFFICES ASSUME dead = {} PROVE Shelved(o)'
    OBVIOUS
  <2>1. CASE req[w].to = "CANCELLED"
    <3>1. \A p \in Lines[o] : returned[o][p] = 1
      BY <1>1, <1>2, <2>1 DEF Shelf, Shelving, Cancels
    <3>2. Cancelled(o)'
      BY <1>6, <2>1 DEF Cancelled
    <3> QED BY <1>3, <3>1, <3>2 DEF Shelved
  <2>2. CASE req[w].to # "CANCELLED"
    <3>1. Shelved(o)
      BY <1>1, <1>2, <1>3, <2>2 DEF Shelf, Cancelling, Cancels
    <3>2. Cancelled(o)' <=> Cancelled(o)
      BY <1>6, <2>2 DEF Cancelled
    <3> QED BY <1>3, <3>1, <3>2 DEF Shelved
  <2> QED BY <2>1, <2>2
<1>12. dead = {} => /\ (job # Idle /\ Cancels(job)) \/ Shelved(o)'
                    /\ \A p \in Products : Counted(p)'
  BY <1>10, <1>11 DEF Shelf
<1>13. stock' \in [Products -> Int] /\ dead' = dead
  BY <1>3 DEF Shelf
<1> QED BY <1>3, <1>6, <1>7, <1>8, <1>12, <1>13, ShelfMoves

(* The order takes its products.                                             *)
LEMMA InsertShelf ==
  ASSUME ~SameOrderOverlap, IInv, Shelf, NEW w \in Workers, Insert(w)
  PROVE  Shelf'
<1>1. Running(w) /\ req[w].at = "insert" /\ req[w] \in Jobs
  <2>1. Running(w) /\ req[w].at = "insert"
    BY DEF Insert, Running, At
  <2> QED BY <2>1, AtJob
<1>2. PICK o \in Orders : o = req[w].o
  BY <1>1, AtJob
<1>3. /\ UNCHANGED <<returned, dead>>
      /\ \A v \in Workers \ {w} : Running(v) => req[v].o # o
      /\ Running(w) => req[w].o = o
  BY <1>1, <1>2, AtJob DEF Insert
<1>4. ~Placed(o)
  BY <1>1, <1>2, AtJob DEF Current
<1>5. ~Cancelled(o)
  BY <1>4 DEF IInv, Serial, Consistent, Placed
<1>6. PICK row : order' = [order EXCEPT ![o] = row] /\ row.status = "PENDING"
  <2>1. PICK row : row = [Unplaced EXCEPT !.status = "PENDING",
                                          !.paid = IF o \in OnWallet THEN "PAID" ELSE "PENDING"]
    OBVIOUS
  <2>2. row.status = "PENDING"
    BY <2>1 DEF Unplaced
  <2> QED BY <1>2, <2>1, <2>2 DEF Insert
<1>7. /\ history' = [history EXCEPT ![o] = @ \cup {"PENDING"}]
      /\ stock' = [p \in Products |-> IF p \in Lines[o] THEN stock[p] - 1 ELSE stock[p]]
      /\ End(w)
  BY <1>2 DEF Insert
<1>8. /\ \A q \in Orders \ {o} : /\ order'[q] = order[q] /\ history'[q] = history[q]
                                 /\ returned'[q] = returned[q]
      /\ order'[o].status = "PENDING" /\ ~Cancelled(o)'
  BY <1>3, <1>5, <1>6, <1>7 DEF IInv, RowsTyped, Cancelled
<1>9. dead = {} => Shelved(o)
  BY <1>1, <1>2, <1>3 DEF Shelf, Cancelling, Cancels
<1>10. ASSUME dead = {}, NEW p \in Products PROVE Counted(p)'
  <2>1. Counted(p) /\ stock[p] \in Int /\ InStock[p] \in Nat
    BY <1>10, StockIsNat DEF Shelf
  <2>2. CASE p \notin Lines[o]
    <3>1. Out(p)' = Out(p)
      BY <1>3, <1>8, <2>2 DEF Out, Placed
    <3> QED BY <1>7, <2>1, <2>2, <3>1 DEF Counted
  <2>3. CASE p \in Lines[o]
    <3>1. Out(p)' = Out(p) \cup {o} /\ o \notin Out(p)
      <4>1. returned[o][p] = 0
        BY <1>5, <1>9, <1>10, <2>3 DEF Shelved
      <4>2. o \in Out(p)' /\ o \notin Out(p)
        BY <1>3, <1>4, <1>8, <2>3, <4>1 DEF Out, Placed
      <4>3. \A q \in Orders \ {o} : q \in Out(p)' <=> q \in Out(p)
        BY <1>3, <1>8 DEF Out, Placed
      <4>4. Out(p) \subseteq Orders /\ Out(p)' \subseteq Orders
        BY DEF Out
      <4> QED BY <4>2, <4>3, <4>4
    <3>2. IsFiniteSet(Out(p)') /\ Cardinality(Out(p)') = Cardinality(Out(p)) + 1
      BY <2>1, <3>1, FS_AddElement DEF Counted
    <3>3. Cardinality(Out(p)) \in Nat
      BY <2>1, FS_CardinalityType DEF Counted
    <3>4. stock'[p] = stock[p] - 1
      BY <1>7, <2>3
    <3> QED BY <2>1, <3>2, <3>3, <3>4 DEF Counted
  <2> QED BY <2>2, <2>3
<1>11. dead = {} => /\ (Idle # Idle /\ Cancels(Idle)) \/ Shelved(o)'
                    /\ \A p \in Products : Counted(p)'
  BY <1>3, <1>5, <1>8, <1>9, <1>10 DEF Shelved
<1>12. stock' \in [Products -> Int] /\ dead' = dead
  BY <1>3, <1>7 DEF Shelf
<1>13. PICK job : job = Idle
  OBVIOUS
<1>14. /\ job \in Jobs \cup {Idle} /\ req' = [req EXCEPT ![w] = job]
       /\ job # Idle => job.o = o /\ (dead = {} => Shelving(job)')
       /\ dead = {} => /\ (job # Idle /\ Cancels(job)) \/ Shelved(o)'
                       /\ \A p \in Products : Counted(p)'
  BY <1>7, <1>11, <1>13 DEF End, Become
<1> QED BY <1>3, <1>8, <1>12, <1>14, ShelfMoves

(* Everything after the status touches neither the shelf nor the status.     *)
LEMMA LateShelf ==
  ASSUME ~SameOrderOverlap, IInv, Shelf, NEW w \in Workers,
         \/ Respond(w) \/ RefundOrder(w) \/ RefundCredit(w) \/ ReleaseRider(w) \/ AwardPoints(w)
         \/ FindRiders(w) \/ (\E p \in Partners : ClaimRider(w, p)) \/ Attach(w)
         \/ Unassign(w) \/ Mark(w) \/ Accept(w) \/ FreeRejecter(w) \/ ClearAssignment(w)
  PROVE  Shelf'
<1>1. Running(w) /\ req[w].at \in Late \cup {"refund", "credit"}
  BY Zenon
    DEF Respond, RefundOrder, RefundCredit, ReleaseRider, AwardPoints, FindRiders, ClaimRider,
         Attach, Unassign, Mark, Accept, FreeRejecter, ClearAssignment, Running, At, Late
<1>2. PICK o \in Orders : o = req[w].o
  BY <1>1, AtJob
<1>3. /\ UNCHANGED <<history, stock, returned, dead>>
      /\ \A v \in Workers \ {w} : Running(v) => req[v].o # o
      /\ req[w] \in Jobs
  BY <1>1, <1>2, AtJob, Zenon
  DEF Respond, RefundOrder, RefundCredit, ReleaseRider, AwardPoints, FindRiders, ClaimRider,
      Attach, Unassign, Mark, Accept, FreeRejecter, ClearAssignment, posts
<1>4. PICK job \in Jobs \cup {Idle} :
        /\ req' = [req EXCEPT ![w] = job]
        /\ job # Idle => job.o = o /\ job.at \in Late \cup {"refund", "credit"}
  <2>1. CASE End(w)
    BY <2>1 DEF End, Become
  <2>2. CASE \E s \in Late \cup {"refund", "credit"} : Go(w, s)
    <3>1. PICK s \in Late \cup {"refund", "credit"} : Go(w, s)
      BY <2>2
    <3>2. PICK job : job = [req[w] EXCEPT !.at = s]
      OBVIOUS
    <3>3. job \in Jobs /\ job.o = o /\ job.at = s
      BY <1>2, <1>3, <3>2 DEF Jobs, Stages, Late
    <3> QED BY <3>1, <3>2, <3>3 DEF Go, Become
  <2>3. CASE FindRiders(w) \/ \E p \in Partners : ClaimRider(w, p)
    BY <1>2, <2>3, SearchJob
  <2>4. AfterRefund(req[w]) \in Late
    BY <1>3, AfterWriteStages, Zenon
  <2> QED BY <2>1, <2>2, <2>3, <2>4
      DEF Respond, RefundOrder, RefundCredit, ReleaseRider, AwardPoints, Attach, Unassign, Mark,
          Accept, FreeRejecter, ClearAssignment, Late
<1>5. \A q \in Orders : order'[q].status = order[q].status
  <2>1. CASE order' = order
    BY <2>1, Zenon
  <2> QED BY <2>1, RefundStep, RiderStep, Zenon
      DEF Respond, RefundCredit, ReleaseRider, AwardPoints, FindRiders, ClaimRider, Unassign, Mark,
          FreeRejecter
<1>6. \A q \in Orders \ {o} : order'[q] = order[q]
  BY <1>2, Zenon DEF IInv, RowsTyped, Respond, RefundOrder, RefundCredit, ReleaseRider, AwardPoints,
     FindRiders, ClaimRider, Attach, Unassign, Mark, Accept, FreeRejecter, ClearAssignment
<1>7. job # Idle => job.o = o /\ ~Cancels(job) /\ job.at # "restock"
  BY <1>4 DEF Cancels, Late
<1>8. Running(w) => req[w].o = o /\ ~Cancels(req[w])
  BY <1>1, <1>2 DEF Cancels, Late
<1> QED BY <1>3, <1>4, <1>5, <1>6, <1>7, <1>8, ShelfQuiet, Zenon

(* After a crash the shelf is nobody's promise any more.                     *)
LEMMA CrashShelf == ASSUME IInv, Shelf, NEW w \in Workers, Crash(w) PROVE Shelf'
<1>1. Running(w)
  BY DEF Crash
<1>2. req[w].o \in Orders
  BY <1>1, AtJob
<1> QED BY <1>2 DEF Crash, Shelf

LEMMA NextShelf ==
  ASSUME ~SameOrderOverlap, FreshScreens
  PROVE  IInv /\ Shelf /\ [Next]_vars => Shelf'
<1> SUFFICES ASSUME IInv, Shelf, [Next]_vars PROVE Shelf'
  OBVIOUS
<1>1. CASE UNCHANGED vars
  BY <1>1 DEF Shelf, Shelving, Cancels, Cancelling, Shelved, Out, Counted, Placed, Cancelled,
              Running, At, vars
<1>2. ASSUME NEW w \in Workers, Arrive(w) PROVE Shelf'
  BY <1>2, ArriveShelf
<1>3. ASSUME NEW w \in Workers, Step(w) PROVE Shelf'
  BY <1>3, InsertShelf, RestockShelf, RereadShelf, WriteShelf, LateShelf DEF Step
<1>4. ASSUME NEW w \in Workers, Crash(w) PROVE Shelf'
  BY <1>4, CrashShelf
<1> QED BY <1>1, <1>2, <1>3, <1>4 DEF Next

(* One request at a time on an order, from screens that are up to date: what *)
(* is missing from the shelf is what the orders that stand have taken        *)
(* (restockItems, which puts back before the status says so).                *)
THEOREM SerialStockBalanced ==
  ASSUME ~SameOrderOverlap, FreshScreens
  PROVE  Spec => []StockBalanced
<1>1. IInv /\ Shelf => StockBalanced
  <2> SUFFICES ASSUME IInv, Shelf, \A o \in Orders : Resting(o), NEW p \in Products
               PROVE  stock[p] = InStock[p] - Cardinality(Takers(p))
    BY DEF StockBalanced
  <2>1. dead = {} /\ \A o \in Orders : Shelved(o)
    BY DEF Shelf, Resting, Cancelling, Busy
  <2>2. Out(p) = Takers(p)
    BY <2>1 DEF Out, Takers, Shelved
  <2> QED BY <2>1, <2>2 DEF Shelf, Counted
<1> QED BY <1>1, InitIInv, NextIInv, InitShelf, NextShelf, PTL DEF Spec
=============================================================================
