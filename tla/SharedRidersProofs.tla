------------------------- MODULE SharedRidersProofs -------------------------
(* Food and grocery orders share their riders: whom an order holds, and why  *)
(* nobody is held twice or by nobody.  An order holds the rider its row      *)
(* names while it is live, but for the time between a claim or a delivery    *)
(* and the statement that writes it to the order or to the pool.             *)
EXTENDS Fleet, TLAPS, FiniteSetTheorems

(***************************************************************************)
(* What an order holds: the same of both services, of the rows and the     *)
(* requests of one of them.                                                *)
(***************************************************************************)

(* Neither service has a rider of this name.                                 *)
USE DEF None, Food!None, Grocery!None

AtRest == [at |-> "idle"]
OnOrder(r, o) == r.at # "idle" /\ r.o = o
UnderWay(row) == row.status # "none" /\ row.status \notin {"DELIVERED", "CANCELLED", "REFUNDED"}

(* The rider an order holds that has this row and this request at work on    *)
(* it: the one that has been claimed, the one of a delivered order that is   *)
(* about to be released, and the one the row of a live order names unless    *)
(* they have rejected it and been freed.                                     *)
Rider(row, r) == IF r.at = "attach" THEN r.partner
                 ELSE IF r.at = "release" THEN r.seen.partner
                 ELSE IF r.at = "clear" THEN None
                 ELSE IF UnderWay(row) THEN row.partner
                 ELSE None

HoldsRider(rows, jobs, W, o, p) ==
  \/ \E w \in W : OnOrder(jobs[w], o) /\ Rider(rows[o], jobs[w]) = p
  \/ (\A w \in W : ~OnOrder(jobs[w], o)) /\ Rider(rows[o], AtRest) = p

(* What a request knows of the row of its order.                             *)
Refunding == {"refundPayment", "refundOrder", "refund", "credit"}
OnRoad == {"READY", "OUT_FOR_DELIVERY"}
Informed(row, r) ==
  /\ r.at \notin {"vet", "unassign", "mark"}
  /\ r.at = "insert" => row.status = "none"
  /\ r.at \in {"restock", "reread"} => row.status # "none"
  /\ r.at = "write" => /\ r.seen.status = row.status /\ r.seen.partner = row.partner
                       /\ row.status # "none" /\ r.to \in Grocery!Allowed[row.status]
  /\ r.at \in Refunding => r.seen.partner = None
  /\ r.at = "release" => ~UnderWay(row) /\ r.seen.partner \in Partners
  /\ r.at \in {"find", "claim", "attach"} => row.partner = None /\ row.status \in OnRoad
  /\ r.at = "attach" => r.partner \in Partners
  /\ r.at \in {"free", "clear"} =>
       /\ r.partner \in Partners /\ row.partner = r.partner /\ row.status \in OnRoad
       /\ r.seen.partner = r.partner /\ r.excluded = r.partner /\ r.seen.status = row.status

(* Only an order that has been READY has a rider.                            *)
RowSound(row) == row.partner # None => row.partner \in Partners
                                       /\ row.status \in OnRoad \cup {"DELIVERED"}

Orderly(rows, jobs, O, W) ==
  /\ \A o \in O : RowSound(rows[o])
  /\ \A w \in W : jobs[w].at # "idle" => jobs[w].o \in O /\ Informed(rows[jobs[w].o], jobs[w])
  /\ \A v, w \in W : jobs[v].at # "idle" /\ jobs[w].at # "idle" /\ jobs[v].o = jobs[w].o => v = w

(***************************************************************************)
(* The invariant.                                                          *)
(***************************************************************************)

AllLines == UNION {Lines[o] : o \in GroceryOrder}
GroceryStages == {"insert", "restock", "reread", "write", "end", "refund", "credit", "release",
                  "loyalty", "find", "claim", "attach", "unassign", "mark", "accept", "free",
                  "clear"}
GroceryJobs == [at : GroceryStages, o : GroceryOrder, to : Grocery!Statuses \cup {None},
                seen : Grocery!Rows, left : SUBSET AllLines, partner : Partners \cup {None},
                excluded : Partners \cup {None}, ranked : SUBSET Partners]

PoolSound == PoolTypeOK /\ \A p \in Partners : Exists(p)
FoodTyped == /\ foodRow \in [FoodOrder -> Food!OrderRows]
             /\ foodReq \in [FoodWorkers -> Food!Jobs \cup {AtRest}]
GroceryTyped == /\ groceryRow \in [GroceryOrder -> Grocery!Rows]
                /\ groceryReq \in [GroceryWorkers -> GroceryJobs \cup {AtRest}]

FoodHolds(o, p)    == HoldsRider(foodRow, foodReq, FoodWorkers, o, p)
GroceryHolds(o, p) == HoldsRider(groceryRow, groceryReq, GroceryWorkers, o, p)
Holders(p) == {<<"food", o>> : o \in {q \in FoodOrder : FoodHolds(q, p)}}
                \cup {<<"grocery", o>> : o \in {q \in GroceryOrder : GroceryHolds(q, p)}}

(* A rider is held once at most, and is available when nobody holds them.    *)
HeldOnce == \A p \in Partners : /\ \A x, y \in Holders(p) : x = y
                                /\ pool[p].isAvailable <=> Holders(p) = {}

FoodOrderly    == FoodTyped /\ Orderly(foodRow, foodReq, FoodOrder, FoodWorkers)
GroceryOrderly == GroceryTyped /\ Orderly(groceryRow, groceryReq, GroceryOrder, GroceryWorkers)
RidersInv == PoolSound /\ FoodOrderly /\ GroceryOrderly /\ HeldOnce

(* No admin assigns riders by hand or deletes one, and an order has one      *)
(* request at a time.                                                        *)
ServicesDispatch == /\ ~SameOrderOverlap /\ ByHand = {}
                    /\ "assign" \notin FoodRequests /\ "remove" \notin FoodRequests

(***************************************************************************)
(* The two services seen from the pool.                                    *)
(***************************************************************************)

LEMMA SamePool ==
  /\ \A p : (Food!Exists(p) <=> Exists(p)) /\ (Grocery!Exists(p) <=> Exists(p))
  /\ \A p : (Food!ClaimWins(p) <=> ClaimWins(p)) /\ (Grocery!ClaimWins(p) <=> ClaimWins(p))
  /\ \A p : Food!Claimed(p) = Claimed(p) /\ Grocery!Claimed(p) = Claimed(p)
  /\ \A p : Food!Released(p) = Released(p) /\ Grocery!Released(p) = Released(p)
BY DEF Exists, Food!Exists, Grocery!Exists, ClaimWins, Food!ClaimWins, Grocery!ClaimWins,
       Claimed, Food!Claimed, Grocery!Claimed, Released, Food!Released, Grocery!Released

LEMMA SameTable == Food!Allowed = Grocery!Allowed
BY DEF Food!Allowed, Grocery!Allowed

(* What a status may be changed to.                                          *)
LEMMA WhatFollows ==
  ASSUME NEW from \in Grocery!Statuses, NEW to \in Grocery!Allowed[from]
  PROVE  /\ to \in Grocery!Statuses
         /\ to = "CANCELLED" => from \in {"PENDING", "ACCEPTED", "PREPARING"}
         /\ to = "READY" => from = "PREPARING"
         /\ to = "OUT_FOR_DELIVERY" => from = "READY"
         /\ to = "DELIVERED" => from = "OUT_FOR_DELIVERY"
         /\ to = "REFUNDED" => from = "CANCELLED"
         /\ to \in {"PENDING", "ACCEPTED", "PREPARING"} => from \in {"PENDING", "ACCEPTED"}
<1>1. CASE from = "PENDING"
  BY <1>1 DEF Grocery!Allowed, Grocery!Statuses
<1>2. CASE from = "ACCEPTED"
  BY <1>2 DEF Grocery!Allowed, Grocery!Statuses
<1>3. CASE from = "PREPARING"
  BY <1>3 DEF Grocery!Allowed, Grocery!Statuses
<1>4. CASE from = "READY"
  BY <1>4 DEF Grocery!Allowed, Grocery!Statuses
<1>5. CASE from = "OUT_FOR_DELIVERY"
  BY <1>5 DEF Grocery!Allowed, Grocery!Statuses
<1>6. CASE from = "DELIVERED"
  BY <1>6 DEF Grocery!Allowed, Grocery!Statuses
<1>7. CASE from = "CANCELLED"
  BY <1>7 DEF Grocery!Allowed, Grocery!Statuses
<1>8. CASE from = "REFUNDED"
  BY <1>8 DEF Grocery!Allowed, Grocery!Statuses
<1> QED BY <1>1, <1>2, <1>3, <1>4, <1>5, <1>6, <1>7, <1>8 DEF Grocery!Statuses

(* What a step does to the pool when its order held a and holds b then.      *)
SameFlags == /\ pool' \in [Partners -> PartnerRows]
             /\ \A p \in Partners : /\ pool'[p].isAvailable = pool[p].isAvailable
                                    /\ Exists(p) => Exists(p)'
Deals(a, b) ==
  \/ a = b /\ SameFlags
  \/ a = None /\ b \in Partners /\ pool[b].isAvailable /\ pool' = Claimed(b)
  \/ a \in Partners /\ b = None /\ pool' = Released(a)

(* One step of the request w on the order o: it leaves this row and goes on  *)
(* to do this, and the other orders and requests are where they were.        *)
Turns(rows, jobs, rows1, jobs1, O, W, w, o, row, job) ==
  /\ o \in O /\ rows1 = [rows EXCEPT ![o] = row] /\ jobs1 = [jobs EXCEPT ![w] = job]
  /\ jobs[w].at # "idle" => jobs[w].o = o
  /\ jobs[w].at = "idle" => \A v \in W : ~OnOrder(jobs[v], o)
  /\ job.at # "idle" => job.o = o
  /\ Informed(row, job) /\ RowSound(row)
  /\ Deals(Rider(rows[o], jobs[w]), Rider(row, job))

Over(f, S) == f = [x \in S |-> f[x]]   \* f is a function on S

Apart(rows, jobs, rows1, jobs1, O, W, w, o, row, job) ==
  /\ o \in O /\ rows1[o] = row /\ \A q \in O : q # o => rows1[q] = rows[q]
  /\ jobs1[w] = job /\ \A v \in W : v # w => jobs1[v] = jobs[v]
  /\ \A v \in W : v # w => ~OnOrder(jobs[v], o) /\ ~OnOrder(jobs1[v], o)
  /\ \A q \in O : q # o => ~OnOrder(jobs[w], q) /\ ~OnOrder(jobs1[w], q)
  /\ OnOrder(jobs[w], o) \/ jobs[w].at = "idle"
  /\ OnOrder(jobs1[w], o) \/ jobs1[w].at = "idle"

LEMMA TurnApart ==
  ASSUME NEW O, NEW W, NEW rows, NEW jobs, NEW rows1, NEW jobs1, NEW w \in W, NEW o, NEW row,
         NEW job, Over(rows, O), Over(jobs, W), Orderly(rows, jobs, O, W),
         Turns(rows, jobs, rows1, jobs1, O, W, w, o, row, job)
  PROVE  Apart(rows, jobs, rows1, jobs1, O, W, w, o, row, job)
<1>1. /\ o \in O /\ rows1[o] = row /\ \A q \in O : q # o => rows1[q] = rows[q]
      /\ jobs1[w] = job /\ \A v \in W : v # w => jobs1[v] = jobs[v]
  BY DEF Turns, Over
<1>2. \A v \in W : v # w => ~OnOrder(jobs[v], o)
  BY DEF Turns, Orderly, OnOrder
<1> QED BY <1>1, <1>2 DEF Turns, Apart, OnOrder

LEMMA TurnOrderly ==
  ASSUME NEW O, NEW W, NEW rows, NEW jobs, NEW rows1, NEW jobs1, NEW w \in W, NEW o, NEW row,
         NEW job, Over(rows, O), Over(jobs, W), Orderly(rows, jobs, O, W),
         Turns(rows, jobs, rows1, jobs1, O, W, w, o, row, job)
  PROVE  Orderly(rows1, jobs1, O, W)
<1> Apart(rows, jobs, rows1, jobs1, O, W, w, o, row, job)
  BY TurnApart
<1>1. /\ o \in O /\ rows1[o] = row /\ \A q \in O : q # o => rows1[q] = rows[q]
      /\ jobs1[w] = job /\ \A v \in W : v # w => jobs1[v] = jobs[v]
      /\ \A v \in W : v # w => ~OnOrder(jobs[v], o)
  BY DEF Apart
<1>2. \A q \in O : RowSound(rows1[q])
  BY <1>1 DEF Turns, Orderly
<1>3. ASSUME NEW v \in W, jobs1[v].at # "idle"
      PROVE  jobs1[v].o \in O /\ Informed(rows1[jobs1[v].o], jobs1[v])
  <2>1. CASE v = w
    BY <1>1, <1>3, <2>1 DEF Turns
  <2>2. CASE v # w
    BY <1>1, <1>3, <2>2 DEF Orderly, OnOrder
  <2> QED BY <2>1, <2>2
<1>4. ASSUME NEW u \in W, NEW v \in W, jobs1[u].at # "idle", jobs1[v].at # "idle",
             jobs1[u].o = jobs1[v].o
      PROVE  u = v
  <2>1. CASE u = w
    BY <1>1, <1>4, <2>1 DEF Turns, OnOrder
  <2>2. CASE v = w
    BY <1>1, <1>4, <2>2 DEF Turns, OnOrder
  <2>3. CASE u # w /\ v # w
    BY <1>1, <1>4, <2>3 DEF Orderly
  <2> QED BY <2>1, <2>2, <2>3
<1> QED BY <1>2, <1>3, <1>4 DEF Orderly

(* The step changes what its own order holds.                                *)
Changes(rows, jobs, rows1, jobs1, O, W, w, o, row, job) ==
  \A p : /\ HoldsRider(rows, jobs, W, o, p) <=> Rider(rows[o], jobs[w]) = p
         /\ HoldsRider(rows1, jobs1, W, o, p) <=> Rider(row, job) = p
         /\ \A q \in O : q # o => (HoldsRider(rows1, jobs1, W, q, p) <=>
                                  HoldsRider(rows, jobs, W, q, p))

LEMMA TurnChanges ==
  ASSUME NEW O, NEW W, NEW rows, NEW jobs, NEW rows1, NEW jobs1, NEW w \in W, NEW o, NEW row,
         NEW job, Over(rows, O), Over(jobs, W), Orderly(rows, jobs, O, W),
         Turns(rows, jobs, rows1, jobs1, O, W, w, o, row, job)
  PROVE  Changes(rows, jobs, rows1, jobs1, O, W, w, o, row, job)
<1> Apart(rows, jobs, rows1, jobs1, O, W, w, o, row, job)
  BY TurnApart
<1>1. /\ o \in O /\ rows1[o] = row /\ \A q \in O : q # o => rows1[q] = rows[q]
      /\ jobs1[w] = job /\ \A v \in W : v # w => jobs1[v] = jobs[v]
      /\ \A v \in W : v # w => ~OnOrder(jobs[v], o) /\ ~OnOrder(jobs1[v], o)
      /\ \A q \in O : q # o => ~OnOrder(jobs[w], q) /\ ~OnOrder(jobs1[w], q)
      /\ OnOrder(jobs[w], o) \/ jobs[w].at = "idle"
      /\ OnOrder(jobs1[w], o) \/ jobs1[w].at = "idle"
  BY DEF Apart
<1>2. \A r, x : r.at = "idle" => Rider(x, r) = Rider(x, AtRest)
  BY DEF Rider, AtRest
<1>3. \A p : HoldsRider(rows, jobs, W, o, p) <=> Rider(rows[o], jobs[w]) = p
  BY <1>1, <1>2 DEF HoldsRider, OnOrder
<1>4. \A p : HoldsRider(rows1, jobs1, W, o, p) <=> Rider(row, job) = p
  BY <1>1, <1>2 DEF HoldsRider, OnOrder
<1>5. ASSUME NEW p, NEW q \in O, q # o
      PROVE  HoldsRider(rows1, jobs1, W, q, p) <=> HoldsRider(rows, jobs, W, q, p)
  <2>1. \A v \in W : OnOrder(jobs1[v], q) <=> OnOrder(jobs[v], q)
    BY <1>1, <1>5
  <2>2. \A v \in W : OnOrder(jobs[v], q) => jobs1[v] = jobs[v]
    BY <1>1, <1>5
  <2>3. rows1[q] = rows[q]
    BY <1>1, <1>5
  <2> QED BY <2>1, <2>2, <2>3 DEF HoldsRider
<1> QED BY <1>3, <1>4, <1>5 DEF Changes

(* One of the holders of a rider changes, as the pool does.                  *)
LEMMA DealKeeps ==
  ASSUME PoolSound, HeldOnce, NEW x, NEW a \in Partners \cup {None},
         NEW b \in Partners \cup {None}, Deals(a, b),
         \A p \in Partners : x \in Holders(p) <=> a = p,
         \A p \in Partners : x \in Holders(p)' <=> b = p,
         \A p \in Partners : \A y : y # x => (y \in Holders(p)' <=> y \in Holders(p))
  PROVE  PoolSound' /\ HeldOnce'
<1>1. CASE a = b /\ SameFlags
  <2>1. \A p \in Partners : Holders(p)' = Holders(p)
    BY <1>1
  <2>2. PoolSound'
    BY <1>1 DEF SameFlags, PoolSound, PoolTypeOK
  <2>3. ASSUME NEW p \in Partners
        PROVE  /\ \A y, z \in Holders(p)' : y = z
               /\ pool'[p].isAvailable <=> Holders(p)' = {}
    BY <1>1, <2>1 DEF SameFlags, HeldOnce
  <2> QED BY <2>2, <2>3 DEF HeldOnce
<1>2. CASE a = None /\ b \in Partners /\ pool[b].isAvailable /\ pool' = Claimed(b)
  <2>1. PICK row : row = [pool[b] EXCEPT !.isAvailable = FALSE]
    OBVIOUS
  <2>2. row \in PartnerRows /\ row.status = pool[b].status /\ ~row.isAvailable
    BY <1>2, <2>1 DEF PoolSound, PoolTypeOK, PartnerRows
  <2>3. pool' = [pool EXCEPT ![b] = row]
    BY <1>2, <2>1 DEF Claimed
  <2>4. PoolSound'
    BY <1>2, <2>2, <2>3 DEF PoolSound, PoolTypeOK, Exists
  <2>5. Holders(b) = {} /\ Holders(b)' = {x}
    BY <1>2 DEF HeldOnce
  <2>6. \A p \in Partners : p # b => Holders(p)' = Holders(p) /\ pool'[p] = pool[p]
    BY <1>2, <2>3, NoneIsNoPartner DEF PoolSound, PoolTypeOK
  <2>7. ASSUME NEW p \in Partners
        PROVE  /\ \A y, z \in Holders(p)' : y = z
               /\ pool'[p].isAvailable <=> Holders(p)' = {}
    <3>1. CASE p = b
      BY <1>2, <2>2, <2>3, <2>5, <3>1 DEF PoolSound, PoolTypeOK
    <3>2. CASE p # b
      BY <2>6, <3>2 DEF HeldOnce
    <3> QED BY <3>1, <3>2
  <2> QED BY <2>4, <2>7 DEF HeldOnce
<1>3. CASE a \in Partners /\ b = None /\ pool' = Released(a)
  <2>1. PICK row : row = [pool[a] EXCEPT !.isAvailable = TRUE]
    OBVIOUS
  <2>2. row \in PartnerRows /\ row.status = pool[a].status /\ row.isAvailable
    BY <1>3, <2>1 DEF PoolSound, PoolTypeOK, PartnerRows
  <2>3. pool' = [pool EXCEPT ![a] = row]
    BY <1>3, <2>1 DEF Released, PoolSound
  <2>4. PoolSound'
    BY <1>3, <2>2, <2>3 DEF PoolSound, PoolTypeOK, Exists
  <2>5. Holders(a)' = {}
    <3>1. \A y \in Holders(a) : y = x
      BY <1>3 DEF HeldOnce
    <3>2. x \notin Holders(a)'
      BY <1>3, NoneIsNoPartner
    <3> QED BY <1>3, <3>1, <3>2
  <2>6. \A p \in Partners : p # a => Holders(p)' = Holders(p) /\ pool'[p] = pool[p]
    BY <1>3, <2>3, NoneIsNoPartner DEF PoolSound, PoolTypeOK
  <2>7. ASSUME NEW p \in Partners
        PROVE  /\ \A y, z \in Holders(p)' : y = z
               /\ pool'[p].isAvailable <=> Holders(p)' = {}
    <3>1. CASE p = a
      BY <1>3, <2>2, <2>3, <2>5, <3>1 DEF PoolSound, PoolTypeOK
    <3>2. CASE p # a
      BY <2>6, <3>2 DEF HeldOnce
    <3> QED BY <3>1, <3>2
  <2> QED BY <2>4, <2>7 DEF HeldOnce
<1> QED BY <1>1, <1>2, <1>3 DEF Deals

(***************************************************************************)
(* The steps of the food orders.                                           *)
(***************************************************************************)

FoodTurn(w) ==
  \E o \in FoodOrder, row \in Food!OrderRows, job \in Food!Jobs \cup {AtRest} :
    Turns(foodRow, foodReq, foodRow', foodReq', FoodOrder, FoodWorkers, w, o, row, job)

LEMMA FoodAtWork ==
  ASSUME FoodOrderly, NEW w \in FoodWorkers, foodReq[w].at # "idle"
  PROVE  /\ foodReq[w] \in Food!Jobs /\ foodReq[w].o \in FoodOrder
         /\ Informed(foodRow[foodReq[w].o], foodReq[w])
         /\ foodRow[foodReq[w].o] \in Food!OrderRows /\ RowSound(foodRow[foodReq[w].o])
BY DEF FoodOrderly, FoodTyped, Orderly, AtRest

LEMMA FoodAt ==
  ASSUME FoodOrderly, NEW w \in FoodWorkers, NEW stage, Food!At(w, stage)
  PROVE  foodReq[w].at # "idle" /\ foodReq[w].at = stage
BY DEF FoodOrderly, FoodTyped, Food!At, Food!Idle, AtRest, Food!Jobs, Food!Stages

LEMMA FoodGoes ==
  ASSUME FoodOrderly, NEW w \in FoodWorkers, foodReq[w].at # "idle",
         NEW stage \in Food!Stages \cup {"idle"}, Food!Go(w, stage)
  PROVE  \E job \in Food!Jobs \cup {AtRest} :
           /\ foodReq' = [foodReq EXCEPT ![w] = job] /\ job.at = stage
           /\ job.at # "idle" =>
                /\ job.o = foodReq[w].o /\ job.to = foodReq[w].to /\ job.seen = foodReq[w].seen
                /\ job.partner = foodReq[w].partner /\ job.excluded = foodReq[w].excluded
                /\ job.ranked = foodReq[w].ranked
<1>1. foodReq[w] \in Food!Jobs
  BY FoodAtWork
<1>2. CASE stage = "idle"
  <2>1. foodReq' = [foodReq EXCEPT ![w] = AtRest]
    BY <1>2 DEF Food!Go, Food!Idle, AtRest
  <2>2. AtRest \in Food!Jobs \cup {AtRest} /\ AtRest.at = stage
    BY <1>2 DEF AtRest
  <2> QED BY <1>2, <2>1, <2>2
<1>3. CASE stage # "idle"
  <2>1. PICK job : job = [foodReq[w] EXCEPT !.at = stage]
    OBVIOUS
  <2>2. /\ job \in Food!Jobs /\ job.at = stage
        /\ job.o = foodReq[w].o /\ job.to = foodReq[w].to /\ job.seen = foodReq[w].seen
        /\ job.partner = foodReq[w].partner /\ job.excluded = foodReq[w].excluded
        /\ job.ranked = foodReq[w].ranked
    BY <1>1, <1>3, <2>1 DEF Food!Jobs
  <2>3. foodReq' = [foodReq EXCEPT ![w] = job]
    BY <1>3, <2>1 DEF Food!Go
  <2> QED BY <2>2, <2>3
<1> QED BY <1>2, <1>3

(* A request that has its rider from the row of its order.                   *)
ByRow(r) == r.at \notin {"attach", "release", "clear"}

LEMMA SameRider ==
  ASSUME NEW row, NEW row1, row1.status = row.status, row1.partner = row.partner,
         NEW r, NEW r1, ByRow(r), ByRow(r1)
  PROVE  Rider(row, r) = Rider(row1, r1)
BY DEF ByRow, Rider, UnderWay

LEMMA PoolRests ==
  ASSUME PoolSound, pool' = pool
  PROVE  SameFlags
BY DEF SameFlags, PoolSound, PoolTypeOK, Exists

LEMMA FoodMoves ==
  ASSUME FoodOrderly, NEW w \in FoodWorkers, foodReq[w].at # "idle",
         NEW row \in Food!OrderRows, foodRow' = [foodRow EXCEPT ![foodReq[w].o] = row],
         NEW job \in Food!Jobs \cup {AtRest}, foodReq' = [foodReq EXCEPT ![w] = job],
         job.at # "idle" => job.o = foodReq[w].o, Informed(row, job), RowSound(row),
         Deals(Rider(foodRow[foodReq[w].o], foodReq[w]), Rider(row, job))
  PROVE  FoodTurn(w)
BY FoodAtWork DEF FoodTurn, Turns

(* Neither the rider nor the status is touched.                              *)
LEMMA FoodQuiet ==
  ASSUME RidersInv, NEW w \in FoodWorkers, foodReq[w].at # "idle", ByRow(foodReq[w]),
         NEW row \in Food!OrderRows, foodRow' = [foodRow EXCEPT ![foodReq[w].o] = row],
         row.status = foodRow[foodReq[w].o].status, row.partner = foodRow[foodReq[w].o].partner,
         NEW job \in Food!Jobs \cup {AtRest}, foodReq' = [foodReq EXCEPT ![w] = job], ByRow(job),
         job.at # "idle" => job.o = foodReq[w].o, Informed(row, job), pool' = pool
  PROVE  FoodTurn(w)
<1>1. FoodOrderly /\ PoolSound
  BY DEF RidersInv
<1>2. RowSound(foodRow[foodReq[w].o])
  BY <1>1, FoodAtWork
<1>3. RowSound(row)
  BY <1>2 DEF RowSound
<1>4. Rider(foodRow[foodReq[w].o], foodReq[w]) = Rider(row, job)
  BY SameRider
<1>5. Deals(Rider(foodRow[foodReq[w].o], foodReq[w]), Rider(row, job))
  BY <1>1, <1>4, PoolRests, Zenon DEF Deals
<1> QED BY <1>1, <1>3, <1>5, FoodMoves

LEMMA FoodQuietRow ==
  ASSUME RidersInv, NEW w \in FoodWorkers, foodReq[w].at # "idle", ByRow(foodReq[w]),
         foodRow' = foodRow,
         NEW job \in Food!Jobs \cup {AtRest}, foodReq' = [foodReq EXCEPT ![w] = job], ByRow(job),
         job.at # "idle" => job.o = foodReq[w].o, Informed(foodRow[foodReq[w].o], job), pool' = pool
  PROVE  FoodTurn(w)
<1>1. FoodOrderly
  BY DEF RidersInv
<1>2. foodReq[w].o \in FoodOrder /\ foodRow[foodReq[w].o] \in Food!OrderRows
  BY <1>1, FoodAtWork
<1>3. foodRow' = [foodRow EXCEPT ![foodReq[w].o] = foodRow[foodReq[w].o]]
  BY <1>1, <1>2 DEF FoodOrderly, FoodTyped
<1> QED BY <1>2, <1>3, FoodQuiet

(* A request that does not start before the order is free.                   *)
LEMMA FoodStarts ==
  ASSUME RidersInv, NEW w \in FoodWorkers, NEW o \in FoodOrder, foodReq[w] = Food!Idle,
         ~Food!Busy(o), foodRow' = foodRow, pool' = pool,
         NEW job \in Food!Jobs, foodReq' = [foodReq EXCEPT ![w] = job], ByRow(job), job.o = o,
         Informed(foodRow[o], job)
  PROVE  FoodTurn(w)
<1>1. FoodOrderly /\ PoolSound
  BY DEF RidersInv
<1>2. foodReq[w].at = "idle" /\ ByRow(foodReq[w])
  BY DEF Food!Idle, ByRow
<1>3. \A v \in FoodWorkers : ~OnOrder(foodReq[v], o)
  BY DEF Food!Busy, Food!Idle, OnOrder
<1>4. foodRow' = [foodRow EXCEPT ![o] = foodRow[o]] /\ foodRow[o] \in Food!OrderRows
  BY <1>1 DEF FoodOrderly, FoodTyped
<1>5. RowSound(foodRow[o])
  BY <1>1 DEF FoodOrderly, Orderly
<1>6. Deals(Rider(foodRow[o], foodReq[w]), Rider(foodRow[o], job))
  <2>1. Rider(foodRow[o], foodReq[w]) = Rider(foodRow[o], job)
    BY <1>2, SameRider
  <2> QED BY <1>1, <2>1, PoolRests DEF Deals
<1> QED BY <1>2, <1>3, <1>4, <1>5, <1>6 DEF FoodTurn, Turns

LEMMA FoodJobMade ==
  ASSUME FoodOrderly, NEW stage \in Food!Stages, NEW o \in FoodOrder,
         NEW to \in Food!Statuses \cup {None}, NEW p \in Partners \cup {None},
         NEW q \in Partners \cup {None}
  PROVE  /\ Food!Job(stage, o, to, p, q) \in Food!Jobs
         /\ Food!Job(stage, o, to, p, q).at = stage /\ Food!Job(stage, o, to, p, q).o = o
         /\ Food!Job(stage, o, to, p, q).to = to /\ Food!Job(stage, o, to, p, q).partner = p
         /\ Food!Job(stage, o, to, p, q).seen = foodRow[o]
         /\ Food!Job(stage, o, to, p, q).excluded = q
<1>1. foodRow[o] \in Food!OrderRows
  BY DEF FoodOrderly, FoodTyped
<1> QED BY <1>1 DEF Food!Job, Food!Jobs

LEMMA FoodCreate ==
  ASSUME RidersInv, ServicesDispatch, NEW w \in FoodWorkers, NEW o \in FoodOrder,
         Food!Create(w, o)
  PROVE  FoodTurn(w)
<1>1. FoodOrderly
  BY DEF RidersInv
<1> DEFINE job == Food!Job("insert", o, None, None, None)
<1>2. /\ job \in Food!Jobs /\ job.at = "insert" /\ job.o = o
      /\ job.seen = foodRow[o]
  BY <1>1, FoodJobMade DEF Food!Stages, Food!Statuses
<1>3. /\ foodReq[w] = Food!Idle /\ ~Food!Busy(o) /\ foodRow' = foodRow /\ pool' = pool
      /\ foodReq' = [foodReq EXCEPT ![w] = job]
  BY DEF Food!Create, Food!MayStart, Food!Begin, ServicesDispatch
<1> HIDE DEF job
<1>4. Informed(foodRow[o], job)
  <2>1. foodRow[o].status = "none"
    BY DEF Food!Create, Food!Placed
  <2> QED BY <1>2, <2>1 DEF Informed, Refunding
<1> QED BY <1>2, <1>3, <1>4, FoodStarts DEF ByRow

LEMMA FoodPay ==
  ASSUME RidersInv, ServicesDispatch, NEW w \in FoodWorkers, NEW o \in FoodOrder,
         Food!Pay(w, o)
  PROVE  FoodTurn(w)
<1>1. FoodOrderly
  BY DEF RidersInv
<1> DEFINE job == Food!Job("payOrder", o, None, None, None)
<1>2. /\ job \in Food!Jobs /\ job.at = "payOrder" /\ job.o = o
      /\ job.seen = foodRow[o]
  BY <1>1, FoodJobMade DEF Food!Stages, Food!Statuses
<1>3. /\ foodReq[w] = Food!Idle /\ ~Food!Busy(o) /\ foodRow' = foodRow /\ pool' = pool
      /\ foodReq' = [foodReq EXCEPT ![w] = job]
  BY DEF Food!Pay, Food!MayStart, Food!Begin, ServicesDispatch
<1> HIDE DEF job
<1>4. Informed(foodRow[o], job)
  BY <1>2 DEF Informed, Refunding
<1> QED BY <1>2, <1>3, <1>4, FoodStarts DEF ByRow

LEMMA FoodStatusRequest ==
  ASSUME RidersInv, ServicesDispatch, NEW w \in FoodWorkers, NEW o \in FoodOrder,
         NEW to \in Food!Statuses,
         Food!StatusRequest(w, o, to)
  PROVE  FoodTurn(w)
<1>1. FoodOrderly
  BY DEF RidersInv
<1> DEFINE job == Food!Job("write", o, to, None, None)
<1>2. /\ job \in Food!Jobs /\ job.at = "write" /\ job.o = o
      /\ job.seen = foodRow[o] /\ job.to = to
  BY <1>1, FoodJobMade DEF Food!Stages, Food!Statuses
<1>3. /\ foodReq[w] = Food!Idle /\ ~Food!Busy(o) /\ foodRow' = foodRow /\ pool' = pool
      /\ foodReq' = [foodReq EXCEPT ![w] = job]
  BY DEF Food!StatusRequest, Food!MayStart, Food!Begin, ServicesDispatch
<1> HIDE DEF job
<1>4. Informed(foodRow[o], job)
  <2>1. foodRow[o].status # "none" /\ to \in Grocery!Allowed[foodRow[o].status]
    BY SameTable DEF Food!StatusRequest, Food!Placed
  <2> QED BY <1>2, <2>1 DEF Informed, Refunding
<1> QED BY <1>2, <1>3, <1>4, FoodStarts DEF ByRow

LEMMA FoodCancelRequest ==
  ASSUME RidersInv, ServicesDispatch, NEW w \in FoodWorkers, NEW o \in FoodOrder,
         Food!CancelRequest(w, o)
  PROVE  FoodTurn(w)
<1>1. FoodOrderly
  BY DEF RidersInv
<1> DEFINE job == Food!Job("reread", o, "CANCELLED", None, None)
<1>2. /\ job \in Food!Jobs /\ job.at = "reread" /\ job.o = o
      /\ job.seen = foodRow[o]
  BY <1>1, FoodJobMade DEF Food!Stages, Food!Statuses
<1>3. /\ foodReq[w] = Food!Idle /\ ~Food!Busy(o) /\ foodRow' = foodRow /\ pool' = pool
      /\ foodReq' = [foodReq EXCEPT ![w] = job]
  BY DEF Food!CancelRequest, Food!MayStart, Food!Begin, ServicesDispatch
<1> HIDE DEF job
<1>4. Informed(foodRow[o], job)
  <2>1. foodRow[o].status # "none"
    BY DEF Food!CancelRequest
  <2> QED BY <1>2, <2>1 DEF Informed, Refunding
<1> QED BY <1>2, <1>3, <1>4, FoodStarts DEF ByRow

LEMMA FoodRiderStatusRequest ==
  ASSUME RidersInv, ServicesDispatch, NEW w \in FoodWorkers, NEW o \in FoodOrder,
         NEW p \in Partners, NEW to \in Food!RiderStatuses,
         Food!RiderStatusRequest(w, o, p, to)
  PROVE  FoodTurn(w)
<1>1. FoodOrderly
  BY DEF RidersInv
<1> to \in Food!Statuses
  BY DEF Food!RiderStatuses, Food!Statuses
<1> DEFINE job == Food!Job("reread", o, to, None, None)
<1>2. /\ job \in Food!Jobs /\ job.at = "reread" /\ job.o = o
      /\ job.seen = foodRow[o]
  BY <1>1, FoodJobMade DEF Food!Stages
<1>3. /\ foodReq[w] = Food!Idle /\ ~Food!Busy(o) /\ foodRow' = foodRow /\ pool' = pool
      /\ foodReq' = [foodReq EXCEPT ![w] = job]
  BY DEF Food!RiderStatusRequest, Food!MayStart, Food!Begin, ServicesDispatch
<1> HIDE DEF job
<1>4. Informed(foodRow[o], job)
  <2>1. foodRow[o].status # "none"
    BY DEF Food!RiderStatusRequest, Food!Placed
  <2> QED BY <1>2, <2>1 DEF Informed, Refunding
<1> QED BY <1>2, <1>3, <1>4, FoodStarts DEF ByRow

LEMMA FoodAcceptRequest ==
  ASSUME RidersInv, ServicesDispatch, NEW w \in FoodWorkers, NEW o \in FoodOrder,
         NEW p \in Partners,
         Food!AcceptRequest(w, o, p)
  PROVE  FoodTurn(w)
<1>1. FoodOrderly
  BY Zenon DEF RidersInv
<1> DEFINE job == Food!Job("accept", o, None, p, None)
<1>2. /\ job \in Food!Jobs /\ job.at = "accept" /\ job.o = o
      /\ job.seen = foodRow[o]
  BY <1>1, FoodJobMade DEF Food!Stages, Food!Statuses
<1>3. /\ foodReq[w] = Food!Idle /\ ~Food!Busy(o) /\ foodRow' = foodRow /\ pool' = pool
      /\ foodReq' = [foodReq EXCEPT ![w] = job]
  BY DEF Food!AcceptRequest, Food!MayStart, Food!Begin, ServicesDispatch, Food!Answerable
<1> HIDE DEF job
<1>4. Informed(foodRow[o], job)
  BY <1>2 DEF Informed, Refunding
<1> QED BY <1>2, <1>3, <1>4, FoodStarts DEF ByRow

LEMMA FoodRejectRequest ==
  ASSUME RidersInv, ServicesDispatch, NEW w \in FoodWorkers, NEW o \in FoodOrder,
         NEW p \in Partners,
         Food!RejectRequest(w, o, p)
  PROVE  FoodTurn(w)
<1>1. FoodOrderly
  BY DEF RidersInv
<1> DEFINE job == Food!Job("free", o, None, p, p)
<1>2. /\ job \in Food!Jobs /\ job.at = "free" /\ job.o = o
      /\ job.seen = foodRow[o] /\ job.partner = p /\ job.excluded = p
  BY <1>1, FoodJobMade DEF Food!Stages, Food!Statuses
<1>3. /\ foodReq[w] = Food!Idle /\ ~Food!Busy(o) /\ foodRow' = foodRow /\ pool' = pool
      /\ foodReq' = [foodReq EXCEPT ![w] = job]
  BY DEF Food!RejectRequest, Food!MayStart, Food!Begin, ServicesDispatch, Food!Answerable
<1> HIDE DEF job
<1>4. Informed(foodRow[o], job)
  <2>1. UnderWay(foodRow[o]) /\ foodRow[o].partner = p
    BY DEF Food!RejectRequest, Food!Answerable, Food!Live, Food!Placed, Food!Finished, UnderWay
  <2>2. foodRow[o].status \in OnRoad
    BY <1>1, <2>1, NoneIsNoPartner DEF FoodOrderly, Orderly, RowSound, UnderWay
  <2> QED BY <1>2, <2>1, <2>2 DEF Informed, Refunding
<1> QED BY <1>2, <1>3, <1>4, FoodStarts DEF ByRow

(* The steps that touch neither the rider nor the status of their order.     *)
LEMMA FoodPaidOnly ==
  ASSUME FoodOrderly, NEW w \in FoodWorkers, foodReq[w].at # "idle",
         NEW paid \in Food!PaymentStatuses,
         foodRow' = [foodRow EXCEPT ![foodReq[w].o].paid = paid]
  PROVE  \E row \in Food!OrderRows :
           /\ foodRow' = [foodRow EXCEPT ![foodReq[w].o] = row]
           /\ row.status = foodRow[foodReq[w].o].status
           /\ row.partner = foodRow[foodReq[w].o].partner
<1>1. foodRow[foodReq[w].o] \in Food!OrderRows
  BY FoodAtWork
<1>2. PICK row : row = [foodRow[foodReq[w].o] EXCEPT !.paid = paid]
  OBVIOUS
<1>3. /\ row \in Food!OrderRows /\ row.status = foodRow[foodReq[w].o].status
      /\ row.partner = foodRow[foodReq[w].o].partner
  BY <1>1, <1>2 DEF Food!OrderRows
<1> QED BY <1>2, <1>3

(* What no statement of a request needs to know.                             *)
Careless(r) == r.at \in {"idle", "payment", "markPaid", "payOrder", "loyalty", "accept", "end"}

LEMMA CarelessInformed ==
  ASSUME NEW row, NEW r, Careless(r)
  PROVE  Informed(row, r) /\ ByRow(r)
BY DEF Careless, Informed, Refunding, ByRow

LEMMA FoodCreatePayment ==
  ASSUME RidersInv, NEW w \in FoodWorkers, Food!CreatePayment(w)
  PROVE  FoodTurn(w)
<1>1. FoodOrderly
  BY DEF RidersInv
<1>2. foodReq[w].at # "idle" /\ Careless(foodReq[w])
  BY <1>1, FoodAt DEF Food!CreatePayment, Careless
<1>3. PICK stage \in {"markPaid", "idle"} : Food!Go(w, stage)
  BY DEF Food!CreatePayment
<1>4. stage \in Food!Stages \cup {"idle"}
  BY DEF Food!Stages
<1>5. PICK job \in Food!Jobs \cup {AtRest} :
        /\ foodReq' = [foodReq EXCEPT ![w] = job] /\ job.at = stage
        /\ job.at # "idle" => job.o = foodReq[w].o
  BY <1>1, <1>2, <1>3, <1>4, FoodGoes
<1>6. Careless(job)
  BY <1>5 DEF Careless
<1>7. foodRow' = foodRow /\ pool' = pool
  BY DEF Food!CreatePayment
<1> QED BY <1>2, <1>5, <1>6, <1>7, CarelessInformed, FoodQuietRow

LEMMA FoodEndsQuietly ==
  ASSUME RidersInv, NEW w \in FoodWorkers, foodReq[w].at # "idle", ByRow(foodReq[w]),
         Food!Go(w, "idle"), foodRow' = foodRow, pool' = pool
  PROVE  FoodTurn(w)
<1>1. FoodOrderly
  BY DEF RidersInv
<1>2. PICK job \in Food!Jobs \cup {AtRest} :
        foodReq' = [foodReq EXCEPT ![w] = job] /\ job.at = "idle"
  BY <1>1, FoodGoes
<1>3. Careless(job)
  BY <1>2 DEF Careless
<1> QED BY <1>2, <1>3, CarelessInformed, FoodQuietRow

LEMMA FoodGatewayFails ==
  ASSUME RidersInv, NEW w \in FoodWorkers, Food!GatewayFails(w)
  PROVE  FoodTurn(w)
<1>1. foodReq[w].at # "idle" /\ ByRow(foodReq[w])
  BY FoodAt DEF Food!GatewayFails, RidersInv, ByRow
<1>2. Food!Go(w, "idle") /\ foodRow' = foodRow /\ pool' = pool
  BY DEF Food!GatewayFails, Food!End
<1> QED BY <1>1, <1>2, FoodEndsQuietly

LEMMA FoodAwardPoints ==
  ASSUME RidersInv, NEW w \in FoodWorkers, Food!AwardPoints(w)
  PROVE  FoodTurn(w)
<1>1. foodReq[w].at # "idle" /\ ByRow(foodReq[w])
  BY FoodAt DEF Food!AwardPoints, RidersInv, ByRow
<1>2. Food!Go(w, "idle") /\ foodRow' = foodRow /\ pool' = pool
  BY Zenon DEF Food!AwardPoints, Food!End
<1> QED BY <1>1, <1>2, FoodEndsQuietly

LEMMA FoodPaysQuietly ==
  ASSUME RidersInv, NEW w \in FoodWorkers, foodReq[w].at # "idle", ByRow(foodReq[w]),
         NEW stage \in Food!Stages \cup {"idle"}, Food!Go(w, stage),
         NEW paid \in Food!PaymentStatuses, pool' = pool,
         foodRow' = [foodRow EXCEPT ![foodReq[w].o].paid = paid],
         stage \in {"idle", "credit", "refundOrder"},
         stage # "idle" => foodReq[w].seen.partner = None
  PROVE  FoodTurn(w)
<1>1. FoodOrderly
  BY DEF RidersInv
<1>2. PICK row \in Food!OrderRows :
        /\ foodRow' = [foodRow EXCEPT ![foodReq[w].o] = row]
        /\ row.status = foodRow[foodReq[w].o].status
        /\ row.partner = foodRow[foodReq[w].o].partner
  BY <1>1, FoodPaidOnly
<1>3. PICK job \in Food!Jobs \cup {AtRest} :
        /\ foodReq' = [foodReq EXCEPT ![w] = job] /\ job.at = stage
        /\ job.at # "idle" => job.o = foodReq[w].o /\ job.seen = foodReq[w].seen
  BY <1>1, FoodGoes
<1>4. Informed(row, job) /\ ByRow(job)
  BY <1>3 DEF Informed, Refunding, ByRow
<1> QED BY <1>2, <1>3, <1>4, FoodQuiet

LEMMA FoodMarkOrderPaid ==
  ASSUME RidersInv, NEW w \in FoodWorkers, Food!MarkOrderPaid(w)
  PROVE  FoodTurn(w)
<1>1. foodReq[w].at # "idle" /\ ByRow(foodReq[w])
  BY FoodAt DEF Food!MarkOrderPaid, RidersInv, ByRow
<1>2. Food!Go(w, "idle") /\ pool' = pool /\ "PAID" \in Food!PaymentStatuses
      /\ foodRow' = [foodRow EXCEPT ![foodReq[w].o].paid = "PAID"]
  BY DEF Food!MarkOrderPaid, Food!End, Food!PaymentStatuses
<1> QED BY <1>1, <1>2, FoodPaysQuietly

LEMMA FoodPayOrder ==
  ASSUME RidersInv, NEW w \in FoodWorkers, Food!PayOrder(w)
  PROVE  FoodTurn(w)
<1>1. foodReq[w].at # "idle" /\ ByRow(foodReq[w])
  BY FoodAt DEF Food!PayOrder, RidersInv, ByRow
<1>2. Food!Go(w, "idle") /\ pool' = pool /\ "PAID" \in Food!PaymentStatuses
      /\ foodRow' = [foodRow EXCEPT ![foodReq[w].o].paid = "PAID"]
  BY DEF Food!PayOrder, Food!End, Food!PaymentStatuses
<1> QED BY <1>1, <1>2, FoodPaysQuietly

(* A refund has no rider to release.                                         *)
LEMMA FoodRefundsFreely ==
  ASSUME RidersInv, NEW w \in FoodWorkers, NEW stage \in {"refundPayment", "refundOrder", "credit"},
         Food!At(w, stage)
  PROVE  /\ foodReq[w].at # "idle" /\ ByRow(foodReq[w]) /\ foodReq[w].seen.partner = None
         /\ Food!AfterRefund(foodReq[w]) = "idle"
<1>1. foodReq[w].at # "idle" /\ foodReq[w].at = stage /\ FoodOrderly
  BY FoodAt DEF RidersInv
<1>2. Informed(foodRow[foodReq[w].o], foodReq[w])
  BY <1>1, FoodAtWork
<1> QED BY <1>1, <1>2 DEF Informed, Refunding, ByRow, Food!AfterRefund

LEMMA FoodRefundPayment ==
  ASSUME RidersInv, NEW w \in FoodWorkers, Food!RefundPayment(w)
  PROVE  FoodTurn(w)
<1>1. FoodOrderly /\ Food!At(w, "refundPayment")
  BY DEF RidersInv, Food!RefundPayment
<1>2. foodReq[w].at # "idle" /\ ByRow(foodReq[w]) /\ foodReq[w].seen.partner = None
  BY <1>1, FoodRefundsFreely
<1>3. Food!Go(w, "refundOrder") /\ "refundOrder" \in Food!Stages \cup {"idle"}
  BY DEF Food!RefundPayment, Food!Stages
<1>4. PICK job \in Food!Jobs \cup {AtRest} :
        /\ foodReq' = [foodReq EXCEPT ![w] = job] /\ job.at = "refundOrder"
        /\ job.at # "idle" => job.o = foodReq[w].o /\ job.seen = foodReq[w].seen
  BY <1>1, <1>2, <1>3, FoodGoes
<1>5. Informed(foodRow[foodReq[w].o], job) /\ ByRow(job)
  BY <1>2, <1>4 DEF Informed, Refunding, ByRow
<1>6. foodRow' = foodRow /\ pool' = pool
  BY DEF Food!RefundPayment
<1> QED BY <1>2, <1>4, <1>5, <1>6, FoodQuietRow

LEMMA FoodRefundOrder ==
  ASSUME RidersInv, NEW w \in FoodWorkers, Food!RefundOrder(w)
  PROVE  FoodTurn(w)
<1>1. Food!At(w, "refundOrder")
  BY DEF Food!RefundOrder
<1>2. /\ foodReq[w].at # "idle" /\ ByRow(foodReq[w]) /\ foodReq[w].seen.partner = None
      /\ Food!AfterRefund(foodReq[w]) = "idle"
  BY <1>1, FoodRefundsFreely
<1>3. PICK stage \in {"credit", "idle"} : Food!Go(w, stage)
  BY <1>2 DEF Food!RefundOrder
<1>4. /\ stage \in Food!Stages \cup {"idle"} /\ pool' = pool /\ "REFUNDED" \in Food!PaymentStatuses
      /\ foodRow' = [foodRow EXCEPT ![foodReq[w].o].paid = "REFUNDED"]
  BY DEF Food!RefundOrder, Food!Stages, Food!PaymentStatuses
<1> QED BY <1>2, <1>3, <1>4, FoodPaysQuietly

LEMMA FoodRefundCredit ==
  ASSUME RidersInv, NEW w \in FoodWorkers, Food!RefundCredit(w)
  PROVE  FoodTurn(w)
<1>1. Food!At(w, "credit")
  BY DEF Food!RefundCredit
<1>2. /\ foodReq[w].at # "idle" /\ ByRow(foodReq[w])
      /\ Food!AfterRefund(foodReq[w]) = "idle"
  BY <1>1, FoodRefundsFreely
<1>3. Food!Go(w, "idle") /\ foodRow' = foodRow /\ pool' = pool
  BY <1>2 DEF Food!RefundCredit
<1> QED BY <1>2, <1>3, FoodEndsQuietly

LEMMA FoodReread ==
  ASSUME RidersInv, NEW w \in FoodWorkers, Food!Reread(w)
  PROVE  FoodTurn(w)
<1>1. FoodOrderly
  BY DEF RidersInv
<1>2. foodReq[w].at = "reread" /\ foodReq[w].at # "idle"
  BY <1>1, FoodAt DEF Food!Reread
<1>3. /\ foodReq[w] \in Food!Jobs /\ foodReq[w].o \in FoodOrder
      /\ foodRow[foodReq[w].o].status # "none" /\ foodRow[foodReq[w].o] \in Food!OrderRows
  BY <1>1, <1>2, FoodAtWork DEF Informed
<1>4. foodRow' = foodRow /\ pool' = pool
  BY DEF Food!Reread
<1>5. foodReq[w].to \in Food!Statuses \cup {None}
  BY <1>3 DEF Food!Jobs
<1>6. CASE foodReq[w].to \in Food!Allowed[foodRow[foodReq[w].o].status]
  <2> DEFINE job == Food!Job("write", foodReq[w].o, foodReq[w].to, None, None)
  <2>1. /\ job \in Food!Jobs /\ job.at = "write" /\ job.o = foodReq[w].o
        /\ job.to = foodReq[w].to /\ job.seen = foodRow[foodReq[w].o]
    <3>1. PICK o \in FoodOrder, to \in Food!Statuses \cup {None} :
            o = foodReq[w].o /\ to = foodReq[w].to
      BY <1>3, <1>5
    <3>2. "write" \in Food!Stages
      BY DEF Food!Stages
    <3>3. PICK none \in Partners \cup {None} : none = None
      OBVIOUS
    <3> QED BY <1>1, <3>1, <3>2, <3>3, FoodJobMade
  <2>2. foodReq' = [foodReq EXCEPT ![w] = job]
    BY <1>6 DEF Food!Reread, Food!Begin
  <2> HIDE DEF job
  <2>3. Informed(foodRow[foodReq[w].o], job)
    BY <1>3, <1>6, <2>1, SameTable DEF Informed, Refunding
  <2> QED BY <1>2, <1>4, <2>1, <2>2, <2>3, FoodQuietRow DEF ByRow
<1>7. CASE foodReq[w].to \notin Food!Allowed[foodRow[foodReq[w].o].status]
  <2>1. Food!Go(w, "idle")
    BY <1>7 DEF Food!Reread, Food!Begin, Food!Go
  <2> QED BY <1>2, <1>4, <2>1, FoodEndsQuietly DEF ByRow
<1> QED BY <1>6, <1>7

LEMMA FoodFindRiders ==
  ASSUME RidersInv, NEW w \in FoodWorkers, Food!FindRiders(w)
  PROVE  FoodTurn(w)
<1>1. FoodOrderly
  BY DEF RidersInv
<1>2. foodReq[w].at = "find" /\ foodReq[w].at # "idle"
  BY <1>1, FoodAt DEF Food!FindRiders
<1>3. /\ foodReq[w] \in Food!Jobs /\ foodReq[w].o \in FoodOrder
      /\ Informed(foodRow[foodReq[w].o], foodReq[w])
  BY <1>1, <1>2, FoodAtWork
<1>4. foodRow' = foodRow /\ pool' = pool
  BY DEF Food!FindRiders
<1> DEFINE found == Food!Candidates(foodReq[w].excluded)
<1>5. found \subseteq Partners
  BY DEF Food!Candidates
<1>6. CASE found = {}
  <2>1. Food!Go(w, "idle")
    BY <1>6 DEF Food!FindRiders, Food!Begin, Food!Go
  <2> QED BY <1>2, <1>4, <2>1, FoodEndsQuietly DEF ByRow
<1>7. CASE found # {}
  <2>1. PICK job : job = [[foodReq[w] EXCEPT !.ranked = found] EXCEPT !.at = "claim"]
    OBVIOUS
  <2>2. foodReq' = [foodReq EXCEPT ![w] = job]
    BY <1>7, <2>1 DEF Food!FindRiders, Food!Begin
  <2> HIDE DEF found
  <2>3. job \in Food!Jobs /\ job.at = "claim" /\ job.o = foodReq[w].o
    BY <1>3, <1>5, <2>1 DEF Food!Jobs, Food!Stages
  <2>4. Informed(foodRow[foodReq[w].o], job)
    BY <1>2, <1>3, <2>3 DEF Informed, Refunding
  <2> QED BY <1>2, <1>4, <2>2, <2>3, <2>4, FoodQuietRow DEF ByRow
<1> QED BY <1>6, <1>7

LEMMA FoodAccept ==
  ASSUME RidersInv, NEW w \in FoodWorkers, Food!Accept(w)
  PROVE  FoodTurn(w)
<1>1. FoodOrderly
  BY DEF RidersInv
<1>2. foodReq[w].at = "accept" /\ foodReq[w].at # "idle"
  BY <1>1, FoodAt DEF Food!Accept
<1>3. foodRow[foodReq[w].o] \in Food!OrderRows
  BY <1>1, <1>2, FoodAtWork
<1>4. PICK row : row = [foodRow[foodReq[w].o] EXCEPT !.acceptance = "ACCEPTED"]
  OBVIOUS
<1>5. /\ row \in Food!OrderRows /\ row.status = foodRow[foodReq[w].o].status
      /\ row.partner = foodRow[foodReq[w].o].partner
  BY <1>3, <1>4 DEF Food!OrderRows
<1>6. foodRow' = [foodRow EXCEPT ![foodReq[w].o] = row] /\ pool' = pool /\ Food!Go(w, "idle")
  BY <1>4 DEF Food!Accept, Food!End
<1>7. PICK job \in Food!Jobs \cup {AtRest} :
        foodReq' = [foodReq EXCEPT ![w] = job] /\ job.at = "idle"
  BY <1>1, <1>2, <1>6, FoodGoes
<1>8. Informed(row, job) /\ ByRow(job) /\ ByRow(foodReq[w])
  BY <1>2, <1>7, CarelessInformed DEF Careless
<1> QED BY <1>2, <1>5, <1>6, <1>7, <1>8, FoodQuiet

(* The steps that touch the status or the rider.                             *)
LEMMA FoodInsert ==
  ASSUME RidersInv, NEW w \in FoodWorkers, Food!Insert(w)
  PROVE  FoodTurn(w)
<1>1. FoodOrderly /\ PoolSound
  BY DEF RidersInv
<1>2. foodReq[w].at = "insert" /\ foodReq[w].at # "idle"
  BY <1>1, FoodAt DEF Food!Insert
<1>3. /\ foodRow[foodReq[w].o] \in Food!OrderRows /\ foodRow[foodReq[w].o].status = "none"
      /\ foodRow[foodReq[w].o].partner = None
  BY <1>1, <1>2, FoodAtWork DEF Informed, RowSound, OnRoad
<1>4. PICK row : row = [foodRow[foodReq[w].o] EXCEPT !.status = "PENDING"]
  OBVIOUS
<1>5. row \in Food!OrderRows /\ row.partner = None
  BY <1>3, <1>4 DEF Food!OrderRows, Food!Statuses
<1>6. /\ foodRow' = [foodRow EXCEPT ![foodReq[w].o] = row] /\ pool' = pool
      /\ Food!Go(w, "payment") /\ "payment" \in Food!Stages \cup {"idle"}
  BY <1>4 DEF Food!Insert, Food!Stages
<1>7. PICK job \in Food!Jobs \cup {AtRest} :
        /\ foodReq' = [foodReq EXCEPT ![w] = job] /\ job.at = "payment"
        /\ job.at # "idle" => job.o = foodReq[w].o
  BY <1>1, <1>2, <1>6, FoodGoes
<1>8. Informed(row, job) /\ RowSound(row)
  BY <1>5, <1>7, CarelessInformed DEF Careless, RowSound
<1>9. Rider(foodRow[foodReq[w].o], foodReq[w]) = None /\ Rider(row, job) = None
  BY <1>2, <1>3, <1>5, <1>7 DEF Rider
<1> QED BY <1>1, <1>2, <1>5, <1>6, <1>7, <1>8, <1>9, PoolRests, FoodMoves DEF Deals

(* What a delivered order holds, it holds until ReleaseRider.                *)
LEMMA FoodWriteStatus ==
  ASSUME RidersInv, NEW w \in FoodWorkers, Food!WriteStatus(w)
  PROVE  FoodTurn(w)
<1>1. FoodOrderly /\ PoolSound
  BY DEF RidersInv
<1>2. foodReq[w].at = "write" /\ foodReq[w].at # "idle"
  BY <1>1, FoodAt DEF Food!WriteStatus
<1> DEFINE r == foodReq[w]
           before == foodRow[r.o]
<1>3. /\ r \in Food!Jobs /\ r.o \in FoodOrder /\ before \in Food!OrderRows
      /\ Informed(before, r) /\ RowSound(before)
  BY <1>1, <1>2, FoodAtWork, Zenon
<1>4. /\ r.seen.partner = before.partner /\ before.status \in Grocery!Statuses
      /\ r.to \in Grocery!Allowed[before.status]
  BY <1>2, <1>3 DEF Informed, Food!OrderRows, Food!Statuses, Grocery!Statuses
<1>5. /\ r.to \in Grocery!Statuses
      /\ r.to = "CANCELLED" => before.status \in {"PENDING", "ACCEPTED", "PREPARING"}
      /\ r.to = "READY" => before.status = "PREPARING"
      /\ r.to = "OUT_FOR_DELIVERY" => before.status = "READY"
      /\ r.to = "DELIVERED" => before.status = "OUT_FOR_DELIVERY"
      /\ r.to = "REFUNDED" => before.status = "CANCELLED"
      /\ r.to \in {"PENDING", "ACCEPTED", "PREPARING"} => before.status \in {"PENDING", "ACCEPTED"}
  BY <1>4, WhatFollows
<1>6. PICK row : row = [before EXCEPT !.status = r.to]
  OBVIOUS
<1>7. row \in Food!OrderRows /\ row.partner = before.partner /\ row.status = r.to
  BY <1>3, <1>5, <1>6 DEF Food!OrderRows, Food!Statuses, Grocery!Statuses
<1>8. before.partner # None => /\ before.partner \in Partners /\ UnderWay(before)
                               /\ r.to \in {"OUT_FOR_DELIVERY", "DELIVERED"}
  BY <1>3, <1>5 DEF RowSound, OnRoad, UnderWay, Grocery!Statuses
<1>9. PICK stage : stage = Food!AfterWrite(r)
  OBVIOUS
<1>10. /\ foodRow' = [foodRow EXCEPT ![r.o] = row] /\ pool' = pool /\ Food!Go(w, stage)
  BY <1>6, <1>9, Zenon DEF Food!WriteStatus
<1>11. /\ stage = "release" => r.to = "DELIVERED" /\ before.partner # None
       /\ stage = "find" => r.to = "READY"
       /\ stage = "refundPayment" => r.to = "CANCELLED"
       /\ r.to = "DELIVERED" /\ before.partner # None => stage = "release"
       /\ stage \in {"release", "find", "refundPayment", "loyalty", "idle"}
  BY <1>4, <1>5, <1>8, <1>9 DEF Food!AfterWrite, Food!AfterRefund
<1>12. stage \in Food!Stages \cup {"idle"}
  BY <1>11 DEF Food!Stages
<1>13. PICK job \in Food!Jobs \cup {AtRest} :
         /\ foodReq' = [foodReq EXCEPT ![w] = job] /\ job.at = stage
         /\ job.at # "idle" => job.o = r.o /\ job.seen = r.seen
  BY <1>1, <1>2, <1>10, <1>12, FoodGoes
<1> HIDE DEF r, before
<1>14. RowSound(row)
  BY <1>7, <1>8 DEF RowSound, OnRoad
<1>15. Informed(row, job)
  <2>1. CASE stage = "release"
    <3>1. ~UnderWay(row) /\ job.seen.partner \in Partners
      BY <1>4, <1>7, <1>8, <1>11, <1>13, <2>1 DEF UnderWay
    <3> QED BY <1>13, <2>1, <3>1 DEF Informed, Refunding
  <2>2. CASE stage = "find"
    <3>1. row.partner = None /\ row.status \in OnRoad
      BY <1>7, <1>8, <1>11, <2>2 DEF OnRoad
    <3> QED BY <1>13, <2>2, <3>1 DEF Informed, Refunding
  <2>3. CASE stage = "refundPayment"
    <3>1. job.seen.partner = None
      BY <1>4, <1>8, <1>11, <1>13, <2>3
    <3> QED BY <1>13, <2>3, <3>1 DEF Informed, Refunding
  <2>4. CASE stage \in {"loyalty", "idle"}
    BY <1>13, <2>4, CarelessInformed DEF Careless
  <2> QED BY <1>11, <2>1, <2>2, <2>3, <2>4
<1>16. Rider(before, r) = before.partner
  <2>1. before.partner # None => UnderWay(before)
    BY <1>8
  <2> QED BY <1>2, <2>1 DEF Rider, r
<1>17. Rider(row, job) = before.partner
  <2>1. CASE stage = "release"
    BY <1>4, <1>13, <2>1 DEF Rider
  <2>2. CASE stage # "release"
    <3>1. job.at \notin {"attach", "release", "clear"}
      BY <1>11, <1>13, <2>2
    <3>2. before.partner # None => UnderWay(row)
      BY <1>7, <1>8, <1>11, <2>2 DEF UnderWay
    <3> QED BY <1>7, <3>1, <3>2 DEF Rider
  <2> QED BY <2>1, <2>2
<1>18. Deals(Rider(before, r), Rider(row, job))
  BY <1>1, <1>10, <1>16, <1>17, PoolRests, Zenon DEF Deals
<1> QED BY <1>1, <1>2, <1>7, <1>10, <1>13, <1>14, <1>15, <1>18, FoodMoves DEF r, before

LEMMA FoodReleaseRider ==
  ASSUME RidersInv, NEW w \in FoodWorkers, Food!ReleaseRider(w)
  PROVE  FoodTurn(w)
<1>1. FoodOrderly /\ PoolSound
  BY DEF RidersInv
<1>2. foodReq[w].at = "release" /\ foodReq[w].at # "idle"
  BY <1>1, FoodAt DEF Food!ReleaseRider
<1>3. /\ foodReq[w].o \in FoodOrder /\ foodRow[foodReq[w].o] \in Food!OrderRows
      /\ RowSound(foodRow[foodReq[w].o])
      /\ ~UnderWay(foodRow[foodReq[w].o]) /\ foodReq[w].seen.partner \in Partners
  BY <1>1, <1>2, FoodAtWork DEF Informed
<1>4. PICK stage \in {"loyalty", "idle"} : Food!Go(w, stage)
  BY DEF Food!ReleaseRider
<1>5. stage \in Food!Stages \cup {"idle"}
  BY DEF Food!Stages
<1>6. PICK job \in Food!Jobs \cup {AtRest} :
        /\ foodReq' = [foodReq EXCEPT ![w] = job] /\ job.at = stage
        /\ job.at # "idle" => job.o = foodReq[w].o
  BY <1>1, <1>2, <1>4, <1>5, FoodGoes
<1>7. foodRow' = [foodRow EXCEPT ![foodReq[w].o] = foodRow[foodReq[w].o]]
  BY <1>1 DEF Food!ReleaseRider, FoodOrderly, FoodTyped
<1>8. pool' = Released(foodReq[w].seen.partner)
  BY SamePool DEF Food!ReleaseRider
<1>9. Informed(foodRow[foodReq[w].o], job)
  BY <1>6, CarelessInformed DEF Careless
<1>10. /\ Rider(foodRow[foodReq[w].o], foodReq[w]) = foodReq[w].seen.partner
       /\ Rider(foodRow[foodReq[w].o], job) = None
  BY <1>2, <1>3, <1>6 DEF Rider
<1>11. Deals(Rider(foodRow[foodReq[w].o], foodReq[w]), Rider(foodRow[foodReq[w].o], job))
  BY <1>3, <1>8, <1>10 DEF Deals
<1> QED BY <1>1, <1>2, <1>3, <1>6, <1>7, <1>9, <1>11, FoodMoves

LEMMA FoodClaimRider ==
  ASSUME RidersInv, NEW w \in FoodWorkers, NEW p \in Partners, Food!ClaimRider(w, p)
  PROVE  FoodTurn(w)
<1>1. FoodOrderly /\ PoolSound
  BY DEF RidersInv
<1>2. foodReq[w].at = "claim" /\ foodReq[w].at # "idle"
  BY <1>1, FoodAt DEF Food!ClaimRider
<1>3. /\ foodReq[w] \in Food!Jobs /\ foodReq[w].o \in FoodOrder
      /\ foodRow[foodReq[w].o] \in Food!OrderRows /\ RowSound(foodRow[foodReq[w].o])
      /\ Informed(foodRow[foodReq[w].o], foodReq[w])
  BY <1>1, <1>2, FoodAtWork
<1>4. foodRow[foodReq[w].o].partner = None /\ foodRow[foodReq[w].o].status \in OnRoad
  BY <1>2, <1>3 DEF Informed
<1>5. foodRow' = foodRow
  BY DEF Food!ClaimRider
<1>6. foodRow' = [foodRow EXCEPT ![foodReq[w].o] = foodRow[foodReq[w].o]]
  BY <1>1, <1>5, Zenon DEF FoodOrderly, FoodTyped
<1> DEFINE rest == foodReq[w].ranked \ {p}
<1>7. CASE Food!ClaimWins(p)
  <2>1. PICK job : job = [[foodReq[w] EXCEPT !.partner = p] EXCEPT !.at = "attach"]
    OBVIOUS
  <2>2. foodReq' = [foodReq EXCEPT ![w] = job] /\ pool' = Claimed(p)
    BY <1>7, <2>1, SamePool DEF Food!ClaimRider, Food!Begin
  <2>3. job \in Food!Jobs /\ job.at = "attach" /\ job.o = foodReq[w].o /\ job.partner = p
    BY <1>3, <2>1 DEF Food!Jobs, Food!Stages
  <2>4. Informed(foodRow[foodReq[w].o], job)
    BY <1>4, <2>3 DEF Informed, Refunding
  <2>5. Rider(foodRow[foodReq[w].o], foodReq[w]) = None /\ Rider(foodRow[foodReq[w].o], job) = p
    BY <1>2, <1>4, <2>3 DEF Rider
  <2>6. pool[p].isAvailable
    BY <1>7, SamePool DEF ClaimWins
  <2>7. Deals(Rider(foodRow[foodReq[w].o], foodReq[w]), Rider(foodRow[foodReq[w].o], job))
    BY <2>2, <2>5, <2>6 DEF Deals
  <2> QED BY <1>1, <1>2, <1>3, <1>6, <2>2, <2>3, <2>4, <2>7, FoodMoves
<1>8. CASE ~Food!ClaimWins(p) /\ rest = {}
  <2>1. Food!Go(w, "idle") /\ pool' = pool
    BY <1>8 DEF Food!ClaimRider, Food!Begin, Food!Go
  <2> QED BY <1>2, <1>5, <2>1, FoodEndsQuietly DEF ByRow
<1>9. CASE ~Food!ClaimWins(p) /\ rest # {}
  <2>1. PICK job : job = [foodReq[w] EXCEPT !.ranked = rest]
    OBVIOUS
  <2>2. foodReq' = [foodReq EXCEPT ![w] = job] /\ pool' = pool
    BY <1>9, <2>1 DEF Food!ClaimRider, Food!Begin
  <2>3. rest \subseteq Partners
    BY <1>3 DEF Food!Jobs
  <2> HIDE DEF rest
  <2>4. job \in Food!Jobs /\ job.at = "claim" /\ job.o = foodReq[w].o
    BY <1>2, <1>3, <2>1, <2>3 DEF Food!Jobs
  <2>5. Informed(foodRow[foodReq[w].o], job)
    BY <1>4, <2>4 DEF Informed, Refunding
  <2> QED BY <1>2, <1>5, <2>2, <2>4, <2>5, FoodQuietRow DEF ByRow
<1> QED BY <1>7, <1>8, <1>9

LEMMA FoodAttach ==
  ASSUME RidersInv, NEW w \in FoodWorkers, Food!Attach(w)
  PROVE  FoodTurn(w)
<1>1. FoodOrderly /\ PoolSound
  BY DEF RidersInv
<1>2. foodReq[w].at = "attach" /\ foodReq[w].at # "idle"
  BY <1>1, FoodAt DEF Food!Attach
<1>3. /\ foodReq[w].o \in FoodOrder /\ foodRow[foodReq[w].o] \in Food!OrderRows
      /\ foodReq[w].partner \in Partners /\ foodRow[foodReq[w].o].status \in OnRoad
  BY <1>1, <1>2, FoodAtWork DEF Informed
<1>4. Food!Exists(foodReq[w].partner)
  BY <1>1, <1>3, SamePool DEF PoolSound
<1>5. PICK row : row = [[foodRow[foodReq[w].o] EXCEPT !.partner = foodReq[w].partner]
                          EXCEPT !.acceptance = "PENDING"]
  OBVIOUS
<1>6. /\ row \in Food!OrderRows /\ row.status = foodRow[foodReq[w].o].status
      /\ row.partner = foodReq[w].partner
  BY <1>3, <1>5 DEF Food!OrderRows
<1>7. foodRow' = [foodRow EXCEPT ![foodReq[w].o] = row] /\ pool' = pool /\ Food!Go(w, "idle")
  BY <1>4, <1>5 DEF Food!Attach, Food!End
<1>8. PICK job \in Food!Jobs \cup {AtRest} :
        foodReq' = [foodReq EXCEPT ![w] = job] /\ job.at = "idle"
  BY <1>1, <1>2, <1>7, FoodGoes
<1>9. Informed(row, job) /\ RowSound(row)
  BY <1>3, <1>6, <1>8, CarelessInformed DEF Careless, RowSound
<1>10. /\ Rider(foodRow[foodReq[w].o], foodReq[w]) = foodReq[w].partner
       /\ Rider(row, job) = foodReq[w].partner
  BY <1>2, <1>3, <1>6, <1>8 DEF Rider, UnderWay, OnRoad
<1>11. Deals(Rider(foodRow[foodReq[w].o], foodReq[w]), Rider(row, job))
  BY <1>1, <1>7, <1>10, PoolRests, Zenon DEF Deals
<1> QED BY <1>1, <1>2, <1>6, <1>7, <1>8, <1>9, <1>11, FoodMoves

LEMMA FoodFreeRejecter ==
  ASSUME RidersInv, NEW w \in FoodWorkers, Food!FreeRejecter(w)
  PROVE  FoodTurn(w)
<1>1. FoodOrderly /\ PoolSound
  BY DEF RidersInv
<1>2. foodReq[w].at = "free" /\ foodReq[w].at # "idle"
  BY <1>1, FoodAt DEF Food!FreeRejecter
<1>3. /\ foodReq[w].o \in FoodOrder /\ foodRow[foodReq[w].o] \in Food!OrderRows
      /\ RowSound(foodRow[foodReq[w].o]) /\ Informed(foodRow[foodReq[w].o], foodReq[w])
  BY <1>1, <1>2, FoodAtWork
<1>4. /\ foodReq[w].partner \in Partners /\ foodRow[foodReq[w].o].partner = foodReq[w].partner
      /\ foodRow[foodReq[w].o].status \in OnRoad
      /\ foodReq[w].seen.partner = foodReq[w].partner /\ foodReq[w].excluded = foodReq[w].partner
      /\ foodReq[w].seen.status = foodRow[foodReq[w].o].status
  BY <1>2, <1>3 DEF Informed
<1>5. Food!Go(w, "clear") /\ "clear" \in Food!Stages \cup {"idle"}
  BY DEF Food!FreeRejecter, Food!Stages
<1>6. PICK job \in Food!Jobs \cup {AtRest} :
        /\ foodReq' = [foodReq EXCEPT ![w] = job] /\ job.at = "clear"
        /\ job.at # "idle" => /\ job.o = foodReq[w].o /\ job.seen = foodReq[w].seen
                              /\ job.partner = foodReq[w].partner
                              /\ job.excluded = foodReq[w].excluded
  BY <1>1, <1>2, <1>5, FoodGoes
<1>7. foodRow' = [foodRow EXCEPT ![foodReq[w].o] = foodRow[foodReq[w].o]]
  BY <1>1 DEF Food!FreeRejecter, FoodOrderly, FoodTyped
<1>8. pool' = Released(foodReq[w].partner)
  BY SamePool DEF Food!FreeRejecter
<1>9. Informed(foodRow[foodReq[w].o], job)
  BY <1>4, <1>6 DEF Informed, Refunding
<1>10. /\ Rider(foodRow[foodReq[w].o], foodReq[w]) = foodReq[w].partner
       /\ Rider(foodRow[foodReq[w].o], job) = None
  BY <1>2, <1>4, <1>6 DEF Rider, UnderWay, OnRoad
<1>11. Deals(Rider(foodRow[foodReq[w].o], foodReq[w]), Rider(foodRow[foodReq[w].o], job))
  BY <1>4, <1>8, <1>10 DEF Deals
<1> QED BY <1>1, <1>2, <1>3, <1>6, <1>7, <1>9, <1>11, FoodMoves

LEMMA FoodClearAssignment ==
  ASSUME RidersInv, NEW w \in FoodWorkers, Food!ClearAssignment(w)
  PROVE  FoodTurn(w)
<1>1. FoodOrderly /\ PoolSound
  BY DEF RidersInv
<1>2. foodReq[w].at = "clear" /\ foodReq[w].at # "idle"
  BY <1>1, FoodAt DEF Food!ClearAssignment
<1>3. /\ foodReq[w].o \in FoodOrder /\ foodRow[foodReq[w].o] \in Food!OrderRows
      /\ foodRow[foodReq[w].o].status \in OnRoad
      /\ foodReq[w].seen.status = foodRow[foodReq[w].o].status
  BY <1>1, <1>2, FoodAtWork DEF Informed
<1>4. PICK row : row = [[foodRow[foodReq[w].o] EXCEPT !.partner = None]
                          EXCEPT !.acceptance = "NONE"]
  OBVIOUS
<1>5. /\ row \in Food!OrderRows /\ row.status = foodRow[foodReq[w].o].status
      /\ row.partner = None
  BY <1>3, <1>4 DEF Food!OrderRows
<1>6. /\ foodRow' = [foodRow EXCEPT ![foodReq[w].o] = row] /\ pool' = pool
      /\ Food!Go(w, "find") /\ "find" \in Food!Stages \cup {"idle"}
  BY <1>3, <1>4 DEF Food!ClearAssignment, OnRoad, Food!Stages
<1>7. PICK job \in Food!Jobs \cup {AtRest} :
        /\ foodReq' = [foodReq EXCEPT ![w] = job] /\ job.at = "find"
        /\ job.at # "idle" => job.o = foodReq[w].o
  BY <1>1, <1>2, <1>6, FoodGoes
<1>8. Informed(row, job) /\ RowSound(row)
  BY <1>3, <1>5, <1>7 DEF Informed, Refunding, RowSound
<1>9. Rider(foodRow[foodReq[w].o], foodReq[w]) = None /\ Rider(row, job) = None
  BY <1>2, <1>5, <1>7 DEF Rider
<1>10. Deals(Rider(foodRow[foodReq[w].o], foodReq[w]), Rider(row, job))
  BY <1>1, <1>6, <1>9, PoolRests DEF Deals
<1> QED BY <1>1, <1>2, <1>5, <1>6, <1>7, <1>8, <1>10, FoodMoves

LEMMA FoodByHandNever ==
  ASSUME RidersInv, NEW w \in FoodWorkers
  PROVE  ~Food!Vet(w) /\ ~Food!Unassign(w) /\ ~Food!Mark(w)
<1>1. FoodOrderly
  BY DEF RidersInv
<1>2. ASSUME NEW stage \in {"vet", "unassign", "mark"}, Food!At(w, stage) PROVE FALSE
  <2>1. foodReq[w].at = stage /\ foodReq[w].at # "idle"
    BY <1>1, <1>2, FoodAt
  <2>2. Informed(foodRow[foodReq[w].o], foodReq[w])
    BY <1>1, <2>1, FoodAtWork
  <2> QED BY <2>1, <2>2 DEF Informed
<1> QED BY <1>2 DEF Food!Vet, Food!Unassign, Food!Mark

LEMMA FoodStepTurns ==
  ASSUME RidersInv, NEW w \in FoodWorkers, Food!Step(w)
  PROVE  FoodTurn(w)
<1>1. CASE Food!Insert(w)
  BY <1>1, FoodInsert
<1>2. CASE Food!CreatePayment(w)
  BY <1>2, FoodCreatePayment
<1>3. CASE Food!GatewayFails(w)
  BY <1>3, FoodGatewayFails
<1>4. CASE Food!MarkOrderPaid(w)
  BY <1>4, FoodMarkOrderPaid
<1>5. CASE Food!PayOrder(w)
  BY <1>5, FoodPayOrder
<1>6. CASE Food!Reread(w)
  BY <1>6, FoodReread
<1>7. CASE Food!WriteStatus(w)
  BY <1>7, FoodWriteStatus
<1>8. CASE Food!RefundPayment(w)
  BY <1>8, FoodRefundPayment
<1>9. CASE Food!RefundOrder(w)
  BY <1>9, FoodRefundOrder
<1>10. CASE Food!RefundCredit(w)
  BY <1>10, FoodRefundCredit
<1>11. CASE Food!ReleaseRider(w)
  BY <1>11, FoodReleaseRider
<1>12. CASE Food!AwardPoints(w)
  BY <1>12, FoodAwardPoints
<1>13. CASE Food!FindRiders(w)
  BY <1>13, FoodFindRiders
<1>14. CASE \E p \in Partners : Food!ClaimRider(w, p)
  BY <1>14, FoodClaimRider
<1>15. CASE Food!Attach(w)
  BY <1>15, FoodAttach
<1>16. CASE Food!Accept(w)
  BY <1>16, FoodAccept
<1>17. CASE Food!FreeRejecter(w)
  BY <1>17, FoodFreeRejecter
<1>18. CASE Food!ClearAssignment(w)
  BY <1>18, FoodClearAssignment
<1> QED BY <1>1, <1>2, <1>3, <1>4, <1>5, <1>6, <1>7, <1>8, <1>9, <1>10, <1>11, <1>12, <1>13, <1>14,
           <1>15, <1>16, <1>17, <1>18, FoodByHandNever DEF Food!Step

LEMMA FoodArriveTurns ==
  ASSUME RidersInv, ServicesDispatch, NEW w \in FoodWorkers, Food!Arrive(w)
  PROVE  FoodTurn(w)
<1> USE DEF ServicesDispatch
<1>1. PICK o \in FoodOrder :
        \/ Food!Create(w, o) \/ Food!Pay(w, o) \/ Food!CancelRequest(w, o)
        \/ \E to \in Food!Statuses : Food!StatusRequest(w, o, to)
        \/ \E p \in Partners :
             \/ \E to \in Food!RiderStatuses : Food!RiderStatusRequest(w, o, p, to)
             \/ Food!AssignRequest(w, o, p)
             \/ Food!AcceptRequest(w, o, p)
             \/ Food!RejectRequest(w, o, p)
  BY DEF Food!Arrive
<1>2. \A p \in Partners : ~Food!AssignRequest(w, o, p)
  BY DEF Food!AssignRequest
<1> QED BY <1>1, <1>2, FoodCreate, FoodPay, FoodCancelRequest, FoodStatusRequest,
           FoodRiderStatusRequest, FoodAcceptRequest, FoodRejectRequest

LEMMA FoodTurnKeeps ==
  ASSUME RidersInv, NEW w \in FoodWorkers, FoodTurn(w), UNCHANGED groceryVars
  PROVE  RidersInv'
<1>1. PICK o \in FoodOrder, row \in Food!OrderRows, job \in Food!Jobs \cup {AtRest} :
        Turns(foodRow, foodReq, foodRow', foodReq', FoodOrder, FoodWorkers, w, o, row, job)
  BY DEF FoodTurn
<1>2. /\ Over(foodRow, FoodOrder) /\ Over(foodReq, FoodWorkers)
      /\ Orderly(foodRow, foodReq, FoodOrder, FoodWorkers)
      /\ PoolSound /\ HeldOnce /\ FoodTyped /\ GroceryOrderly
  BY DEF RidersInv, FoodOrderly, FoodTyped, Over
<1>3. FoodOrderly'
  <2>1. FoodTyped'
    BY <1>1, <1>2 DEF FoodTyped, Turns
  <2>2. Orderly(foodRow', foodReq', FoodOrder, FoodWorkers)
    BY <1>1, <1>2, TurnOrderly
  <2> QED BY <2>1, <2>2 DEF FoodOrderly, Orderly
<1>4. GroceryOrderly'
  BY <1>2 DEF groceryVars, GroceryOrderly, GroceryTyped, Orderly
<1> DEFINE a == Rider(foodRow[o], foodReq[w])
           b == Rider(row, job)
<1>5. ASSUME NEW p \in Partners
      PROVE  /\ FoodHolds(o, p) <=> a = p
             /\ FoodHolds(o, p)' <=> b = p
             /\ \A q \in FoodOrder : q # o => (FoodHolds(q, p)' <=> FoodHolds(q, p))
             /\ \A q \in GroceryOrder : GroceryHolds(q, p)' <=> GroceryHolds(q, p)
  <2>1. /\ HoldsRider(foodRow, foodReq, FoodWorkers, o, p) <=> a = p
        /\ HoldsRider(foodRow', foodReq', FoodWorkers, o, p) <=> b = p
        /\ \A q \in FoodOrder : q # o => (HoldsRider(foodRow', foodReq', FoodWorkers, q, p) <=>
                                         HoldsRider(foodRow, foodReq, FoodWorkers, q, p))
    <3>1. Changes(foodRow, foodReq, foodRow', foodReq', FoodOrder, FoodWorkers, w, o, row, job)
      BY <1>1, <1>2, TurnChanges
    <3> QED BY <3>1 DEF Changes
  <2>2. \A q \in GroceryOrder : GroceryHolds(q, p)' <=> GroceryHolds(q, p)
    BY DEF GroceryHolds, HoldsRider, groceryVars
  <2> QED BY <2>1, <2>2 DEF FoodHolds, HoldsRider
<1>6. Deals(a, b)
  BY <1>1 DEF Turns
<1>7. a \in Partners \cup {None} /\ b \in Partners \cup {None}
  <2>1. foodReq[w].at # "idle" => Informed(foodRow[o], foodReq[w])
    BY <1>1, <1>2 DEF Turns, Orderly
  <2>2. RowSound(foodRow[o])
    BY <1>2 DEF Orderly
  <2>3. a \in Partners \cup {None}
    BY <2>1, <2>2 DEF Rider, Informed, RowSound
  <2>4. Informed(row, job) /\ RowSound(row)
    BY <1>1 DEF Turns
  <2>5. b \in Partners \cup {None}
    BY <2>4 DEF Rider, Informed, RowSound
  <2> QED BY <2>3, <2>5
<1> HIDE DEF a, b
<1>8. ASSUME NEW p \in Partners
      PROVE  /\ <<"food", o>> \in Holders(p) <=> a = p
             /\ <<"food", o>> \in Holders(p)' <=> b = p
             /\ \A y : y # <<"food", o>> => (y \in Holders(p)' <=> y \in Holders(p))
  BY <1>5 DEF Holders
<1>9. PoolSound' /\ HeldOnce'
  <2>1. PICK x : x = <<"food", o>>
    OBVIOUS
  <2>2. /\ \A p \in Partners : x \in Holders(p) <=> a = p
        /\ \A p \in Partners : x \in Holders(p)' <=> b = p
        /\ \A p \in Partners : \A y : y # x => (y \in Holders(p)' <=> y \in Holders(p))
    BY <1>8, <2>1
  <2> QED BY <1>2, <1>6, <1>7, <2>2, DealKeeps
<1> QED BY <1>3, <1>4, <1>9 DEF RidersInv

(* Only the pool moves, and nobody is claimed or released.                   *)
LEMMA FlagsStill ==
  ASSUME RidersInv, SameFlags, UNCHANGED <<foodRow, foodReq, groceryRow, groceryReq>>
  PROVE  RidersInv'
<1>1. FoodOrderly' /\ GroceryOrderly'
  BY DEF RidersInv, FoodOrderly, FoodTyped, GroceryOrderly, GroceryTyped, Orderly
<1>2. \A p \in Partners : Holders(p)' = Holders(p)
  BY DEF Holders, FoodHolds, GroceryHolds, HoldsRider
<1>3. PoolSound'
  BY DEF RidersInv, PoolSound, PoolTypeOK, SameFlags
<1>4. HeldOnce'
  <2>1. ASSUME NEW p \in Partners
        PROVE  /\ \A y, z \in Holders(p)' : y = z
               /\ pool'[p].isAvailable <=> Holders(p)' = {}
    BY <1>2 DEF RidersInv, HeldOnce, SameFlags
  <2> QED BY <2>1 DEF HeldOnce
<1> QED BY <1>1, <1>3, <1>4 DEF RidersInv

LEMMA ToggleKeepsFlags ==
  ASSUME PoolSound, NEW p \in Partners, Food!ToggleOnline(p)
  PROVE  SameFlags
<1>1. PICK row : row = [pool[p] EXCEPT !.isOnline = ~@]
  OBVIOUS
<1>2. /\ row \in PartnerRows /\ row.status = pool[p].status
      /\ row.isAvailable = pool[p].isAvailable
  <2>1. pool[p] \in PartnerRows
    BY DEF PoolSound, PoolTypeOK
  <2>2. PICK b \in BOOLEAN : b = ~pool[p].isOnline
    <3>1. \A x \in BOOLEAN : \E b \in BOOLEAN : b = ~x
      OBVIOUS
    <3> QED BY <2>1, <3>1 DEF PartnerRows
  <2>3. row = [pool[p] EXCEPT !.isOnline = b]
    BY <1>1, <2>2
  <2> QED BY <2>1, <2>3 DEF PartnerRows
<1>3. pool' = [pool EXCEPT ![p] = row]
  BY <1>1 DEF Food!ToggleOnline
<1> QED BY <1>2, <1>3 DEF SameFlags, PoolSound, PoolTypeOK, Exists

LEMMA SuspendKeepsFlags ==
  ASSUME PoolSound, NEW p \in Partners, Food!ChangeStatus(p)
  PROVE  SameFlags
<1>1. PICK to \in {"APPROVED", "SUSPENDED"} : pool' = [pool EXCEPT ![p].status = to]
  BY DEF Food!ChangeStatus
<1>2. PICK row : row = [pool[p] EXCEPT !.status = to]
  OBVIOUS
<1>3. /\ row \in PartnerRows /\ row.status = to /\ row.isAvailable = pool[p].isAvailable
  BY <1>2 DEF PoolSound, PoolTypeOK, PartnerRows
<1>4. pool' = [pool EXCEPT ![p] = row]
  BY <1>1, <1>2
<1> QED BY <1>3, <1>4 DEF SameFlags, PoolSound, PoolTypeOK, Exists

LEMMA FoodNextKeeps ==
  ASSUME RidersInv, ServicesDispatch, Food!Next, UNCHANGED groceryVars,
         \A w \in FoodWorkers : ~Food!Crash(w)
  PROVE  RidersInv'
<1>1. UNCHANGED <<groceryRow, groceryReq>> /\ PoolSound
  BY DEF groceryVars, RidersInv
<1>2. CASE \E w \in FoodWorkers : Food!Arrive(w) \/ Food!Step(w)
  BY <1>2, FoodArriveTurns, FoodStepTurns, FoodTurnKeeps
<1>3. CASE \E o \in FoodOrder : Food!PayFailed(o)
  <2>1. UNCHANGED <<foodRow, foodReq>> /\ pool' = pool
    BY <1>3 DEF Food!PayFailed
  <2> QED BY <1>1, <2>1, PoolRests, FlagsStill
<1>4. ASSUME NEW p \in Partners, Food!RiderToggles(p) PROVE RidersInv'
  BY <1>1, <1>4, ToggleKeepsFlags, FlagsStill DEF Food!RiderToggles, Food!Unmoved
<1>5. ASSUME NEW p \in Partners, Food!AdminSuspends(p) PROVE RidersInv'
  BY <1>1, <1>5, SuspendKeepsFlags, FlagsStill DEF Food!AdminSuspends, Food!Unmoved
<1>6. \A p \in Partners : ~Food!AdminRemoves(p)
  BY DEF ServicesDispatch, Food!AdminRemoves
<1> QED BY <1>2, <1>3, <1>4, <1>5, <1>6 DEF Food!Next

(***************************************************************************)
(* The steps of the grocery orders.                                        *)
(***************************************************************************)

GroceryTurn(w) ==
  \E o \in GroceryOrder, row \in Grocery!Rows, job \in GroceryJobs \cup {AtRest} :
    Turns(groceryRow, groceryReq, groceryRow', groceryReq', GroceryOrder, GroceryWorkers, w, o,
          row, job)

LEMMA GroceryAtWork ==
  ASSUME GroceryOrderly, NEW w \in GroceryWorkers, groceryReq[w].at # "idle"
  PROVE  /\ groceryReq[w] \in GroceryJobs /\ groceryReq[w].o \in GroceryOrder
         /\ Informed(groceryRow[groceryReq[w].o], groceryReq[w])
         /\ groceryRow[groceryReq[w].o] \in Grocery!Rows
         /\ RowSound(groceryRow[groceryReq[w].o])
BY DEF GroceryOrderly, GroceryTyped, Orderly, AtRest

LEMMA GroceryGoes ==
  ASSUME GroceryOrderly, NEW w \in GroceryWorkers, groceryReq[w].at # "idle",
         NEW stage \in GroceryStages, Grocery!Go(w, stage)
  PROVE  \E job \in GroceryJobs :
           /\ groceryReq' = [groceryReq EXCEPT ![w] = job] /\ job.at = stage
           /\ job.o = groceryReq[w].o /\ job.to = groceryReq[w].to /\ job.seen = groceryReq[w].seen
           /\ job.partner = groceryReq[w].partner /\ job.excluded = groceryReq[w].excluded
<1>1. groceryReq[w] \in GroceryJobs
  BY GroceryAtWork
<1>2. PICK job : job = [groceryReq[w] EXCEPT !.at = stage]
  OBVIOUS
<1>3. /\ job \in GroceryJobs /\ job.at = stage
      /\ job.o = groceryReq[w].o /\ job.to = groceryReq[w].to /\ job.seen = groceryReq[w].seen
      /\ job.partner = groceryReq[w].partner /\ job.excluded = groceryReq[w].excluded
  BY <1>1, <1>2 DEF GroceryJobs
<1> QED BY <1>2, <1>3 DEF Grocery!Go, Grocery!Become

LEMMA GroceryEnds ==
  ASSUME NEW w, Grocery!End(w)
  PROVE  groceryReq' = [groceryReq EXCEPT ![w] = AtRest]
BY DEF Grocery!End, Grocery!Become, Grocery!Idle, AtRest

LEMMA GroceryMoves ==
  ASSUME GroceryOrderly, NEW w \in GroceryWorkers, groceryReq[w].at # "idle",
         NEW row \in Grocery!Rows, groceryRow' = [groceryRow EXCEPT ![groceryReq[w].o] = row],
         NEW job \in GroceryJobs \cup {AtRest}, groceryReq' = [groceryReq EXCEPT ![w] = job],
         job.at # "idle" => job.o = groceryReq[w].o, Informed(row, job), RowSound(row),
         Deals(Rider(groceryRow[groceryReq[w].o], groceryReq[w]), Rider(row, job))
  PROVE  GroceryTurn(w)
BY GroceryAtWork DEF GroceryTurn, Turns

(* Neither the rider nor the status is touched.                              *)
LEMMA GroceryQuiet ==
  ASSUME RidersInv, NEW w \in GroceryWorkers, groceryReq[w].at # "idle", ByRow(groceryReq[w]),
         NEW row \in Grocery!Rows, groceryRow' = [groceryRow EXCEPT ![groceryReq[w].o] = row],
         row.status = groceryRow[groceryReq[w].o].status,
         row.partner = groceryRow[groceryReq[w].o].partner,
         NEW job \in GroceryJobs \cup {AtRest}, groceryReq' = [groceryReq EXCEPT ![w] = job],
         ByRow(job), job.at # "idle" => job.o = groceryReq[w].o, Informed(row, job), pool' = pool
  PROVE  GroceryTurn(w)
<1>1. GroceryOrderly /\ PoolSound
  BY DEF RidersInv
<1>2. RowSound(groceryRow[groceryReq[w].o])
  BY <1>1, GroceryAtWork
<1>3. RowSound(row)
  BY <1>2 DEF RowSound
<1>4. Rider(groceryRow[groceryReq[w].o], groceryReq[w]) = Rider(row, job)
  BY SameRider
<1>5. Deals(Rider(groceryRow[groceryReq[w].o], groceryReq[w]), Rider(row, job))
  BY <1>1, <1>4, PoolRests, Zenon DEF Deals
<1> QED BY <1>1, <1>3, <1>5, GroceryMoves

LEMMA GroceryQuietRow ==
  ASSUME RidersInv, NEW w \in GroceryWorkers, groceryReq[w].at # "idle", ByRow(groceryReq[w]),
         groceryRow' = groceryRow,
         NEW job \in GroceryJobs \cup {AtRest}, groceryReq' = [groceryReq EXCEPT ![w] = job],
         ByRow(job), job.at # "idle" => job.o = groceryReq[w].o,
         Informed(groceryRow[groceryReq[w].o], job), pool' = pool
  PROVE  GroceryTurn(w)
<1>1. GroceryOrderly
  BY DEF RidersInv
<1>2. groceryReq[w].o \in GroceryOrder /\ groceryRow[groceryReq[w].o] \in Grocery!Rows
  BY <1>1, GroceryAtWork
<1>3. groceryRow' = [groceryRow EXCEPT ![groceryReq[w].o] = groceryRow[groceryReq[w].o]]
  BY <1>1, <1>2 DEF GroceryOrderly, GroceryTyped
<1> QED BY <1>2, <1>3, GroceryQuiet

LEMMA GroceryStarts ==
  ASSUME RidersInv, NEW w \in GroceryWorkers, NEW o \in GroceryOrder, groceryReq[w].at = "idle",
         ~Grocery!Busy(o), groceryRow' = groceryRow, pool' = pool,
         NEW job \in GroceryJobs, groceryReq' = [groceryReq EXCEPT ![w] = job], ByRow(job),
         job.o = o, Informed(groceryRow[o], job)
  PROVE  GroceryTurn(w)
<1>1. GroceryOrderly /\ PoolSound
  BY DEF RidersInv
<1>2. ByRow(groceryReq[w])
  BY DEF ByRow
<1>3. \A v \in GroceryWorkers : ~OnOrder(groceryReq[v], o)
  BY DEF Grocery!Busy, Grocery!Running, Grocery!At, OnOrder
<1>4. groceryRow' = [groceryRow EXCEPT ![o] = groceryRow[o]] /\ groceryRow[o] \in Grocery!Rows
  BY <1>1 DEF GroceryOrderly, GroceryTyped
<1>5. RowSound(groceryRow[o])
  BY <1>1 DEF GroceryOrderly, Orderly
<1>6. Deals(Rider(groceryRow[o], groceryReq[w]), Rider(groceryRow[o], job))
  <2>1. Rider(groceryRow[o], groceryReq[w]) = Rider(groceryRow[o], job)
    BY <1>2, SameRider
  <2> QED BY <1>1, <2>1, PoolRests DEF Deals
<1> QED BY <1>3, <1>4, <1>5, <1>6 DEF GroceryTurn, Turns

LEMMA GroceryJobMade ==
  ASSUME GroceryOrderly, NEW stage \in GroceryStages, NEW o \in GroceryOrder,
         NEW to \in Grocery!Statuses \cup {None}, NEW p \in Partners \cup {None},
         NEW q \in Partners \cup {None}
  PROVE  /\ Grocery!Job(stage, o, to, p, q) \in GroceryJobs
         /\ Grocery!Job(stage, o, to, p, q).at = stage /\ Grocery!Job(stage, o, to, p, q).o = o
         /\ Grocery!Job(stage, o, to, p, q).to = to /\ Grocery!Job(stage, o, to, p, q).partner = p
         /\ Grocery!Job(stage, o, to, p, q).seen = groceryRow[o]
         /\ Grocery!Job(stage, o, to, p, q).excluded = q
<1>1. groceryRow[o] \in Grocery!Rows
  BY DEF GroceryOrderly, GroceryTyped
<1>2. Lines[o] \in SUBSET AllLines
  BY DEF AllLines
<1> QED BY <1>1, <1>2 DEF Grocery!Job, GroceryJobs

LEMMA GroceryEndsQuietly ==
  ASSUME RidersInv, NEW w \in GroceryWorkers, groceryReq[w].at # "idle", ByRow(groceryReq[w]),
         Grocery!End(w), groceryRow' = groceryRow, pool' = pool
  PROVE  GroceryTurn(w)
<1>1. PICK job : job = AtRest
  OBVIOUS
<1>2. groceryReq' = [groceryReq EXCEPT ![w] = job] /\ job.at = "idle"
  BY <1>1, GroceryEnds DEF AtRest
<1>3. Careless(job) /\ job \in GroceryJobs \cup {AtRest}
  BY <1>1, <1>2 DEF Careless
<1> QED BY <1>2, <1>3, CarelessInformed, GroceryQuietRow

LEMMA GroceryCreate ==
  ASSUME RidersInv, ServicesDispatch, NEW w \in GroceryWorkers, NEW o \in GroceryOrder,
         Grocery!Create(w, o)
  PROVE  GroceryTurn(w)
<1>1. GroceryOrderly
  BY DEF RidersInv
<1> DEFINE job == Grocery!Job("insert", o, None, None, None)
<1>2. /\ job \in GroceryJobs /\ job.at = "insert" /\ job.o = o
      /\ job.seen = groceryRow[o]
  BY <1>1, GroceryJobMade DEF GroceryStages, Grocery!Statuses
<1>3. /\ groceryReq[w].at = "idle" /\ ~Grocery!Busy(o) /\ groceryRow' = groceryRow
      /\ pool' = pool /\ groceryReq' = [groceryReq EXCEPT ![w] = job]
  BY DEF Grocery!Create, Grocery!Free, Grocery!Start, Grocery!Become, Grocery!At,
         ServicesDispatch
<1> HIDE DEF job
<1>4. Informed(groceryRow[o], job)
  <2>1. groceryRow[o].status = "none"
    BY DEF Grocery!Create, Grocery!Placed
  <2> QED BY <1>2, <2>1 DEF Informed, Refunding
<1> QED BY <1>2, <1>3, <1>4, GroceryStarts DEF ByRow

LEMMA GroceryCancelRequest ==
  ASSUME RidersInv, ServicesDispatch, NEW w \in GroceryWorkers, NEW o \in GroceryOrder,
         Grocery!CancelRequest(w, o)
  PROVE  GroceryTurn(w)
<1>1. GroceryOrderly
  BY DEF RidersInv
<1> DEFINE job == Grocery!Job("restock", o, "CANCELLED", None, None)
<1>2. /\ job \in GroceryJobs /\ job.at = "restock" /\ job.o = o
      /\ job.seen = groceryRow[o]
  BY <1>1, GroceryJobMade DEF GroceryStages, Grocery!Statuses
<1>3. /\ groceryReq[w].at = "idle" /\ ~Grocery!Busy(o) /\ groceryRow' = groceryRow
      /\ pool' = pool /\ groceryReq' = [groceryReq EXCEPT ![w] = job]
  BY DEF Grocery!CancelRequest, Grocery!Free, Grocery!Start, Grocery!Become, Grocery!At,
         ServicesDispatch
<1> HIDE DEF job
<1>4. Informed(groceryRow[o], job)
  <2>1. groceryRow[o].status # "none"
    BY DEF Grocery!CancelRequest
  <2> QED BY <1>2, <2>1 DEF Informed, Refunding
<1> QED BY <1>2, <1>3, <1>4, GroceryStarts DEF ByRow

LEMMA GroceryStatusRequest ==
  ASSUME RidersInv, ServicesDispatch, NEW w \in GroceryWorkers, NEW o \in GroceryOrder,
         NEW to \in Grocery!Statuses,
         Grocery!StatusRequest(w, o, to)
  PROVE  GroceryTurn(w)
<1>1. GroceryOrderly
  BY DEF RidersInv
<1> DEFINE job == Grocery!Job(IF to = "CANCELLED" THEN "restock" ELSE "reread", o, to, None, None)
<1>2. /\ job \in GroceryJobs /\ job.at \in {"restock", "reread"} /\ job.o = o
      /\ job.seen = groceryRow[o]
  BY <1>1, GroceryJobMade DEF GroceryStages, Grocery!Statuses
<1>3. /\ groceryReq[w].at = "idle" /\ ~Grocery!Busy(o) /\ groceryRow' = groceryRow
      /\ pool' = pool /\ groceryReq' = [groceryReq EXCEPT ![w] = job]
  BY DEF Grocery!StatusRequest, Grocery!Free, Grocery!Start, Grocery!Become, Grocery!At,
         ServicesDispatch
<1> HIDE DEF job
<1>4. Informed(groceryRow[o], job)
  <2>1. groceryRow[o].status # "none"
    BY DEF Grocery!StatusRequest, Grocery!Placed
  <2> QED BY <1>2, <2>1 DEF Informed, Refunding
<1> QED BY <1>2, <1>3, <1>4, GroceryStarts DEF ByRow

LEMMA GroceryAnswerRequest ==
  ASSUME RidersInv, ServicesDispatch, NEW w \in GroceryWorkers, NEW o \in GroceryOrder,
         NEW p \in Partners, NEW accept \in BOOLEAN,
         Grocery!AnswerRequest(w, o, p, accept)
  PROVE  GroceryTurn(w)
<1>1. GroceryOrderly
  BY DEF RidersInv
<1> DEFINE job == Grocery!Job(IF accept THEN "accept" ELSE "free", o, None, p, p)
<1>2. /\ job \in GroceryJobs /\ job.at \in {"accept", "free"} /\ job.o = o
      /\ job.seen = groceryRow[o] /\ job.partner = p /\ job.excluded = p
  BY <1>1, GroceryJobMade DEF GroceryStages, Grocery!Statuses
<1>3. /\ groceryReq[w].at = "idle" /\ ~Grocery!Busy(o) /\ groceryRow' = groceryRow
      /\ pool' = pool /\ groceryReq' = [groceryReq EXCEPT ![w] = job]
  BY DEF Grocery!AnswerRequest, Grocery!Free, Grocery!Start, Grocery!Become, Grocery!At,
         ServicesDispatch
<1> HIDE DEF job
<1>4. Informed(groceryRow[o], job)
  <2>1. UnderWay(groceryRow[o]) /\ groceryRow[o].partner = p
    BY DEF Grocery!AnswerRequest, Grocery!Live, Grocery!Placed, Grocery!Finished, UnderWay
  <2>2. groceryRow[o].status \in OnRoad
    BY <1>1, <2>1, NoneIsNoPartner DEF GroceryOrderly, Orderly, RowSound, UnderWay
  <2> QED BY <1>2, <2>1, <2>2 DEF Informed, Refunding
<1> QED BY <1>2, <1>3, <1>4, GroceryStarts DEF ByRow

LEMMA GroceryRestock ==
  ASSUME RidersInv, NEW w \in GroceryWorkers, Grocery!Restock(w)
  PROVE  GroceryTurn(w)
<1>1. GroceryOrderly
  BY DEF RidersInv
<1>2. groceryReq[w].at = "restock" /\ groceryReq[w].at # "idle"
  BY DEF Grocery!Restock, Grocery!At
<1>3. groceryReq[w] \in GroceryJobs /\ groceryRow[groceryReq[w].o].status # "none"
  BY <1>1, <1>2, GroceryAtWork DEF Informed
<1>4. groceryRow' = groceryRow /\ pool' = pool
  BY DEF Grocery!Restock
<1>5. CASE groceryReq[w].left = {}
  <2>1. Grocery!Go(w, "reread") /\ "reread" \in GroceryStages
    BY <1>5 DEF Grocery!Restock, GroceryStages
  <2>2. PICK job \in GroceryJobs :
          /\ groceryReq' = [groceryReq EXCEPT ![w] = job] /\ job.at = "reread"
          /\ job.o = groceryReq[w].o
    BY <1>1, <1>2, <2>1, GroceryGoes
  <2>3. Informed(groceryRow[groceryReq[w].o], job)
    BY <1>3, <2>2 DEF Informed, Refunding
  <2> QED BY <1>2, <1>4, <2>2, <2>3, GroceryQuietRow DEF ByRow
<1>6. CASE groceryReq[w].left # {}
  <2>1. PICK g \in groceryReq[w].left : Grocery!Become(w, [groceryReq[w] EXCEPT !.left = @ \ {g}])
    BY <1>6 DEF Grocery!Restock
  <2>2. PICK rest : rest = groceryReq[w].left \ {g}
    OBVIOUS
  <2>3. PICK job : job = [groceryReq[w] EXCEPT !.left = rest]
    OBVIOUS
  <2>4. groceryReq' = [groceryReq EXCEPT ![w] = job]
    BY <2>1, <2>2, <2>3 DEF Grocery!Become
  <2>5. rest \in SUBSET AllLines
    BY <1>3, <2>2 DEF GroceryJobs
  <2>6. job \in GroceryJobs /\ job.at = "restock" /\ job.o = groceryReq[w].o
    BY <1>2, <1>3, <2>3, <2>5 DEF GroceryJobs
  <2>7. Informed(groceryRow[groceryReq[w].o], job)
    BY <1>3, <2>6 DEF Informed, Refunding
  <2> QED BY <1>2, <1>4, <2>4, <2>6, <2>7, GroceryQuietRow DEF ByRow
<1> QED BY <1>5, <1>6

LEMMA GroceryReread ==
  ASSUME RidersInv, NEW w \in GroceryWorkers, Grocery!Reread(w)
  PROVE  GroceryTurn(w)
<1>1. GroceryOrderly
  BY DEF RidersInv
<1>2. groceryReq[w].at = "reread" /\ groceryReq[w].at # "idle"
  BY DEF Grocery!Reread, Grocery!At
<1>3. /\ groceryReq[w] \in GroceryJobs /\ groceryReq[w].o \in GroceryOrder
      /\ groceryRow[groceryReq[w].o].status # "none"
  BY <1>1, <1>2, GroceryAtWork DEF Informed
<1>4. groceryRow' = groceryRow /\ pool' = pool
  BY DEF Grocery!Reread
<1>5. PICK o \in GroceryOrder, to \in Grocery!Statuses \cup {None} :
        o = groceryReq[w].o /\ to = groceryReq[w].to
  BY <1>3 DEF GroceryJobs
<1>6. CASE to \in Grocery!Allowed[groceryRow[o].status]
  <2> DEFINE job == Grocery!Job("write", o, to, None, None)
  <2>1. /\ job \in GroceryJobs /\ job.at = "write" /\ job.o = o
        /\ job.to = to /\ job.seen = groceryRow[o]
    <3>1. "write" \in GroceryStages
      BY DEF GroceryStages
    <3>2. PICK none \in Partners \cup {None} : none = None
      OBVIOUS
    <3> QED BY <1>1, <3>1, <3>2, GroceryJobMade
  <2>2. groceryReq' = [groceryReq EXCEPT ![w] = job]
    BY <1>5, <1>6 DEF Grocery!Reread, Grocery!Become
  <2> HIDE DEF job
  <2>3. Informed(groceryRow[o], job)
    BY <1>3, <1>5, <1>6, <2>1 DEF Informed, Refunding
  <2> QED BY <1>2, <1>4, <1>5, <2>1, <2>2, <2>3, GroceryQuietRow DEF ByRow
<1>7. CASE to \notin Grocery!Allowed[groceryRow[o].status]
  <2>1. Grocery!End(w)
    BY <1>5, <1>7 DEF Grocery!Reread
  <2> QED BY <1>2, <1>4, <2>1, GroceryEndsQuietly DEF ByRow
<1> QED BY <1>6, <1>7

LEMMA GroceryRespond ==
  ASSUME RidersInv, NEW w \in GroceryWorkers, Grocery!Respond(w)
  PROVE  GroceryTurn(w)
<1>1. groceryReq[w].at # "idle" /\ ByRow(groceryReq[w])
  BY DEF Grocery!Respond, Grocery!At, ByRow
<1>2. Grocery!End(w) /\ groceryRow' = groceryRow /\ pool' = pool
  BY DEF Grocery!Respond
<1> QED BY <1>1, <1>2, GroceryEndsQuietly

LEMMA GroceryAwardPoints ==
  ASSUME RidersInv, NEW w \in GroceryWorkers, Grocery!AwardPoints(w)
  PROVE  GroceryTurn(w)
<1>1. GroceryOrderly
  BY DEF RidersInv
<1>2. groceryReq[w].at # "idle" /\ ByRow(groceryReq[w])
  BY DEF Grocery!AwardPoints, Grocery!At, ByRow
<1>3. Grocery!Go(w, "end") /\ "end" \in GroceryStages /\ groceryRow' = groceryRow /\ pool' = pool
  BY DEF Grocery!AwardPoints, GroceryStages
<1>4. PICK job \in GroceryJobs :
        /\ groceryReq' = [groceryReq EXCEPT ![w] = job] /\ job.at = "end"
        /\ job.o = groceryReq[w].o
  BY <1>1, <1>2, <1>3, GroceryGoes
<1>5. Careless(job)
  BY <1>4 DEF Careless
<1> QED BY <1>2, <1>3, <1>4, <1>5, CarelessInformed, GroceryQuietRow

LEMMA GroceryRefundOrder ==
  ASSUME RidersInv, NEW w \in GroceryWorkers, Grocery!RefundOrder(w)
  PROVE  GroceryTurn(w)
<1>1. GroceryOrderly
  BY DEF RidersInv
<1>2. groceryReq[w].at = "refund" /\ groceryReq[w].at # "idle"
  BY DEF Grocery!RefundOrder, Grocery!At
<1>3. groceryReq[w].seen.partner = None /\ groceryRow[groceryReq[w].o] \in Grocery!Rows
  BY <1>1, <1>2, GroceryAtWork DEF Informed, Refunding
<1>4. PICK row : row = [groceryRow[groceryReq[w].o] EXCEPT !.paid = "REFUNDED"]
  OBVIOUS
<1>5. /\ row \in Grocery!Rows /\ row.status = groceryRow[groceryReq[w].o].status
      /\ row.partner = groceryRow[groceryReq[w].o].partner
  BY <1>3, <1>4 DEF Grocery!Rows
<1>6. /\ groceryRow' = [groceryRow EXCEPT ![groceryReq[w].o] = row] /\ pool' = pool
      /\ Grocery!Go(w, "credit") /\ "credit" \in GroceryStages
  BY <1>4 DEF Grocery!RefundOrder, GroceryStages
<1>7. PICK job \in GroceryJobs :
        /\ groceryReq' = [groceryReq EXCEPT ![w] = job] /\ job.at = "credit"
        /\ job.o = groceryReq[w].o /\ job.seen = groceryReq[w].seen
  BY <1>1, <1>2, <1>6, GroceryGoes
<1>8. Informed(row, job) /\ ByRow(job) /\ ByRow(groceryReq[w])
  BY <1>2, <1>3, <1>7 DEF Informed, Refunding, ByRow
<1> QED BY <1>2, <1>5, <1>6, <1>7, <1>8, GroceryQuiet

LEMMA GroceryRefundCredit ==
  ASSUME RidersInv, NEW w \in GroceryWorkers, Grocery!RefundCredit(w)
  PROVE  GroceryTurn(w)
<1>1. GroceryOrderly
  BY DEF RidersInv
<1>2. groceryReq[w].at = "credit" /\ groceryReq[w].at # "idle"
  BY DEF Grocery!RefundCredit, Grocery!At
<1>3. groceryReq[w].seen.partner = None
  BY <1>1, <1>2, GroceryAtWork DEF Informed, Refunding
<1>4. /\ Grocery!Go(w, "end") /\ "end" \in GroceryStages /\ groceryRow' = groceryRow
      /\ pool' = pool
  BY <1>3 DEF Grocery!RefundCredit, Grocery!AfterRefund, GroceryStages
<1>5. PICK job \in GroceryJobs :
        /\ groceryReq' = [groceryReq EXCEPT ![w] = job] /\ job.at = "end"
        /\ job.o = groceryReq[w].o
  BY <1>1, <1>2, <1>4, GroceryGoes
<1>6. Careless(job)
  BY <1>5 DEF Careless
<1> QED BY <1>2, <1>4, <1>5, <1>6, CarelessInformed, GroceryQuietRow DEF ByRow

LEMMA GroceryFindRiders ==
  ASSUME RidersInv, NEW w \in GroceryWorkers, Grocery!FindRiders(w)
  PROVE  GroceryTurn(w)
<1>1. GroceryOrderly
  BY DEF RidersInv
<1>2. groceryReq[w].at = "find" /\ groceryReq[w].at # "idle"
  BY DEF Grocery!FindRiders, Grocery!At
<1>3. /\ groceryReq[w] \in GroceryJobs /\ groceryRow[groceryReq[w].o].partner = None
      /\ groceryRow[groceryReq[w].o].status \in OnRoad
  BY <1>1, <1>2, GroceryAtWork DEF Informed
<1>4. groceryRow' = groceryRow /\ pool' = pool
  BY DEF Grocery!FindRiders
<1>5. PICK found \in SUBSET Partners : found = Grocery!Candidates(groceryReq[w].excluded)
  BY DEF Grocery!Candidates
<1>6. PICK stage \in {"end", "claim"} : stage = IF found = {} THEN "end" ELSE "claim"
  OBVIOUS
<1>7. PICK job : job = [groceryReq[w] EXCEPT !.ranked = found, !.at = stage]
  OBVIOUS
<1>8. groceryReq' = [groceryReq EXCEPT ![w] = job]
  BY <1>5, <1>6, <1>7 DEF Grocery!FindRiders, Grocery!Become
<1>9. job \in GroceryJobs /\ job.at = stage /\ job.o = groceryReq[w].o
  BY <1>3, <1>5, <1>6, <1>7, Zenon DEF GroceryJobs, GroceryStages
<1>10. Informed(groceryRow[groceryReq[w].o], job) /\ ByRow(job)
  BY <1>3, <1>6, <1>9 DEF Informed, Refunding, ByRow
<1> QED BY <1>2, <1>4, <1>8, <1>9, <1>10, GroceryQuietRow DEF ByRow

LEMMA GroceryAccept ==
  ASSUME RidersInv, NEW w \in GroceryWorkers, Grocery!Accept(w)
  PROVE  GroceryTurn(w)
<1>1. GroceryOrderly
  BY DEF RidersInv
<1>2. groceryReq[w].at = "accept" /\ groceryReq[w].at # "idle"
  BY DEF Grocery!Accept, Grocery!At
<1>3. groceryRow[groceryReq[w].o] \in Grocery!Rows
  BY <1>1, <1>2, GroceryAtWork
<1>4. PICK row : row = [groceryRow[groceryReq[w].o] EXCEPT !.acceptance = "ACCEPTED"]
  OBVIOUS
<1>5. /\ row \in Grocery!Rows /\ row.status = groceryRow[groceryReq[w].o].status
      /\ row.partner = groceryRow[groceryReq[w].o].partner
  BY <1>3, <1>4 DEF Grocery!Rows
<1>6. PICK job : job = AtRest
  OBVIOUS
<1>7. /\ groceryRow' = [groceryRow EXCEPT ![groceryReq[w].o] = row] /\ pool' = pool
      /\ groceryReq' = [groceryReq EXCEPT ![w] = job]
  BY <1>4, <1>6, GroceryEnds DEF Grocery!Accept
<1>8. job.at = "idle" /\ job \in GroceryJobs \cup {AtRest}
  BY <1>6 DEF AtRest
<1>9. Informed(row, job) /\ ByRow(job) /\ ByRow(groceryReq[w])
  BY <1>2, <1>8, CarelessInformed DEF Careless
<1> QED BY <1>2, <1>5, <1>7, <1>8, <1>9, GroceryQuiet

(* The steps that touch the status or the rider.                             *)
LEMMA GroceryInsert ==
  ASSUME RidersInv, NEW w \in GroceryWorkers, Grocery!Insert(w)
  PROVE  GroceryTurn(w)
<1>1. GroceryOrderly /\ PoolSound
  BY DEF RidersInv
<1>2. groceryReq[w].at = "insert" /\ groceryReq[w].at # "idle"
  BY DEF Grocery!Insert, Grocery!At
<1>3. /\ groceryRow[groceryReq[w].o] \in Grocery!Rows /\ groceryRow[groceryReq[w].o].status = "none"
      /\ groceryRow[groceryReq[w].o].partner = None
  BY <1>1, <1>2, GroceryAtWork DEF Informed, RowSound, OnRoad
<1>4. PICK paid \in {"PENDING", "PAID"} :
        groceryRow' = [groceryRow EXCEPT ![groceryReq[w].o] =
                         [Grocery!Unplaced EXCEPT !.status = "PENDING", !.paid = paid]]
  BY DEF Grocery!Insert
<1>5. PICK row : row = [Grocery!Unplaced EXCEPT !.status = "PENDING", !.paid = paid]
  OBVIOUS
<1>6. row \in Grocery!Rows /\ row.partner = None
  BY <1>4, <1>5 DEF Grocery!Rows, Grocery!Statuses, Grocery!Unplaced
<1>7. groceryRow' = [groceryRow EXCEPT ![groceryReq[w].o] = row] /\ pool' = pool
  BY <1>4, <1>5 DEF Grocery!Insert
<1>8. PICK job \in GroceryJobs \cup {AtRest} :
        groceryReq' = [groceryReq EXCEPT ![w] = job] /\ job.at = "idle"
  <2>1. Grocery!End(w)
    BY DEF Grocery!Insert
  <2>2. PICK job : job = AtRest
    OBVIOUS
  <2>3. groceryReq' = [groceryReq EXCEPT ![w] = job] /\ job.at = "idle"
    BY <2>1, <2>2, GroceryEnds DEF AtRest
  <2> QED BY <2>2, <2>3
<1>9. Informed(row, job) /\ RowSound(row)
  BY <1>6, <1>8, CarelessInformed DEF Careless, RowSound
<1>10. Rider(groceryRow[groceryReq[w].o], groceryReq[w]) = None /\ Rider(row, job) = None
  BY <1>2, <1>3, <1>6, <1>8 DEF Rider
<1>11. Deals(Rider(groceryRow[groceryReq[w].o], groceryReq[w]), Rider(row, job))
  BY <1>1, <1>7, <1>10, PoolRests DEF Deals
<1> QED BY <1>1, <1>2, <1>6, <1>7, <1>8, <1>9, <1>11, GroceryMoves

LEMMA GroceryWriteStatus ==
  ASSUME RidersInv, NEW w \in GroceryWorkers, Grocery!WriteStatus(w)
  PROVE  GroceryTurn(w)
<1>1. GroceryOrderly /\ PoolSound
  BY DEF RidersInv
<1>2. groceryReq[w].at = "write" /\ groceryReq[w].at # "idle"
  BY DEF Grocery!WriteStatus, Grocery!At
<1> DEFINE r == groceryReq[w]
           before == groceryRow[r.o]
<1>3. /\ r \in GroceryJobs /\ r.o \in GroceryOrder /\ before \in Grocery!Rows
      /\ Informed(before, r) /\ RowSound(before)
  BY <1>1, <1>2, GroceryAtWork
<1>4. /\ r.seen.partner = before.partner /\ before.status \in Grocery!Statuses
      /\ r.to \in Grocery!Allowed[before.status]
  BY <1>2, <1>3 DEF Informed, Grocery!Rows, Grocery!Statuses
<1>5. /\ r.to \in Grocery!Statuses
      /\ r.to = "CANCELLED" => before.status \in {"PENDING", "ACCEPTED", "PREPARING"}
      /\ r.to = "READY" => before.status = "PREPARING"
      /\ r.to = "OUT_FOR_DELIVERY" => before.status = "READY"
      /\ r.to = "DELIVERED" => before.status = "OUT_FOR_DELIVERY"
      /\ r.to = "REFUNDED" => before.status = "CANCELLED"
      /\ r.to \in {"PENDING", "ACCEPTED", "PREPARING"} => before.status \in {"PENDING", "ACCEPTED"}
  BY <1>4, WhatFollows, Zenon
<1>6. PICK row : row = [before EXCEPT !.status = r.to]
  OBVIOUS
<1>7. row \in Grocery!Rows /\ row.partner = before.partner /\ row.status = r.to
  BY <1>3, <1>5, <1>6 DEF Grocery!Rows, Grocery!Statuses
<1>8. before.partner # None => /\ before.partner \in Partners /\ UnderWay(before)
                               /\ r.to \in {"OUT_FOR_DELIVERY", "DELIVERED"}
  BY <1>3, <1>5 DEF RowSound, OnRoad, UnderWay, Grocery!Statuses
<1>9. PICK stage : stage = Grocery!AfterWrite(r)
  OBVIOUS
<1>10. /\ groceryRow' = [groceryRow EXCEPT ![r.o] = row] /\ pool' = pool /\ Grocery!Go(w, stage)
  BY <1>6, <1>9 DEF Grocery!WriteStatus
<1>11. /\ stage = "release" => r.to = "DELIVERED" /\ before.partner # None
       /\ stage = "find" => r.to = "READY"
       /\ stage = "refund" => r.to = "CANCELLED"
       /\ r.to = "DELIVERED" /\ before.partner # None => stage = "release"
       /\ stage \in {"release", "find", "refund", "loyalty", "end"}
  BY <1>4, <1>5, <1>8, <1>9 DEF Grocery!AfterWrite, Grocery!AfterRefund
<1>12. stage \in GroceryStages
  BY <1>11 DEF GroceryStages
<1>13. PICK job \in GroceryJobs :
         /\ groceryReq' = [groceryReq EXCEPT ![w] = job] /\ job.at = stage
         /\ job.o = r.o /\ job.seen = r.seen
  BY <1>1, <1>2, <1>10, <1>12, GroceryGoes
<1> HIDE DEF r, before
<1>14. RowSound(row)
  BY <1>7, <1>8 DEF RowSound, OnRoad
<1>15. Informed(row, job)
  <2>1. CASE stage = "release"
    <3>1. ~UnderWay(row) /\ job.seen.partner \in Partners
      BY <1>4, <1>7, <1>8, <1>11, <1>13, <2>1 DEF UnderWay
    <3> QED BY <1>13, <2>1, <3>1 DEF Informed, Refunding
  <2>2. CASE stage = "find"
    <3>1. row.partner = None /\ row.status \in OnRoad
      BY <1>7, <1>8, <1>11, <2>2 DEF OnRoad
    <3> QED BY <1>13, <2>2, <3>1 DEF Informed, Refunding
  <2>3. CASE stage = "refund"
    <3>1. job.seen.partner = None
      BY <1>4, <1>8, <1>11, <1>13, <2>3
    <3> QED BY <1>13, <2>3, <3>1 DEF Informed, Refunding
  <2>4. CASE stage \in {"loyalty", "end"}
    BY <1>13, <2>4, CarelessInformed DEF Careless
  <2> QED BY <1>11, <2>1, <2>2, <2>3, <2>4
<1>16. Rider(before, r) = before.partner
  <2>1. before.partner # None => UnderWay(before)
    BY <1>8
  <2> QED BY <1>2, <2>1 DEF Rider, r
<1>17. Rider(row, job) = before.partner
  <2>1. CASE stage = "release"
    BY <1>4, <1>13, <2>1 DEF Rider
  <2>2. CASE stage # "release"
    <3>1. job.at \notin {"attach", "release", "clear"}
      BY <1>11, <1>13, <2>2
    <3>2. before.partner # None => UnderWay(row)
      BY <1>7, <1>8, <1>11, <2>2 DEF UnderWay
    <3> QED BY <1>7, <3>1, <3>2 DEF Rider
  <2> QED BY <2>1, <2>2
<1>18. Deals(Rider(before, r), Rider(row, job))
  BY <1>1, <1>10, <1>16, <1>17, PoolRests, Zenon DEF Deals
<1> QED BY <1>1, <1>2, <1>7, <1>10, <1>13, <1>14, <1>15, <1>18, GroceryMoves DEF r, before

LEMMA GroceryReleaseRider ==
  ASSUME RidersInv, NEW w \in GroceryWorkers, Grocery!ReleaseRider(w)
  PROVE  GroceryTurn(w)
<1>1. GroceryOrderly /\ PoolSound
  BY DEF RidersInv
<1>2. groceryReq[w].at = "release" /\ groceryReq[w].at # "idle"
  BY DEF Grocery!ReleaseRider, Grocery!At
<1>3. /\ groceryReq[w].o \in GroceryOrder /\ groceryRow[groceryReq[w].o] \in Grocery!Rows
      /\ RowSound(groceryRow[groceryReq[w].o])
      /\ ~UnderWay(groceryRow[groceryReq[w].o]) /\ groceryReq[w].seen.partner \in Partners
  BY <1>1, <1>2, GroceryAtWork DEF Informed
<1>4. PICK stage \in {"loyalty", "end"} : Grocery!Go(w, stage)
  BY DEF Grocery!ReleaseRider
<1>5. stage \in GroceryStages
  BY DEF GroceryStages
<1>6. PICK job \in GroceryJobs :
        /\ groceryReq' = [groceryReq EXCEPT ![w] = job] /\ job.at = stage
        /\ job.o = groceryReq[w].o
  BY <1>1, <1>2, <1>4, <1>5, GroceryGoes
<1>7. groceryRow' = [groceryRow EXCEPT ![groceryReq[w].o] = groceryRow[groceryReq[w].o]]
  BY <1>1 DEF Grocery!ReleaseRider, GroceryOrderly, GroceryTyped
<1>8. pool' = Released(groceryReq[w].seen.partner)
  BY SamePool DEF Grocery!ReleaseRider
<1>9. Informed(groceryRow[groceryReq[w].o], job)
  BY <1>6, CarelessInformed DEF Careless
<1>10. /\ Rider(groceryRow[groceryReq[w].o], groceryReq[w]) = groceryReq[w].seen.partner
       /\ Rider(groceryRow[groceryReq[w].o], job) = None
  BY <1>2, <1>3, <1>6 DEF Rider
<1>11. Deals(Rider(groceryRow[groceryReq[w].o], groceryReq[w]),
             Rider(groceryRow[groceryReq[w].o], job))
  BY <1>3, <1>8, <1>10 DEF Deals
<1> QED BY <1>1, <1>2, <1>3, <1>6, <1>7, <1>9, <1>11, GroceryMoves

LEMMA GroceryClaimRider ==
  ASSUME RidersInv, NEW w \in GroceryWorkers, NEW p \in Partners, Grocery!ClaimRider(w, p)
  PROVE  GroceryTurn(w)
<1>1. GroceryOrderly /\ PoolSound
  BY DEF RidersInv
<1>2. groceryReq[w].at = "claim" /\ groceryReq[w].at # "idle"
  BY DEF Grocery!ClaimRider, Grocery!At
<1>3. /\ groceryReq[w] \in GroceryJobs /\ groceryReq[w].o \in GroceryOrder
      /\ groceryRow[groceryReq[w].o] \in Grocery!Rows /\ RowSound(groceryRow[groceryReq[w].o])
      /\ Informed(groceryRow[groceryReq[w].o], groceryReq[w])
  BY <1>1, <1>2, GroceryAtWork
<1>4. groceryRow[groceryReq[w].o].partner = None /\ groceryRow[groceryReq[w].o].status \in OnRoad
  BY <1>2, <1>3 DEF Informed
<1>5. groceryRow' = groceryRow
  BY DEF Grocery!ClaimRider
<1>6. groceryRow' = [groceryRow EXCEPT ![groceryReq[w].o] = groceryRow[groceryReq[w].o]]
  BY <1>1, <1>5, Zenon DEF GroceryOrderly, GroceryTyped
<1>7. CASE Grocery!ClaimWins(p)
  <2>1. PICK job : job = [groceryReq[w] EXCEPT !.partner = p, !.at = "attach"]
    OBVIOUS
  <2>2. groceryReq' = [groceryReq EXCEPT ![w] = job] /\ pool' = Claimed(p)
    BY <1>7, <2>1, SamePool DEF Grocery!ClaimRider, Grocery!Become
  <2>3. /\ job \in GroceryJobs /\ job.at = "attach" /\ job.o = groceryReq[w].o
        /\ job.partner = p
    BY <1>3, <2>1 DEF GroceryJobs, GroceryStages
  <2>4. Informed(groceryRow[groceryReq[w].o], job)
    BY <1>4, <2>3 DEF Informed, Refunding
  <2>5. /\ Rider(groceryRow[groceryReq[w].o], groceryReq[w]) = None
        /\ Rider(groceryRow[groceryReq[w].o], job) = p
    BY <1>2, <1>4, <2>3 DEF Rider
  <2>6. pool[p].isAvailable
    BY <1>7, SamePool DEF ClaimWins
  <2>7. Deals(Rider(groceryRow[groceryReq[w].o], groceryReq[w]),
              Rider(groceryRow[groceryReq[w].o], job))
    BY <2>2, <2>5, <2>6 DEF Deals
  <2> QED BY <1>1, <1>2, <1>3, <1>6, <2>2, <2>3, <2>4, <2>7, GroceryMoves
<1>8. CASE ~Grocery!ClaimWins(p)
  <2>1. PICK rest : rest = groceryReq[w].ranked \ {p}
    OBVIOUS
  <2>2. PICK stage \in {"end", "claim"} :
          Grocery!Become(w, [groceryReq[w] EXCEPT !.ranked = rest, !.at = stage])
    <3>1. CASE groceryReq[w].ranked = {p}
      BY <1>8, <2>1, <3>1 DEF Grocery!ClaimRider
    <3>2. CASE groceryReq[w].ranked # {p}
      BY <1>2, <1>8, <2>1, <3>2 DEF Grocery!ClaimRider
    <3> QED BY <3>1, <3>2
  <2>3. PICK job : job = [groceryReq[w] EXCEPT !.ranked = rest, !.at = stage]
    OBVIOUS
  <2>4. groceryReq' = [groceryReq EXCEPT ![w] = job] /\ pool' = pool
    BY <1>8, <2>2, <2>3 DEF Grocery!ClaimRider, Grocery!Become
  <2>5. rest \in SUBSET Partners
    BY <1>3, <2>1 DEF GroceryJobs
  <2>6. job \in GroceryJobs /\ job.at \in {"end", "claim"} /\ job.o = groceryReq[w].o
    BY <1>3, <2>2, <2>3, <2>5 DEF GroceryJobs, GroceryStages
  <2>7. Informed(groceryRow[groceryReq[w].o], job)
    BY <1>4, <2>6 DEF Informed, Refunding
  <2> QED BY <1>2, <1>5, <2>4, <2>6, <2>7, GroceryQuietRow DEF ByRow
<1> QED BY <1>7, <1>8

LEMMA GroceryAttach ==
  ASSUME RidersInv, NEW w \in GroceryWorkers, Grocery!Attach(w)
  PROVE  GroceryTurn(w)
<1>1. GroceryOrderly /\ PoolSound
  BY DEF RidersInv
<1>2. groceryReq[w].at = "attach" /\ groceryReq[w].at # "idle"
  BY DEF Grocery!Attach, Grocery!At
<1>3. /\ groceryReq[w].o \in GroceryOrder /\ groceryRow[groceryReq[w].o] \in Grocery!Rows
      /\ groceryReq[w].partner \in Partners /\ groceryRow[groceryReq[w].o].status \in OnRoad
  BY <1>1, <1>2, GroceryAtWork DEF Informed
<1>4. Grocery!Exists(groceryReq[w].partner)
  BY <1>1, <1>3, SamePool DEF PoolSound
<1>5. PICK row : row = [groceryRow[groceryReq[w].o] EXCEPT
                          !.partner = groceryReq[w].partner, !.acceptance = "PENDING"]
  OBVIOUS
<1>6. /\ row \in Grocery!Rows /\ row.status = groceryRow[groceryReq[w].o].status
      /\ row.partner = groceryReq[w].partner
  BY <1>3, <1>5 DEF Grocery!Rows
<1>7. groceryRow' = [groceryRow EXCEPT ![groceryReq[w].o] = row] /\ pool' = pool
  BY <1>1, <1>3, <1>4, <1>5 DEF Grocery!Attach, GroceryOrderly, GroceryTyped
<1>8. PICK job \in GroceryJobs :
        /\ groceryReq' = [groceryReq EXCEPT ![w] = job] /\ job.at = "end"
        /\ job.o = groceryReq[w].o
  <2>1. Grocery!Go(w, "end") /\ "end" \in GroceryStages
    BY DEF Grocery!Attach, GroceryStages
  <2> QED BY <1>1, <1>2, <2>1, GroceryGoes
<1>9. Informed(row, job) /\ RowSound(row)
  BY <1>3, <1>6, <1>8, CarelessInformed DEF Careless, RowSound
<1>10. /\ Rider(groceryRow[groceryReq[w].o], groceryReq[w]) = groceryReq[w].partner
       /\ Rider(row, job) = groceryReq[w].partner
  BY <1>2, <1>3, <1>6, <1>8 DEF Rider, UnderWay, OnRoad
<1>11. Deals(Rider(groceryRow[groceryReq[w].o], groceryReq[w]), Rider(row, job))
  BY <1>1, <1>7, <1>10, PoolRests, Zenon DEF Deals
<1> QED BY <1>1, <1>2, <1>6, <1>7, <1>8, <1>9, <1>11, GroceryMoves

LEMMA GroceryFreeRejecter ==
  ASSUME RidersInv, NEW w \in GroceryWorkers, Grocery!FreeRejecter(w)
  PROVE  GroceryTurn(w)
<1>1. GroceryOrderly /\ PoolSound
  BY DEF RidersInv
<1>2. groceryReq[w].at = "free" /\ groceryReq[w].at # "idle"
  BY DEF Grocery!FreeRejecter, Grocery!At
<1>3. /\ groceryReq[w].o \in GroceryOrder /\ groceryRow[groceryReq[w].o] \in Grocery!Rows
      /\ RowSound(groceryRow[groceryReq[w].o])
      /\ Informed(groceryRow[groceryReq[w].o], groceryReq[w])
  BY <1>1, <1>2, GroceryAtWork
<1>4. /\ groceryReq[w].partner \in Partners
      /\ groceryRow[groceryReq[w].o].partner = groceryReq[w].partner
      /\ groceryRow[groceryReq[w].o].status \in OnRoad
      /\ groceryReq[w].seen.partner = groceryReq[w].partner
      /\ groceryReq[w].excluded = groceryReq[w].partner
      /\ groceryReq[w].seen.status = groceryRow[groceryReq[w].o].status
  BY <1>2, <1>3 DEF Informed
<1>5. Grocery!Go(w, "clear") /\ "clear" \in GroceryStages
  BY DEF Grocery!FreeRejecter, GroceryStages
<1>6. PICK job \in GroceryJobs :
        /\ groceryReq' = [groceryReq EXCEPT ![w] = job] /\ job.at = "clear"
        /\ job.o = groceryReq[w].o /\ job.seen = groceryReq[w].seen
        /\ job.partner = groceryReq[w].partner /\ job.excluded = groceryReq[w].excluded
  BY <1>1, <1>2, <1>5, GroceryGoes
<1>7. groceryRow' = [groceryRow EXCEPT ![groceryReq[w].o] = groceryRow[groceryReq[w].o]]
  BY <1>1 DEF Grocery!FreeRejecter, GroceryOrderly, GroceryTyped
<1>8. pool' = Released(groceryReq[w].partner)
  BY SamePool DEF Grocery!FreeRejecter
<1>9. Informed(groceryRow[groceryReq[w].o], job)
  BY <1>4, <1>6 DEF Informed, Refunding
<1>10. /\ Rider(groceryRow[groceryReq[w].o], groceryReq[w]) = groceryReq[w].partner
       /\ Rider(groceryRow[groceryReq[w].o], job) = None
  BY <1>2, <1>4, <1>6 DEF Rider, UnderWay, OnRoad
<1>11. Deals(Rider(groceryRow[groceryReq[w].o], groceryReq[w]),
             Rider(groceryRow[groceryReq[w].o], job))
  BY <1>4, <1>8, <1>10 DEF Deals
<1> QED BY <1>1, <1>2, <1>3, <1>6, <1>7, <1>9, <1>11, GroceryMoves

LEMMA GroceryClearAssignment ==
  ASSUME RidersInv, NEW w \in GroceryWorkers, Grocery!ClearAssignment(w)
  PROVE  GroceryTurn(w)
<1>1. GroceryOrderly /\ PoolSound
  BY DEF RidersInv
<1>2. groceryReq[w].at = "clear" /\ groceryReq[w].at # "idle"
  BY DEF Grocery!ClearAssignment, Grocery!At
<1>3. /\ groceryReq[w].o \in GroceryOrder /\ groceryRow[groceryReq[w].o] \in Grocery!Rows
      /\ groceryRow[groceryReq[w].o].status \in OnRoad
      /\ groceryReq[w].seen.status = groceryRow[groceryReq[w].o].status
  BY <1>1, <1>2, GroceryAtWork DEF Informed
<1>4. PICK row : row = [groceryRow[groceryReq[w].o] EXCEPT !.partner = None, !.acceptance = "NONE"]
  OBVIOUS
<1>5. /\ row \in Grocery!Rows /\ row.status = groceryRow[groceryReq[w].o].status
      /\ row.partner = None
  BY <1>3, <1>4 DEF Grocery!Rows
<1>6. /\ groceryRow' = [groceryRow EXCEPT ![groceryReq[w].o] = row] /\ pool' = pool
      /\ Grocery!Go(w, "find") /\ "find" \in GroceryStages
  BY <1>1, <1>3, <1>4 DEF Grocery!ClearAssignment, OnRoad, GroceryStages, GroceryOrderly,
                               GroceryTyped
<1>7. PICK job \in GroceryJobs :
        /\ groceryReq' = [groceryReq EXCEPT ![w] = job] /\ job.at = "find"
        /\ job.o = groceryReq[w].o
  BY <1>1, <1>2, <1>6, GroceryGoes
<1>8. Informed(row, job) /\ RowSound(row)
  BY <1>3, <1>5, <1>7 DEF Informed, Refunding, RowSound
<1>9. Rider(groceryRow[groceryReq[w].o], groceryReq[w]) = None /\ Rider(row, job) = None
  BY <1>2, <1>5, <1>7 DEF Rider
<1>10. Deals(Rider(groceryRow[groceryReq[w].o], groceryReq[w]), Rider(row, job))
  BY <1>1, <1>6, <1>9, PoolRests DEF Deals
<1> QED BY <1>1, <1>2, <1>5, <1>6, <1>7, <1>8, <1>10, GroceryMoves

LEMMA GroceryByHandNever ==
  ASSUME RidersInv, NEW w \in GroceryWorkers
  PROVE  ~Grocery!Unassign(w) /\ ~Grocery!Mark(w)
<1>1. GroceryOrderly
  BY DEF RidersInv
<1>2. ASSUME NEW stage \in {"unassign", "mark"}, Grocery!At(w, stage) PROVE FALSE
  <2>1. groceryReq[w].at = stage /\ groceryReq[w].at # "idle"
    BY <1>2 DEF Grocery!At
  <2>2. Informed(groceryRow[groceryReq[w].o], groceryReq[w])
    BY <1>1, <2>1, GroceryAtWork
  <2> QED BY <2>1, <2>2 DEF Informed
<1> QED BY <1>2 DEF Grocery!Unassign, Grocery!Mark

LEMMA GroceryStepTurns ==
  ASSUME RidersInv, NEW w \in GroceryWorkers, Grocery!Step(w)
  PROVE  GroceryTurn(w)
<1>1. CASE Grocery!Insert(w)
  BY <1>1, GroceryInsert
<1>2. CASE Grocery!Restock(w)
  BY <1>2, GroceryRestock
<1>3. CASE Grocery!Reread(w)
  BY <1>3, GroceryReread
<1>4. CASE Grocery!WriteStatus(w)
  BY <1>4, GroceryWriteStatus
<1>5. CASE Grocery!Respond(w)
  BY <1>5, GroceryRespond
<1>6. CASE Grocery!RefundOrder(w)
  BY <1>6, GroceryRefundOrder
<1>7. CASE Grocery!RefundCredit(w)
  BY <1>7, GroceryRefundCredit
<1>8. CASE Grocery!ReleaseRider(w)
  BY <1>8, GroceryReleaseRider
<1>9. CASE Grocery!AwardPoints(w)
  BY <1>9, GroceryAwardPoints
<1>10. CASE Grocery!FindRiders(w)
  BY <1>10, GroceryFindRiders
<1>11. CASE \E p \in Partners : Grocery!ClaimRider(w, p)
  BY <1>11, GroceryClaimRider
<1>12. CASE Grocery!Attach(w)
  BY <1>12, GroceryAttach
<1>13. CASE Grocery!Accept(w)
  BY <1>13, GroceryAccept
<1>14. CASE Grocery!FreeRejecter(w)
  BY <1>14, GroceryFreeRejecter
<1>15. CASE Grocery!ClearAssignment(w)
  BY <1>15, GroceryClearAssignment
<1> QED BY <1>1, <1>2, <1>3, <1>4, <1>5, <1>6, <1>7, <1>8, <1>9, <1>10, <1>11, <1>12, <1>13, <1>14,
           <1>15, GroceryByHandNever DEF Grocery!Step

LEMMA GroceryArriveTurns ==
  ASSUME RidersInv, ServicesDispatch, NEW w \in GroceryWorkers, Grocery!Arrive(w)
  PROVE  GroceryTurn(w)
<1> USE DEF ServicesDispatch
<1>1. PICK o \in GroceryOrder :
        \/ Grocery!Create(w, o) \/ Grocery!CancelRequest(w, o)
        \/ \E to \in Grocery!Statuses : Grocery!StatusRequest(w, o, to)
        \/ \E p \in Partners : \/ Grocery!AssignRequest(w, o, p)
                               \/ \E b \in BOOLEAN : Grocery!AnswerRequest(w, o, p, b)
  BY DEF Grocery!Arrive
<1>2. \A p \in Partners : ~Grocery!AssignRequest(w, o, p)
  BY DEF Grocery!AssignRequest
<1> QED BY <1>1, <1>2, GroceryCreate, GroceryCancelRequest, GroceryStatusRequest,
           GroceryAnswerRequest

LEMMA GroceryTurnKeeps ==
  ASSUME RidersInv, NEW w \in GroceryWorkers, GroceryTurn(w), UNCHANGED foodVars
  PROVE  RidersInv'
<1>1. PICK o \in GroceryOrder, row \in Grocery!Rows, job \in GroceryJobs \cup {AtRest} :
        Turns(groceryRow, groceryReq, groceryRow', groceryReq', GroceryOrder, GroceryWorkers,
              w, o, row, job)
  BY DEF GroceryTurn
<1>2. /\ Over(groceryRow, GroceryOrder) /\ Over(groceryReq, GroceryWorkers)
      /\ Orderly(groceryRow, groceryReq, GroceryOrder, GroceryWorkers)
      /\ PoolSound /\ HeldOnce /\ GroceryTyped /\ FoodOrderly
  BY DEF RidersInv, GroceryOrderly, GroceryTyped, Over
<1>3. GroceryOrderly'
  <2>1. GroceryTyped'
    BY <1>1, <1>2 DEF GroceryTyped, Turns
  <2>2. Orderly(groceryRow', groceryReq', GroceryOrder, GroceryWorkers)
    BY <1>1, <1>2, TurnOrderly
  <2> QED BY <2>1, <2>2 DEF GroceryOrderly, Orderly
<1>4. FoodOrderly'
  BY <1>2 DEF foodVars, FoodOrderly, FoodTyped, Orderly
<1> DEFINE a == Rider(groceryRow[o], groceryReq[w])
           b == Rider(row, job)
<1>5. ASSUME NEW p \in Partners
      PROVE  /\ GroceryHolds(o, p) <=> a = p
             /\ GroceryHolds(o, p)' <=> b = p
             /\ \A q \in GroceryOrder : q # o => (GroceryHolds(q, p)' <=> GroceryHolds(q, p))
             /\ \A q \in FoodOrder : FoodHolds(q, p)' <=> FoodHolds(q, p)
  <2>1. /\ HoldsRider(groceryRow, groceryReq, GroceryWorkers, o, p) <=> a = p
        /\ HoldsRider(groceryRow', groceryReq', GroceryWorkers, o, p) <=> b = p
        /\ \A q \in GroceryOrder :
             q # o => (HoldsRider(groceryRow', groceryReq', GroceryWorkers, q, p) <=>
                       HoldsRider(groceryRow, groceryReq, GroceryWorkers, q, p))
    <3>1. Changes(groceryRow, groceryReq, groceryRow', groceryReq', GroceryOrder, GroceryWorkers,
                  w, o, row, job)
      BY <1>1, <1>2, TurnChanges
    <3> QED BY <3>1 DEF Changes
  <2>2. \A q \in FoodOrder : FoodHolds(q, p)' <=> FoodHolds(q, p)
    BY DEF FoodHolds, HoldsRider, foodVars
  <2> QED BY <2>1, <2>2 DEF GroceryHolds, HoldsRider
<1>6. Deals(a, b)
  BY <1>1 DEF Turns
<1>7. a \in Partners \cup {None} /\ b \in Partners \cup {None}
  <2>1. groceryReq[w].at # "idle" => Informed(groceryRow[o], groceryReq[w])
    BY <1>1, <1>2 DEF Turns, Orderly
  <2>2. RowSound(groceryRow[o])
    BY <1>2 DEF Orderly
  <2>3. a \in Partners \cup {None}
    BY <2>1, <2>2 DEF Rider, Informed, RowSound
  <2>4. Informed(row, job) /\ RowSound(row)
    BY <1>1 DEF Turns
  <2>5. b \in Partners \cup {None}
    BY <2>4 DEF Rider, Informed, RowSound
  <2> QED BY <2>3, <2>5
<1> HIDE DEF a, b
<1>8. ASSUME NEW p \in Partners
      PROVE  /\ <<"grocery", o>> \in Holders(p) <=> a = p
             /\ <<"grocery", o>> \in Holders(p)' <=> b = p
             /\ \A y : y # <<"grocery", o>> => (y \in Holders(p)' <=> y \in Holders(p))
  BY <1>5 DEF Holders
<1>9. PoolSound' /\ HeldOnce'
  <2>1. PICK x : x = <<"grocery", o>>
    OBVIOUS
  <2>2. /\ \A p \in Partners : x \in Holders(p) <=> a = p
        /\ \A p \in Partners : x \in Holders(p)' <=> b = p
        /\ \A p \in Partners : \A y : y # x => (y \in Holders(p)' <=> y \in Holders(p))
    BY <1>8, <2>1
  <2> QED BY <1>2, <1>6, <1>7, <2>2, DealKeeps
<1> QED BY <1>3, <1>4, <1>9 DEF RidersInv

LEMMA GroceryNextKeeps ==
  ASSUME RidersInv, ServicesDispatch, Grocery!Next, UNCHANGED foodVars,
         \A w \in GroceryWorkers : ~Grocery!Crash(w)
  PROVE  RidersInv'
BY GroceryArriveTurns, GroceryStepTurns, GroceryTurnKeeps DEF Grocery!Next

(***************************************************************************)
(* Both services.                                                          *)
(***************************************************************************)

(* No request has died.                                                      *)
NoneDied == crashes = 0 /\ dead = {}

LEMMA FoodCrashesTold ==
  ASSUME Food!Next, \A w \in FoodWorkers : ~Food!Crash(w)
  PROVE  crashes' = crashes
<1>1. ASSUME NEW w \in FoodWorkers, Food!Arrive(w) PROVE crashes' = crashes
  BY <1>1, Zenon DEF Food!Arrive, Food!Create, Food!Pay, Food!CancelRequest, Food!StatusRequest,
       Food!RiderStatusRequest, Food!AssignRequest, Food!AcceptRequest, Food!RejectRequest
<1>2. ASSUME NEW w \in FoodWorkers, Food!Step(w) PROVE crashes' = crashes
  BY <1>2, Zenon
    DEF Food!Step, Food!Insert, Food!CreatePayment, Food!GatewayFails, Food!MarkOrderPaid,
       Food!PayOrder, Food!Reread, Food!WriteStatus, Food!RefundPayment, Food!RefundOrder,
       Food!RefundCredit, Food!ReleaseRider, Food!AwardPoints, Food!FindRiders, Food!ClaimRider,
       Food!Attach, Food!Vet, Food!Unassign, Food!Mark, Food!Accept, Food!FreeRejecter,
       Food!ClearAssignment
<1>3. ASSUME NEW o \in FoodOrder, Food!PayFailed(o) PROVE crashes' = crashes
  BY <1>3 DEF Food!PayFailed
<1>4. ASSUME NEW p \in Partners, \/ Food!RiderToggles(p) \/ Food!AdminSuspends(p)
                                 \/ Food!AdminRemoves(p)
      PROVE  crashes' = crashes
  BY <1>4 DEF Food!RiderToggles, Food!AdminSuspends, Food!AdminRemoves, Food!Unmoved
<1> QED BY <1>1, <1>2, <1>3, <1>4 DEF Food!Next

LEMMA GroceryDeathsTold ==
  ASSUME Grocery!Next, \A w \in GroceryWorkers : ~Grocery!Crash(w)
  PROVE  dead' = dead
<1>1. ASSUME NEW w \in GroceryWorkers, Grocery!Arrive(w) PROVE dead' = dead
  BY <1>1, Zenon DEF Grocery!Arrive, Grocery!Create, Grocery!CancelRequest, Grocery!StatusRequest,
       Grocery!AssignRequest, Grocery!AnswerRequest
<1>2. ASSUME NEW w \in GroceryWorkers, Grocery!Step(w) PROVE dead' = dead
  BY <1>2, Zenon
    DEF Grocery!Step, Grocery!Insert, Grocery!Restock, Grocery!Reread, Grocery!WriteStatus,
       Grocery!Respond, Grocery!RefundOrder, Grocery!RefundCredit, Grocery!ReleaseRider,
       Grocery!AwardPoints, Grocery!FindRiders, Grocery!ClaimRider, Grocery!Attach,
       Grocery!Unassign, Grocery!Mark, Grocery!Accept, Grocery!FreeRejecter,
       Grocery!ClearAssignment
<1> QED BY <1>1, <1>2 DEF Grocery!Next

SharedInv == crashes \in Nat /\ (NoneDied => RidersInv)

LEMMA InitSharedInv ==
  ASSUME Init PROVE SharedInv
<1>1. /\ pool = [p \in Partners |->
                   [status |-> "APPROVED", isOnline |-> TRUE, isAvailable |-> TRUE]]
      /\ foodRow = [o \in FoodOrder |-> Food!Unplaced]
      /\ groceryRow = [o \in GroceryOrder |-> Grocery!Unplaced]
      /\ foodReq = [w \in FoodWorkers |-> AtRest] /\ crashes = 0
      /\ groceryReq = [w \in GroceryWorkers |-> AtRest]
  BY DEF Init, Food!Init, Grocery!Init, Food!PoolInit, Food!Idle, Grocery!NoRequests,
         Grocery!Idle, AtRest
<1>2. PoolSound
  BY <1>1 DEF PoolSound, PoolTypeOK, PartnerRows, Exists
<1>3. FoodOrderly
  <2>1. Food!Unplaced \in Food!OrderRows /\ RowSound(Food!Unplaced)
    BY DEF Food!Unplaced, Food!OrderRows, Food!PaymentStatuses, RowSound
  <2>2. FoodTyped
    BY <1>1, <2>1 DEF FoodTyped
  <2> QED BY <1>1, <2>1, <2>2 DEF FoodOrderly, Orderly, AtRest
<1>4. GroceryOrderly
  <2>1. Grocery!Unplaced \in Grocery!Rows /\ RowSound(Grocery!Unplaced)
    BY DEF Grocery!Unplaced, Grocery!Rows, RowSound
  <2>2. GroceryTyped
    BY <1>1, <2>1 DEF GroceryTyped
  <2> QED BY <1>1, <2>1, <2>2 DEF GroceryOrderly, Orderly, AtRest
<1>5. HeldOnce
  <2>1. ASSUME NEW p \in Partners PROVE Holders(p) = {}
    <3>1. \A o \in FoodOrder : ~FoodHolds(o, p)
      BY <1>1, NoneIsNoPartner DEF FoodHolds, HoldsRider, OnOrder, Rider, UnderWay, AtRest,
           Food!Unplaced
    <3>2. \A o \in GroceryOrder : ~GroceryHolds(o, p)
      BY <1>1, NoneIsNoPartner DEF GroceryHolds, HoldsRider, OnOrder, Rider, UnderWay, AtRest,
           Grocery!Unplaced
    <3> QED BY <3>1, <3>2 DEF Holders
  <2> QED BY <1>1, <2>1, Zenon DEF HeldOnce
<1> QED BY <1>1, <1>2, <1>3, <1>4, <1>5 DEF SharedInv, RidersInv

LEMMA NextSharedInv ==
  ASSUME SharedInv, ServicesDispatch, Next
  PROVE  SharedInv'
<1>1. CASE (\E w \in FoodWorkers : Food!Crash(w)) /\ UNCHANGED groceryVars
  <2>1. crashes' = crashes + 1
    BY <1>1 DEF Food!Crash
  <2> QED BY <2>1 DEF SharedInv, NoneDied
<1>2. CASE /\ Food!Next /\ UNCHANGED groceryVars
           /\ \A w \in FoodWorkers : ~Food!Crash(w)
  <2>1. crashes' = crashes /\ dead' = dead
    BY <1>2, FoodCrashesTold DEF groceryVars
  <2> QED BY <1>2, <2>1, FoodNextKeeps DEF SharedInv, NoneDied
<1>3. CASE (\E w \in GroceryWorkers : Grocery!Crash(w)) /\ UNCHANGED foodVars
  <2>1. dead' # {} /\ crashes' = crashes
    BY <1>3 DEF Grocery!Crash, foodVars
  <2> QED BY <2>1 DEF SharedInv, NoneDied
<1>4. CASE /\ Grocery!Next /\ UNCHANGED foodVars
           /\ \A w \in GroceryWorkers : ~Grocery!Crash(w)
  <2>1. crashes' = crashes /\ dead' = dead
    BY <1>4, GroceryDeathsTold DEF foodVars
  <2> QED BY <1>4, <2>1, GroceryNextKeeps DEF SharedInv, NoneDied
<1> QED BY <1>1, <1>2, <1>3, <1>4 DEF Next

LEMMA StutterSharedInv ==
  ASSUME SharedInv, UNCHANGED <<pool, foodVars, groceryVars>>
  PROVE  SharedInv'
<1>1. CASE NoneDied
  <2>1. RidersInv /\ SameFlags
    BY <1>1, PoolRests DEF SharedInv, RidersInv
  <2>2. RidersInv'
    BY <2>1, FlagsStill DEF foodVars, groceryVars
  <2> QED BY <2>2 DEF SharedInv, foodVars
<1>2. CASE ~NoneDied
  BY <1>2 DEF SharedInv, NoneDied, foodVars, groceryVars
<1> QED BY <1>1, <1>2

(***************************************************************************)
(* What the invariant says of the riders.                                  *)
(***************************************************************************)

LEMMA FoodOnOrderHolds ==
  ASSUME RidersInv, NEW p \in Partners, NEW o \in Food!OnOrders(p)
  PROVE  o \in FoodOrder /\ FoodHolds(o, p) /\ foodRow[o].partner = p
<1>1. /\ o \in FoodOrder /\ foodRow[o].partner = p /\ UnderWay(foodRow[o])
      /\ ~Food!TakenOff(o, p)
  BY DEF Food!OnOrders, Food!Live, Food!Placed, Food!Finished, UnderWay
<1>2. CASE \E w \in FoodWorkers : OnOrder(foodReq[w], o)
  <2>1. PICK w \in FoodWorkers : OnOrder(foodReq[w], o)
    BY <1>2
  <2>2. Informed(foodRow[o], foodReq[w])
    BY <2>1 DEF RidersInv, FoodOrderly, Orderly, OnOrder
  <2>3. foodReq[w].at # "clear"
    <3> SUFFICES ASSUME foodReq[w].at = "clear" PROVE FALSE
      OBVIOUS
    <3>1. foodReq[w] # Food!Idle
      BY DEF Food!Idle
    <3> QED BY <1>1, <2>1, <2>2, <3>1 DEF Informed, Food!TakenOff, Food!At, OnOrder
  <2>4. foodReq[w].at # "attach" /\ foodReq[w].at # "release"
    BY <1>1, <2>2, NoneIsNoPartner DEF Informed
  <2>5. Rider(foodRow[o], foodReq[w]) = p
    BY <1>1, <2>3, <2>4 DEF Rider
  <2> QED BY <1>1, <2>1, <2>5 DEF FoodHolds, HoldsRider
<1>3. CASE \A w \in FoodWorkers : ~OnOrder(foodReq[w], o)
  <2>1. Rider(foodRow[o], AtRest) = p
    BY <1>1 DEF Rider, AtRest
  <2> QED BY <1>1, <1>3, <2>1 DEF FoodHolds, HoldsRider
<1> QED BY <1>2, <1>3

LEMMA FoodOnClaimHolds ==
  ASSUME RidersInv, NEW p \in Partners, NEW w \in Food!OnClaims(p)
  PROVE  /\ w \in FoodWorkers /\ foodReq[w].at = "attach" /\ foodReq[w].o \in FoodOrder
         /\ FoodHolds(foodReq[w].o, p) /\ foodRow[foodReq[w].o].partner = None
<1>1. FoodOrderly /\ w \in FoodWorkers /\ Food!At(w, "attach") /\ foodReq[w].partner = p
  BY DEF RidersInv, Food!OnClaims
<1>2. foodReq[w].at = "attach" /\ foodReq[w].at # "idle"
  BY <1>1, FoodAt
<1>3. foodReq[w].o \in FoodOrder /\ foodRow[foodReq[w].o].partner = None
  BY <1>1, <1>2, FoodAtWork DEF Informed
<1>4. Rider(foodRow[foodReq[w].o], foodReq[w]) = p
  BY <1>1, <1>2 DEF Rider
<1> QED BY <1>1, <1>2, <1>3, <1>4 DEF FoodHolds, HoldsRider, OnOrder

LEMMA GroceryOnOrderHolds ==
  ASSUME RidersInv, NEW p \in Partners, NEW o \in Grocery!OnOrders(p)
  PROVE  o \in GroceryOrder /\ GroceryHolds(o, p) /\ groceryRow[o].partner = p
<1>1. /\ o \in GroceryOrder /\ groceryRow[o].partner = p /\ UnderWay(groceryRow[o])
      /\ ~Grocery!TakenOff(o, p)
  BY DEF Grocery!OnOrders, Grocery!Live, Grocery!Placed, Grocery!Finished, UnderWay
<1>2. CASE \E w \in GroceryWorkers : OnOrder(groceryReq[w], o)
  <2>1. PICK w \in GroceryWorkers : OnOrder(groceryReq[w], o)
    BY <1>2
  <2>2. Informed(groceryRow[o], groceryReq[w])
    BY <2>1 DEF RidersInv, GroceryOrderly, Orderly, OnOrder
  <2>3. groceryReq[w].at # "clear"
    BY <1>1, <2>1, <2>2 DEF Informed, Grocery!TakenOff, Grocery!At, OnOrder
  <2>4. groceryReq[w].at # "attach" /\ groceryReq[w].at # "release"
    BY <1>1, <2>2, NoneIsNoPartner DEF Informed
  <2>5. Rider(groceryRow[o], groceryReq[w]) = p
    BY <1>1, <2>3, <2>4 DEF Rider
  <2> QED BY <1>1, <2>1, <2>5 DEF GroceryHolds, HoldsRider
<1>3. CASE \A w \in GroceryWorkers : ~OnOrder(groceryReq[w], o)
  <2>1. Rider(groceryRow[o], AtRest) = p
    BY <1>1 DEF Rider, AtRest
  <2> QED BY <1>1, <1>3, <2>1 DEF GroceryHolds, HoldsRider
<1> QED BY <1>2, <1>3

LEMMA GroceryOnClaimHolds ==
  ASSUME RidersInv, NEW p \in Partners, NEW w \in Grocery!OnClaims(p)
  PROVE  /\ w \in GroceryWorkers /\ groceryReq[w].at = "attach"
         /\ groceryReq[w].o \in GroceryOrder
         /\ GroceryHolds(groceryReq[w].o, p) /\ groceryRow[groceryReq[w].o].partner = None
<1>1. /\ GroceryOrderly /\ w \in GroceryWorkers
      /\ groceryReq[w].at = "attach" /\ groceryReq[w].partner = p
  BY DEF RidersInv, Grocery!OnClaims, Grocery!At
<1>2. groceryReq[w].o \in GroceryOrder /\ groceryRow[groceryReq[w].o].partner = None
  BY <1>1, GroceryAtWork DEF Informed
<1>3. Rider(groceryRow[groceryReq[w].o], groceryReq[w]) = p
  BY <1>1 DEF Rider
<1> QED BY <1>1, <1>2, <1>3 DEF GroceryHolds, HoldsRider, OnOrder

(* Of the four sets only one has an element, and it has only one.            *)
Single(S) == \A x, y \in S : x = y
Alone(S, T) == S = {} \/ T = {}

LEMMA SinglesCount ==
  ASSUME NEW A, NEW B, NEW C, NEW D, Single(A), Single(B), Single(C), Single(D),
         Alone(A, B), Alone(A, C), Alone(A, D), Alone(B, C), Alone(B, D), Alone(C, D)
  PROVE  Cardinality(A) + Cardinality(B) + Cardinality(C) + Cardinality(D) <= 1
<1>1. ASSUME NEW S, Single(S)
      PROVE  Cardinality(S) \in {0, 1} /\ (S = {} => Cardinality(S) = 0)
  <2>1. CASE S = {}
    BY <2>1, FS_EmptySet
  <2>2. CASE S # {}
    <3>1. PICK x \in S : TRUE
      BY <2>2
    <3>2. S = {x}
      BY <1>1, <3>1 DEF Single
    <3> QED BY <2>2, <3>2, FS_Singleton
  <2> QED BY <2>1, <2>2
<1>2. /\ Cardinality(A) \in {0, 1} /\ (A = {} => Cardinality(A) = 0)
      /\ Cardinality(B) \in {0, 1} /\ (B = {} => Cardinality(B) = 0)
      /\ Cardinality(C) \in {0, 1} /\ (C = {} => Cardinality(C) = 0)
      /\ Cardinality(D) \in {0, 1} /\ (D = {} => Cardinality(D) = 0)
  BY <1>1
<1> QED BY <1>2 DEF Alone

LEMMA HeldMeansOne ==
  ASSUME RidersInv PROVE OneDelivery
<1> SUFFICES ASSUME NEW p \in Partners
             PROVE  Cardinality(Food!OnOrders(p)) + Cardinality(Food!OnClaims(p))
                      + Cardinality(Grocery!OnOrders(p)) + Cardinality(Grocery!OnClaims(p)) <= 1
  BY Zenon DEF OneDelivery
<1>1. \A q, r \in FoodOrder : FoodHolds(q, p) /\ FoodHolds(r, p) => q = r
  <2> TAKE q, r \in FoodOrder
  <2> HAVE FoodHolds(q, p) /\ FoodHolds(r, p)
  <2>1. <<"food", q>> \in Holders(p) /\ <<"food", r>> \in Holders(p)
    BY DEF Holders
  <2>2. <<"food", q>> = <<"food", r>>
    BY <2>1 DEF RidersInv, HeldOnce
  <2> QED BY <2>2
<1>2. \A q, r \in GroceryOrder : GroceryHolds(q, p) /\ GroceryHolds(r, p) => q = r
  <2> TAKE q, r \in GroceryOrder
  <2> HAVE GroceryHolds(q, p) /\ GroceryHolds(r, p)
  <2>1. <<"grocery", q>> \in Holders(p) /\ <<"grocery", r>> \in Holders(p)
    BY DEF Holders
  <2>2. <<"grocery", q>> = <<"grocery", r>>
    BY <2>1 DEF RidersInv, HeldOnce
  <2> QED BY <2>2
<1>3. \A q \in FoodOrder, r \in GroceryOrder : ~(FoodHolds(q, p) /\ GroceryHolds(r, p))
  <2> SUFFICES ASSUME NEW q \in FoodOrder, NEW r \in GroceryOrder,
                      FoodHolds(q, p), GroceryHolds(r, p)
               PROVE  FALSE
    OBVIOUS
  <2>1. <<"food", q>> \in Holders(p) /\ <<"grocery", r>> \in Holders(p)
    BY DEF Holders
  <2>2. <<"food", q>> = <<"grocery", r>>
    BY <2>1 DEF RidersInv, HeldOnce
  <2> QED BY <2>2
<1>4. Single(Food!OnOrders(p)) /\ Single(Grocery!OnOrders(p))
  BY <1>1, <1>2, FoodOnOrderHolds, GroceryOnOrderHolds DEF Single
<1>5. Single(Food!OnClaims(p))
  <2> SUFFICES ASSUME NEW v \in Food!OnClaims(p), NEW w \in Food!OnClaims(p) PROVE v = w
    BY DEF Single
  <2>1. /\ v \in FoodWorkers /\ foodReq[v].at # "idle" /\ w \in FoodWorkers
        /\ foodReq[w].at # "idle" /\ foodReq[v].o = foodReq[w].o
    BY <1>1, FoodOnClaimHolds
  <2> QED BY <2>1 DEF RidersInv, FoodOrderly, Orderly
<1>6. Single(Grocery!OnClaims(p))
  <2> SUFFICES ASSUME NEW v \in Grocery!OnClaims(p), NEW w \in Grocery!OnClaims(p) PROVE v = w
    BY DEF Single
  <2>1. /\ v \in GroceryWorkers /\ groceryReq[v].at # "idle" /\ w \in GroceryWorkers
        /\ groceryReq[w].at # "idle" /\ groceryReq[v].o = groceryReq[w].o
    BY <1>2, GroceryOnClaimHolds
  <2> QED BY <2>1 DEF RidersInv, GroceryOrderly, Orderly
<1>7. Alone(Food!OnOrders(p), Food!OnClaims(p))
  BY <1>1, FoodOnOrderHolds, FoodOnClaimHolds, NoneIsNoPartner DEF Alone
<1>8. Alone(Grocery!OnOrders(p), Grocery!OnClaims(p))
  BY <1>2, GroceryOnOrderHolds, GroceryOnClaimHolds, NoneIsNoPartner DEF Alone
<1>9. /\ Alone(Food!OnOrders(p), Grocery!OnOrders(p))
      /\ Alone(Food!OnOrders(p), Grocery!OnClaims(p))
      /\ Alone(Food!OnClaims(p), Grocery!OnOrders(p))
      /\ Alone(Food!OnClaims(p), Grocery!OnClaims(p))
  BY <1>3, FoodOnOrderHolds, FoodOnClaimHolds, GroceryOnOrderHolds, GroceryOnClaimHolds DEF Alone
<1> QED BY <1>4, <1>5, <1>6, <1>7, <1>8, <1>9, SinglesCount

LEMMA HeldMeansNotStuck ==
  ASSUME RidersInv PROVE NoneStuck
<1> SUFFICES ASSUME \A o \in FoodOrder : ~Food!Busy(o),
                    \A o \in GroceryOrder : Grocery!Resting(o),
                    NEW p \in Partners, ~pool[p].isAvailable
             PROVE  Food!OnOrders(p) \cup Grocery!OnOrders(p) # {}
  BY DEF NoneStuck
<1>1. Holders(p) # {}
  BY DEF RidersInv, HeldOnce
<1>2. \/ \E o \in FoodOrder : FoodHolds(o, p)
      \/ \E o \in GroceryOrder : GroceryHolds(o, p)
  BY <1>1 DEF Holders
<1>3. ASSUME NEW o \in FoodOrder, FoodHolds(o, p) PROVE o \in Food!OnOrders(p)
  <2>1. \A w \in FoodWorkers : ~OnOrder(foodReq[w], o)
    BY DEF Food!Busy, Food!Idle, OnOrder
  <2>2. Rider(foodRow[o], AtRest) = p
    BY <1>3, <2>1 DEF FoodHolds, HoldsRider
  <2>3. UnderWay(foodRow[o]) /\ foodRow[o].partner = p
    BY <2>2, NoneIsNoPartner DEF Rider, AtRest
  <2>4. ~Food!TakenOff(o, p)
    BY DEF Food!TakenOff, Food!Busy, Food!At
  <2> QED BY <2>3, <2>4 DEF Food!OnOrders, Food!Live, Food!Placed, Food!Finished, UnderWay
<1>4. ASSUME NEW o \in GroceryOrder, GroceryHolds(o, p) PROVE o \in Grocery!OnOrders(p)
  <2>1. \A w \in GroceryWorkers : ~OnOrder(groceryReq[w], o)
    BY DEF Grocery!Resting, Grocery!Busy, Grocery!Running, Grocery!At, OnOrder
  <2>2. Rider(groceryRow[o], AtRest) = p
    BY <1>4, <2>1 DEF GroceryHolds, HoldsRider
  <2>3. UnderWay(groceryRow[o]) /\ groceryRow[o].partner = p
    BY <2>2, NoneIsNoPartner DEF Rider, AtRest
  <2>4. ~Grocery!TakenOff(o, p)
    BY DEF Grocery!TakenOff, Grocery!Resting, Grocery!Busy, Grocery!Running, Grocery!At
  <2> QED BY <2>3, <2>4 DEF Grocery!OnOrders, Grocery!Live, Grocery!Placed, Grocery!Finished,
                            UnderWay
<1> QED BY <1>2, <1>3, <1>4

(***************************************************************************)
(* The theorems.                                                           *)
(***************************************************************************)

LEMMA SharedStays ==
  ASSUME ServicesDispatch PROVE FleetSpec => []SharedInv
<1>1. FleetInit => SharedInv
  BY InitSharedInv DEF FleetInit
<1>2. SharedInv /\ [FleetNext]_<<focus, pool, foodVars, groceryVars, rideVars>> => SharedInv'
  <2> SUFFICES ASSUME SharedInv, [FleetNext]_<<focus, pool, foodVars, groceryVars, rideVars>>
               PROVE  SharedInv'
    OBVIOUS
  <2>1. CASE Next
    BY <2>1, NextSharedInv
  <2>2. CASE UNCHANGED <<pool, foodVars, groceryVars>>
    BY <2>2, StutterSharedInv
  <2> QED BY <2>1, <2>2 DEF FleetNext
<1> QED BY <1>1, <1>2, PTL DEF FleetSpec

(* A rider is on one delivery at most, over both kinds of order and counting *)
(* the claims no order names yet, while the services dispatch and no request *)
(* has died: neither service knows the other's orders, and the conditional   *)
(* claim of tryAssign is enough, whatever is released, rejected, claimed and *)
(* delivered in between.                                                     *)
THEOREM OneDeliveryEach ==
  ASSUME ServicesDispatch PROVE FleetSpec => [](NoneDied => OneDelivery)
<1>1. SharedInv => (NoneDied => OneDelivery)
  BY HeldMeansOne DEF SharedInv
<1> QED BY <1>1, SharedStays, PTL

(* Under the same conditions a rider who cannot be claimed is on an order of *)
(* either kind as soon as no request is under way: applyStatusChange,        *)
(* tryAssign and respondToDeliveryAssignment of the two services never lose  *)
(* a rider between them.                                                     *)
THEOREM NobodyStuck ==
  ASSUME ServicesDispatch PROVE FleetSpec => [](NoneDied => NoneStuck)
<1>1. SharedInv => (NoneDied => NoneStuck)
  BY HeldMeansNotStuck DEF SharedInv
<1> QED BY <1>1, SharedStays, PTL
=============================================================================
