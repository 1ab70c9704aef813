--------------------------- MODULE PlacementProofs --------------------------
(* Placement for any customers, goods, prices, limits and number of          *)
(* overlapping requests, edits and crashes: nobody is charged for nothing    *)
(* but by a crash or a row that is gone, prices come of one version of the   *)
(* settings, and stock and coupons are overrun by no more than what requests *)
(* that overlap may take.                                                    *)
EXTENDS Placement, FiniteSetTheorems, TLAPS

(* What a request slot may hold.                                             *)
Stages == {"validate", "goods", "coupon", "usage", "price", "debit", "insert", "record"}
Discounts == {0} \cup {Discount(Subtotal(a)) : a \in Attempts}
Jobs == [at : Stages, a : Attempts, discount : Discounts, tax : Nat, fee : Nat]
Items == {Subtotal(a) - d : a \in Attempts, d \in Discounts}
Rows == [status : {"PENDING", "CANCELLED"}, coupon : BOOLEAN, items : Items, tax : Nat, fee : Nat]

CatalogueTyped ==
  /\ good \in [Goods -> [exists : BOOLEAN, isAvailable : BOOLEAN, stockQty : Int]]
  /\ site \in [{"phone", "address", "restaurant"} -> BOOLEAN]
  /\ coupon \in [exists : BOOLEAN, isActive : BOOLEAN, usedCount : Int, usageLimit : Limits]

RowsTyped ==
  /\ CatalogueTyped
  /\ order \in [Attempts -> Rows \cup {None}]
  /\ settings \in [tax : Nat, fee : Nat]
  /\ charged \subseteq Attempts
  /\ req \in [Workers -> Jobs \cup {Idle}]

(* A request that has read the settings has read one version of them.        *)
OneVersion ==
  /\ settings.tax = settings.fee
  /\ \A w \in Workers : Running(w) => req[w].tax = req[w].fee
  /\ \A a \in Attempts : Placed(a) => order[a].tax = order[a].fee

(* An attempt is one request, which charges after it has validated and is    *)
(* not charged for what it has not inserted, until then.                     *)
Early == {"validate", "goods", "coupon", "usage", "price", "debit"}
Alone == \A v, w \in Workers : Running(v) /\ Running(w) /\ req[v].a = req[w].a => v = w
InOrder == \A w \in Workers : Running(w) => /\ req[w].a \notin dead
                                            /\ req[w].at \in Early => req[w].a \notin charged
                                            /\ At(w, "record") => Placed(req[w].a)

IInv == RowsTyped /\ OneVersion /\ Alone /\ InOrder /\ NoChargeWithoutOrder

LEMMA InitIInv == Init => IInv
<1> SUFFICES ASSUME Init PROVE IInv
  OBVIOUS
<1>1. CatalogueTyped
  <2>1. good \in [Goods -> [exists : BOOLEAN, isAvailable : BOOLEAN, stockQty : Int]]
    BY NumbersAreNat DEF NumbersAreNat, Init
  <2>2. site \in [{"phone", "address", "restaurant"} -> BOOLEAN]
    BY DEF Init
  <2>3. coupon \in [exists : BOOLEAN, isActive : BOOLEAN, usedCount : Int, usageLimit : Limits]
    <3>1. PICK l \in Limits : coupon = [exists |-> TRUE, isActive |-> TRUE, usedCount |-> 0,
                                        usageLimit |-> l]
      BY DEF Init
    <3> QED BY <3>1
  <2> QED BY <2>1, <2>2, <2>3 DEF CatalogueTyped
<1>2. RowsTyped
  BY <1>1 DEF Init, NoRequests, RowsTyped
<1>3. \A w \in Workers : ~Running(w)
  BY DEF Init, NoRequests, Running, At, Idle
<1>4. \A a \in Attempts : ~Placed(a)
  BY DEF Init, Placed
<1> QED BY <1>2, <1>3, <1>4 DEF Init, IInv, OneVersion, Alone, InOrder, NoChargeWithoutOrder

(* The rows an order names never come back: what is broken stays broken.     *)
KeysGone(a) == ~KeysHold(a, a \in WithCoupon)
KeysGo == \A a \in Attempts : KeysGone(a) => KeysGone(a)'

(* A request that goes on with what it is doing.                             *)
LEMMA GoesOn ==
  ASSUME IInv, NEW w \in Workers, Running(w), NEW job \in Jobs, Become(w, job),
         job.a = req[w].a, job.tax = job.fee,
         job.at \in Early => req[w].at \in Early,
         job.at = "record" => At(w, "record"),
         UNCHANGED <<rows, order, charged, dead>>
  PROVE  IInv'
<1>1. req[w] \in Jobs /\ req'[w] = job /\ \A v \in Workers \ {w} : req'[v] = req[v]
  BY DEF IInv, RowsTyped, Become, Running, At, Idle
<1>2. RowsTyped'
  BY DEF IInv, RowsTyped, CatalogueTyped, Become, rows
<1>3. \A v \in Workers : Running(v)' <=> Running(v)
  BY <1>1 DEF Running, At, Jobs, Stages
<1>4. \A v \in Workers : req'[v].a = req[v].a
  BY <1>1
<1>5. OneVersion'
  BY <1>1, <1>3 DEF IInv, OneVersion, Placed, rows
<1>6. Alone'
  BY <1>3, <1>4 DEF IInv, Alone
<1>7. InOrder'
  BY <1>1, <1>3, <1>4 DEF IInv, InOrder, At, Placed
<1>8. NoChargeWithoutOrder'
  BY <1>3, <1>4 DEF IInv, NoChargeWithoutOrder, Placed, Underway, KeysHold, rows
<1> QED BY <1>2, <1>5, <1>6, <1>7, <1>8 DEF IInv

(* A request that ends with its attempt uncharged, placed, refused by a key  *)
(* or dead.                                                                  *)
LEMMA Ends ==
  ASSUME IInv, NEW w \in Workers, Running(w), End(w), UNCHANGED <<order, settings, charged>>,
         dead \subseteq dead', dead' \subseteq dead \cup {req[w].a}, CatalogueTyped', KeysGo,
         \/ req[w].a \notin charged \/ Placed(req[w].a) \/ req[w].a \in dead'
         \/ KeysGone(req[w].a)
  PROVE  IInv'
<1>1. req[w] \in Jobs /\ req'[w] = Idle /\ \A v \in Workers \ {w} : req'[v] = req[v]
  BY DEF IInv, RowsTyped, End, Become, Running, At, Idle
<1>2. RowsTyped'
  BY DEF IInv, RowsTyped, End, Become
<1>3. \A v \in Workers : Running(v)' => v # w /\ Running(v) /\ req'[v] = req[v]
  BY <1>1 DEF Running, At, Idle
<1>4. OneVersion' /\ Alone' /\ InOrder'
  BY <1>1, <1>3 DEF IInv, OneVersion, Alone, InOrder, At, Placed
<1>5. ASSUME NEW a \in charged
      PROVE  Placed(a)' \/ a \in dead' \/ Underway(a)' \/ KeysGone(a)'
  <2>1. Placed(a) \/ a \in dead \/ Underway(a) \/ KeysGone(a)
    BY DEF IInv, NoChargeWithoutOrder, KeysGone
  <2>2. /\ Placed(a) => Placed(a)'
        /\ KeysGone(a) => KeysGone(a)'
    BY DEF Placed, KeysGo, IInv, RowsTyped
  <2>3. CASE Underway(a)
    <3>1. PICK v \in Workers : Running(v) /\ req[v].a = a
      BY <2>3 DEF Underway
    <3>2. CASE v = w
      BY <2>2, <3>1, <3>2
    <3>3. CASE v # w
      <4>1. Running(v)' /\ req'[v].a = a
        BY <1>1, <3>1, <3>3 DEF Running, At
      <4> QED BY <4>1 DEF Underway
    <3> QED BY <3>2, <3>3
  <2> QED BY <2>1, <2>2, <2>3
<1>6. NoChargeWithoutOrder'
  BY <1>5 DEF NoChargeWithoutOrder, KeysGone
<1> QED BY <1>2, <1>4, <1>6 DEF IInv

(* What everybody else does to the rows.                                     *)
LEMMA EditStep ==
  ASSUME IInv, Edit, KeysGo, settings'.tax = settings'.fee,
         RowsTyped',
         \A a \in Attempts : /\ Placed(a) <=> Placed(a)'
                             /\ Placed(a) => /\ order'[a].tax = order[a].tax
                                             /\ order'[a].fee = order[a].fee
  PROVE  IInv'
<1>2. OneVersion'
  BY DEF IInv, OneVersion, Edit, Running, At
<1>3. Alone' 
  BY DEF IInv, Alone, Edit, Running, At
<1>4. InOrder'
  <2>1. \A w \in Workers : Running(w) => req[w].a \in Attempts
    BY DEF IInv, RowsTyped, Running, At, Jobs, Idle
  <2> QED BY <2>1 DEF IInv, InOrder, Edit, Running, At
<1>5. ASSUME NEW a \in charged
      PROVE  Placed(a)' \/ a \in dead' \/ Underway(a)' \/ KeysGone(a)'
  <2>1. Placed(a) \/ a \in dead \/ Underway(a) \/ KeysGone(a)
    BY DEF IInv, NoChargeWithoutOrder, KeysGone
  <2>2. a \in Attempts
    BY DEF IInv, RowsTyped
  <2>3. Underway(a) => Underway(a)'
    BY DEF Underway, Edit, Running, At
  <2> QED BY <2>1, <2>2, <2>3 DEF KeysGo, Edit
<1>6. NoChargeWithoutOrder'
  BY <1>5 DEF NoChargeWithoutOrder, KeysGone, Edit
<1> QED BY <1>2, <1>3, <1>4, <1>6 DEF IInv

(***************************************************************************)
(* The statements of a request.                                            *)
(***************************************************************************)

LEMMA AtJob ==
  ASSUME IInv, NEW w \in Workers, Running(w)
  PROVE  req[w] \in Jobs /\ req[w].a \in Attempts
BY DEF IInv, RowsTyped, Jobs, Running, At, Idle

(* A request that only moves on.                                             *)
LEMMA MovesOn ==
  ASSUME IInv, NEW w \in Workers, Running(w), NEW s \in Stages, Go(w, s),
         s \in Early => req[w].at \in Early,
         s = "record" => At(w, "record"),
         UNCHANGED <<rows, order, charged, dead>>
  PROVE  IInv'
<1> DEFINE job == [req[w] EXCEPT !.at = s]
<1>1. req[w] \in Jobs
  BY AtJob
<1>2. job \in Jobs /\ job.at = s /\ job.a = req[w].a /\ job.tax = req[w].tax /\ job.fee = req[w].fee
  BY <1>1 DEF Jobs
<1>3. Become(w, job)
  BY DEF Go
<1>4. job.tax = job.fee
  BY <1>2 DEF IInv, OneVersion
<1> HIDE DEF job
<1> QED BY <1>2, <1>3, <1>4, GoesOn

(* A request that is refused before it has charged anybody.                  *)
LEMMA Refused ==
  ASSUME IInv, NEW w \in Workers, Running(w), req[w].at \in Early, End(w),
         UNCHANGED <<rows, order, charged, dead>>
  PROVE  IInv'
<1>1. req[w].a \notin charged
  BY DEF IInv, InOrder
<1>2. CatalogueTyped' /\ KeysGo
  BY DEF IInv, RowsTyped, CatalogueTyped, KeysGo, KeysGone, KeysHold, rows
<1> QED BY <1>1, <1>2, Ends DEF rows

LEMMA CreateStep ==
  ASSUME IInv, NEW w \in Workers, NEW a \in Attempts, Create(w, a)
  PROVE  IInv'
<1> DEFINE job == [at |-> "validate", a |-> a, discount |-> 0, tax |-> 0, fee |-> 0]
<1>1. job \in Jobs /\ job.a = a /\ job.tax = job.fee /\ job.at = "validate"
  BY DEF Jobs, Stages, Discounts
<1>2. req' = [req EXCEPT ![w] = job] /\ ~Running(w)
  BY DEF Create, Start, Become, Running, At
<1> HIDE DEF job
<1>3. req'[w] = job /\ \A v \in Workers \ {w} : req'[v] = req[v]
  BY <1>2 DEF IInv, RowsTyped
<1>4. RowsTyped'
  BY <1>1, <1>2 DEF IInv, RowsTyped, CatalogueTyped, Create, rows
<1>5. a \notin charged /\ a \notin dead /\ \A v \in Workers : Running(v) => req[v].a # a
  BY DEF Create, Untried, Underway
<1>6. \A v \in Workers : Running(v)' => v = w \/ Running(v)
  BY <1>3 DEF Running, At
<1>7. OneVersion'
  BY <1>1, <1>3, <1>6 DEF IInv, OneVersion, Placed, Create, rows
<1>8. Alone'
  BY <1>1, <1>3, <1>5, <1>6 DEF IInv, Alone
<1>9. InOrder'
  BY <1>1, <1>3, <1>5, <1>6 DEF IInv, InOrder, At, Placed, Create
<1>10. \A b : Underway(b) => Underway(b)'
  BY <1>2, <1>3 DEF Underway, Running, At
<1>11. NoChargeWithoutOrder'
  BY <1>10 DEF IInv, NoChargeWithoutOrder, Placed, KeysHold, Create, rows
<1> QED BY <1>4, <1>7, <1>8, <1>9, <1>11 DEF IInv

(* Everything before the debit either goes on or is refused.                 *)
LEMMA ReadStep ==
  ASSUME IInv, NEW w \in Workers,
         Validate(w) \/ ReadGoods(w) \/ ReadCoupon(w) \/ CountUses(w) \/ ReadSettings(w)
  PROVE  IInv'
<1>1. Running(w) /\ req[w].at \in Early
  BY DEF Validate, ReadGoods, ReadCoupon, CountUses, ReadSettings, Running, At, Early
<1>2. UNCHANGED <<rows, order, charged, dead>>
  BY DEF Validate, ReadGoods, ReadCoupon, CountUses, ReadSettings
<1>3. CASE End(w)
  BY <1>1, <1>2, <1>3, Refused
<1>4. CASE \E s \in {"goods", "coupon", "usage", "price"} : Go(w, s)
  <2>1. PICK s \in {"goods", "coupon", "usage", "price"} : Go(w, s)
    BY <1>4
  <2>2. s \in Stages /\ s # "record"
    BY DEF Stages
  <2> QED BY <1>1, <1>2, <2>1, <2>2, MovesOn
<1>5. CASE Become(w, [req[w] EXCEPT !.at = "price", !.discount = Discount(Subtotal(req[w].a))])
  <2> DEFINE d == Discount(Subtotal(req[w].a))
             job == [req[w] EXCEPT !.at = "price", !.discount = d]
  <2>1. req[w] \in Jobs /\ d \in Discounts
    BY <1>1, AtJob DEF Discounts
  <2>2. job \in Jobs /\ job.at = "price" /\ job.a = req[w].a /\ job.tax = req[w].tax /\ job.fee = req[w].fee
    <3> HIDE DEF d
    <3> QED BY <2>1 DEF Jobs, Stages
  <2>3. job.tax = job.fee
    BY <1>1, <2>2 DEF IInv, OneVersion
  <2>4. Become(w, job)
    BY <1>5
  <2> HIDE DEF job
  <2> QED BY <1>1, <1>2, <2>2, <2>3, <2>4, GoesOn
<1>6. CASE ReadSettings(w)
  <2> DEFINE s == IF req[w].a \in OnWallet THEN "debit" ELSE "insert"
             job == [req[w] EXCEPT !.tax = settings.tax, !.fee = settings.fee, !.at = s]
  <2>1. req[w] \in Jobs /\ s \in Stages /\ s # "record"
    BY <1>1, AtJob DEF Stages
  <2>2. settings.tax \in Nat /\ settings.fee \in Nat /\ settings.tax = settings.fee
    BY DEF IInv, RowsTyped, OneVersion
  <2>3. job \in Jobs /\ job.at = s /\ job.a = req[w].a /\ job.tax = settings.tax /\ job.fee = settings.fee
    <3> HIDE DEF s
    <3> QED BY <2>1, <2>2 DEF Jobs
  <2>4. Become(w, job)
    BY <1>6 DEF ReadSettings
  <2> HIDE DEF job, s
  <2> QED BY <1>1, <1>2, <2>1, <2>2, <2>3, <2>4, GoesOn
<1>7. CASE Validate(w)
  BY <1>3, <1>4, <1>7 DEF Validate
<1>8. CASE ReadGoods(w)
  BY <1>3, <1>4, <1>8 DEF ReadGoods
<1>9. CASE ReadCoupon(w)
  BY <1>3, <1>4, <1>9 DEF ReadCoupon
<1>10. CASE CountUses(w)
  BY <1>3, <1>5, <1>10 DEF CountUses
<1> QED BY <1>6, <1>7, <1>8, <1>9, <1>10

(* The money is taken while the request is under way.                        *)
LEMMA DebitStep ==
  ASSUME IInv, NEW w \in Workers, Debit(w)
  PROVE  IInv'
<1>1. Running(w) /\ req[w].at \in Early
  BY DEF Debit, Running, At, Early
<1>2. CASE charged' = charged /\ End(w)
  BY <1>1, <1>2, Refused DEF Debit
<1>3. CASE charged' = charged \cup {req[w].a} /\ Go(w, "insert")
  <2> DEFINE job == [req[w] EXCEPT !.at = "insert"]
  <2>1. req[w] \in Jobs /\ req[w].a \in Attempts
    BY <1>1, AtJob
  <2>2. job \in Jobs /\ job.at = "insert" /\ job.a = req[w].a /\ job.tax = req[w].tax /\ job.fee = req[w].fee
    BY <2>1 DEF Jobs, Stages
  <2>3. req' = [req EXCEPT ![w] = job]
    BY <1>3 DEF Go, Become
  <2> HIDE DEF job
  <2>4. req'[w] = job /\ \A v \in Workers \ {w} : req'[v] = req[v]
    BY <2>3 DEF IInv, RowsTyped
  <2>5. RowsTyped'
    BY <1>3, <2>1, <2>2, <2>3 DEF IInv, RowsTyped, CatalogueTyped, Debit, rows
  <2>6. \A v \in Workers : (Running(v)' <=> Running(v)) /\ req'[v].a = req[v].a
    BY <1>1, <2>2, <2>4 DEF Running, At
  <2>7. OneVersion'
    BY <1>1, <2>2, <2>4, <2>6 DEF IInv, OneVersion, Placed, Debit, rows
  <2>8. Alone'
    BY <2>6 DEF IInv, Alone
  <2>9. InOrder'
    <3> SUFFICES ASSUME NEW v \in Workers, Running(v)'
                 PROVE  /\ req'[v].a \notin dead
                        /\ req'[v].at \in Early => req'[v].a \notin charged'
                        /\ At(v, "record")' => Placed(req[v].a)
      BY <2>6 DEF InOrder, Placed, Debit
    <3>1. CASE v = w
      BY <1>1, <2>2, <2>4, <3>1 DEF Early, At, IInv, InOrder
    <3>2. CASE v # w
      <4>1. req'[v] = req[v] /\ Running(v) /\ req[v].a # req[w].a
        BY <1>1, <2>4, <2>6, <3>2 DEF IInv, Alone
      <4> QED BY <1>3, <4>1 DEF IInv, InOrder, At
    <3> QED BY <3>1, <3>2
  <2>10. \A b \in charged' : Underway(b)' \/ (b \in charged /\ ~Underway(b))
    BY <1>1, <1>3, <2>6 DEF Underway
  <2>11. NoChargeWithoutOrder'
    BY <2>10 DEF IInv, NoChargeWithoutOrder, Placed, KeysHold, Debit, rows
  <2> QED BY <2>5, <2>7, <2>8, <2>9, <2>11 DEF IInv
<1> QED BY <1>2, <1>3 DEF Debit

(* The row is written, or a key of it does not hold and the request ends.    *)
LEMMA InsertStep ==
  ASSUME IInv, NEW w \in Workers, Insert(w)
  PROVE  IInv'
<1>1. Running(w) /\ At(w, "insert")
  BY DEF Insert, Running, At
<1>2. PICK a \in Attempts : a = req[w].a
  BY <1>1, AtJob
<1> DEFINE row == [status |-> "PENDING", coupon |-> a \in WithCoupon,
                   items |-> Subtotal(a) - req[w].discount, tax |-> req[w].tax, fee |-> req[w].fee]
<1>3. req[w] \in Jobs
  BY <1>1, AtJob
<1>4. CASE KeysGone(a)
  <2>1. UNCHANGED <<order, good>> /\ End(w)
    BY <1>2, <1>4 DEF Insert, KeysGone
  <2>2. CatalogueTyped' /\ KeysGo
    BY <2>1 DEF IInv, RowsTyped, CatalogueTyped, KeysGo, KeysGone, KeysHold, Insert
  <2> QED BY <1>1, <1>2, <1>4, <2>1, <2>2, Ends DEF Insert
<1>5. CASE ~KeysGone(a)
  <2>1. /\ order' = [order EXCEPT ![a] = row]
        /\ good' = [g \in Goods |-> IF a \in Grocery
                                    THEN [good[g] EXCEPT !.stockQty = @ - Lines[a][g].total]
                                    ELSE good[g]]
        /\ (a \in WithCoupon /\ Go(w, "record")) \/ End(w)
    BY <1>2, <1>5 DEF Insert, KeysGone
  <2>2. row \in Rows /\ row.tax = row.fee
    <3>1. (a \in WithCoupon) \in BOOLEAN
      OBVIOUS
    <3>2. Subtotal(a) - req[w].discount \in Items
      BY <1>2, <1>3 DEF Items, Jobs
    <3>3. req[w].tax \in Nat /\ req[w].fee \in Nat /\ req[w].tax = req[w].fee
      BY <1>1, <1>3 DEF Jobs, IInv, OneVersion
    <3> QED BY <3>1, <3>2, <3>3 DEF Rows
  <2>3. row # None
    BY DEF None
  <2> HIDE DEF row
  <2>4. order'[a] = row /\ \A b \in Attempts \ {a} : order'[b] = order[b]
    BY <1>2, <2>1 DEF IInv, RowsTyped
  <2>5. Placed(a)' /\ \A b \in Attempts \ {a} : Placed(b)' <=> Placed(b)
    BY <2>3, <2>4 DEF Placed
  <2>6. CatalogueTyped'
    <3>1. good' \in [Goods -> [exists : BOOLEAN, isAvailable : BOOLEAN, stockQty : Int]]
      <4>1. \A g \in Goods : Lines[a][g].total \in Int /\ good[g].stockQty \in Int
        BY LinesAreUnits DEF LinesAreUnits, IInv, RowsTyped, CatalogueTyped
      <4>2. \A g \in Goods : good[g].stockQty - Lines[a][g].total \in Int
        BY <4>1
      <4> QED BY <2>1, <4>2 DEF IInv, RowsTyped, CatalogueTyped
    <3> QED BY <3>1 DEF IInv, RowsTyped, CatalogueTyped, Insert
  <2>7. \A b \in Attempts : KeysGone(b) => KeysGone(b)'
    <3>1. \A g \in Goods : good'[g].exists = good[g].exists
      BY <2>1 DEF IInv, RowsTyped, CatalogueTyped
    <3>2. \A b \in Attempts : Bought(b) \subseteq Goods
      BY DEF Bought
    <3> QED BY <3>1, <3>2 DEF KeysGone, KeysHold, Insert
  <2> DEFINE job == IF Go(w, "record") THEN [req[w] EXCEPT !.at = "record"] ELSE Idle
  <2>8. /\ req' = [req EXCEPT ![w] = job]
        /\ job \in Jobs \cup {Idle}
        /\ job # Idle => job.at = "record" /\ job.a = a /\ job.tax = job.fee
    BY <1>1, <1>2, <1>3, <2>1 DEF Go, End, Become, Jobs, Stages, IInv, OneVersion
  <2> HIDE DEF job
  <2>9. req'[w] = job /\ \A v \in Workers \ {w} : req'[v] = req[v]
    BY <2>8 DEF IInv, RowsTyped
  <2>10. \A v \in Workers : Running(v)' => Running(v) /\ req'[v].a = req[v].a
    BY <1>1, <1>2, <2>8, <2>9 DEF Running, At, Idle
  <2>11. RowsTyped'
    BY <2>1, <2>2, <2>6, <2>8 DEF IInv, RowsTyped, Insert
  <2>12. OneVersion'
    <3>1. \A v \in Workers : Running(v)' => req'[v].tax = req'[v].fee
      BY <2>8, <2>9, <2>10 DEF IInv, OneVersion, Running, At, Idle
    <3>2. \A b \in Attempts : Placed(b)' => order'[b].tax = order'[b].fee
      BY <2>2, <2>4, <2>5 DEF IInv, OneVersion
    <3> QED BY <3>1, <3>2 DEF IInv, OneVersion, Insert
  <2>13. Alone'
    BY <2>10 DEF IInv, Alone
  <2>14. InOrder'
    <3> SUFFICES ASSUME NEW v \in Workers, Running(v)'
                 PROVE  /\ req'[v].a \notin dead
                        /\ req'[v].at \in Early => req'[v].a \notin charged
                        /\ At(v, "record")' => Placed(req[v].a)'
      BY DEF InOrder, Insert
    <3>1. CASE v = w
      <4>1. job # Idle
        BY <2>9, <3>1 DEF Running, At, Idle
      <4>2. a \notin dead
        BY <1>1, <1>2 DEF IInv, InOrder
      <4> QED BY <2>5, <2>8, <2>9, <3>1, <4>1, <4>2 DEF Early, Placed
    <3>2. CASE v # w
      <4>1. req'[v] = req[v] /\ Running(v) /\ req[v].a # a /\ req[v].a \in Attempts
        BY <1>1, <1>2, <2>9, <2>10, <3>2, AtJob DEF IInv, Alone
      <4> QED BY <2>5, <4>1 DEF IInv, InOrder, At, Placed
    <3> QED BY <3>1, <3>2
  <2>15. ASSUME NEW b \in charged
         PROVE  Placed(b)' \/ b \in dead \/ Underway(b)' \/ KeysGone(b)'
    <3>1. b \in Attempts /\ (Placed(b) \/ b \in dead \/ Underway(b) \/ KeysGone(b))
      BY DEF IInv, RowsTyped, NoChargeWithoutOrder, KeysGone
    <3>2. CASE b = a
      BY <2>5, <3>2
    <3>3. CASE b # a
      <4>1. Underway(b) => Underway(b)'
        BY <1>2, <2>9, <3>3 DEF Underway, Running, At
      <4> QED BY <2>5, <2>7, <3>1, <3>3, <4>1
    <3> QED BY <3>2, <3>3
  <2>16. NoChargeWithoutOrder'
    BY <2>15 DEF NoChargeWithoutOrder, KeysGone, Insert
  <2> QED BY <2>11, <2>12, <2>13, <2>14, <2>16 DEF IInv
<1> QED BY <1>4, <1>5

LEMMA RecordStep ==
  ASSUME IInv, NEW w \in Workers, RecordUsage(w)
  PROVE  IInv'
<1>1. Running(w) /\ Placed(req[w].a)
  BY DEF IInv, InOrder, RecordUsage, Running, At
<1>2. coupon' \in [exists : BOOLEAN, isActive : BOOLEAN, usedCount : Int, usageLimit : Limits]
      /\ coupon'.exists = coupon.exists
  BY DEF IInv, RowsTyped, CatalogueTyped, RecordUsage
<1>3. CatalogueTyped' /\ KeysGo
  BY <1>2 DEF IInv, RowsTyped, CatalogueTyped, RecordUsage, KeysGo, KeysGone, KeysHold
<1> QED BY <1>1, <1>3, Ends DEF RecordUsage

LEMMA CrashStep ==
  ASSUME IInv, NEW w \in Workers, Crash(w)
  PROVE  IInv'
<1>1. CatalogueTyped' /\ KeysGo
  BY DEF IInv, RowsTyped, CatalogueTyped, Crash, rows, KeysGo, KeysGone, KeysHold
<1> QED BY <1>1, Ends DEF Crash, rows

(***************************************************************************)
(* Everybody else, and the theorems.                                       *)
(***************************************************************************)

LEMMA EditsStep ==
  ASSUME IInv,
         \/ \E g \in Goods : ToggleGood(g) \/ DeleteGood(g)
         \/ RestaurantCloses \/ DeleteAddress \/ PhoneRemoved \/ ToggleCoupon
  PROVE  IInv'
<1>1. Edit /\ UNCHANGED <<settings, order>>
  BY DEF ToggleGood, DeleteGood, RestaurantCloses, DeleteAddress, PhoneRemoved, ToggleCoupon
<1> DEFINE NoneCreated == /\ good' \in [Goods -> [exists : BOOLEAN, isAvailable : BOOLEAN, stockQty : Int]]
                          /\ \A g \in Goods : good'[g].exists => good[g].exists
<1>2. NoneCreated
  <2>1. CASE good' = good
    BY <2>1 DEF IInv, RowsTyped, CatalogueTyped
  <2>2. ASSUME NEW g \in Goods, ToggleGood(g)
        PROVE  NoneCreated
    BY <2>2 DEF ToggleGood, IInv, RowsTyped, CatalogueTyped
  <2>3. ASSUME NEW g \in Goods, DeleteGood(g)
        PROVE  NoneCreated
    BY <2>3 DEF DeleteGood, IInv, RowsTyped, CatalogueTyped
  <2> QED BY <2>1, <2>2, <2>3 DEF RestaurantCloses, DeleteAddress, PhoneRemoved, ToggleCoupon
<1>3. /\ site' \in [{"phone", "address", "restaurant"} -> BOOLEAN]
      /\ site'["address"] => site["address"]
  BY DEF IInv, RowsTyped, CatalogueTyped, ToggleGood, DeleteGood, RestaurantCloses, DeleteAddress,
         PhoneRemoved, ToggleCoupon
<1>4. /\ coupon' \in [exists : BOOLEAN, isActive : BOOLEAN, usedCount : Int, usageLimit : Limits]
      /\ coupon'.exists = coupon.exists
  BY DEF IInv, RowsTyped, CatalogueTyped, ToggleGood, DeleteGood, RestaurantCloses, DeleteAddress,
         PhoneRemoved, ToggleCoupon
<1>5. CatalogueTyped'
  BY <1>2, <1>3, <1>4 DEF CatalogueTyped
<1>6. RowsTyped'
  BY <1>1, <1>5 DEF IInv, RowsTyped, Edit
<1>7. KeysGo
  <2>1. \A a \in Attempts : Bought(a) \subseteq Goods
    BY DEF Bought
  <2> QED BY <1>2, <1>3, <1>4, <2>1 DEF KeysGo, KeysGone, KeysHold
<1> QED BY <1>1, <1>6, <1>7, EditStep DEF IInv, OneVersion, Placed

LEMMA CouponGoesStep == ASSUME IInv, DeleteCoupon PROVE IInv'
<1>1. Edit /\ UNCHANGED <<good, site, settings>>
  BY DEF DeleteCoupon
<1>2. /\ coupon' \in [exists : BOOLEAN, isActive : BOOLEAN, usedCount : Int, usageLimit : Limits]
      /\ ~coupon'.exists
  BY DEF IInv, RowsTyped, CatalogueTyped, DeleteCoupon
<1>3. ASSUME NEW a \in Attempts
      PROVE  /\ order'[a] \in Rows \cup {None}
             /\ Placed(a) <=> Placed(a)'
             /\ Placed(a) => order'[a].tax = order[a].tax /\ order'[a].fee = order[a].fee
  <2>1. CASE ~Placed(a)
    BY <2>1 DEF DeleteCoupon, IInv, RowsTyped, Placed
  <2>2. CASE Placed(a)
    <3>1. order[a] \in Rows /\ order'[a] = [order[a] EXCEPT !.coupon = FALSE]
      BY <2>2 DEF DeleteCoupon, IInv, RowsTyped, Placed
    <3>2. order'[a] \in Rows /\ order'[a].tax = order[a].tax /\ order'[a].fee = order[a].fee
      BY <3>1 DEF Rows
    <3>3. order'[a] # None
      BY <3>2 DEF Rows, None
    <3> QED BY <2>2, <3>2, <3>3 DEF Placed
  <2> QED BY <2>1, <2>2
<1>4. RowsTyped'
  BY <1>1, <1>2, <1>3 DEF IInv, RowsTyped, CatalogueTyped, Edit, DeleteCoupon
<1>5. KeysGo
  BY <1>1, <1>2 DEF KeysGo, KeysGone, KeysHold
<1> QED BY <1>1, <1>3, <1>4, <1>5, EditStep DEF IInv, OneVersion

(* One transaction moves the two settings together.                          *)
LEMMA SettingsStep == ASSUME IInv, SaveSettings PROVE IInv'
<1>1. Edit /\ UNCHANGED <<good, site, coupon, order>>
  BY DEF SaveSettings
<1>2. settings' \in [tax : Nat, fee : Nat] /\ settings'.tax = settings'.fee
  BY DEF SaveSettings, IInv, RowsTyped, OneVersion
<1>3. RowsTyped'
  BY <1>1, <1>2 DEF IInv, RowsTyped, CatalogueTyped, Edit
<1>4. KeysGo
  BY <1>1 DEF KeysGo, KeysGone, KeysHold
<1> QED BY <1>1, <1>2, <1>3, <1>4, EditStep DEF Placed

LEMMA CancelStep == ASSUME IInv, NEW c \in Attempts, Cancel(c) PROVE IInv'
<1>1. Edit /\ UNCHANGED rows
  BY DEF Cancel
<1>2. order[c] \in Rows /\ order' = [order EXCEPT ![c].status = "CANCELLED"]
  BY DEF Cancel, IInv, RowsTyped, Placed
<1>3. /\ order'[c] = [order[c] EXCEPT !.status = "CANCELLED"]
      /\ \A a \in Attempts \ {c} : order'[a] = order[a]
  BY <1>2 DEF IInv, RowsTyped
<1>4. /\ order'[c] \in Rows /\ order'[c] # None
      /\ order'[c].tax = order[c].tax /\ order'[c].fee = order[c].fee
  BY <1>2, <1>3 DEF Rows, None
<1>5. RowsTyped'
  BY <1>1, <1>2, <1>4 DEF IInv, RowsTyped, CatalogueTyped, Edit, rows
<1>6. KeysGo
  BY <1>1 DEF KeysGo, KeysGone, KeysHold, rows
<1>7. \A a \in Attempts : /\ Placed(a) <=> Placed(a)'
                          /\ Placed(a) => /\ order'[a].tax = order[a].tax
                                          /\ order'[a].fee = order[a].fee
  BY <1>3, <1>4 DEF Placed, Cancel
<1>8. settings'.tax = settings'.fee
  BY <1>1 DEF rows, IInv, OneVersion
<1> QED BY <1>1, <1>5, <1>6, <1>7, <1>8, EditStep

LEMMA NextIInv == IInv /\ [Next]_vars => IInv'
<1> SUFFICES ASSUME IInv, [Next]_vars PROVE IInv'
  OBVIOUS
<1>1. CASE UNCHANGED vars
  BY <1>1 DEF IInv, RowsTyped, CatalogueTyped, OneVersion, Alone, InOrder, NoChargeWithoutOrder,
              Placed, Underway, Running, At, KeysHold, vars, rows
<1>2. ASSUME NEW w \in Workers, NEW a \in Attempts, Create(w, a) PROVE IInv'
  BY <1>2, CreateStep
<1>3. ASSUME NEW w \in Workers, Step(w) PROVE IInv'
  BY <1>3, ReadStep, DebitStep, InsertStep, RecordStep DEF Step
<1>4. ASSUME NEW w \in Workers, Crash(w) PROVE IInv'
  BY <1>4, CrashStep
<1>5. CASE \/ \E g \in Goods : ToggleGood(g) \/ DeleteGood(g)
           \/ RestaurantCloses \/ DeleteAddress \/ PhoneRemoved \/ ToggleCoupon
  BY <1>5, EditsStep
<1>6. CASE DeleteCoupon \/ SaveSettings
  BY <1>6, CouponGoesStep, SettingsStep
<1>7. ASSUME NEW a \in Attempts, Cancel(a) PROVE IInv'
  BY <1>7, CancelStep
<1> QED BY <1>1, <1>2, <1>3, <1>4, <1>5, <1>6, <1>7 DEF Next

LEMMA Invariant == Spec => []IInv
BY InitIInv, NextIInv, PTL DEF Spec

(* Nobody pays for an order that is not there, however many requests         *)
(* overlap and whatever is edited, unless the request died after the debit   *)
(* or a row the order would name was deleted before the insert.              *)
THEOREM NothingForMoney == Spec => []NoChargeWithoutOrder
<1>1. IInv => NoChargeWithoutOrder
  BY DEF IInv
<1> QED BY <1>1, Invariant, PTL

(* The tax and the fee of an order come of one saved version of the          *)
(* settings, although they are read in one request and saved in another.     *)
THEOREM PricesBelong == Spec => []PricedTogether
<1>1. IInv => PricedTogether
  BY DEF IInv, OneVersion, PricedTogether
<1> QED BY <1>1, Invariant, PTL

(***************************************************************************)
(* The limits that are compared long before they are used.                 *)
(***************************************************************************)

(* The requests that have compared a limit and not yet used what they were   *)
(* allowed: the stock of a good, the uses of the coupon, those of a user.    *)
Compared == {"price", "debit", "insert"}
StockReaders(g) == {w \in Workers : /\ req[w].at \in Compared \cup {"coupon", "usage"}
                                    /\ req[w].a \in Grocery /\ g \in Bought(req[w].a)}
CouponReaders == {w \in Workers : \/ req[w].at \in {"usage", "record"}
                                  \/ req[w].at \in Compared /\ req[w].a \in WithCoupon}
UseReaders(u) == {w \in Workers : /\ req[w].at \in Compared /\ req[w].a \in WithCoupon
                                  /\ Customer[req[w].a] = u}
Recorders == {w \in Workers : req[w].at = "record"}

(* What is left of a limit covers the requests that rely on it, but for the  *)
(* ones that overlap: the last to compare saw room for itself at least.      *)
Left(g) == good[g].stockQty + Overlap * MaxUnits + MaxRepeats
Wanted(g) == Cardinality(StockReaders(g)) * MaxUnits
StockCovered(g) ==
  \/ Left(g) >= Wanted(g)
  \/ \E w \in StockReaders(g) : Left(g) + MaxUnits >= Wanted(g) + Lines[req[w].a][g].total
CouponCovered == coupon.usedCount + Cardinality(CouponReaders) <= coupon.usageLimit + Overlap
(* Every order that carries the coupon is counted, about to be, or its       *)
(* request is dead; none carries one that was deleted.                       *)
OrdersCounted ==
  /\ coupon.usedCount >= 0
  /\ ~coupon.exists => CouponOrders = {}
  /\ \A w \in Recorders : coupon.exists => req[w].a \in CouponOrders
  /\ IsFiniteSet(CouponOrders \ dead)
  /\ Cardinality(CouponOrders \ dead) <= coupon.usedCount + Cardinality(Recorders)
UsesCovered(u) == /\ IsFiniteSet(UsesBy(u))
                  /\ Cardinality(UsesBy(u)) + Cardinality(UseReaders(u)) <= PerUser + Overlap
Covered == /\ \A g \in Goods : StockCovered(g)
           /\ CouponCovered
           /\ OrdersCounted
           /\ \A a \in Attempts : UsesCovered(Customer[a])

(* Counting requests: no more than there are, fewer when fewer qualify, and  *)
(* one less when one of them leaves.                                         *)
LEMMA Overlaps == Overlap \in Nat /\ Cardinality(Workers) = Overlap + 1
<1>1. Cardinality(Workers) \in Nat /\ Cardinality(Workers) # 0
  BY WorkersAreFinite, FS_CardinalityType, FS_EmptySet
<1> QED BY <1>1 DEF Overlap

LEMMA Count ==
  ASSUME NEW S \in SUBSET Workers
  PROVE  IsFiniteSet(S) /\ Cardinality(S) \in Nat /\ Cardinality(S) <= Overlap + 1
BY WorkersAreFinite, FS_Subset, FS_CardinalityType, Overlaps

LEMMA Fewer ==
  ASSUME NEW T \in SUBSET Workers, NEW S \in SUBSET T
  PROVE  Cardinality(S) <= Cardinality(T)
BY Count, FS_Subset

LEMMA OneLess ==
  ASSUME NEW T \in SUBSET Workers, NEW w \in T, NEW S \in SUBSET (T \ {w})
  PROVE  Cardinality(S) + 1 <= Cardinality(T)
<1>1. Cardinality(T \ {w}) = Cardinality(T) - 1
  BY Count, FS_RemoveElement
<1>2. Cardinality(S) <= Cardinality(T \ {w})
  BY Fewer
<1> QED BY <1>1, <1>2, Count

LEMMA Times ==
  ASSUME NEW m \in Nat, NEW n \in Nat, NEW u \in Nat
  PROVE  /\ m * u \in Nat
         /\ m <= n => m * u <= n * u
         /\ m + 1 <= n => m * u + u <= n * u
<1>1. ASSUME NEW k \in Nat PROVE k * u \in Nat /\ (k + 1) * u = k * u + u
  OBVIOUS
<1>2. ASSUME m <= n PROVE m * u <= n * u
  <2>1. PICK d \in Nat : n = m + d
    <3>1. n - m \in Nat /\ n = m + (n - m)
      BY <1>2
    <3> QED BY <3>1
  <2>2. n * u = m * u + d * u
    BY <2>1
  <2> QED BY <1>1, <2>1, <2>2
<1>3. ASSUME m + 1 <= n PROVE m * u + u <= n * u
  <2>1. PICK d \in Nat : n = m + 1 + d
    <3>1. n - (m + 1) \in Nat /\ n = m + 1 + (n - (m + 1))
      BY <1>3
    <3> QED BY <3>1
  <2>2. n * u = m * u + u + d * u
    BY <2>1
  <2> QED BY <1>1, <2>1, <2>2
<1> QED BY <1>1, <1>2, <1>3

(* The numbers of a product: units, stock, and what its readers may want.    *)
LEMMA Numbers ==
  ASSUME IInv, NEW g \in Goods
  PROVE  /\ good[g].stockQty \in Int
         /\ MaxUnits \in Nat /\ MaxRepeats \in Nat /\ Overlap * MaxUnits \in Nat
         /\ Cardinality(StockReaders(g)) \in Nat /\ Wanted(g) \in Nat
         /\ \A a \in Attempts : Lines[a][g].total \in Nat /\ Lines[a][g].largest \in Nat
<1>1. good[g].stockQty \in Int
  BY DEF IInv, RowsTyped, CatalogueTyped
<1>2. StockReaders(g) \in SUBSET Workers
  BY DEF StockReaders
<1>3. Cardinality(StockReaders(g)) \in Nat
  BY <1>2, Count
<1>4. MaxUnits \in Nat /\ MaxRepeats \in Nat
      /\ \A a \in Attempts : Lines[a][g].total \in Nat /\ Lines[a][g].largest \in Nat
  BY LinesAreUnits DEF LinesAreUnits
<1>5. Overlap * MaxUnits \in Nat /\ Wanted(g) \in Nat
  BY <1>3, <1>4, Overlaps, Times DEF Wanted
<1> QED BY <1>1, <1>3, <1>4, <1>5

LEMMA InitCovered == Init => Covered
<1> SUFFICES ASSUME Init PROVE Covered
  OBVIOUS
<1>1. \A w \in Workers : req[w].at = "idle"
  BY DEF Init, NoRequests, Idle
<1>2. /\ CouponReaders = {}
      /\ \A g : StockReaders(g) = {}
      /\ \A u : UseReaders(u) = {}
  BY <1>1 DEF CouponReaders, StockReaders, UseReaders, Compared
<1>3. \A u : UsesBy(u) = {}
  BY DEF Init, UsesBy, UsersOrders, Placed
<1>4. /\ coupon.usedCount = 0 /\ coupon.usageLimit \in Nat
      /\ \A g \in Goods : good[g].stockQty \in Nat
      /\ PerUser \in Nat
  BY NumbersAreNat DEF Init, NumbersAreNat
<1>5. Cardinality({}) = 0 /\ IsFiniteSet({})
  BY FS_EmptySet
<1>6. ASSUME NEW g \in Goods PROVE StockCovered(g)
  <2>1. MaxUnits \in Nat /\ MaxRepeats \in Nat /\ Overlap * MaxUnits \in Nat
    BY LinesAreUnits, Overlaps, Times DEF LinesAreUnits
  <2>2. Wanted(g) = 0
    BY <1>2, <1>5, <2>1 DEF Wanted
  <2> QED BY <1>4, <2>1, <2>2 DEF StockCovered, Left
<1>7. CouponCovered
  BY <1>2, <1>4, <1>5, Overlaps DEF CouponCovered
<1>8. \A u : UsesCovered(u)
  BY <1>2, <1>3, <1>4, <1>5, Overlaps DEF UsesCovered
<1>9. OrdersCounted
  <2>1. CouponOrders = {} /\ CouponOrders \ dead = {} /\ Recorders = {}
    BY <1>1 DEF Init, CouponOrders, Placed, Recorders
  <2> QED BY <1>4, <1>5, <2>1 DEF OrdersCounted
<1> QED BY <1>6, <1>7, <1>8, <1>9 DEF Covered

(* A limit stays covered when nobody new relies on it and it is not used up. *)
LEMMA StockStays ==
  ASSUME IInv, NEW g \in Goods, StockCovered(g), good'[g].stockQty = good[g].stockQty,
         StockReaders(g)' \subseteq StockReaders(g),
         \A w \in StockReaders(g)' : req'[w].a = req[w].a
  PROVE  StockCovered(g)'
<1> DEFINE m == Cardinality(StockReaders(g)')
           n == Cardinality(StockReaders(g))
<1>1. StockReaders(g) \in SUBSET Workers /\ StockReaders(g)' \in SUBSET Workers
  BY DEF StockReaders
<1>2. m \in Nat /\ n \in Nat /\ m <= n
  BY <1>1, Fewer, Count
<1>3. Wanted(g)' = m * MaxUnits /\ Wanted(g) = n * MaxUnits /\ Left(g)' = Left(g)
  BY DEF Wanted, Left, Overlap
<1>4. MaxUnits \in Nat /\ Left(g) \in Int /\ Wanted(g) \in Nat
  BY Numbers DEF Left
<1>5. Wanted(g)' \in Nat /\ Wanted(g)' <= Wanted(g)
  BY <1>2, <1>3, <1>4, Times
<1>6. CASE Left(g) >= Wanted(g)
  BY <1>3, <1>4, <1>5, <1>6 DEF StockCovered
<1>7. CASE \E w \in StockReaders(g) : Left(g) + MaxUnits >= Wanted(g) + Lines[req[w].a][g].total
  <2>1. PICK w \in StockReaders(g) : Left(g) + MaxUnits >= Wanted(g) + Lines[req[w].a][g].total
    BY <1>7
  <2>2. Lines[req[w].a][g].total \in Nat
    <3>1. req[w].a \in Attempts
      BY <2>1, AttemptsAreKnown DEF StockReaders, AttemptsAreKnown
    <3> QED BY <3>1, Numbers
  <2>3. CASE w \in StockReaders(g)'
    BY <1>3, <1>4, <1>5, <2>1, <2>2, <2>3 DEF StockCovered
  <2>4. CASE w \notin StockReaders(g)'
    <3>1. m + 1 <= n
      BY <1>1, <2>1, <2>4, OneLess
    <3>2. Wanted(g)' + MaxUnits <= Wanted(g)
      BY <1>2, <1>3, <1>4, <3>1, Times
    <3>3. Left(g)' >= Wanted(g)'
      BY <1>3, <1>4, <1>5, <2>1, <2>2, <3>2
    <3> QED BY <3>3 DEF StockCovered
  <2> QED BY <2>3, <2>4
<1> QED BY <1>6, <1>7 DEF StockCovered

(* The orders that carry the coupon stay counted when none is added.         *)
LEMMA CountStays ==
  ASSUME IInv, OrdersCounted, (CouponOrders \ dead)' \subseteq CouponOrders \ dead,
         coupon'.usedCount = coupon.usedCount, Recorders \subseteq Recorders',
         coupon'.exists \/ CouponOrders' = {},
         \A w \in Recorders' : coupon'.exists => req'[w].a \in CouponOrders'
  PROVE  OrdersCounted'
<1> DEFINE S == CouponOrders \ dead
<1>1. coupon.usedCount \in Int
  BY DEF IInv, RowsTyped, CatalogueTyped
<1>2. Recorders \in SUBSET Workers /\ Recorders' \in SUBSET Workers
  BY DEF Recorders
<1>3. /\ Cardinality(Recorders) <= Cardinality(Recorders')
      /\ Cardinality(Recorders) \in Nat /\ Cardinality(Recorders') \in Nat
  BY <1>2, Fewer, Count
<1>4. IsFiniteSet(S) /\ S' \subseteq S /\ Cardinality(S) <= coupon.usedCount + Cardinality(Recorders)
  BY DEF OrdersCounted
<1>5. /\ IsFiniteSet(S') /\ Cardinality(S') \in Nat /\ Cardinality(S) \in Nat
      /\ Cardinality(S') <= Cardinality(S)
  <2> HIDE DEF S
  <2> QED BY <1>4, FS_Subset, FS_CardinalityType
<1>6. Cardinality(S') <= coupon'.usedCount + Cardinality(Recorders')
  BY <1>1, <1>3, <1>4, <1>5
<1> QED BY <1>5, <1>6 DEF OrdersCounted

LEMMA SameOrders ==
  ASSUME IInv, OrdersCounted, UNCHANGED <<order, coupon>>, dead \subseteq dead',
         Recorders' = Recorders, \A w \in Recorders : req'[w].a = req[w].a
  PROVE  OrdersCounted'
<1>1. (CouponOrders \ dead)' \subseteq CouponOrders \ dead /\ CouponOrders' = CouponOrders
  BY DEF CouponOrders, Placed
<1>2. coupon.exists \/ CouponOrders = {}
  BY DEF OrdersCounted
<1>3. \A w \in Recorders' : coupon'.exists => req'[w].a \in CouponOrders'
  BY <1>1 DEF OrdersCounted
<1> QED BY <1>1, <1>2, <1>3, CountStays

LEMMA CouponStays ==
  ASSUME IInv, CouponCovered, CouponReaders' \subseteq CouponReaders,
         coupon'.usedCount = coupon.usedCount, coupon'.usageLimit = coupon.usageLimit
  PROVE  CouponCovered'
<1>1. coupon.usedCount \in Int /\ coupon.usageLimit \in Nat
  BY NumbersAreNat DEF IInv, RowsTyped, CatalogueTyped, NumbersAreNat
<1>2. CouponReaders \in SUBSET Workers /\ CouponReaders' \in SUBSET Workers
  BY DEF CouponReaders
<1>3. Cardinality(CouponReaders') <= Cardinality(CouponReaders)
  BY <1>2, Fewer
<1> QED BY <1>1, <1>2, <1>3, Count, Overlaps DEF CouponCovered, Overlap

LEMMA UsesStay ==
  ASSUME NEW u, UsesCovered(u), UseReaders(u)' \subseteq UseReaders(u),
         UsesBy(u)' \subseteq UsesBy(u)
  PROVE  UsesCovered(u)'
<1>1. PerUser \in Nat
  BY NumbersAreNat DEF NumbersAreNat
<1>2. UseReaders(u) \in SUBSET Workers /\ UseReaders(u)' \in SUBSET Workers
  BY DEF UseReaders
<1>3. Cardinality(UseReaders(u)') <= Cardinality(UseReaders(u))
  BY <1>2, Fewer
<1>4. /\ IsFiniteSet(UsesBy(u)') /\ Cardinality(UsesBy(u)') \in Nat /\ Cardinality(UsesBy(u)) \in Nat
      /\ Cardinality(UsesBy(u)') <= Cardinality(UsesBy(u))
  BY FS_Subset, FS_CardinalityType DEF UsesCovered
<1> QED BY <1>1, <1>2, <1>3, <1>4, Count, Overlaps DEF UsesCovered, Overlap

(* A request that goes on without having compared anything new.              *)
LEMMA QuietCovered ==
  ASSUME IInv, Covered, NEW w \in Workers, NEW job, Become(w, job),
         \/ job.at \in {"idle", "validate", "goods"}
         \/ job.a = req[w].a /\ job.at \in Compared /\ req[w].at \in Compared,
         dead \subseteq dead', UNCHANGED <<rows, order>>,
         req[w].at # "record" \/ OrdersCounted'
  PROVE  Covered'
<1>1. req'[w] = job /\ \A v \in Workers \ {w} : req'[v] = req[v]
  BY DEF IInv, RowsTyped, Become
<1>2. /\ \A g \in Goods : /\ StockReaders(g)' \subseteq StockReaders(g)
                           /\ \A v \in StockReaders(g)' : req'[v].a = req[v].a
      /\ CouponReaders' \subseteq CouponReaders
      /\ \A u : UseReaders(u)' \subseteq UseReaders(u)
  BY <1>1 DEF StockReaders, CouponReaders, UseReaders, Compared
<1>3. \A u : UsesBy(u)' = UsesBy(u)
  BY DEF UsesBy, UsersOrders, Placed
<1>4. OrdersCounted'
  <2>1. CASE req[w].at # "record"
    <3>1. Recorders' = Recorders /\ \A v \in Recorders : req'[v].a = req[v].a
      BY <1>1, <2>1 DEF Recorders, Compared
    <3> QED BY <3>1, SameOrders DEF Covered, rows
  <2> QED BY <2>1
<1> QED BY <1>2, <1>3, <1>4, StockStays, CouponStays, UsesStay DEF Covered, rows

(* The goods are compared: there is one left of each, for this request.      *)
LEMMA ReadGoodsCovered ==
  ASSUME IInv, Covered, NEW w \in Workers, ReadGoods(w)
  PROVE  Covered'
<1>1. req[w].at = "goods" /\ req[w] \in Jobs /\ UNCHANGED <<rows, order, dead>>
  BY AtJob DEF ReadGoods, At, Running
<1>2. CASE End(w)
  BY <1>1, <1>2, QuietCovered DEF End, Idle
<1>3. CASE ~End(w)
  <2> DEFINE a == req[w].a
             s == IF a \in WithCoupon THEN "coupon" ELSE "price"
  <2>1. Go(w, s) /\ \A g \in Bought(a) : Sellable(a, g)
    BY <1>3 DEF ReadGoods
  <2>2. req'[w].at = s /\ req'[w].a = a /\ \A v \in Workers \ {w} : req'[v] = req[v]
    <3> HIDE DEF s
    <3> QED BY <1>1, <2>1 DEF Go, Become, IInv, RowsTyped, Jobs
  <2>3. CouponReaders' \subseteq CouponReaders /\ \A u : UseReaders(u)' \subseteq UseReaders(u)
    BY <2>2 DEF CouponReaders, UseReaders, Compared
  <2>4. \A u : UsesBy(u)' = UsesBy(u)
    BY <1>1 DEF UsesBy, UsersOrders, Placed
  <2>5. ASSUME NEW g \in Goods
        PROVE  StockCovered(g)'
    <3>1. StockCovered(g) /\ good'[g].stockQty = good[g].stockQty
      BY <1>1 DEF rows, Covered
    <3>2. CASE a \in Grocery /\ g \in Bought(a)
      <4> DEFINE l == Lines[a][g]
                 m == Cardinality(StockReaders(g)')
      <4>1. good[g].stockQty >= l.largest
        BY <2>1, <3>2 DEF Sellable
      <4>2. l.largest \in Nat /\ l.total \in Nat /\ l.total <= l.largest + MaxRepeats
        BY <1>1, <3>2, LinesAreUnits DEF LinesAreUnits, Jobs
      <4>3. m \in Nat /\ m <= Overlap + 1
        <5>1. StockReaders(g)' \in SUBSET Workers
          BY DEF StockReaders
        <5> QED BY <5>1, Count
      <4>4. m * MaxUnits <= Overlap * MaxUnits + MaxUnits
        <5>1. MaxUnits \in Nat /\ Overlap \in Nat
          BY Numbers, Overlaps
        <5>2. m * MaxUnits <= (Overlap + 1) * MaxUnits
          BY <4>3, <5>1, Times
        <5>3. (Overlap + 1) * MaxUnits = Overlap * MaxUnits + MaxUnits
          BY <5>1
        <5> QED BY <5>2, <5>3
      <4>5. w \in StockReaders(g)' /\ req'[w].a = a
        BY <2>2, <3>2 DEF StockReaders, Compared
      <4>6. Wanted(g)' = m * MaxUnits /\ Wanted(g)' \in Nat
        BY <4>3, Numbers, Times DEF Wanted
      <4>7. Left(g)' = Left(g)
        BY <3>1 DEF Left, Overlap
      <4>8. Left(g)' + MaxUnits >= Wanted(g)' + l.total
        BY <4>1, <4>2, <4>4, <4>6, <4>7, Numbers DEF Left
      <4> HIDE DEF l
      <4>9. l = Lines[req'[w].a][g]
        BY <4>5 DEF l
      <4> QED BY <4>5, <4>8, <4>9 DEF StockCovered
    <3>3. CASE ~(a \in Grocery /\ g \in Bought(a))
      <4>1. /\ StockReaders(g)' \subseteq StockReaders(g)
            /\ \A v \in StockReaders(g)' : req'[v].a = req[v].a
        BY <2>2, <3>3 DEF StockReaders
      <4> QED BY <3>1, <4>1, StockStays
    <3> QED BY <3>2, <3>3
  <2>6. Recorders' = Recorders /\ \A v \in Recorders : req'[v].a = req[v].a
    BY <1>1, <2>2 DEF Recorders
  <2> QED BY <1>1, <2>3, <2>4, <2>5, <2>6, CouponStays, SameOrders, UsesStay DEF Covered, rows
<1> QED BY <1>2, <1>3

(* The use count is compared: there is one left, for this request.           *)
LEMMA ReadCouponCovered ==
  ASSUME IInv, Covered, NEW w \in Workers, ReadCoupon(w)
  PROVE  Covered'
<1>1. req[w].at = "coupon" /\ req[w] \in Jobs /\ UNCHANGED <<rows, order, dead>>
  BY AtJob DEF ReadCoupon, At, Running
<1>2. CASE End(w)
  BY <1>1, <1>2, QuietCovered DEF End, Idle
<1>3. CASE ~End(w)
  <2>1. Go(w, "usage") /\ coupon.usedCount < coupon.usageLimit
    BY <1>3 DEF ReadCoupon, CouponUsable
  <2>2. /\ req'[w].at = "usage" /\ req'[w].a = req[w].a
        /\ \A v \in Workers \ {w} : req'[v] = req[v]
    BY <1>1, <2>1 DEF Go, Become, IInv, RowsTyped, Jobs
  <2>3. /\ \A g \in Goods : /\ StockReaders(g)' \subseteq StockReaders(g)
                             /\ \A v \in StockReaders(g)' : req'[v].a = req[v].a
        /\ \A u : UseReaders(u)' \subseteq UseReaders(u)
    BY <1>1, <2>2 DEF StockReaders, UseReaders, Compared
  <2>4. \A u : UsesBy(u)' = UsesBy(u)
    BY <1>1 DEF UsesBy, UsersOrders, Placed
  <2>5. CouponCovered'
    <3>1. coupon.usedCount \in Int /\ coupon.usageLimit \in Nat /\ coupon' = coupon
      BY <1>1, NumbersAreNat DEF IInv, RowsTyped, CatalogueTyped, NumbersAreNat, rows
    <3>2. CouponReaders' \in SUBSET Workers
      BY DEF CouponReaders
    <3> QED BY <2>1, <3>1, <3>2, Count, Overlaps DEF CouponCovered, Overlap
  <2>6. Recorders' = Recorders /\ \A v \in Recorders : req'[v].a = req[v].a
    BY <1>1, <2>2 DEF Recorders
  <2> QED BY <1>1, <2>3, <2>4, <2>5, <2>6, StockStays, SameOrders, UsesStay DEF Covered, rows
<1> QED BY <1>2, <1>3

(* The uses of the customer are counted: there is one left, for this request.*)
LEMMA CountUsesCovered ==
  ASSUME IInv, Covered, NEW w \in Workers, CountUses(w)
  PROVE  Covered'
<1>1. req[w].at = "usage" /\ req[w] \in Jobs /\ UNCHANGED <<rows, order, dead>>
  BY AtJob DEF CountUses, At, Running
<1>2. CASE End(w)
  BY <1>1, <1>2, QuietCovered DEF End, Idle
<1>3. CASE ~End(w)
  <2> DEFINE a == req[w].a
             d == Discount(Subtotal(a))
             job == [req[w] EXCEPT !.at = "price", !.discount = d]
  <2>1. Become(w, job) /\ ~(Cardinality(UsesBy(Customer[a])) >= PerUser)
    BY <1>3 DEF CountUses
  <2>2. req'[w].at = "price" /\ req'[w].a = a /\ \A v \in Workers \ {w} : req'[v] = req[v]
    <3> HIDE DEF d
    <3> QED BY <1>1, <2>1 DEF Become, IInv, RowsTyped, Jobs
  <2>3. /\ \A g \in Goods : /\ StockReaders(g)' \subseteq StockReaders(g)
                             /\ \A v \in StockReaders(g)' : req'[v].a = req[v].a
        /\ CouponReaders' \subseteq CouponReaders
    BY <1>1, <2>2 DEF StockReaders, CouponReaders, Compared
  <2>4. \A u : UsesBy(u)' = UsesBy(u)
    BY <1>1 DEF UsesBy, UsersOrders, Placed
  <2>5. ASSUME NEW b \in Attempts
        PROVE  UsesCovered(Customer[b])'
    <3>1. UsesCovered(Customer[b])
      BY DEF Covered
    <3>2. CASE Customer[b] # Customer[a]
      <4>1. UseReaders(Customer[b])' \subseteq UseReaders(Customer[b])
        BY <2>2, <3>2 DEF UseReaders
      <4> QED BY <2>4, <3>1, <4>1, UsesStay
    <3>3. CASE Customer[b] = Customer[a]
      <4> DEFINE u == Customer[b]
      <4>1. PerUser \in Nat /\ IsFiniteSet(UsesBy(u)) /\ Cardinality(UsesBy(u)) \in Nat
        BY <3>1, NumbersAreNat, FS_CardinalityType DEF NumbersAreNat, UsesCovered
      <4>2. UseReaders(u)' \in SUBSET Workers
        BY DEF UseReaders
      <4>3. UsesBy(u)' = UsesBy(u) /\ Cardinality(UsesBy(u)) < PerUser
        BY <2>1, <2>4, <3>3, <4>1
      <4> HIDE DEF u
      <4>4. UsesCovered(u)'
        BY <4>1, <4>2, <4>3, Count, Overlaps DEF UsesCovered, Overlap
      <4> QED BY <4>4 DEF u
    <3> QED BY <3>2, <3>3
  <2>6. Recorders' = Recorders /\ \A v \in Recorders : req'[v].a = req[v].a
    BY <1>1, <2>2 DEF Recorders
  <2> QED BY <1>1, <2>3, <2>5, <2>6, StockStays, SameOrders, CouponStays DEF Covered, rows
<1> QED BY <1>2, <1>3

(* The row is written: the stock and the customer's uses are used up by the  *)
(* request that relied on them.                                              *)
LEMMA InsertCovered ==
  ASSUME IInv, Covered, NEW w \in Workers, Insert(w)
  PROVE  Covered'
<1> DEFINE a == req[w].a
<1>1. req[w].at = "insert" /\ req[w] \in Jobs /\ a \in Attempts
  BY AtJob DEF Insert, At, Running
<1>2. CASE KeysGone(a)
  <2>1. UNCHANGED <<order, good>> /\ End(w)
    BY <1>2 DEF Insert, KeysGone
  <2> QED BY <1>1, <2>1, QuietCovered DEF End, Idle, Insert, rows
<1>3. CASE ~KeysGone(a)
  <2> DEFINE row == [status |-> "PENDING", coupon |-> a \in WithCoupon,
                     items |-> Subtotal(a) - req[w].discount,
                     tax |-> req[w].tax, fee |-> req[w].fee]
  <2>1. /\ order' = [order EXCEPT ![a] = row]
        /\ good' = [g \in Goods |-> IF a \in Grocery
                                    THEN [good[g] EXCEPT !.stockQty = @ - Lines[a][g].total]
                                    ELSE good[g]]
        /\ coupon' = coupon
        /\ (a \in WithCoupon /\ Go(w, "record")) \/ (a \notin WithCoupon /\ End(w))
    BY <1>3 DEF Insert, KeysGone
  <2>2. /\ order'[a] = row /\ \A b \in Attempts \ {a} : order'[b] = order[b]
        /\ (row.coupon <=> a \in WithCoupon) /\ row # None
    <3> HIDE DEF row
    <3>1. order'[a] = row /\ \A b \in Attempts \ {a} : order'[b] = order[b]
      BY <1>1, <2>1 DEF IInv, RowsTyped
    <3> QED BY <3>1 DEF row, None
  <2> HIDE DEF row
  <2>3. /\ req'[w].at = "idle" \/ (a \in WithCoupon /\ req'[w].at = "record")
        /\ \A v \in Workers \ {w} : req'[v] = req[v]
    BY <1>1, <2>1 DEF Go, End, Become, Idle, IInv, RowsTyped, Jobs
  <2>0. /\ a \in WithCoupon => req'[w].at = "record" /\ req'[w].a = a
        /\ a \notin WithCoupon => req'[w].at = "idle"
    BY <1>1, <2>1 DEF Go, End, Become, Idle, IInv, RowsTyped, Jobs
  <2>4. CouponReaders' \subseteq CouponReaders
    BY <1>1, <2>3 DEF CouponReaders, Compared
  <2>5. ASSUME NEW g \in Goods
        PROVE  StockCovered(g)'
    <3>1. StockCovered(g) /\ good[g].stockQty \in Int
      BY DEF Covered, IInv, RowsTyped, CatalogueTyped
    <3>2. StockReaders(g) \in SUBSET Workers /\ StockReaders(g)' \in SUBSET Workers
          /\ w \notin StockReaders(g)' /\ StockReaders(g)' \subseteq StockReaders(g)
      BY <1>1, <2>3 DEF StockReaders, Compared
    <3>3. CASE a \in Grocery /\ g \in Bought(a)
      <4> DEFINE l == Lines[a][g]
                 m == Cardinality(StockReaders(g)')
                 n == Cardinality(StockReaders(g))
      <4>1. w \in StockReaders(g)
        BY <1>1, <3>3 DEF StockReaders, Compared
      <4>2. m \in Nat /\ n \in Nat /\ m + 1 <= n
        BY <3>2, <4>1, OneLess, Count
      <4>3. MaxUnits \in Nat /\ l.total \in Nat /\ l.total <= MaxUnits
        BY <1>1, <3>3, LinesAreUnits DEF LinesAreUnits
      <4>4. good'[g].stockQty = good[g].stockQty - l.total
        BY <2>1, <3>1, <3>3 DEF IInv, RowsTyped, CatalogueTyped
      <4>5. Left(g) \in Int /\ Wanted(g) \in Nat /\ Left(g)' = Left(g) - l.total
        BY <4>3, <4>4, Numbers DEF Left, Overlap
      <4>6. /\ Wanted(g) = n * MaxUnits /\ Wanted(g)' = m * MaxUnits /\ Wanted(g)' \in Nat
        BY <4>2, <4>3, Times DEF Wanted
      <4>7. Wanted(g)' + MaxUnits <= Wanted(g)
        BY <4>2, <4>3, <4>6, Times
      <4>8. CASE Left(g) >= Wanted(g)
        <5> HIDE DEF l
        <5>1. Left(g)' >= Wanted(g)'
          BY <4>3, <4>5, <4>6, <4>7, <4>8
        <5> QED BY <5>1 DEF StockCovered
      <4>9. ASSUME NEW v \in StockReaders(g),
                   Left(g) + MaxUnits >= Wanted(g) + Lines[req[v].a][g].total
            PROVE  StockCovered(g)'
        <5>1. CASE v = w
          <6> HIDE DEF l
          <6>1. Left(g)' >= Wanted(g)'
            BY <4>3, <4>5, <4>6, <4>7, <4>9, <5>1 DEF l
          <6> QED BY <6>1 DEF StockCovered
        <5>2. CASE v # w
          <6>1. v \in StockReaders(g)' /\ req'[v].a = req[v].a
            BY <2>3, <5>2 DEF StockReaders
          <6>2. Lines[req[v].a][g].total \in Nat
            BY Numbers, AttemptsAreKnown DEF StockReaders, AttemptsAreKnown
          <6> HIDE DEF l
          <6>3. Left(g)' + MaxUnits >= Wanted(g)' + Lines[req[v].a][g].total
            BY <4>3, <4>5, <4>6, <4>7, <4>9, <6>2
          <6> QED BY <6>1, <6>3 DEF StockCovered
        <5> QED BY <5>1, <5>2
      <4> QED BY <3>1, <4>8, <4>9 DEF StockCovered
    <3>4. CASE ~(a \in Grocery /\ g \in Bought(a))
      <4>1. good'[g].stockQty = good[g].stockQty
        <5>1. CASE a \notin Grocery
          BY <2>1, <3>1, <5>1
        <5>2. CASE a \in Grocery
          <6>1. Lines[a][g].total = 0
            BY <1>1, <3>4, <5>2, LinesAreUnits DEF LinesAreUnits, Bought
          <6> QED BY <2>1, <3>1, <5>2, <6>1 DEF IInv, RowsTyped, CatalogueTyped
        <5> QED BY <5>1, <5>2
      <4>2. \A v \in StockReaders(g)' : req'[v].a = req[v].a
        BY <2>3, <3>2
      <4> QED BY <3>1, <3>2, <4>1, <4>2, StockStays
    <3> QED BY <3>3, <3>4
  <2>6. ASSUME NEW b \in Attempts
        PROVE  UsesCovered(Customer[b])'
    <3> DEFINE u == Customer[b]
    <3>1. UsesCovered(u) /\ UseReaders(u)' \subseteq UseReaders(u) /\ w \notin UseReaders(u)'
          /\ UseReaders(u) \in SUBSET Workers /\ UseReaders(u)' \in SUBSET Workers
      BY <1>1, <2>3 DEF Covered, UseReaders, Compared
    <3>2. CASE ~(a \in WithCoupon /\ Customer[a] = u)
      <4>1. UsesBy(u)' \subseteq UsesBy(u)
        BY <2>2, <3>2 DEF UsesBy, UsersOrders, Placed
      <4> QED BY <3>1, <4>1, UsesStay
    <3>3. CASE a \in WithCoupon /\ Customer[a] = u
      <4>1. UsesBy(u)' \subseteq UsesBy(u) \cup {a}
        BY <2>2 DEF UsesBy, UsersOrders, Placed
      <4>2. IsFiniteSet(UsesBy(u)) /\ Cardinality(UsesBy(u)) \in Nat /\ PerUser \in Nat
        BY <3>1, FS_CardinalityType, NumbersAreNat DEF UsesCovered, NumbersAreNat
      <4>3. /\ IsFiniteSet(UsesBy(u) \cup {a})
            /\ Cardinality(UsesBy(u) \cup {a}) \in {Cardinality(UsesBy(u)), Cardinality(UsesBy(u)) + 1}
        BY <4>2, FS_AddElement
      <4>4. /\ IsFiniteSet(UsesBy(u)') /\ Cardinality(UsesBy(u)') \in Nat
            /\ Cardinality(UsesBy(u)') <= Cardinality(UsesBy(u) \cup {a})
        BY <4>1, <4>3, FS_Subset, FS_CardinalityType
      <4>5. w \in UseReaders(u)
        BY <1>1, <3>3 DEF UseReaders, Compared
      <4>6. Cardinality(UseReaders(u)') + 1 <= Cardinality(UseReaders(u))
        BY <3>1, <4>5, OneLess
      <4>7. Cardinality(UsesBy(u) \cup {a}) \in Nat
        BY <4>3, FS_CardinalityType
      <4> HIDE DEF u
      <4>8. UsesCovered(u)'
        BY <3>1, <4>2, <4>3, <4>4, <4>6, <4>7, Count, Overlaps DEF UsesCovered, Overlap
      <4> QED BY <4>8 DEF u
    <3> QED BY <3>2, <3>3
  <2>7. OrdersCounted'
    <3> DEFINE S == CouponOrders \ dead
    <3>1. CouponOrders' \subseteq CouponOrders \cup {a} /\ CouponOrders \ {a} \subseteq CouponOrders'
          /\ (a \in WithCoupon => a \in CouponOrders')
          /\ (a \notin WithCoupon => CouponOrders' \subseteq CouponOrders \ {a})
      BY <1>1, <2>2 DEF CouponOrders, Placed
    <3>2. coupon.usedCount \in Int /\ coupon' = coupon /\ dead' = dead /\ coupon.usedCount >= 0
      BY <2>1 DEF IInv, RowsTyped, CatalogueTyped, Insert, Covered, OrdersCounted
    <3>3. a \in WithCoupon => coupon.exists
      BY <1>3 DEF KeysGone, KeysHold
    <3>4. /\ Recorders \in SUBSET Workers /\ Recorders' \in SUBSET Workers
          /\ w \notin Recorders /\ Recorders \subseteq Recorders' \ {w}
          /\ Recorders' \subseteq Recorders \cup {w} /\ (a \in WithCoupon => w \in Recorders')
      BY <1>1, <2>3, <2>0 DEF Recorders
    <3>5. ASSUME NEW v \in Recorders', coupon.exists
          PROVE  req'[v].a \in CouponOrders'
      <4>1. CASE v = w
        BY <2>0, <3>1, <4>1, <3>5 DEF Recorders
      <4>2. CASE v # w
        <5>1. v \in Recorders /\ req'[v] = req[v] /\ v \in Workers
          BY <2>3, <3>4, <4>2 DEF Recorders
        <5>2. req[v].a # a
          BY <1>1, <4>2, <5>1 DEF IInv, Alone, Running, At, Recorders
        <5>3. req[v].a \in CouponOrders
          BY <3>5, <5>1 DEF Covered, OrdersCounted
        <5> QED BY <3>1, <5>1, <5>2, <5>3
      <4> QED BY <4>1, <4>2
    <3>6. coupon.exists \/ CouponOrders' = {}
      BY <3>1, <3>3 DEF Covered, OrdersCounted
    <3>7. CASE a \notin WithCoupon
      BY <3>1, <3>2, <3>4, <3>5, <3>6, <3>7, CountStays DEF Covered
    <3>8. CASE a \in WithCoupon
      <4>1. /\ Cardinality(Recorders) + 1 <= Cardinality(Recorders')
            /\ Cardinality(Recorders) \in Nat /\ Cardinality(Recorders') \in Nat
        BY <3>4, <3>8, OneLess, Count
      <4>2. IsFiniteSet(S) /\ Cardinality(S) <= coupon.usedCount + Cardinality(Recorders)
            /\ S' \subseteq S \cup {a}
        BY <3>1, <3>2 DEF Covered, OrdersCounted
      <4> HIDE DEF S
      <4>3. /\ Cardinality(S) \in Nat /\ IsFiniteSet(S \cup {a})
            /\ Cardinality(S \cup {a}) \in {Cardinality(S), Cardinality(S) + 1}
        BY <4>2, FS_CardinalityType, FS_AddElement
      <4>4. /\ IsFiniteSet(S') /\ Cardinality(S') \in Nat
            /\ Cardinality(S') <= Cardinality(S \cup {a})
        BY <4>2, <4>3, FS_Subset, FS_CardinalityType
      <4>5. Cardinality(S') <= coupon'.usedCount + Cardinality(Recorders')
        BY <3>2, <4>1, <4>2, <4>3, <4>4
      <4> QED BY <3>2, <3>5, <3>6, <4>4, <4>5 DEF OrdersCounted, S
    <3> QED BY <3>7, <3>8
  <2> QED BY <2>1, <2>4, <2>5, <2>6, <2>7, CouponStays DEF Covered
<1> QED BY <1>2, <1>3

(* The use is recorded by the request that relied on it.                     *)
LEMMA RecordCovered ==
  ASSUME IInv, Covered, NEW w \in Workers, RecordUsage(w)
  PROVE  Covered'
<1>1. req[w].at = "record" /\ req'[w] = Idle /\ \A v \in Workers \ {w} : req'[v] = req[v]
  BY DEF RecordUsage, At, End, Become, IInv, RowsTyped
<1>2. /\ \A g \in Goods : /\ StockReaders(g)' \subseteq StockReaders(g)
                           /\ \A v \in StockReaders(g)' : req'[v].a = req[v].a
      /\ \A u : UseReaders(u)' \subseteq UseReaders(u)
      /\ CouponReaders' \subseteq CouponReaders \ {w} /\ w \in CouponReaders
  BY <1>1 DEF StockReaders, CouponReaders, UseReaders, Compared, Idle
<1>3. \A u : UsesBy(u)' = UsesBy(u)
  BY DEF UsesBy, UsersOrders, Placed, RecordUsage
<1>4. CouponCovered'
  <2>1. CouponReaders \in SUBSET Workers /\ CouponReaders' \in SUBSET Workers
    BY DEF CouponReaders
  <2>2. Cardinality(CouponReaders') + 1 <= Cardinality(CouponReaders)
    BY <1>2, <2>1, OneLess
  <2>3. /\ coupon.usedCount \in Int /\ coupon.usageLimit \in Nat
        /\ coupon'.usedCount \in Int /\ coupon'.usedCount <= coupon.usedCount + 1
        /\ coupon'.usageLimit = coupon.usageLimit
    BY NumbersAreNat DEF IInv, RowsTyped, CatalogueTyped, NumbersAreNat, RecordUsage
  <2> QED BY <2>1, <2>2, <2>3, Count, Overlaps DEF Covered, CouponCovered, Overlap
<1>5. OrdersCounted'
  <2> DEFINE S == CouponOrders \ dead
  <2>1. /\ Recorders \in SUBSET Workers /\ Recorders' = Recorders \ {w} /\ w \in Recorders
    BY <1>1 DEF Recorders, Idle
  <2>2. /\ Cardinality(Recorders) \in Nat /\ Cardinality(Recorders') \in Nat
        /\ Cardinality(Recorders') = Cardinality(Recorders) - 1
    BY <2>1, Count, FS_RemoveElement, FS_CardinalityType
  <2>3. CouponOrders' = CouponOrders /\ dead' = dead /\ coupon'.exists = coupon.exists
    BY DEF RecordUsage, CouponOrders, Placed, IInv, RowsTyped, CatalogueTyped
  <2>4. coupon.usedCount \in Int /\ OrdersCounted
    BY DEF IInv, RowsTyped, CatalogueTyped, Covered
  <2>5. /\ coupon'.usedCount >= 0 /\ IsFiniteSet(S)
        /\ Cardinality(S) <= coupon'.usedCount + Cardinality(Recorders')
    <3>1. CASE coupon.exists
      <4>1. coupon'.usedCount = coupon.usedCount + 1
        BY <3>1 DEF RecordUsage, IInv, RowsTyped, CatalogueTyped
      <4>2. Cardinality(S) \in Nat
        BY <2>4, FS_CardinalityType DEF OrdersCounted
      <4> QED BY <2>2, <2>4, <4>1, <4>2 DEF OrdersCounted
    <3>2. CASE ~coupon.exists
      <4>1. S = {} /\ coupon' = coupon
        BY <2>4, <3>2 DEF OrdersCounted, RecordUsage
      <4>2. Cardinality(S) = 0
        BY <4>1, FS_EmptySet
      <4> HIDE DEF S
      <4> QED BY <2>2, <2>4, <4>1, <4>2 DEF OrdersCounted, S
    <3> QED BY <3>1, <3>2
  <2>6. \A v \in Recorders' : coupon'.exists => req'[v].a \in CouponOrders'
    BY <1>1, <2>1, <2>3, <2>4 DEF OrdersCounted, Recorders
  <2> QED BY <2>3, <2>4, <2>5, <2>6 DEF OrdersCounted
<1> QED BY <1>2, <1>3, <1>4, <1>5, StockStays, UsesStay DEF Covered, RecordUsage

(* A request that dies before it counted the use leaves an order that is not *)
(* counted, and excused.                                                     *)
LEMMA CrashCovered ==
  ASSUME IInv, Covered, NEW w \in Workers, Crash(w)
  PROVE  Covered'
<1>1. Running(w) /\ dead' = dead \cup {req[w].a} /\ Become(w, Idle) /\ UNCHANGED <<rows, order>>
  BY DEF Crash, End
<1>2. Idle.at = "idle"
  BY DEF Idle
<1>3. CASE req[w].at # "record"
  BY <1>1, <1>2, <1>3, QuietCovered
<1>4. CASE req[w].at = "record"
  <2> DEFINE S == CouponOrders \ dead
             a == req[w].a
  <2>1. req'[w] = Idle /\ \A v \in Workers \ {w} : req'[v] = req[v]
    BY <1>1 DEF Become, IInv, RowsTyped
  <2>2. /\ Recorders \in SUBSET Workers /\ Recorders' = Recorders \ {w} /\ w \in Recorders
    BY <1>2, <1>4, <2>1 DEF Recorders
  <2>3. /\ Cardinality(Recorders) \in Nat /\ Cardinality(Recorders') \in Nat
        /\ Cardinality(Recorders') = Cardinality(Recorders) - 1
    BY <2>2, Count, FS_RemoveElement, FS_CardinalityType
  <2>4. CouponOrders' = CouponOrders /\ coupon' = coupon /\ S' = S \ {a} /\ a \notin dead
    BY <1>1 DEF CouponOrders, Placed, rows, IInv, InOrder
  <2>5. OrdersCounted /\ coupon.usedCount \in Int
    BY DEF Covered, IInv, RowsTyped, CatalogueTyped
  <2>6. IsFiniteSet(S') /\ Cardinality(S') <= coupon.usedCount + Cardinality(Recorders')
    <3>1. CASE coupon.exists
      <4>1. a \in S /\ IsFiniteSet(S)
        BY <2>2, <2>4, <2>5, <3>1 DEF OrdersCounted
      <4>2. Cardinality(S) \in Nat /\ Cardinality(S') = Cardinality(S) - 1 /\ IsFiniteSet(S')
        <5> HIDE DEF S
        <5> QED BY <2>4, <4>1, FS_RemoveElement, FS_CardinalityType
      <4> QED BY <2>3, <2>5, <4>1, <4>2 DEF OrdersCounted
    <3>2. CASE ~coupon.exists
      <4>1. S' = {}
        BY <2>4, <2>5, <3>2 DEF OrdersCounted
      <4>2. IsFiniteSet(S') /\ Cardinality(S') = 0
        BY <4>1, FS_EmptySet
      <4> HIDE DEF S
      <4> QED BY <2>3, <2>5, <4>2 DEF OrdersCounted
    <3> QED BY <3>1, <3>2
  <2>7. \A v \in Recorders' : coupon'.exists => req'[v].a \in CouponOrders'
    BY <2>1, <2>2, <2>4, <2>5 DEF OrdersCounted, Recorders
  <2>8. OrdersCounted'
    BY <2>4, <2>5, <2>6, <2>7 DEF OrdersCounted
  <2> QED BY <1>1, <1>2, <2>8, QuietCovered
<1> QED BY <1>3, <1>4

(* Edits compare nothing and leave stock and use counts alone; an order that *)
(* is cancelled or forgets its coupon is a use less.                         *)
LEMMA EditsCovered ==
  ASSUME IInv, Covered,
         \/ \E g \in Goods : ToggleGood(g) \/ DeleteGood(g)
         \/ RestaurantCloses \/ DeleteAddress \/ PhoneRemoved
         \/ ToggleCoupon \/ DeleteCoupon \/ SaveSettings
         \/ \E a \in Attempts : Cancel(a)
  PROVE  Covered'
<1> USE DEF ToggleGood, DeleteGood, RestaurantCloses, DeleteAddress, PhoneRemoved,
            ToggleCoupon, DeleteCoupon, SaveSettings, Cancel, rows
<1>1. req' = req
  BY DEF Edit
<1>2. /\ \A g : /\ StockReaders(g)' = StockReaders(g)
               /\ \A v \in StockReaders(g)' : req'[v].a = req[v].a
      /\ \A u : UseReaders(u)' = UseReaders(u)
      /\ CouponReaders' = CouponReaders
  BY <1>1 DEF StockReaders, CouponReaders, UseReaders
<1>3. coupon'.usedCount = coupon.usedCount /\ coupon'.usageLimit = coupon.usageLimit
  BY DEF IInv, RowsTyped, CatalogueTyped
<1>4. \A g \in Goods : good'[g].stockQty = good[g].stockQty
  <2>1. CASE good' = good
    BY <2>1
  <2>2. ASSUME NEW h \in Goods, ToggleGood(h) \/ DeleteGood(h)
        PROVE  \A g \in Goods : good'[g].stockQty = good[g].stockQty
    BY <2>2 DEF IInv, RowsTyped, CatalogueTyped
  <2> QED BY <2>1, <2>2
<1>5. ASSUME NEW a \in Attempts
      PROVE  /\ Placed(a)' => Placed(a)
             /\ order'[a].coupon /\ order'[a].status # "CANCELLED" /\ Placed(a)' =>
                  order[a].coupon /\ order[a].status # "CANCELLED"
  <2>1. CASE order' = order
    BY <2>1 DEF Placed
  <2>2. CASE DeleteCoupon
    <3>1. order'[a] = IF Placed(a) THEN [order[a] EXCEPT !.coupon = FALSE] ELSE order[a]
      BY <2>2
    <3>2. CASE Placed(a)
      <4>1. order[a] \in Rows
        BY <3>2 DEF Placed, IInv, RowsTyped
      <4> QED BY <3>1, <3>2, <4>1 DEF Rows
    <3>3. CASE ~Placed(a)
      BY <3>1, <3>3 DEF Placed
    <3> QED BY <3>2, <3>3
  <2>3. ASSUME NEW c \in Attempts, Cancel(c)
        PROVE  /\ Placed(a)' => Placed(a)
               /\ order'[a].coupon /\ order'[a].status # "CANCELLED" /\ Placed(a)' =>
                    order[a].coupon /\ order[a].status # "CANCELLED"
    <3>1. order[c] \in Rows /\ order'[c] = [order[c] EXCEPT !.status = "CANCELLED"]
          /\ \A b \in Attempts \ {c} : order'[b] = order[b]
      BY <2>3 DEF Placed, IInv, RowsTyped
    <3>2. order'[c].status = "CANCELLED"
      BY <3>1 DEF Rows
    <3> QED BY <2>3, <3>1, <3>2 DEF Placed
  <2> QED BY <2>1, <2>2, <2>3
<1>6. \A u : UsesBy(u)' \subseteq UsesBy(u)
  BY <1>5 DEF UsesBy, UsersOrders
<1>7. OrdersCounted'
  <2>1. Recorders' = Recorders /\ dead' = dead /\ OrdersCounted
    BY <1>1 DEF Recorders, Edit, Covered
  <2>2. CASE DeleteCoupon
    <3>1. ~coupon'.exists
      BY <2>2 DEF IInv, RowsTyped, CatalogueTyped
    <3>2. CouponOrders' = {}
      <4> SUFFICES ASSUME NEW a \in Attempts, Placed(a)', order'[a].coupon
                   PROVE  FALSE
        BY DEF CouponOrders
      <4>1. Placed(a)
        BY <1>5
      <4>2. order[a] \in Rows /\ order'[a] = [order[a] EXCEPT !.coupon = FALSE]
        BY <2>2, <4>1 DEF Placed, IInv, RowsTyped
      <4> QED BY <4>2 DEF Rows
    <3> QED BY <1>3, <2>1, <3>1, <3>2, CountStays
  <2>3. CASE ~DeleteCoupon
    <3>1. CouponOrders' = CouponOrders /\ coupon'.exists = coupon.exists
      <4>1. CASE order' = order
        BY <2>3, <4>1 DEF CouponOrders, Placed, IInv, RowsTyped, CatalogueTyped
      <4>2. ASSUME NEW c \in Attempts, Cancel(c)
            PROVE  CouponOrders' = CouponOrders /\ coupon' = coupon
        <5>1. order[c] \in Rows /\ order'[c] = [order[c] EXCEPT !.status = "CANCELLED"]
              /\ \A b \in Attempts \ {c} : order'[b] = order[b]
          BY <4>2 DEF Placed, IInv, RowsTyped
        <5>2. order'[c] # None /\ order'[c].coupon = order[c].coupon /\ Placed(c)
          BY <4>2, <5>1 DEF Rows, None
        <5>3. \A a \in Attempts : (Placed(a)' /\ order'[a].coupon) <=> (Placed(a) /\ order[a].coupon)
          BY <5>1, <5>2 DEF Placed
        <5> QED BY <4>2, <5>3 DEF CouponOrders
      <4> QED BY <2>3, <4>1, <4>2
    <3>2. \A v \in Recorders' : coupon'.exists => req'[v].a \in CouponOrders'
      BY <1>1, <2>1, <3>1 DEF OrdersCounted
    <3>3. coupon'.exists \/ CouponOrders' = {}
      BY <2>1, <3>1 DEF OrdersCounted
    <3> QED BY <1>3, <2>1, <3>1, <3>2, <3>3, CountStays
  <2> QED BY <2>2, <2>3
<1> QED BY <1>2, <1>3, <1>4, <1>6, <1>7, StockStays, CouponStays, UsesStay DEF Covered

LEMMA NextCovered == IInv /\ Covered /\ [Next]_vars => Covered'
<1> SUFFICES ASSUME IInv, Covered, [Next]_vars PROVE Covered'
  OBVIOUS
<1>1. CASE UNCHANGED vars
  BY <1>1 DEF vars, rows, Covered, StockCovered, CouponCovered, UsesCovered, StockReaders,
              CouponReaders, UseReaders, UsesBy, UsersOrders, Placed, Overlap, Left, Wanted,
              OrdersCounted, CouponOrders, Recorders
<1>2. ASSUME NEW w \in Workers, NEW a \in Attempts, Create(w, a) PROVE Covered'
  <2> DEFINE job == [at |-> "validate", a |-> a, discount |-> 0, tax |-> 0, fee |-> 0]
  <2>1. req[w].at # "record" /\ Become(w, job) /\ UNCHANGED <<rows, order, dead>>
    BY <1>2 DEF Create, Start, At, Running
  <2>2. job.at = "validate"
    OBVIOUS
  <2> HIDE DEF job
  <2> QED BY <2>1, <2>2, QuietCovered
<1>3. ASSUME NEW w \in Workers, Step(w) PROVE Covered'
  <2>1. CASE Validate(w)
    <3>1. req[w] \in Jobs /\ req[w].at # "record" /\ UNCHANGED <<rows, order, dead>>
      BY <2>1, AtJob DEF Validate, At, Running
    <3>2. CASE End(w)
      BY <3>1, <3>2, QuietCovered DEF End, Idle
    <3>3. CASE Go(w, "goods")
      <4>1. [req[w] EXCEPT !.at = "goods"].at = "goods"
        BY <3>1 DEF Jobs
      <4> QED BY <3>1, <3>3, <4>1, QuietCovered DEF Go
    <3> QED BY <2>1, <3>2, <3>3 DEF Validate
  <2>2. CASE ReadSettings(w)
    <3> DEFINE s == IF req[w].a \in OnWallet THEN "debit" ELSE "insert"
               job == [req[w] EXCEPT !.tax = settings.tax, !.fee = settings.fee, !.at = s]
    <3>1. req[w] \in Jobs /\ req[w].at = "price"
      BY <2>2, AtJob DEF ReadSettings, At, Running
    <3>2. job.at = s /\ job.a = req[w].a /\ s \in Compared
      BY <3>1 DEF Jobs, Compared
    <3>3. Become(w, job) /\ UNCHANGED <<rows, order, dead>>
      BY <2>2 DEF ReadSettings
    <3> HIDE DEF s, job
    <3> QED BY <3>1, <3>2, <3>3, QuietCovered DEF Compared
  <2>3. CASE Debit(w)
    <3>1. req[w] \in Jobs /\ req[w].at = "debit" /\ UNCHANGED <<rows, order, dead>>
      BY <2>3, AtJob DEF Debit, At, Running
    <3>2. CASE End(w)
      BY <3>1, <3>2, QuietCovered DEF End, Idle
    <3>3. CASE Go(w, "insert")
      <4> DEFINE job == [req[w] EXCEPT !.at = "insert"]
      <4>1. job.at = "insert" /\ job.a = req[w].a
        BY <3>1 DEF Jobs
      <4>2. Become(w, job)
        BY <3>3 DEF Go
      <4> HIDE DEF job
      <4> QED BY <3>1, <4>1, <4>2, QuietCovered DEF Compared
    <3> QED BY <2>3, <3>2, <3>3 DEF Debit
  <2> QED BY <1>3, <2>1, <2>2, <2>3, ReadGoodsCovered, ReadCouponCovered, CountUsesCovered,
             InsertCovered, RecordCovered DEF Step
<1>4. ASSUME NEW w \in Workers, Crash(w) PROVE Covered'
  BY <1>4, CrashCovered
<1> QED BY <1>1, <1>2, <1>3, <1>4, EditsCovered DEF Next

LEMMA LimitInvariant == Spec => [](IInv /\ Covered)
BY InitIInv, NextIInv, InitCovered, NextCovered, PTL DEF Spec

(* The stock of a product is oversold by no more than what the requests      *)
(* under way beside one another may take of it, and what an order repeats on *)
(* lines of its own: one comparison per line is all the code makes.          *)
THEOREM StockKept == Spec => []StockLimit
<1>1. IInv /\ Covered => StockLimit
  <2> SUFFICES ASSUME IInv, Covered, NEW g \in Goods
               PROVE  Left(g) >= 0
    BY DEF StockLimit, Left
  <2>1. Left(g) \in Int /\ Wanted(g) \in Nat /\ StockCovered(g)
    BY Numbers DEF Left, Covered
  <2>2. ASSUME NEW w \in StockReaders(g),
               Left(g) + MaxUnits >= Wanted(g) + Lines[req[w].a][g].total
        PROVE  Left(g) >= 0
    <3>1. StockReaders(g) \in SUBSET Workers /\ {w} \in SUBSET StockReaders(g)
      BY DEF StockReaders
    <3>2. Cardinality(StockReaders(g)) >= 1 /\ Cardinality(StockReaders(g)) \in Nat
      BY <3>1, Count, Fewer, FS_Singleton
    <3>3. MaxUnits \in Nat /\ Lines[req[w].a][g].total \in Nat
      BY Numbers, AttemptsAreKnown DEF StockReaders, AttemptsAreKnown
    <3>4. MaxUnits <= Wanted(g)
      <4>1. 1 * MaxUnits <= Cardinality(StockReaders(g)) * MaxUnits
        BY <3>2, <3>3, Times
      <4> QED BY <3>3, <4>1 DEF Wanted
    <3> QED BY <2>1, <2>2, <3>3, <3>4
  <2> QED BY <2>1, <2>2 DEF StockCovered
<1> QED BY <1>1, LimitInvariant, PTL

(* The orders that carry a coupon, those left out whose request died before  *)
(* it recorded the use, and the orders of one customer exceed their limits   *)
(* by no more than the requests that overlap, whatever is edited meanwhile.  *)
THEOREM CouponKept == Spec => []CouponLimits
<1>1. IInv /\ Covered => CouponLimits
  <2> SUFFICES ASSUME IInv, Covered
               PROVE  CouponLimits
    OBVIOUS
  <2>1. Cardinality(CouponOrders \ dead) <= coupon.usageLimit + Overlap
    <3>1. coupon.usedCount \in Int /\ coupon.usageLimit \in Nat
      BY NumbersAreNat DEF IInv, RowsTyped, CatalogueTyped, NumbersAreNat
    <3>2. CouponReaders \in SUBSET Workers /\ Recorders \in SUBSET CouponReaders
      BY DEF CouponReaders, Recorders
    <3>3. /\ Cardinality(Recorders) <= Cardinality(CouponReaders)
          /\ Cardinality(Recorders) \in Nat /\ Cardinality(CouponReaders) \in Nat
      BY <3>2, Count, Fewer
    <3>4. Cardinality(CouponOrders \ dead) \in Nat
      BY FS_CardinalityType DEF Covered, OrdersCounted
    <3>5. Cardinality(CouponOrders \ dead) <= coupon.usedCount + Cardinality(Recorders)
      BY DEF Covered, OrdersCounted
    <3> QED BY <3>1, <3>3, <3>4, <3>5, Overlaps DEF Covered, CouponCovered
  <2>2. ASSUME NEW a \in Attempts
        PROVE  Cardinality(UsesBy(Customer[a])) <= PerUser + Overlap
    <3> DEFINE u == Customer[a]
    <3>1. UsesCovered(u) /\ UseReaders(u) \in SUBSET Workers /\ PerUser \in Nat
      BY NumbersAreNat DEF Covered, UseReaders, NumbersAreNat
    <3>2. Cardinality(UsesBy(u)) \in Nat
      BY <3>1, FS_CardinalityType DEF UsesCovered
    <3> QED BY <3>1, <3>2, Count, Overlaps DEF UsesCovered
  <2> QED BY <2>1, <2>2 DEF CouponLimits
<1> QED BY <1>1, LimitInvariant, PTL
=============================================================================
