-------------------------- MODULE FoodOrdersProofs --------------------------
(* FoodOrders for any orders, riders, kinds of request and crashes: what     *)
(* holds although nothing is locked, and what holds when no two requests on  *)
(* one order overlap.                                                        *)
EXTENDS FoodOrders, Sequences, FiniteSetTheorems, TLAPS

(* A request acts on what it has read, which may be stale; but history rows, *)
(* charges and placements are never taken back, so what it knows of them     *)
(* stays true (JobsSound), and that is enough for the properties.            *)
IInv == TypeOK /\ RowsAgree /\ JobsSound /\ HistoryGrounded /\ RefundGrounded

LEMMA InitIInv == Init => IInv
BY NoneIsNoPartner DEF Init, IInv, TypeOK, PoolInit, PoolTypeOK, PartnerRows, Unplaced, OrderRows,
   PaymentStatuses, Statuses, Idle, RowsAgree, Placed, JobsSound, HistoryGrounded, RefundGrounded

(***************************************************************************)
(* Types of jobs and rows.                                                 *)
(***************************************************************************)

(* A job made from the order as it is now is a job.                          *)
LEMMA JobType ==
  ASSUME TypeOK, NEW o \in Orders, NEW stage \in Stages, NEW to \in Statuses \cup {None},
         NEW p \in Partners \cup {None}, NEW x \in Partners \cup {None}
  PROVE  /\ Job(stage, o, to, p, x) \in Jobs
         /\ Job(stage, o, to, p, x).at = stage
         /\ Job(stage, o, to, p, x).o = o
         /\ Job(stage, o, to, p, x).to = to
         /\ Job(stage, o, to, p, x).seen = order[o]
         /\ Job(stage, o, to, p, x).partner = p
         /\ Job(stage, o, to, p, x).excluded = x
BY DEF TypeOK, Job, Jobs

LEMMA ReadJobType ==
  ASSUME TypeOK, NEW o \in Orders, NEW stage \in Stages, NEW to \in Statuses
  PROVE  /\ Job(stage, o, to, None, None) \in Jobs
         /\ Job(stage, o, to, None, None).at = stage
         /\ Job(stage, o, to, None, None).o = o
         /\ Job(stage, o, to, None, None).to = to
         /\ Job(stage, o, to, None, None).seen = order[o]
BY DEF TypeOK, Job, Jobs

(* A job at work is a job, of an order that has a row.                       *)
LEMMA AtJob ==
  ASSUME IInv, NEW w \in Workers, NEW stage \in Stages, At(w, stage)
  PROVE  /\ req[w] \in Jobs /\ req[w] # Idle /\ req[w].at = stage
         /\ req[w].o \in Orders /\ order[req[w].o] \in OrderRows
         /\ JobSound(req[w])
BY DEF IInv, TypeOK, At, Jobs, JobsSound

(* The job a request has after Go.                                           *)
Moved(r, stage) == IF stage = "idle" THEN Idle ELSE [r EXCEPT !.at = stage]

LEMMA MovedType ==
  ASSUME NEW r \in Jobs, NEW stage \in Stages \cup {"idle"}
  PROVE  /\ Moved(r, stage) \in Jobs \cup {Idle}
         /\ Moved(r, stage) # Idle =>
              /\ Moved(r, stage) \in Jobs
              /\ stage \in Stages
              /\ Moved(r, stage).at = stage /\ Moved(r, stage).o = r.o
              /\ Moved(r, stage).to = r.to /\ Moved(r, stage).seen = r.seen
              /\ Moved(r, stage).partner = r.partner
              /\ Moved(r, stage).excluded = r.excluded
              /\ Moved(r, stage).ranked = r.ranked
BY DEF Moved, Jobs

LEMMA GoMoves ==
  ASSUME IInv, NEW w \in Workers, NEW stage, Go(w, stage)
  PROVE  req' = [req EXCEPT ![w] = Moved(req[w], stage)]
BY DEF Go, Moved, IInv, TypeOK

(* The single columns of an order that the service writes.                   *)
LEMMA RowType ==
  ASSUME NEW row \in OrderRows
  PROVE  /\ \A s \in Statuses : /\ [row EXCEPT !.status = s] \in OrderRows
                                /\ [row EXCEPT !.status = s].status = s
         /\ \A s \in PaymentStatuses : /\ [row EXCEPT !.paid = s] \in OrderRows
                                       /\ [row EXCEPT !.paid = s].status = row.status
         /\ \A p \in Partners \cup {None} : /\ [row EXCEPT !.partner = p] \in OrderRows
                                            /\ [row EXCEPT !.partner = p].status = row.status
         /\ \A a \in {"NONE", "PENDING", "ACCEPTED"} :
               /\ [row EXCEPT !.acceptance = a] \in OrderRows
               /\ [row EXCEPT !.acceptance = a].status = row.status
BY DEF OrderRows

(* The stages that follow a write and a refund.                              *)
LEMMA AfterStages ==
  ASSUME NEW r \in Jobs
  PROVE  /\ AfterRefund(r) \in {"release", "idle"}
         /\ AfterWrite(r) \in {"refundPayment", "release", "idle", "find", "loyalty"}
         /\ AfterWrite(r) = "refundPayment" => r.to = "CANCELLED"
BY DEF AfterRefund, AfterWrite

(* The operations on the pool keep its type.                                 *)
LEMMA PoolType ==
  ASSUME PoolTypeOK, NEW p \in Partners
  PROVE  /\ Claimed(p) \in [Partners -> PartnerRows]
         /\ Released(p) \in [Partners -> PartnerRows]
         /\ MarkedUnavailable(p) \in [Partners -> PartnerRows]
<1>1. \A b \in BOOLEAN : [pool[p] EXCEPT !.isAvailable = b] \in PartnerRows
  BY DEF PoolTypeOK, PartnerRows
<1> QED BY <1>1 DEF PoolTypeOK, Claimed, Released, MarkedUnavailable

(***************************************************************************)
(* Steps that write no status, no history and no debit or credit.          *)
(***************************************************************************)

(* Such a step keeps the invariant if the job it leaves is sound.            *)
LEMMA QuietStep ==
  ASSUME IInv, TypeOK', UNCHANGED <<history, charged, refunded>>,
         \A o \in Orders : order'[o].status = order[o].status,
         NEW w \in Workers, NEW job \in Jobs \cup {Idle}, job # Idle => JobSound(job),
         req' = [req EXCEPT ![w] = job]
  PROVE  IInv'
<1>1. ASSUME NEW r \in Jobs, JobSound(r) PROVE JobSound(r)'
  <2>1. r.o \in Orders
    BY DEF Jobs
  <2> QED BY <1>1, <2>1 DEF JobSound, Placed
<1>2. ASSUME NEW v \in Workers, req'[v] # Idle PROVE JobSound(req[v])'
  <2>1. PICK r \in Jobs : r = req'[v] /\ JobSound(r)
    BY <1>2 DEF IInv, TypeOK, JobsSound
  <2>2. JobSound(r)'
    BY <1>1, <2>1
  <2> QED BY <2>1, <2>2 DEF JobSound, Placed
<1>3. RowsAgree' /\ HistoryGrounded' /\ RefundGrounded'
  BY DEF IInv, RowsAgree, Placed, HistoryGrounded, RefundGrounded
<1> QED BY <1>2, <1>3 DEF IInv, JobsSound

(* Requests that only read: they leave a new job.                            *)
LEMMA ReadIInv ==
  ASSUME IInv, NEW w \in Workers, NEW job \in Jobs \cup {Idle}, Begin(w, job),
         job # Idle => JobSound(job), UNCHANGED <<pool, order, history, books, crashes>>
  PROVE  IInv'
<1>1. TypeOK'
  BY DEF IInv, TypeOK, PoolTypeOK, Begin, books
<1> QED BY <1>1, QuietStep DEF Begin, books

LEMMA ArriveIInv ==
  ASSUME IInv, NEW w \in Workers, Arrive(w), ~ \E o \in Orders : Create(w, o)
  PROVE  IInv'
<1> USE DEF IInv
<1>1. PICK o \in Orders :
        \/ Pay(w, o) \/ CancelRequest(w, o)
        \/ \E to \in Statuses : StatusRequest(w, o, to)
        \/ \E p \in Partners : \/ \E to \in RiderStatuses : RiderStatusRequest(w, o, p, to)
                               \/ AssignRequest(w, o, p)
                               \/ AcceptRequest(w, o, p)
                               \/ RejectRequest(w, o, p)
  BY DEF Arrive
<1>2. CASE Pay(w, o)
  <2> DEFINE job == Job("payOrder", o, None, None, None)
  <2>1. job \in Jobs /\ job.at = "payOrder"
    BY JobType DEF Stages
  <2>2. JobSound(job)
    BY <2>1 DEF JobSound
  <2>3. TypeOK'
    BY <1>2, <2>1 DEF Pay, Begin, TypeOK, PoolTypeOK, PaymentStatuses
  <2> QED BY <1>2, <2>1, <2>2, <2>3, QuietStep DEF Pay, Begin
<1>3. CASE CancelRequest(w, o)
  <2> DEFINE job == Job("reread", o, "CANCELLED", None, None)
  <2>1. job \in Jobs /\ job.at = "reread" /\ job.o = o /\ job.to = "CANCELLED"
    BY JobType DEF Stages, Statuses
  <2>2. JobSound(job)
    BY <1>3, <2>1 DEF JobSound, CancelRequest, Placed, Statuses
  <2> QED BY <1>3, <2>1, <2>2, ReadIInv, Zenon DEF CancelRequest
<1>4. ASSUME NEW to \in Statuses, StatusRequest(w, o, to) PROVE IInv'
  <2> DEFINE job == Job("write", o, to, None, None)
  <2>1. job \in Jobs /\ job.at = "write" /\ job.o = o /\ job.to = to /\ job.seen = order[o]
    BY JobType DEF Stages
  <2>2. JobSound(job)
    BY <1>4, <2>1 DEF JobSound, StatusRequest, RowsAgree
  <2> QED BY <1>4, <2>1, <2>2, ReadIInv DEF StatusRequest
<1>5. ASSUME NEW to \in Statuses, \E p \in Partners : RiderStatusRequest(w, o, p, to)
      PROVE  IInv'
  <2> DEFINE job == Job("reread", o, to, None, None)
  <2>1. job \in Jobs /\ job.at = "reread" /\ job.o = o /\ job.to = to
    BY JobType DEF Stages
  <2>2. JobSound(job)
    BY <1>5, <2>1 DEF JobSound, RiderStatusRequest
  <2> QED BY <1>5, <2>1, <2>2, ReadIInv DEF RiderStatusRequest
<1>6. ASSUME NEW p \in Partners, AssignRequest(w, o, p) PROVE IInv'
  <2> DEFINE job == Job("vet", o, None, p, None)
  <2>1. job \in Jobs /\ job.at = "vet" /\ job.partner = p /\ job.excluded = None
    BY JobType DEF Stages
  <2>2. JobSound(job)
    BY <2>1 DEF JobSound
  <2> QED BY <1>6, <2>1, <2>2, ReadIInv DEF AssignRequest
<1>7. ASSUME NEW p \in Partners, AcceptRequest(w, o, p) PROVE IInv'
  <2> DEFINE job == Job("accept", o, None, p, None)
  <2>1. job \in Jobs /\ job.at = "accept"
    BY JobType DEF Stages
  <2>2. JobSound(job)
    BY <2>1 DEF JobSound
  <2> QED BY <1>7, <2>1, <2>2, ReadIInv DEF AcceptRequest
<1>8. ASSUME NEW p \in Partners, RejectRequest(w, o, p) PROVE IInv'
  <2> DEFINE job == Job("free", o, None, p, p)
  <2>1. job \in Jobs /\ job.at = "free"
    BY JobType DEF Stages
  <2>2. JobSound(job)
    BY <2>1 DEF JobSound
  <2> QED BY <1>8, <2>1, <2>2, ReadIInv DEF RejectRequest
<1>9. RiderStatuses \subseteq Statuses
  BY DEF RiderStatuses, Statuses
<1> QED BY <1>1, <1>2, <1>3, <1>4, <1>5, <1>6, <1>7, <1>8, <1>9

(* Create charges the order before there is one.                             *)
LEMMA CreateIInv ==
  ASSUME IInv, NEW w \in Workers, NEW o \in Orders, Create(w, o)
  PROVE  IInv'
<1> DEFINE job == Job("insert", o, None, None, None)
<1>1. job \in Jobs /\ job.at = "insert" /\ job.o = o
  BY JobType DEF IInv, Stages
<1>2. req' = [req EXCEPT ![w] = job]
  BY DEF Create, Begin
<1>3. TypeOK'
  BY <1>1, <1>2 DEF IInv, Create, TypeOK, PoolTypeOK
<1>4. \A q \in Orders : /\ charged[q] = 1 => charged'[q] = 1
                        /\ Method[o] = "WALLET" => charged'[o] = 1
  BY DEF IInv, TypeOK, Create
<1>5. ASSUME NEW v \in Workers, req'[v] # Idle PROVE JobSound(req[v])'
  <2>1. CASE v = w
    BY <1>1, <1>2, <1>4, <2>1 DEF IInv, TypeOK, JobSound
  <2>2. CASE v # w
    <3>1. req'[v] = req[v] /\ req[v] \in Jobs /\ JobSound(req[v])
      BY <1>2, <1>5, <2>2 DEF IInv, TypeOK, JobsSound
    <3>2. req[v].o \in Orders
      BY <3>1 DEF Jobs
    <3> QED BY <1>4, <3>1, <3>2 DEF JobSound, Placed, Create
  <2> QED BY <2>1, <2>2
<1>6. RowsAgree' /\ HistoryGrounded' /\ RefundGrounded'
  BY <1>4 DEF IInv, RowsAgree, Placed, HistoryGrounded, RefundGrounded, Create
<1> QED BY <1>3, <1>5, <1>6 DEF IInv, JobsSound

(***************************************************************************)
(* Steps of a request under way.                                           *)
(***************************************************************************)

(* A step that goes on to a stage whose knowledge it has.                    *)
LEMMA GoIInv ==
  ASSUME IInv, NEW w \in Workers, req[w] # Idle, NEW stage \in Stages \cup {"idle"},
         Go(w, stage), UNCHANGED <<history, charged, refunded, crashes>>,
         order' \in [Orders -> OrderRows],
         \A o \in Orders : order'[o].status = order[o].status,
         payment' \in [Orders -> {"none", "FAILED"} \cup PaymentStatuses],
         points' \in [Orders -> Nat], pool' \in [Partners -> PartnerRows],
         stage = "idle" \/ JobSound([req[w] EXCEPT !.at = stage])
  PROVE  IInv'
<1> DEFINE job == Moved(req[w], stage)
<1>1. req' = [req EXCEPT ![w] = job]
  BY GoMoves
<1>2. job \in Jobs \cup {Idle}
  BY MovedType DEF IInv, TypeOK
<1>3. job # Idle => JobSound(job)
  BY DEF Moved
<1>4. TypeOK'
  BY <1>1, <1>2 DEF IInv, TypeOK, PoolTypeOK
<1> QED BY <1>1, <1>2, <1>3, <1>4, QuietStep

(* What moves to a stage that asks for no knowledge is sound.                *)
LEMMA FreeStage ==
  ASSUME NEW r \in Jobs,
         NEW stage \in {"payment", "markPaid", "find", "release", "loyalty", "clear"}
  PROVE  JobSound([r EXCEPT !.at = stage])
<1>1. [r EXCEPT !.at = stage].at = stage
  BY DEF Jobs
<1> QED BY <1>1 DEF JobSound

LEMMA PaymentStepIInv ==
  ASSUME IInv, NEW w \in Workers,
         CreatePayment(w) \/ GatewayFails(w) \/ MarkOrderPaid(w) \/ PayOrder(w)
  PROVE  IInv'
<1>1. /\ req[w] \in Jobs /\ req[w] # Idle /\ req[w].o \in Orders
      /\ order[req[w].o] \in OrderRows
  BY AtJob DEF Stages, CreatePayment, GatewayFails, MarkOrderPaid, PayOrder
<1> DEFINE paid == [order[req[w].o] EXCEPT !.paid = "PAID"]
<1>2. paid \in OrderRows /\ paid.status = order[req[w].o].status
  BY <1>1, RowType DEF PaymentStatuses
<1>3. CASE CreatePayment(w)
  <2>1. CASE Method[req[w].o] = "WALLET"
    <3>1. Go(w, "markPaid")
      BY <1>3, <2>1 DEF CreatePayment
    <3> QED BY <1>1, <1>3, <2>1, <3>1, FreeStage, GoIInv
        DEF CreatePayment, IInv, TypeOK, PoolTypeOK, PaymentStatuses, Stages
  <2>2. CASE Method[req[w].o] # "WALLET"
    <3>1. Go(w, "idle")
      BY <1>3, <2>2 DEF CreatePayment
    <3> QED BY <1>1, <1>3, <2>2, <3>1, GoIInv
        DEF CreatePayment, IInv, TypeOK, PoolTypeOK, PaymentStatuses
  <2> QED BY <2>1, <2>2
<1>4. CASE GatewayFails(w)
  BY <1>1, <1>4, GoIInv DEF GatewayFails, End, books, IInv, TypeOK, PoolTypeOK
<1>5. CASE MarkOrderPaid(w) \/ PayOrder(w)
  <2>1. order' = [order EXCEPT ![req[w].o] = paid]
    BY <1>5 DEF MarkOrderPaid, PayOrder
  <2>2. /\ order' \in [Orders -> OrderRows]
        /\ \A o \in Orders : order'[o].status = order[o].status
    BY <1>1, <1>2, <2>1 DEF IInv, TypeOK
  <2> QED BY <1>1, <1>5, <2>2, GoIInv
      DEF MarkOrderPaid, PayOrder, End, books, IInv, TypeOK, PoolTypeOK
<1> QED BY <1>3, <1>4, <1>5, Zenon

(* The second read of a cancellation or of a rider's status change.          *)
LEMMA RereadIInv ==
  ASSUME IInv, NEW w \in Workers, Reread(w)
  PROVE  IInv'
<1>1. /\ req[w] \in Jobs /\ req[w] # Idle /\ req[w].at = "reread" /\ req[w].o \in Orders
      /\ JobSound(req[w])
  BY AtJob DEF Stages, Reread
<1>2. req[w].to \in Statuses /\ Placed(req[w].o)
  BY <1>1 DEF JobSound
<1>3. CASE req[w].to \in Allowed[order[req[w].o].status]
  <2> DEFINE job == Job("write", req[w].o, req[w].to, None, None)
  <2>1. job \in Jobs /\ job.at = "write" /\ job.o = req[w].o /\ job.to = req[w].to
        /\ job.seen = order[req[w].o]
    BY <1>1, <1>2, ReadJobType DEF IInv, Stages
  <2>2. JobSound(job)
    BY <1>1, <1>2, <1>3, <2>1 DEF JobSound, IInv, RowsAgree
  <2> QED BY <1>3, <2>1, <2>2, ReadIInv DEF Reread
<1>4. CASE req[w].to \notin Allowed[order[req[w].o].status]
  BY <1>4, ReadIInv DEF Reread
<1> QED BY <1>3, <1>4, Zenon

(* The refund, up to the credit of the wallet.                               *)
LEMMA RefundStepIInv ==
  ASSUME IInv, NEW w \in Workers, RefundPayment(w) \/ RefundOrder(w)
  PROVE  IInv'
<1>1. /\ req[w] \in Jobs /\ req[w] # Idle /\ req[w].o \in Orders
      /\ order[req[w].o] \in OrderRows /\ JobSound(req[w])
      /\ req[w].at \in {"refundPayment", "refundOrder"}
  BY AtJob DEF Stages, RefundPayment, RefundOrder
<1>2. "CANCELLED" \in history[req[w].o]
  BY <1>1, Zenon DEF JobSound
<1>3. CASE RefundPayment(w)
  <2>1. JobSound([req[w] EXCEPT !.at = "refundOrder"])
    <3>1. /\ [req[w] EXCEPT !.at = "refundOrder"].at = "refundOrder"
          /\ [req[w] EXCEPT !.at = "refundOrder"].o = req[w].o
      BY <1>1 DEF Jobs
    <3> QED BY <1>2, <3>1 DEF JobSound
  <2> QED BY <1>1, <1>3, <2>1, GoIInv
      DEF RefundPayment, Stages, IInv, TypeOK, PoolTypeOK, PaymentStatuses
<1>4. CASE RefundOrder(w)
  <2> DEFINE row == [order[req[w].o] EXCEPT !.paid = "REFUNDED"]
  <2>1. row \in OrderRows /\ row.status = order[req[w].o].status
    BY <1>1, RowType DEF PaymentStatuses
  <2>2. order' = [order EXCEPT ![req[w].o] = row]
    BY <1>4 DEF RefundOrder
  <2>3. /\ order' \in [Orders -> OrderRows]
        /\ \A o \in Orders : order'[o].status = order[o].status
    BY <1>1, <2>1, <2>2 DEF IInv, TypeOK
  <2>4. CASE Method[req[w].o] = "WALLET"
    <3>1. JobSound([req[w] EXCEPT !.at = "credit"])
      <4>1. /\ [req[w] EXCEPT !.at = "credit"].at = "credit"
            /\ [req[w] EXCEPT !.at = "credit"].o = req[w].o
        BY <1>1 DEF Jobs
      <4> QED BY <1>2, <2>4, <4>1 DEF JobSound
    <3> QED BY <1>1, <1>4, <2>3, <2>4, <3>1, GoIInv
        DEF RefundOrder, Stages, books, IInv, TypeOK, PoolTypeOK
  <2>5. CASE Method[req[w].o] # "WALLET"
    <3>1. AfterRefund(req[w]) \in {"release", "idle"}
      BY <1>1, AfterStages
    <3>2. AfterRefund(req[w]) \in Stages \cup {"idle"}
      BY <3>1 DEF Stages
    <3>3. Go(w, AfterRefund(req[w]))
      BY <1>4, <2>5 DEF RefundOrder
    <3>4. AfterRefund(req[w]) = "idle" \/ JobSound([req[w] EXCEPT !.at = AfterRefund(req[w])])
      BY <1>1, <3>1, FreeStage
    <3> QED BY <1>1, <1>4, <2>3, <3>2, <3>3, <3>4, GoIInv
        DEF RefundOrder, books, IInv, TypeOK, PoolTypeOK
  <2> QED BY <2>4, <2>5
<1> QED BY <1>3, <1>4, Zenon

(* Releasing the rider and awarding the points.                              *)
LEMMA CompletionIInv ==
  ASSUME IInv, NEW w \in Workers, ReleaseRider(w) \/ AwardPoints(w)
  PROVE  IInv'
<1>1. /\ req[w] \in Jobs /\ req[w] # Idle /\ req[w].o \in Orders
  BY AtJob DEF Stages, ReleaseRider, AwardPoints
<1>2. CASE ReleaseRider(w)
  <2>1. pool' \in [Partners -> PartnerRows]
    BY <1>2, PoolType DEF ReleaseRider, IInv, TypeOK, PoolTypeOK, Released, Exists
  <2>2. CASE req[w].to = "DELIVERED"
    BY <1>1, <1>2, <2>1, <2>2, FreeStage, GoIInv DEF ReleaseRider, Stages, books, IInv, TypeOK
  <2>3. CASE req[w].to # "DELIVERED"
    BY <1>1, <1>2, <2>1, <2>3, GoIInv DEF ReleaseRider, books, IInv, TypeOK
  <2> QED BY <2>2, <2>3
<1>3. CASE AwardPoints(w)
  <2>1. points' \in [Orders -> Nat]
    <3>1. PICK o \in Orders : points' = [points EXCEPT ![o] = points[o] + 1]
      BY <1>1, <1>3 DEF AwardPoints
    <3>2. points \in [Orders -> Nat] /\ points[o] + 1 \in Nat
      BY DEF IInv, TypeOK
    <3> QED BY <3>1, <3>2
  <2>2. /\ Go(w, "idle")
        /\ UNCHANGED <<pool, order, history, payment, charged, refunded, crashes>>
    BY <1>3 DEF AwardPoints, End
  <2> QED BY <1>1, <2>1, <2>2, GoIInv DEF IInv, TypeOK, PoolTypeOK
<1> QED BY <1>2, <1>3

(* The riders tryAssign finds never include the one who rejected.            *)
LEMMA FindIInv ==
  ASSUME IInv, NEW w \in Workers, FindRiders(w)
  PROVE  IInv'
<1>1. /\ req[w] \in Jobs /\ req[w] # Idle /\ req[w].o \in Orders
  BY AtJob DEF Stages, FindRiders
<1> DEFINE found == Candidates(req[w].excluded)
           job == [[req[w] EXCEPT !.ranked = found] EXCEPT !.at = "claim"]
<1>2. found \in SUBSET Partners /\ req[w].excluded \notin found
  BY DEF Candidates
<1>3. job \in Jobs /\ job.at = "claim" /\ job.excluded = req[w].excluded /\ job.ranked = found
  <2>1. [req[w] EXCEPT !.ranked = found] \in Jobs
    BY <1>1, <1>2 DEF Jobs
  <2>2. /\ [req[w] EXCEPT !.ranked = found].excluded = req[w].excluded
        /\ [req[w] EXCEPT !.ranked = found].ranked = found
    BY <1>1 DEF Jobs
  <2> QED BY <2>1, <2>2 DEF Jobs, Stages
<1>4. JobSound(job)
  BY <1>2, <1>3 DEF JobSound
<1>5. CASE found = {}
  <2>1. Begin(w, Idle)
    BY <1>5 DEF FindRiders
  <2> QED BY <2>1, ReadIInv DEF FindRiders
<1>6. CASE found # {}
  <2>1. Begin(w, job)
    BY <1>6 DEF FindRiders
  <2> QED BY <1>3, <1>4, <2>1, ReadIInv DEF FindRiders
<1> QED BY <1>5, <1>6

(* A claim is won for one of the ranked riders, or lost and the next tried.  *)
LEMMA ClaimIInv ==
  ASSUME IInv, NEW w \in Workers, NEW p \in Partners, ClaimRider(w, p)
  PROVE  IInv'
<1>1. /\ req[w] \in Jobs /\ req[w] # Idle /\ req[w].o \in Orders
      /\ JobSound(req[w]) /\ req[w].at = "claim"
  BY AtJob DEF Stages, ClaimRider
<1>2. req[w].excluded \notin req[w].ranked /\ p \in req[w].ranked
  BY <1>1 DEF JobSound, ClaimRider
<1> DEFINE rest == req[w].ranked \ {p}
           won == [[req[w] EXCEPT !.partner = p] EXCEPT !.at = "attach"]
           lost == [req[w] EXCEPT !.ranked = rest]
<1>3. won \in Jobs /\ won.at = "attach" /\ won.partner = p /\ won.excluded = req[w].excluded
  <2>1. [req[w] EXCEPT !.partner = p] \in Jobs
    BY <1>1 DEF Jobs
  <2>2. /\ [req[w] EXCEPT !.partner = p].partner = p
        /\ [req[w] EXCEPT !.partner = p].excluded = req[w].excluded
    BY <1>1 DEF Jobs
  <2> QED BY <2>1, <2>2 DEF Jobs, Stages
<1>4. JobSound(won)
  BY <1>2, <1>3 DEF JobSound
<1>5. lost \in Jobs /\ lost.at = "claim" /\ lost.excluded = req[w].excluded /\ lost.ranked = rest
  BY <1>1 DEF Jobs
<1>6. JobSound(lost)
  BY <1>2, <1>5 DEF JobSound
<1>7. CASE ClaimWins(p)
  <2>1. pool' \in [Partners -> PartnerRows] /\ req' = [req EXCEPT ![w] = won]
    BY <1>7, PoolType DEF ClaimRider, Begin, IInv, TypeOK
  <2>2. TypeOK'
    BY <1>3, <2>1 DEF ClaimRider, IInv, TypeOK, PoolTypeOK, books
  <2> QED BY <1>3, <1>4, <2>1, <2>2, QuietStep DEF ClaimRider, books
<1>8. CASE ~ClaimWins(p)
  <2>1. UNCHANGED <<pool, order, history, books, crashes>>
    BY <1>8 DEF ClaimRider
  <2>2. CASE rest = {}
    <3>1. Begin(w, Idle)
      BY <1>8, <2>2 DEF ClaimRider
    <3> QED BY <2>1, <3>1, ReadIInv
  <2>3. CASE rest # {}
    <3>1. Begin(w, lost)
      BY <1>8, <2>3 DEF ClaimRider
    <3> QED BY <1>5, <1>6, <2>1, <3>1, ReadIInv
  <2> QED BY <2>2, <2>3
<1> QED BY <1>7, <1>8

(* Steps that write the rider and the acceptance of an order.                *)
LEMMA AssignmentIInv ==
  ASSUME IInv, NEW w \in Workers, Attach(w) \/ Accept(w) \/ ClearAssignment(w)
  PROVE  IInv'
<1>1. /\ req[w] \in Jobs /\ req[w] # Idle /\ req[w].o \in Orders
      /\ order[req[w].o] \in OrderRows /\ JobSound(req[w])
  BY AtJob DEF Stages, Attach, Accept, ClearAssignment
<1> DEFINE row == order[req[w].o]
           Named(p, a) == [[row EXCEPT !.partner = p] EXCEPT !.acceptance = a]
<1>2. ASSUME NEW p \in Partners \cup {None}, NEW a \in {"NONE", "PENDING", "ACCEPTED"}
      PROVE  Named(p, a) \in OrderRows /\ Named(p, a).status = row.status
  <2>1. row \in OrderRows
    BY <1>1
  <2>2. [row EXCEPT !.partner = p] \in OrderRows /\ [row EXCEPT !.partner = p].status = row.status
    BY <2>1, RowType
  <2> QED BY <2>2, RowType
<1>3. ASSUME NEW new \in OrderRows, new.status = row.status,
             order' = [order EXCEPT ![req[w].o] = new]
      PROVE  /\ order' \in [Orders -> OrderRows]
             /\ \A o \in Orders : order'[o].status = order[o].status
  BY <1>1, <1>3 DEF IInv, TypeOK
<1>4. CASE Attach(w)
  <2>1. CASE Exists(req[w].partner)
    <3>1. req[w].partner \in Partners
      BY <2>1 DEF Exists
    <3>2. order' = [order EXCEPT ![req[w].o] = Named(req[w].partner, "PENDING")]
      BY <1>4, <2>1 DEF Attach
    <3>3. /\ order' \in [Orders -> OrderRows]
          /\ \A o \in Orders : order'[o].status = order[o].status
      BY <1>2, <1>3, <3>1, <3>2, Zenon
    <3> QED BY <1>1, <1>4, <3>3, GoIInv, Zenon DEF Attach, End, books, IInv, TypeOK, PoolTypeOK
  <2>2. CASE ~Exists(req[w].partner)
    BY <1>1, <1>4, <2>2, GoIInv DEF Attach, End, books, IInv, TypeOK, PoolTypeOK
  <2> QED BY <2>1, <2>2
<1>5. CASE Accept(w)
  <2>1. order' = [order EXCEPT ![req[w].o] = [row EXCEPT !.acceptance = "ACCEPTED"]]
    BY <1>5 DEF Accept
  <2>2. /\ order' \in [Orders -> OrderRows]
        /\ \A o \in Orders : order'[o].status = order[o].status
    BY <1>1, <1>3, <2>1, RowType, Zenon
  <2> QED BY <1>1, <1>5, <2>2, GoIInv DEF Accept, End, books, IInv, TypeOK, PoolTypeOK
<1>6. CASE ClearAssignment(w)
  <2>1. order' = [order EXCEPT ![req[w].o] = Named(None, "NONE")]
    BY <1>6 DEF ClearAssignment
  <2>2. /\ order' \in [Orders -> OrderRows]
        /\ \A o \in Orders : order'[o].status = order[o].status
    BY <1>2, <1>3, <2>1, Zenon
  <2>3. PICK stage \in {"find", "idle"} : Go(w, stage)
    BY <1>6 DEF ClearAssignment
  <2>4. stage = "idle" \/ JobSound([req[w] EXCEPT !.at = stage])
    BY <1>1, FreeStage
  <2> QED BY <1>1, <1>6, <2>2, <2>3, <2>4, GoIInv, Zenon
      DEF ClearAssignment, Stages, books, IInv, TypeOK, PoolTypeOK
<1> QED BY <1>4, <1>5, <1>6, Zenon

(* Steps of a manual assignment and of a rejection on the pool.              *)
LEMMA PoolStepIInv ==
  ASSUME IInv, NEW w \in Workers, Vet(w) \/ Unassign(w) \/ Mark(w) \/ FreeRejecter(w)
  PROVE  IInv'
<1>1. /\ req[w] \in Jobs /\ req[w] # Idle /\ req[w].o \in Orders
      /\ JobSound(req[w]) /\ req[w].at \in {"vet", "unassign", "mark", "free"}
  BY AtJob DEF Stages, Vet, Unassign, Mark, FreeRejecter
<1>2. ASSUME req[w].at \in {"vet", "unassign", "mark"}, NEW stage \in {"unassign", "mark", "attach"}
      PROVE  JobSound([req[w] EXCEPT !.at = stage])
  <2>1. req[w].partner \in Partners /\ req[w].excluded = None
    BY <1>1, <1>2 DEF JobSound
  <2>2. /\ [req[w] EXCEPT !.at = stage].at = stage
        /\ [req[w] EXCEPT !.at = stage].partner = req[w].partner
        /\ [req[w] EXCEPT !.at = stage].excluded = req[w].excluded
    BY <1>1 DEF Jobs
  <2> QED BY <2>1, <2>2, NoneIsNoPartner DEF JobSound
<1>3. \A p : Released(p) \in [Partners -> PartnerRows]
  BY PoolType, Zenon DEF IInv, TypeOK, PoolTypeOK, Released, Exists
<1>4. \A p : MarkedUnavailable(p) \in [Partners -> PartnerRows]
  BY PoolType, Zenon DEF IInv, TypeOK, PoolTypeOK, MarkedUnavailable, Exists
<1>5. CASE Vet(w)
  <2>1. PICK stage \in {"idle", "mark", "unassign"} : Go(w, stage)
    BY <1>5 DEF Vet
  <2>2. stage = "idle" \/ JobSound([req[w] EXCEPT !.at = stage])
    BY <1>2, <1>5 DEF Vet, At
  <2> QED BY <1>1, <1>5, <2>1, <2>2, GoIInv DEF Vet, Stages, books, IInv, TypeOK, PoolTypeOK
<1>6. CASE Unassign(w)
  <2>1. JobSound([req[w] EXCEPT !.at = "mark"])
    BY <1>2, <1>6 DEF Unassign, At
  <2> QED BY <1>1, <1>3, <1>6, <2>1, GoIInv DEF Unassign, Stages, books, IInv, TypeOK
<1>7. CASE Mark(w)
  <2>1. JobSound([req[w] EXCEPT !.at = "attach"])
    BY <1>2, <1>7 DEF Mark, At
  <2> QED BY <1>1, <1>4, <1>7, <2>1, GoIInv DEF Mark, Stages, books, IInv, TypeOK
<1>8. CASE FreeRejecter(w)
  BY <1>1, <1>3, <1>8, FreeStage, GoIInv DEF FreeRejecter, Stages, books, IInv, TypeOK
<1> QED BY <1>5, <1>6, <1>7, <1>8

(***************************************************************************)
(* Steps that write the status, the history and the wallet's books.        *)
(***************************************************************************)

(* They only add: what a job knows it still knows.                           *)
LEMMA JobsKeep ==
  ASSUME IInv, NEW w \in Workers, NEW job \in Jobs \cup {Idle},
         req' = [req EXCEPT ![w] = job], job # Idle => JobSound(job)',
         \A o \in Orders : /\ history[o] \subseteq history'[o]
                           /\ Placed(o) => Placed(o)'
                           /\ charged[o] = 1 => charged'[o] = 1
  PROVE  JobsSound'
<1>1. ASSUME NEW r \in Jobs, JobSound(r) PROVE JobSound(r)'
  <2>1. r.o \in Orders
    BY DEF Jobs
  <2> QED BY <1>1, <2>1 DEF JobSound
<1>2. ASSUME NEW v \in Workers, req'[v] # Idle PROVE JobSound(req[v])'
  <2>1. CASE v = w
    <3>1. req'[v] = job
      BY <2>1 DEF IInv, TypeOK
    <3> QED BY <1>2, <3>1 DEF JobSound, Placed
  <2>2. CASE v # w
    <3>1. PICK r \in Jobs : r = req'[v] /\ JobSound(r)
      BY <1>2, <2>2 DEF IInv, TypeOK, JobsSound
    <3>2. JobSound(r)'
      BY <1>1, <3>1
    <3> QED BY <3>1, <3>2 DEF JobSound, Placed
  <2> QED BY <2>1, <2>2
<1> QED BY <1>2 DEF JobsSound

LEMMA InsertIInv ==
  ASSUME IInv, NEW w \in Workers, Insert(w)
  PROVE  IInv'
<1>1. /\ req[w] \in Jobs /\ req[w] # Idle /\ req[w].o \in Orders
      /\ order[req[w].o] \in OrderRows /\ JobSound(req[w]) /\ req[w].at = "insert"
  BY AtJob DEF Stages, Insert
<1>2. PICK job : job = Moved(req[w], "payment")
  OBVIOUS
<1>3. job \in Jobs /\ job # Idle => job.at = "payment"
  BY <1>1, <1>2, MovedType DEF Stages
<1>4. job \in Jobs \cup {Idle}
  BY <1>1, <1>2, MovedType DEF Stages
<1>5. req' = [req EXCEPT ![w] = job]
  BY <1>2, GoMoves DEF Insert
<1> DEFINE row == [order[req[w].o] EXCEPT !.status = "PENDING"]
<1>6. row \in OrderRows /\ row.status = "PENDING"
  BY <1>1, RowType DEF Statuses
<1>7. order' = [order EXCEPT ![req[w].o] = row]
  BY DEF Insert
<1>8. \A o \in Orders : /\ order'[o].status = IF o = req[w].o THEN "PENDING" ELSE order[o].status
                        /\ history'[o] = IF o = req[w].o THEN history[o] \cup {"PENDING"}
                                         ELSE history[o]
  BY <1>1, <1>6, <1>7 DEF Insert, IInv, TypeOK
<1>9. TypeOK'
  <2>1. order' \in [Orders -> OrderRows]
    BY <1>1, <1>6, <1>7 DEF IInv, TypeOK
  <2>2. history' \in [Orders -> SUBSET Statuses]
    BY <1>1 DEF Insert, IInv, TypeOK, Statuses
  <2> QED BY <1>4, <1>5, <2>1, <2>2 DEF Insert, IInv, TypeOK, PoolTypeOK, books
<1>10. JobsSound'
  <2>1. job # Idle => JobSound(job)'
    BY <1>3, <1>4 DEF JobSound, Idle
  <2>2. \A o \in Orders : /\ history[o] \subseteq history'[o]
                          /\ Placed(o) => Placed(o)'
                          /\ charged[o] = 1 => charged'[o] = 1
    BY <1>8 DEF Insert, Placed, books
  <2> QED BY <1>4, <1>5, <2>1, <2>2, JobsKeep
<1>11. Method[req[w].o] = "WALLET" => charged[req[w].o] = 1
  BY <1>1 DEF JobSound
<1>12. RowsAgree'
  <2> SUFFICES ASSUME NEW o \in Orders
               PROVE  /\ Placed(o)' <=> history'[o] # {}
                      /\ Placed(o)' => order'[o].status \in history'[o]
                      /\ Placed(o)' /\ Method[o] = "WALLET" => charged'[o] = 1
    BY DEF RowsAgree, Placed
  <2>1. charged' = charged
    BY DEF Insert, books
  <2>2. CASE o = req[w].o
    <3>1. order'[o].status = "PENDING" /\ history'[o] = history[o] \cup {"PENDING"}
      BY <1>8, <2>2
    <3> QED BY <1>11, <2>1, <2>2, <3>1 DEF Placed
  <2>3. CASE o # req[w].o
    <3>1. order'[o].status = order[o].status /\ history'[o] = history[o]
      BY <1>8, <2>3
    <3> QED BY <2>1, <3>1 DEF IInv, RowsAgree, Placed
  <2> QED BY <2>2, <2>3
<1>13. HistoryGrounded' /\ RefundGrounded'
  BY <1>8 DEF IInv, HistoryGrounded, RefundGrounded, Insert, books
<1> QED BY <1>9, <1>10, <1>12, <1>13 DEF IInv

(* The unconditional UPDATE of the status: whatever the order has become     *)
(* since it was read, the row that justifies the write is in its history.    *)
LEMMA WriteStatusIInv ==
  ASSUME IInv, NEW w \in Workers, WriteStatus(w)
  PROVE  IInv'
<1>1. /\ req[w] \in Jobs /\ req[w] # Idle /\ req[w].o \in Orders
      /\ order[req[w].o] \in OrderRows /\ JobSound(req[w]) /\ req[w].at = "write"
  BY AtJob DEF Stages, WriteStatus
<1>2. PICK to \in Statuses : to = req[w].to
  BY <1>1 DEF JobSound
<1>3. req[w].seen.status \in history[req[w].o] /\ to \in Allowed[req[w].seen.status]
  BY <1>1, <1>2 DEF JobSound
<1>4. PICK stage \in {"refundPayment", "release", "idle", "find", "loyalty"} :
        /\ stage = AfterWrite(req[w])
        /\ stage = "refundPayment" => to = "CANCELLED"
  BY <1>1, <1>2, AfterStages
<1>5. stage \in Stages \cup {"idle"}
  BY DEF Stages
<1>6. PICK job : job = Moved(req[w], stage)
  OBVIOUS
<1>7. /\ job \in Jobs \cup {Idle}
      /\ job # Idle => job \in Jobs /\ job.at = stage /\ job.o = req[w].o
  BY <1>1, <1>5, <1>6, MovedType
<1>8. req' = [req EXCEPT ![w] = job]
  BY <1>4, <1>6, GoMoves DEF WriteStatus
<1> DEFINE row == [order[req[w].o] EXCEPT !.status = to]
<1>9. row \in OrderRows /\ row.status = to
  BY <1>1, RowType
<1>10. order' = [order EXCEPT ![req[w].o] = row]
  BY <1>2 DEF WriteStatus
<1>11. \A o \in Orders : /\ order'[o].status = IF o = req[w].o THEN to ELSE order[o].status
                         /\ history'[o] = IF o = req[w].o THEN history[o] \cup {to}
                                          ELSE history[o]
  BY <1>1, <1>2, <1>9, <1>10 DEF WriteStatus, IInv, TypeOK
<1>12. TypeOK'
  <2>1. order' \in [Orders -> OrderRows]
    BY <1>1, <1>9, <1>10 DEF IInv, TypeOK
  <2>2. history' \in [Orders -> SUBSET Statuses]
    BY <1>1, <1>2 DEF WriteStatus, IInv, TypeOK
  <2> QED BY <1>7, <1>8, <2>1, <2>2 DEF WriteStatus, IInv, TypeOK, PoolTypeOK, books
<1>13. to # "none" /\ history[req[w].o] # {}
  BY <1>3 DEF Statuses
<1>14. JobsSound'
  <2>1. job # Idle => JobSound(job)'
    BY <1>1, <1>4, <1>7, <1>11 DEF JobSound
  <2>2. \A o \in Orders : /\ history[o] \subseteq history'[o]
                          /\ Placed(o) => Placed(o)'
                          /\ charged[o] = 1 => charged'[o] = 1
    <3>1. charged' = charged
      BY DEF WriteStatus, books
    <3>2. ASSUME NEW o \in Orders PROVE history[o] \subseteq history'[o] /\ (Placed(o) => Placed(o)')
      <4>1. CASE o = req[w].o
        BY <1>11, <1>13, <4>1 DEF Placed
      <4>2. CASE o # req[w].o
        BY <1>11, <4>2 DEF Placed
      <4> QED BY <4>1, <4>2
    <3> QED BY <3>1, <3>2
  <2> QED BY <1>7, <1>8, <2>1, <2>2, JobsKeep
<1>15. RowsAgree'
  <2> SUFFICES ASSUME NEW o \in Orders
               PROVE  /\ Placed(o)' <=> history'[o] # {}
                      /\ Placed(o)' => order'[o].status \in history'[o]
                      /\ Placed(o)' /\ Method[o] = "WALLET" => charged'[o] = 1
    BY DEF RowsAgree, Placed
  <2>1. charged' = charged
    BY DEF WriteStatus, books
  <2>2. CASE o = req[w].o
    <3>1. order'[o].status = to /\ history'[o] = history[o] \cup {to}
      BY <1>11, <2>2
    <3>2. Placed(o)
      BY <1>13, <2>2 DEF IInv, RowsAgree
    <3> QED BY <1>13, <2>1, <3>1, <3>2 DEF IInv, RowsAgree, Placed
  <2>3. CASE o # req[w].o
    <3>1. order'[o].status = order[o].status /\ history'[o] = history[o]
      BY <1>11, <2>3
    <3> QED BY <2>1, <3>1 DEF IInv, RowsAgree, Placed
  <2> QED BY <2>2, <2>3
<1>16. HistoryGrounded'
  <2> SUFFICES ASSUME NEW o \in Orders, NEW s \in history'[o], s # "PENDING"
               PROVE  \E before \in history'[o] : s \in Allowed[before]
    BY DEF HistoryGrounded
  <2>1. history[o] \subseteq history'[o]
    BY <1>11
  <2>2. CASE s \in history[o]
    BY <2>1, <2>2 DEF IInv, HistoryGrounded
  <2>3. CASE s \notin history[o]
    <3>1. CASE o # req[w].o
      <4>1. history'[o] = history[o]
        BY <1>11, <3>1
      <4> QED BY <2>3, <4>1
    <3>2. CASE o = req[w].o
      <4>1. history'[o] = history[o] \cup {to}
        BY <1>11, <3>2
      <4>2. s = to
        BY <2>3, <4>1
      <4> QED BY <1>3, <2>1, <3>2, <4>2
    <3> QED BY <3>1, <3>2
  <2> QED BY <2>2, <2>3
<1>17. RefundGrounded'
  BY <1>11 DEF IInv, RefundGrounded, WriteStatus, books
<1> QED BY <1>12, <1>14, <1>15, <1>16, <1>17 DEF IInv

(* The credit of a refund: the order is a charged wallet order and was       *)
(* cancelled, both of which the request still knows.                         *)
LEMMA RefundCreditIInv ==
  ASSUME IInv, NEW w \in Workers, RefundCredit(w)
  PROVE  IInv'
<1>1. /\ req[w] \in Jobs /\ req[w] # Idle /\ req[w].o \in Orders
      /\ JobSound(req[w]) /\ req[w].at = "credit"
  BY AtJob DEF Stages, RefundCredit
<1>2. "CANCELLED" \in history[req[w].o] /\ Method[req[w].o] = "WALLET"
  BY <1>1 DEF JobSound
<1>3. charged[req[w].o] = 1
  BY <1>1, <1>2 DEF IInv, RowsAgree
<1>4. PICK stage \in {"release", "idle"} : stage = AfterRefund(req[w])
  BY <1>1, AfterStages
<1>5. PICK job : job = Moved(req[w], stage)
  OBVIOUS
<1>6. /\ job \in Jobs \cup {Idle}
      /\ job # Idle => job \in Jobs /\ job.at = stage /\ stage = "release"
  BY <1>1, <1>5, MovedType DEF Stages, Moved
<1>7. req' = [req EXCEPT ![w] = job]
  BY <1>4, <1>5, GoMoves DEF RefundCredit
<1>8. TypeOK'
  BY <1>1, <1>6, <1>7 DEF RefundCredit, IInv, TypeOK, PoolTypeOK
<1>9. JobsSound'
  <2>1. job # Idle => JobSound(job)'
    BY <1>6 DEF JobSound
  <2> QED BY <1>6, <1>7, <2>1, JobsKeep DEF RefundCredit, Placed
<1>10. RowsAgree' /\ HistoryGrounded'
  BY DEF IInv, RowsAgree, Placed, HistoryGrounded, RefundCredit
<1>11. RefundGrounded'
  BY <1>1, <1>2, <1>3 DEF IInv, TypeOK, RefundGrounded, RefundCredit
<1> QED BY <1>8, <1>9, <1>10, <1>11 DEF IInv

(***************************************************************************)
(* The next-state relation.                                                *)
(***************************************************************************)

LEMMA StepIInv == ASSUME IInv, NEW w \in Workers, Step(w) PROVE IInv'
BY InsertIInv, PaymentStepIInv, RereadIInv, WriteStatusIInv, RefundStepIInv, RefundCreditIInv,
   CompletionIInv, FindIInv, ClaimIInv, AssignmentIInv, PoolStepIInv DEF Step

(* A request that dies takes what it knew with it and changes nothing else.  *)
LEMMA CrashIInv ==
  ASSUME IInv, NEW w \in Workers, Crash(w)
  PROVE  IInv'
<1>1. req' = [req EXCEPT ![w] = Idle]
  BY DEF Crash, End, Go
<1>2. TypeOK'
  BY <1>1 DEF Crash, IInv, TypeOK, PoolTypeOK, books
<1> QED BY <1>1, <1>2, QuietStep DEF Crash, books

(* Steps that no request takes: they leave the requests, the status and the  *)
(* books' counts alone.                                                      *)
LEMMA OutsideStep ==
  ASSUME IInv, TypeOK', UNCHANGED <<history, charged, refunded, req>>,
         \A o \in Orders : order'[o].status = order[o].status
  PROVE  IInv'
<1>1. ASSUME NEW v \in Workers, req'[v] # Idle PROVE JobSound(req[v])'
  <2>1. PICK r \in Jobs : r = req[v] /\ r = req'[v] /\ JobSound(r)
    BY <1>1 DEF IInv, TypeOK, JobsSound
  <2>2. r.o \in Orders
    BY DEF Jobs
  <2> QED BY <2>1, <2>2 DEF JobSound, Placed
<1>2. RowsAgree' /\ HistoryGrounded' /\ RefundGrounded'
  BY DEF IInv, RowsAgree, Placed, HistoryGrounded, RefundGrounded
<1> QED BY <1>1, <1>2 DEF IInv, JobsSound

LEMMA OutsideIInv ==
  ASSUME IInv, \/ \E o \in Orders : PayFailed(o)
               \/ \E p \in Partners : RiderToggles(p) \/ AdminSuspends(p) \/ AdminRemoves(p)
  PROVE  IInv'
<1>1. ASSUME NEW o \in Orders, PayFailed(o) PROVE IInv'
  <2>1. TypeOK'
    BY <1>1 DEF PayFailed, IInv, TypeOK, PoolTypeOK
  <2> QED BY <1>1, <2>1, OutsideStep DEF PayFailed
<1>2. ASSUME NEW p \in Partners
      PROVE  /\ \A b \in BOOLEAN : [pool[p] EXCEPT !.isOnline = b] \in PartnerRows
             /\ \A s \in {"APPROVED", "SUSPENDED", "DELETED"} :
                   [pool[p] EXCEPT !.status = s] \in PartnerRows
  BY DEF IInv, TypeOK, PoolTypeOK, PartnerRows
<1>3. ASSUME NEW p \in Partners, RiderToggles(p) \/ AdminSuspends(p) PROVE IInv'
  <2>1. pool \in [Partners -> PartnerRows]
    BY DEF IInv, TypeOK, PoolTypeOK
  <2>2. PICK row \in PartnerRows : pool' = [pool EXCEPT ![p] = row]
    <3>1. CASE RiderToggles(p)
      <4>1. pool' = [pool EXCEPT ![p] = [pool[p] EXCEPT !.isOnline = ~pool[p].isOnline]]
        BY <3>1 DEF RiderToggles, ToggleOnline
      <4>2. \A x \in BOOLEAN : \E b \in BOOLEAN : b = ~x
        OBVIOUS
      <4>3. pool[p].isOnline \in BOOLEAN
        BY <2>1 DEF PartnerRows
      <4>4. PICK b \in BOOLEAN : b = ~pool[p].isOnline
        BY <4>2, <4>3
      <4> QED BY <1>2, <4>1, <4>4
    <3>2. CASE AdminSuspends(p)
      <4>1. PICK s \in {"APPROVED", "SUSPENDED"} :
              pool' = [pool EXCEPT ![p] = [pool[p] EXCEPT !.status = s]]
        BY <3>2 DEF AdminSuspends, ChangeStatus
      <4> QED BY <1>2, <4>1
    <3> QED BY <1>3, <3>1, <3>2
  <2>3. UNCHANGED <<order, history, books, req, crashes>>
    BY <1>3 DEF RiderToggles, AdminSuspends, Unmoved
  <2>4. TypeOK'
    BY <2>1, <2>2, <2>3 DEF IInv, TypeOK, PoolTypeOK, books
  <2> QED BY <2>3, <2>4, OutsideStep DEF books
<1>4. ASSUME NEW p \in Partners, AdminRemoves(p) PROVE IInv'
  <2>1. pool \in [Partners -> PartnerRows]
    BY DEF IInv, TypeOK, PoolTypeOK
  <2>2. pool' \in [Partners -> PartnerRows]
    <3>1. pool' = [pool EXCEPT ![p] = [pool[p] EXCEPT !.status = "DELETED"]]
      BY <1>4 DEF AdminRemoves, Remove
    <3> QED BY <1>2, <2>1, <3>1
  <2>3. ASSUME NEW row \in OrderRows
        PROVE  /\ [row EXCEPT !.partner = None] \in OrderRows
               /\ [row EXCEPT !.partner = None].status = row.status
    BY RowType
  <2>4. order \in [Orders -> OrderRows]
    BY DEF IInv, TypeOK
  <2>5. /\ order' \in [Orders -> OrderRows]
        /\ \A o \in Orders : order'[o].status = order[o].status
    BY <1>4, <2>3, <2>4 DEF AdminRemoves
  <2>6. TypeOK'
    BY <1>4, <2>2, <2>5 DEF AdminRemoves, IInv, TypeOK, PoolTypeOK, books
  <2> QED BY <1>4, <2>5, <2>6, OutsideStep DEF AdminRemoves, books
<1> QED BY <1>1, <1>3, <1>4

LEMMA NextIInv == IInv /\ [Next]_vars => IInv'
<1> SUFFICES ASSUME IInv, [Next]_vars PROVE IInv'
  OBVIOUS
<1>1. ASSUME NEW w \in Workers, Arrive(w) PROVE IInv'
  BY <1>1, ArriveIInv, CreateIInv
<1>2. ASSUME NEW w \in Workers, Step(w) PROVE IInv'
  BY <1>2, StepIInv
<1>3. ASSUME NEW w \in Workers, Crash(w) PROVE IInv'
  BY <1>3, CrashIInv
<1>4. CASE UNCHANGED vars
  <2>1. TypeOK'
    BY <1>4 DEF vars, books, IInv, TypeOK, PoolTypeOK
  <2> QED BY <1>4, <2>1, OutsideStep DEF vars, books
<1> QED BY <1>1, <1>2, <1>3, <1>4, OutsideIInv DEF Next

(***************************************************************************)
(* The theorems.                                                           *)
(***************************************************************************)

LEMMA Invariance == Spec => []IInv
<1>1. Init => IInv
  BY InitIInv
<1>2. IInv /\ [Next]_vars => IInv'
  BY NextIInv
<1> QED BY <1>1, <1>2, PTL DEF Spec

(* The rows and the requests in flight have their types.                     *)
THEOREM TypeCorrect == Spec => []TypeOK
<1>1. IInv => TypeOK
  BY DEF IInv
<1> QED BY <1>1, Invariance, PTL

(* Nothing enters the history of an order without one of its predecessors,   *)
(* however requests on the order overlap and wherever one of them dies       *)
(* (applyStatusChange, ALLOWED_TRANSITIONS).                                 *)
THEOREM HistoryAlwaysGrounded == Spec => []HistoryGrounded
<1>1. IInv => HistoryGrounded
  BY DEF IInv
<1> QED BY <1>1, Invariance, PTL

(* A wallet is credited only for an order it was debited for and that has    *)
(* been cancelled (the refund of applyStatusChange).                         *)
THEOREM RefundAlwaysGrounded == Spec => []RefundGrounded
<1>1. IInv => RefundGrounded
  BY DEF IInv
<1> QED BY <1>1, Invariance, PTL

(* The status of an order is in its history, and a wallet order is charged   *)
(* before it is placed (create).                                             *)
THEOREM RowsAlwaysAgree == Spec => []RowsAgree
<1>1. IInv => RowsAgree
  BY Zenon DEF IInv
<1> QED BY <1>1, Invariance, PTL

(* A rejection never hands the order back to the rider who rejected it       *)
(* (excludePartnerId of tryAssign).                                          *)
THEOREM RejecterAlwaysSkipped == Spec => []RejecterSkipped
<1>1. IInv => RejecterSkipped
  BY AtJob DEF RejecterSkipped, JobSound, Stages
<1> QED BY <1>1, Invariance, PTL

(***************************************************************************)
(* No two requests on one order overlap: every order then follows the life *)
(* cycle of the README, for any number of orders, riders, requests on      *)
(* different orders at once, and crashes.                                  *)
(***************************************************************************)

(* The extra knowledge: a request has its order for itself, so that what it  *)
(* read of the status is still the status when it writes.                    *)
Alone == \A v, w \in Workers :
           req[v] # Idle /\ req[w] # Idle /\ req[v].o = req[w].o => v = w
Current(r) == /\ r.at = "insert" => ~Placed(r.o)
              /\ r.at = "write" => r.seen.status = order[r.o].status
SeenCurrent == \A w \in Workers : req[w] # Idle => Current(req[w])
SInv == IInv /\ Alone /\ SeenCurrent

LEMMA InitSInv == Init => SInv
BY InitIInv DEF Init, SInv, Alone, SeenCurrent

(***************************************************************************)
(* Steps that leave every status alone.                                    *)
(***************************************************************************)

SameStatus == \A o \in Orders : order'[o].status = order[o].status

(* The job a request starts or goes on with keeps the order for itself.      *)
LEMMA QuietSInv ==
  ASSUME SInv, IInv', SameStatus, NEW w \in Workers, NEW job \in Jobs \cup {Idle},
         req' = [req EXCEPT ![w] = job],
         job # Idle => /\ Current(job)
                       /\ \/ req[w] # Idle /\ job.o = req[w].o
                          \/ ~Busy(job.o)
  PROVE  SInv'
<1>1. \A v \in Workers : req'[v] = IF v = w THEN job ELSE req[v]
  BY DEF SInv, IInv, TypeOK
<1>2. Alone'
  <2> SUFFICES ASSUME NEW u \in Workers, NEW v \in Workers,
                      req'[u] # Idle, req'[v] # Idle, req'[u].o = req'[v].o
               PROVE  u = v
    BY DEF Alone
  <2> QED BY <1>1 DEF SInv, Alone, Busy
<1>3. ASSUME NEW v \in Workers, req'[v] # Idle PROVE Current(req[v])'
  <2>1. PICK r \in Jobs : r = req'[v] /\ Current(r)
    BY <1>1, <1>3 DEF SInv, IInv, TypeOK, SeenCurrent
  <2>2. r.o \in Orders
    BY DEF Jobs
  <2>3. Current(r)'
    BY <2>1, <2>2 DEF Current, Placed, SameStatus
  <2> QED BY <2>1, <2>3 DEF Current, Placed
<1> QED BY <1>2, <1>3 DEF SInv, SeenCurrent

(* Stages at which nothing that was read is about to be acted on.            *)
QuietStages == (Stages \ {"insert", "write"}) \cup {"idle"}

LEMMA GoSInv ==
  ASSUME SInv, IInv', SameStatus, NEW w \in Workers, req[w] # Idle,
         NEW stage \in QuietStages, Go(w, stage)
  PROVE  SInv'
<1>1. req[w] \in Jobs
  BY DEF SInv, IInv, TypeOK
<1>2. PICK job : job = Moved(req[w], stage)
  OBVIOUS
<1>3. /\ job \in Jobs \cup {Idle}
      /\ job # Idle => job.at = stage /\ job.o = req[w].o /\ stage \in Stages
  BY <1>1, <1>2, MovedType DEF QuietStages
<1>4. req' = [req EXCEPT ![w] = job]
  BY <1>2, GoMoves DEF SInv
<1>5. job # Idle => Current(job)
  BY <1>3 DEF Current, QuietStages
<1> QED BY <1>3, <1>4, <1>5, QuietSInv

(* Setting a column other than the status.                                   *)
LEMMA OtherColumn ==
  ASSUME IInv, NEW o \in Orders, NEW new, new.status = order[o].status,
         order' = [order EXCEPT ![o] = new]
  PROVE  SameStatus
BY DEF IInv, TypeOK, SameStatus

(* A request starts on an order that has no other: what it reads is current. *)
LEMMA StartSInv ==
  ASSUME SInv, IInv', ~SameOrderOverlap, order' = order, NEW w \in Workers, NEW o \in Orders,
         MayStart(w, o), NEW stage \in Stages, NEW to \in Statuses \cup {None},
         NEW p \in Partners \cup {None}, NEW x \in Partners \cup {None},
         Begin(w, Job(stage, o, to, p, x)), stage = "insert" => ~Placed(o)
  PROVE  SInv' /\ SameStatus
<1>1. PICK job : job = Job(stage, o, to, p, x)
  OBVIOUS
<1>2. job \in Jobs /\ job.at = stage /\ job.o = o /\ job.seen = order[o]
  BY <1>1, JobType DEF SInv, IInv
<1>3. Current(job)
  BY <1>2 DEF Current
<1>4. ~Busy(job.o)
  BY <1>2 DEF MayStart
<1> QED BY <1>1, <1>2, <1>3, <1>4, QuietSInv DEF SameStatus, Begin

LEMMA ArriveSInv ==
  ASSUME SInv, IInv', ~SameOrderOverlap, NEW w \in Workers, Arrive(w)
  PROVE  SInv' /\ SameStatus
<1>1. ASSUME NEW o \in Orders, Create(w, o) PROVE SInv' /\ SameStatus
  BY <1>1, StartSInv DEF Create, Stages
<1>2. ASSUME NEW o \in Orders, Pay(w, o) PROVE SInv' /\ SameStatus
  BY <1>2, StartSInv DEF Pay, Stages
<1>3. ASSUME NEW o \in Orders, CancelRequest(w, o) PROVE SInv' /\ SameStatus
  BY <1>3, StartSInv DEF CancelRequest, Stages, Statuses
<1>4. ASSUME NEW o \in Orders, NEW to \in Statuses, StatusRequest(w, o, to) PROVE SInv' /\ SameStatus
  BY <1>4, StartSInv DEF StatusRequest, Stages
<1>5. ASSUME NEW o \in Orders, NEW p \in Partners, NEW to \in RiderStatuses,
             RiderStatusRequest(w, o, p, to)
      PROVE  SInv' /\ SameStatus
  BY <1>5, StartSInv DEF RiderStatusRequest, Stages, RiderStatuses, Statuses
<1>6. ASSUME NEW o \in Orders, NEW p \in Partners, AssignRequest(w, o, p) PROVE SInv' /\ SameStatus
  BY <1>6, StartSInv DEF AssignRequest, Stages
<1>7. ASSUME NEW o \in Orders, NEW p \in Partners, AcceptRequest(w, o, p) PROVE SInv' /\ SameStatus
  BY <1>7, StartSInv DEF AcceptRequest, Answerable, Stages
<1>8. ASSUME NEW o \in Orders, NEW p \in Partners, RejectRequest(w, o, p) PROVE SInv' /\ SameStatus
  BY <1>8, StartSInv DEF RejectRequest, Answerable, Stages
<1> QED BY <1>1, <1>2, <1>3, <1>4, <1>5, <1>6, <1>7, <1>8 DEF Arrive

(* The second read finds the status as it is.                                *)
LEMMA RereadSInv ==
  ASSUME SInv, IInv', NEW w \in Workers, Reread(w)
  PROVE  SInv' /\ SameStatus
<1>1. /\ req[w] \in Jobs /\ req[w] # Idle /\ req[w].o \in Orders /\ JobSound(req[w])
      /\ req[w].at = "reread"
  BY AtJob DEF SInv, Stages, Reread
<1>2. req[w].to \in Statuses
  BY <1>1 DEF JobSound
<1>3. PICK job : job = Job("write", req[w].o, req[w].to, None, None)
  OBVIOUS
<1>4. job \in Jobs /\ job.at = "write" /\ job.o = req[w].o /\ job.seen = order[req[w].o]
  BY <1>1, <1>2, <1>3, ReadJobType DEF SInv, IInv, Stages
<1>5. Current(job)
  BY <1>4 DEF Current
<1>6. req' = [req EXCEPT ![w] = job] \/ req' = [req EXCEPT ![w] = Idle]
  BY <1>3 DEF Reread, Begin
<1> QED BY <1>1, <1>4, <1>5, <1>6, QuietSInv DEF Reread, SameStatus

(* The steps of a request that only move it on.                              *)
LEMMA BooksStepSInv ==
  ASSUME SInv, IInv', NEW w \in Workers,
         \/ CreatePayment(w) \/ GatewayFails(w) \/ MarkOrderPaid(w) \/ PayOrder(w)
         \/ RefundPayment(w) \/ RefundOrder(w) \/ RefundCredit(w)
         \/ ReleaseRider(w) \/ AwardPoints(w)
  PROVE  SInv' /\ SameStatus
<1>1. /\ req[w] \in Jobs /\ req[w] # Idle /\ req[w].o \in Orders
      /\ order[req[w].o] \in OrderRows
  BY AtJob DEF SInv, Stages, CreatePayment, GatewayFails, MarkOrderPaid, PayOrder,
               RefundPayment, RefundOrder, RefundCredit, ReleaseRider, AwardPoints
<1>2. SameStatus
  <2>1. CASE order' = order
    BY <2>1 DEF SameStatus
  <2>2. CASE order' # order
    <3>1. PICK s \in {"PAID", "REFUNDED"} :
            order' = [order EXCEPT ![req[w].o] = [order[req[w].o] EXCEPT !.paid = s]]
      BY <2>2 DEF CreatePayment, GatewayFails, MarkOrderPaid, PayOrder, RefundPayment,
                  RefundOrder, RefundCredit, ReleaseRider, AwardPoints
    <3>2. [order[req[w].o] EXCEPT !.paid = s].status = order[req[w].o].status
      BY <1>1, RowType DEF PaymentStatuses
    <3> QED BY <1>1, <3>1, <3>2, OtherColumn DEF SInv
  <2> QED BY <2>1, <2>2
<1>3. PICK stage \in {"markPaid", "idle", "refundOrder", "credit", "release", "loyalty"} :
        Go(w, stage)
  <2>1. AfterRefund(req[w]) \in {"release", "idle"}
    BY <1>1, AfterStages
  <2> QED BY <2>1 DEF CreatePayment, GatewayFails, MarkOrderPaid, PayOrder, RefundPayment,
                      RefundOrder, RefundCredit, ReleaseRider, AwardPoints, End
<1>4. stage \in QuietStages
  BY DEF QuietStages, Stages
<1> QED BY <1>1, <1>2, <1>3, <1>4, GoSInv

LEMMA RiderStepSInv ==
  ASSUME SInv, IInv', NEW w \in Workers,
         \/ Vet(w) \/ Unassign(w) \/ Mark(w) \/ FreeRejecter(w)
         \/ Attach(w) \/ Accept(w) \/ ClearAssignment(w)
  PROVE  SInv' /\ SameStatus
<1>1. /\ req[w] \in Jobs /\ req[w] # Idle /\ req[w].o \in Orders
      /\ order[req[w].o] \in OrderRows
  BY AtJob DEF SInv, Stages, Vet, Unassign, Mark, FreeRejecter, Attach, Accept, ClearAssignment
<1>2. SameStatus
  <2> DEFINE row == order[req[w].o]
             Named(p, a) == [[row EXCEPT !.partner = p] EXCEPT !.acceptance = a]
  <2>1. \A p, a : Named(p, a).status = row.status
    BY <1>1 DEF OrderRows
  <2>2. \A a : [row EXCEPT !.acceptance = a].status = row.status
    BY <1>1 DEF OrderRows
  <2>3. CASE Vet(w) \/ Unassign(w) \/ Mark(w) \/ FreeRejecter(w)
    BY <2>3 DEF Vet, Unassign, Mark, FreeRejecter, SameStatus
  <2>4. CASE Attach(w)
    <3>1. CASE order' = order
      BY <3>1 DEF SameStatus
    <3>2. CASE order' = [order EXCEPT ![req[w].o] = Named(req[w].partner, "PENDING")]
      BY <1>1, <2>1, <3>2, OtherColumn DEF SInv
    <3> QED BY <2>4, <3>1, <3>2 DEF Attach
  <2>5. CASE Accept(w)
    BY <1>1, <2>2, <2>5, OtherColumn DEF Accept, SInv
  <2>6. CASE ClearAssignment(w)
    <3>1. order' = [order EXCEPT ![req[w].o] = Named(None, "NONE")]
      BY <2>6 DEF ClearAssignment
    <3> QED BY <1>1, <2>1, <3>1, OtherColumn DEF SInv
  <2> QED BY <2>3, <2>4, <2>5, <2>6
<1>3. PICK stage \in {"idle", "mark", "unassign", "attach", "clear", "find"} : Go(w, stage)
  BY DEF Vet, Unassign, Mark, FreeRejecter, Attach, Accept, ClearAssignment, End
<1>4. stage \in QuietStages
  BY DEF QuietStages, Stages
<1> QED BY <1>1, <1>2, <1>3, <1>4, GoSInv, Zenon

(* The search for a rider keeps to its order.                                *)
LEMMA SearchJob ==
  ASSUME IInv, NEW w \in Workers, FindRiders(w) \/ \E p \in Partners : ClaimRider(w, p)
  PROVE  \E job \in Jobs \cup {Idle} :
           /\ req' = [req EXCEPT ![w] = job]
           /\ job # Idle => job.o = req[w].o /\ job.at \in {"claim", "attach"}
<1>1. req[w] \in Jobs /\ req[w] # Idle
  BY AtJob, Zenon DEF Stages, FindRiders, ClaimRider
<1>2. \A ranked \in SUBSET Partners :
        LET job == [[req[w] EXCEPT !.ranked = ranked] EXCEPT !.at = "claim"] IN
        job \in Jobs /\ job.o = req[w].o /\ job.at = "claim"
  BY <1>1 DEF Jobs, Stages
<1>3. \A p \in Partners :
        LET job == [[req[w] EXCEPT !.partner = p] EXCEPT !.at = "attach"] IN
        job \in Jobs /\ job.o = req[w].o /\ job.at = "attach"
  BY <1>1, Zenon DEF Jobs, Stages
<1>4. \A ranked \in SUBSET Partners :
        LET job == [req[w] EXCEPT !.ranked = ranked] IN
        job \in Jobs /\ job.o = req[w].o /\ job.at = req[w].at
  BY <1>1 DEF Jobs
<1>5. CASE FindRiders(w)
  <2>1. Candidates(req[w].excluded) \in SUBSET Partners
    BY DEF Candidates
  <2> QED BY <1>2, <1>5, <2>1, Zenon DEF FindRiders, Begin
<1>6. ASSUME NEW p \in Partners, ClaimRider(w, p)
      PROVE  \E job \in Jobs \cup {Idle} :
               /\ req' = [req EXCEPT ![w] = job]
               /\ job # Idle => job.o = req[w].o /\ job.at \in {"claim", "attach"}
  <2>1. req[w].ranked \ {p} \in SUBSET Partners /\ req[w].at = "claim"
    BY <1>1, <1>6, Zenon DEF Jobs, ClaimRider, At
  <2>2. CASE ClaimWins(p)
    BY <1>3, <1>6, <2>2, Zenon DEF ClaimRider, Begin
  <2>3. CASE ~ClaimWins(p)
    <3>1. PICK rest \in SUBSET Partners : rest = req[w].ranked \ {p}
      BY <2>1
    <3>2. req' = [req EXCEPT ![w] = IF rest = {} THEN Idle ELSE [req[w] EXCEPT !.ranked = rest]]
      BY <1>6, <2>3, <3>1, Zenon DEF ClaimRider, Begin
    <3>3. CASE rest = {}
      BY <3>2, <3>3
    <3>4. CASE rest # {}
      BY <1>4, <2>1, <3>2, <3>4
    <3> QED BY <3>3, <3>4
  <2> QED BY <2>2, <2>3, Zenon
<1> QED BY <1>5, <1>6

LEMMA SearchSInv ==
  ASSUME SInv, IInv', NEW w \in Workers,
         FindRiders(w) \/ \E p \in Partners : ClaimRider(w, p)
  PROVE  SInv' /\ SameStatus
<1>1. req[w] # Idle
  BY Zenon DEF FindRiders, ClaimRider, At
<1>2. order' = order
  BY Zenon DEF FindRiders, ClaimRider
<1>3. PICK job \in Jobs \cup {Idle} :
        /\ req' = [req EXCEPT ![w] = job]
        /\ job # Idle => job.o = req[w].o /\ job.at \in {"claim", "attach"}
  BY SearchJob DEF SInv
<1>4. job # Idle => Current(job)
  BY <1>3 DEF Current
<1> QED BY <1>1, <1>2, <1>3, <1>4, QuietSInv DEF SameStatus

LEMMA CrashSInv ==
  ASSUME SInv, IInv', NEW w \in Workers, Crash(w)
  PROVE  SInv' /\ SameStatus
<1>1. req' = [req EXCEPT ![w] = Idle]
  BY DEF Crash, End, Go
<1> QED BY <1>1, QuietSInv DEF Crash, SameStatus

LEMMA OutsideSInv ==
  ASSUME SInv, IInv', SameStatus, req' = req
  PROVE  SInv'
<1>1. \A w \in Workers : req[w] # Idle => req[w] \in Jobs /\ req[w].o \in Orders
  BY DEF SInv, IInv, TypeOK, Jobs
<1> QED BY <1>1 DEF SInv, Alone, SeenCurrent, Current, Placed, SameStatus

LEMMA OutsideStatus ==
  ASSUME IInv, \/ \E o \in Orders : PayFailed(o)
               \/ \E p \in Partners : RiderToggles(p) \/ AdminSuspends(p) \/ AdminRemoves(p)
               \/ UNCHANGED vars
  PROVE  SameStatus /\ req' = req
<1>1. ASSUME NEW p \in Partners, AdminRemoves(p) PROVE SameStatus /\ req' = req
  <2>1. \A o \in Orders : [order[o] EXCEPT !.partner = None].status = order[o].status
    BY RowType DEF IInv, TypeOK
  <2> QED BY <1>1, <2>1 DEF AdminRemoves, SameStatus
<1> QED BY <1>1 DEF PayFailed, RiderToggles, AdminSuspends, Unmoved, SameStatus, vars

(***************************************************************************)
(* The steps that write a status.                                          *)
(***************************************************************************)

(* Writing a status disturbs no one else: nobody else is on the order.       *)
LEMMA WriteSInv ==
  ASSUME SInv, IInv', NEW w \in Workers, req[w] # Idle, NEW job \in Jobs \cup {Idle},
         req' = [req EXCEPT ![w] = job],
         job # Idle => job.o = req[w].o /\ job.at \notin {"insert", "write"},
         \A o \in Orders : o # req[w].o => order'[o].status = order[o].status
  PROVE  SInv'
<1>1. \A v \in Workers : req'[v] = IF v = w THEN job ELSE req[v]
  BY DEF SInv, IInv, TypeOK
<1>2. Alone'
  BY <1>1 DEF SInv, Alone
<1>3. ASSUME NEW v \in Workers, req'[v] # Idle PROVE Current(req[v])'
  <2>1. CASE v = w
    BY <1>1, <1>3, <2>1 DEF Current
  <2>2. CASE v # w
    <3>1. PICK r \in Jobs : r = req'[v] /\ r = req[v] /\ Current(r) /\ r.o # req[w].o
      BY <1>1, <1>3, <2>2 DEF SInv, IInv, TypeOK, SeenCurrent, Alone
    <3>2. r.o \in Orders
      BY <3>1 DEF Jobs
    <3> QED BY <3>1, <3>2 DEF Current, Placed
  <2> QED BY <2>1, <2>2
<1> QED BY <1>2, <1>3 DEF SInv, SeenCurrent

(* The order inserted has not been placed before.                            *)
LEMMA InsertSerial ==
  ASSUME SInv, IInv', NEW w \in Workers, Insert(w)
  PROVE  SInv' /\ Lifecycle!Next
<1>1. /\ req[w] \in Jobs /\ req[w] # Idle /\ req[w].at = "insert" /\ req[w].o \in Orders
      /\ order[req[w].o] \in OrderRows
  BY AtJob DEF SInv, Stages, Insert
<1>2. PICK o \in Orders : o = req[w].o
  BY <1>1
<1>3. order[o].status = "none"
  BY <1>1, <1>2 DEF SInv, SeenCurrent, Current, Placed
<1>4. \A q \in Orders : order'[q].status = IF q = o THEN "PENDING" ELSE order[q].status
  <2>1. [order[o] EXCEPT !.status = "PENDING"].status = "PENDING"
    BY <1>1, <1>2 DEF OrderRows
  <2>2. order' = [order EXCEPT ![o] = [order[o] EXCEPT !.status = "PENDING"]]
    BY <1>2 DEF Insert
  <2> QED BY <2>1, <2>2 DEF SInv, IInv, TypeOK
<1>5. SInv'
  <2>1. PICK job : job = Moved(req[w], "payment")
    OBVIOUS
  <2>2. job \in Jobs \cup {Idle} /\ (job # Idle => job.o = req[w].o /\ job.at = "payment")
    BY <1>1, <2>1, MovedType DEF Stages
  <2>3. req' = [req EXCEPT ![w] = job]
    BY <2>1, GoMoves DEF SInv, Insert
  <2> QED BY <1>1, <1>2, <1>4, <2>2, <2>3, WriteSInv
<1>6. Lifecycle!Place(o)
  BY <1>3, <1>4 DEF Lifecycle!Place
<1> QED BY <1>5, <1>6 DEF Lifecycle!Next

(* ALLOWED_TRANSITIONS is the life cycle.                                    *)
LEMMA AllowedIsLifecycle ==
  ASSUME NEW from \in Statuses, NEW to \in Allowed[from]
  PROVE  \/ \E i \in 1 .. Len(Lifecycle!Flow) - 1 :
              from = Lifecycle!Flow[i] /\ to = Lifecycle!Flow[i + 1]
         \/ \E i \in 1 .. Lifecycle!Cancellable : from = Lifecycle!Flow[i] /\ to = "CANCELLED"
         \/ from = "CANCELLED" /\ to = "REFUNDED"
BY DEF Statuses, Allowed, Lifecycle!Flow, Lifecycle!Cancellable

(* The status written is a successor of the status the order still has.      *)
LEMMA WriteSerial ==
  ASSUME SInv, IInv', NEW w \in Workers, WriteStatus(w)
  PROVE  SInv' /\ Lifecycle!Next
<1>1. /\ req[w] \in Jobs /\ req[w] # Idle /\ req[w].at = "write" /\ req[w].o \in Orders
      /\ order[req[w].o] \in OrderRows /\ JobSound(req[w])
  BY AtJob DEF SInv, Stages, WriteStatus
<1>2. PICK o \in Orders, to \in Statuses : o = req[w].o /\ to = req[w].to
  BY <1>1 DEF JobSound
<1>3. PICK from \in Statuses : from = order[o].status /\ to \in Allowed[from]
  <2>1. req[w].seen.status \in history[o] /\ to \in Allowed[req[w].seen.status]
    BY <1>1, <1>2 DEF JobSound
  <2>2. history[o] \subseteq Statuses
    BY DEF SInv, IInv, TypeOK
  <2>3. req[w].seen.status = order[o].status
    BY <1>1, <1>2 DEF SInv, SeenCurrent, Current
  <2> QED BY <2>1, <2>2, <2>3
<1>4. \A q \in Orders : order'[q].status = IF q = o THEN to ELSE order[q].status
  <2>1. [order[o] EXCEPT !.status = to].status = to
    BY <1>1, <1>2 DEF OrderRows
  <2>2. order' = [order EXCEPT ![o] = [order[o] EXCEPT !.status = to]]
    BY <1>2 DEF WriteStatus
  <2> QED BY <2>1, <2>2 DEF SInv, IInv, TypeOK
<1>5. SInv'
  <2>1. PICK stage \in {"refundPayment", "release", "idle", "find", "loyalty"} :
          stage = AfterWrite(req[w])
    BY <1>1, AfterStages
  <2>2. PICK job : job = Moved(req[w], stage)
    OBVIOUS
  <2>3. job \in Jobs \cup {Idle} /\ (job # Idle => job.o = req[w].o /\ job.at = stage)
    BY <1>1, <2>2, MovedType DEF Stages
  <2>4. req' = [req EXCEPT ![w] = job]
    BY <2>1, <2>2, GoMoves DEF SInv, WriteStatus
  <2> QED BY <1>1, <1>2, <1>4, <2>3, <2>4, WriteSInv
<1>6. Lifecycle!Advance(o) \/ Lifecycle!Cancel(o) \/ Lifecycle!Refund(o)
  <2>1. CASE \E i \in 1 .. Len(Lifecycle!Flow) - 1 :
               from = Lifecycle!Flow[i] /\ to = Lifecycle!Flow[i + 1]
    BY <1>3, <1>4, <2>1 DEF Lifecycle!Advance
  <2>2. CASE \E i \in 1 .. Lifecycle!Cancellable : from = Lifecycle!Flow[i] /\ to = "CANCELLED"
    BY <1>3, <1>4, <2>2 DEF Lifecycle!Cancel
  <2>3. CASE from = "CANCELLED" /\ to = "REFUNDED"
    BY <1>3, <1>4, <2>3 DEF Lifecycle!Refund
  <2> QED BY <1>3, <2>1, <2>2, <2>3, AllowedIsLifecycle
<1> QED BY <1>5, <1>6 DEF Lifecycle!Next

(***************************************************************************)
(* The next-state relation and the theorem.                                *)
(***************************************************************************)

LEMMA StepSerial ==
  ASSUME SInv, IInv', NEW w \in Workers, Step(w)
  PROVE  SInv' /\ (SameStatus \/ Lifecycle!Next)
BY InsertSerial, WriteSerial, BooksStepSInv, RereadSInv, RiderStepSInv, SearchSInv DEF Step

LEMMA NextSerial ==
  ASSUME ~SameOrderOverlap
  PROVE  SInv /\ [Next]_vars => SInv' /\ [Lifecycle!Next]_([o \in Orders |-> order[o].status])
<1> SUFFICES ASSUME SInv, [Next]_vars
             PROVE  SInv' /\ (SameStatus \/ Lifecycle!Next)
  BY DEF SameStatus
<1>1. IInv'
  BY NextIInv DEF SInv
<1>2. ASSUME NEW w \in Workers, Arrive(w) \/ Crash(w) PROVE SInv' /\ SameStatus
  BY <1>1, <1>2, ArriveSInv, CrashSInv
<1>3. CASE UNCHANGED vars
  BY <1>1, <1>3, OutsideStatus, OutsideSInv DEF SInv
<1>4. CASE \/ \E o \in Orders : PayFailed(o)
           \/ \E p \in Partners : RiderToggles(p) \/ AdminSuspends(p) \/ AdminRemoves(p)
  BY <1>1, <1>4, OutsideStatus, OutsideSInv DEF SInv
<1> QED BY <1>1, <1>2, <1>3, <1>4, StepSerial DEF Next

LEMMA InitLifecycle == Init => Lifecycle!Init
BY DEF Init, Lifecycle!Init, Unplaced

(* When no two requests on one order overlap, every order follows the life   *)
(* cycle of the README: the checks on a status that was read are enough,     *)
(* with any number of orders, riders, requests and crashes.                  *)
THEOREM SerialFollowsLifecycle ==
  ASSUME ~SameOrderOverlap
  PROVE  Spec => ImplementsLifecycle
BY InitSInv, NextSerial, InitLifecycle, PTL
DEF Spec, ImplementsLifecycle, Lifecycle!Spec

(***************************************************************************)
(* Points are awarded once.                                                *)
(***************************************************************************)

(* A request that still owes the points of its order holds the only right to *)
(* award them: DELIVERED has no successor, so it was written once.           *)
Owes(r) == r.at = "loyalty" \/ (r.at = "release" /\ r.to = "DELIVERED")
Refunding(r) == r.at \in {"refundPayment", "refundOrder", "credit"}
Owed(r) == /\ Owes(r) => order[r.o].status = "DELIVERED" /\ points[r.o] = 0
           /\ Refunding(r) => r.to = "CANCELLED"
AwardJobs == \A w \in Workers : req[w] # Idle => Owed(req[w])
AwardRows == \A o \in Orders : points[o] > 0 => points[o] = 1 /\ order[o].status = "DELIVERED"
PInv == SInv /\ AwardJobs /\ AwardRows

LEMMA InitPInv == Init => PInv
BY InitSInv DEF Init, PInv, AwardJobs, AwardRows

LEMMA QuietPInv ==
  ASSUME PInv, SInv', SameStatus, points' = points, NEW w \in Workers,
         NEW job \in Jobs \cup {Idle}, req' = [req EXCEPT ![w] = job], job # Idle => Owed(job)
  PROVE  PInv'
<1>1. AwardRows'
  BY DEF PInv, AwardRows, SameStatus
<1>2. ASSUME NEW v \in Workers, req'[v] # Idle PROVE Owed(req[v])'
  <2>1. PICK r \in Jobs : r = req'[v] /\ Owed(r)
    BY <1>2 DEF PInv, SInv, IInv, TypeOK, AwardJobs
  <2>2. r.o \in Orders
    BY <2>1 DEF Jobs
  <2> QED BY <2>1, <2>2 DEF Owed, Owes, Refunding, SameStatus
<1> QED BY <1>1, <1>2 DEF PInv, AwardJobs

(* A step that goes on without awarding.                                     *)
LEMMA GoPInv ==
  ASSUME PInv, SInv', SameStatus, points' = points, NEW w \in Workers, req[w] # Idle,
         NEW stage \in Stages \cup {"idle"}, Go(w, stage),
         stage = "loyalty" => Owes(req[w]), stage = "release" => req[w].to = "CANCELLED",
         stage \in {"refundPayment", "refundOrder", "credit"} => req[w].to = "CANCELLED"
  PROVE  PInv'
<1>1. req[w] \in Jobs /\ Owed(req[w])
  BY DEF PInv, SInv, IInv, TypeOK, AwardJobs
<1>2. PICK job : job = Moved(req[w], stage)
  OBVIOUS
<1>3. /\ job \in Jobs \cup {Idle}
      /\ job # Idle => /\ job.at = stage /\ job.o = req[w].o
                       /\ job.to = req[w].to
  BY <1>1, <1>2, MovedType
<1>4. req' = [req EXCEPT ![w] = job]
  BY <1>2, GoMoves DEF PInv, SInv
<1>5. job # Idle => Owed(job)
  BY <1>1, <1>3 DEF Owed, Owes, Refunding
<1> QED BY <1>3, <1>4, <1>5, QuietPInv

(* A request that starts owes nothing.                                       *)
LEMMA StartPInv ==
  ASSUME PInv, SInv', SameStatus, points' = points, NEW w \in Workers, NEW o \in Orders,
         NEW stage \in {"insert", "payOrder", "write", "reread", "vet", "accept", "free"},
         NEW to \in Statuses \cup {None}, NEW p \in Partners \cup {None},
         NEW x \in Partners \cup {None}, Begin(w, Job(stage, o, to, p, x))
  PROVE  PInv'
<1>1. PICK job : job = Job(stage, o, to, p, x)
  OBVIOUS
<1>2. job \in Jobs /\ job.at = stage
  <2>1. stage \in Stages
    BY DEF Stages
  <2> QED BY <1>1, <2>1, JobType DEF PInv, SInv, IInv
<1>3. Owed(job)
  BY <1>2 DEF Owed, Owes, Refunding
<1> QED BY <1>1, <1>2, <1>3, QuietPInv DEF Begin

LEMMA ArrivePInv ==
  ASSUME PInv, SInv', SameStatus, NEW w \in Workers, Arrive(w)
  PROVE  PInv'
<1>1. ASSUME NEW o \in Orders, Create(w, o) PROVE PInv'
  BY <1>1, StartPInv DEF Create
<1>2. ASSUME NEW o \in Orders, Pay(w, o) PROVE PInv'
  BY <1>2, StartPInv DEF Pay
<1>3. ASSUME NEW o \in Orders, CancelRequest(w, o) PROVE PInv'
  BY <1>3, StartPInv DEF CancelRequest, books, Statuses
<1>4. ASSUME NEW o \in Orders, NEW to \in Statuses, StatusRequest(w, o, to) PROVE PInv'
  BY <1>4, StartPInv DEF StatusRequest, books
<1>5. ASSUME NEW o \in Orders, NEW p \in Partners, NEW to \in RiderStatuses,
             RiderStatusRequest(w, o, p, to)
      PROVE  PInv'
  BY <1>5, StartPInv DEF RiderStatusRequest, books, RiderStatuses, Statuses
<1>6. ASSUME NEW o \in Orders, NEW p \in Partners, AssignRequest(w, o, p) PROVE PInv'
  BY <1>6, StartPInv DEF AssignRequest, books
<1>7. ASSUME NEW o \in Orders, NEW p \in Partners, AcceptRequest(w, o, p) PROVE PInv'
  BY <1>7, StartPInv DEF AcceptRequest, books
<1>8. ASSUME NEW o \in Orders, NEW p \in Partners, RejectRequest(w, o, p) PROVE PInv'
  BY <1>8, StartPInv DEF RejectRequest, books
<1> QED BY <1>1, <1>2, <1>3, <1>4, <1>5, <1>6, <1>7, <1>8 DEF Arrive

LEMMA StepPInv ==
  ASSUME PInv, SInv', SameStatus, NEW w \in Workers, Step(w), ~Insert(w), ~WriteStatus(w)
  PROVE  PInv'
<1>1. ASSUME ReleaseRider(w) PROVE PInv'
  <2>1. At(w, "release") /\ points' = points
    BY <1>1 DEF ReleaseRider, books
  <2>2. req[w] # Idle /\ req[w].at = "release"
    BY <2>1 DEF At
  <2>3. PICK stage \in {"loyalty", "idle"} :
          Go(w, stage) /\ (stage = "loyalty" => req[w].to = "DELIVERED")
    BY <1>1 DEF ReleaseRider
  <2>4. stage = "loyalty" => Owes(req[w])
    BY <2>2, <2>3 DEF Owes
  <2> QED BY <2>1, <2>2, <2>3, <2>4, GoPInv DEF Stages
<1>2. ASSUME AwardPoints(w) PROVE PInv'
  <2>1. /\ req[w] \in Jobs /\ req[w] # Idle /\ req[w].at = "loyalty" /\ req[w].o \in Orders
    BY <1>2, AtJob DEF PInv, SInv, Stages, AwardPoints
  <2>2. PICK o \in Orders : o = req[w].o
    BY <2>1
  <2>3. order[o].status = "DELIVERED" /\ points[o] = 0
    BY <2>1, <2>2 DEF PInv, AwardJobs, Owed, Owes
  <2>4. points' = [points EXCEPT ![o] = 1] /\ order' = order /\ req' = [req EXCEPT ![w] = Idle]
    BY <1>2, <2>2, <2>3 DEF AwardPoints, End, Go
  <2>5. \A q \in Orders : points'[q] = IF q = o THEN 1 ELSE points[q]
    BY <2>4 DEF PInv, SInv, IInv, TypeOK
  <2>6. AwardRows'
    BY <2>3, <2>4, <2>5 DEF PInv, AwardRows
  <2>7. ASSUME NEW v \in Workers, req'[v] # Idle PROVE Owed(req[v])'
    <3>1. v # w
      BY <2>4, <2>7 DEF PInv, SInv, IInv, TypeOK
    <3>2. PICK r \in Jobs : r = req'[v] /\ r = req[v] /\ Owed(r)
      BY <2>4, <2>7, <3>1 DEF PInv, SInv, IInv, TypeOK, AwardJobs
    <3>3. r.o \in Orders /\ r.o # o
      BY <2>1, <2>2, <2>7, <3>1, <3>2 DEF PInv, SInv, Alone, Jobs
    <3> QED BY <2>4, <2>5, <3>2, <3>3 DEF Owed, Owes, Refunding
  <2> QED BY <2>6, <2>7 DEF PInv, AwardJobs
<1>3. ASSUME RefundPayment(w) \/ RefundOrder(w) \/ RefundCredit(w) PROVE PInv'
  <2>1. /\ req[w] \in Jobs /\ req[w] # Idle
        /\ req[w].at \in {"refundPayment", "refundOrder", "credit"}
    BY <1>3, AtJob DEF PInv, SInv, Stages, RefundPayment, RefundOrder, RefundCredit
  <2>2. req[w].to = "CANCELLED"
    BY <2>1 DEF PInv, AwardJobs, Owed, Refunding
  <2>3. PICK stage \in {"refundOrder", "credit", "release", "idle"} : Go(w, stage)
    <3>1. AfterRefund(req[w]) \in {"release", "idle"}
      BY <2>1, AfterStages
    <3> QED BY <1>3, <3>1 DEF RefundPayment, RefundOrder, RefundCredit
  <2>4. points' = points
    BY <1>3 DEF RefundPayment, RefundOrder, RefundCredit, books
  <2> QED BY <2>1, <2>2, <2>3, <2>4, GoPInv, Zenon DEF Stages
<1>4. ASSUME \/ CreatePayment(w) \/ GatewayFails(w) \/ MarkOrderPaid(w) \/ PayOrder(w)
             \/ Vet(w) \/ Unassign(w) \/ Mark(w) \/ FreeRejecter(w)
             \/ Attach(w) \/ Accept(w) \/ ClearAssignment(w)
      PROVE  PInv'
  <2>1. points' = points /\ req[w] # Idle
    BY <1>4 DEF CreatePayment, GatewayFails, MarkOrderPaid, PayOrder, Vet, Unassign, Mark,
                FreeRejecter, Attach, Accept, ClearAssignment, books, At
  <2>2. PICK stage \in {"markPaid", "idle", "mark", "unassign", "attach", "clear", "find"} :
          Go(w, stage)
    BY <1>4 DEF CreatePayment, GatewayFails, MarkOrderPaid, PayOrder, Vet, Unassign, Mark,
                FreeRejecter, Attach, Accept, ClearAssignment, End
  <2> QED BY <2>1, <2>2, GoPInv DEF Stages
<1>5. ASSUME Reread(w) PROVE PInv'
  <2>1. /\ req[w] \in Jobs /\ req[w].o \in Orders /\ req[w].at = "reread" /\ JobSound(req[w])
    BY <1>5, AtJob DEF PInv, SInv, Stages, Reread
  <2>2. req[w].to \in Statuses
    BY <2>1 DEF JobSound
  <2>3. CASE Begin(w, Idle)
    BY <1>5, <2>3, QuietPInv DEF Reread, books, Begin
  <2>4. CASE Begin(w, Job("write", req[w].o, req[w].to, None, None))
    BY <1>5, <2>1, <2>2, <2>4, StartPInv DEF Reread, books
  <2> QED BY <1>5, <2>3, <2>4, Zenon DEF Reread
<1>6. ASSUME FindRiders(w) \/ \E p \in Partners : ClaimRider(w, p) PROVE PInv'
  <2>1. points' = points
    BY <1>6, Zenon DEF FindRiders, ClaimRider, books
  <2>2. PICK job \in Jobs \cup {Idle} :
          /\ req' = [req EXCEPT ![w] = job]
          /\ job # Idle => job.at \in {"claim", "attach"}
    BY <1>6, SearchJob DEF PInv, SInv
  <2>3. job # Idle => Owed(job)
    BY <2>2 DEF Owed, Owes, Refunding
  <2> QED BY <2>1, <2>2, <2>3, QuietPInv
<1> QED BY <1>1, <1>2, <1>3, <1>4, <1>5, <1>6 DEF Step

(* The status is written: no request on this order is left to owe anything,  *)
(* and a delivered order is written no more.                                 *)
LEMMA WritePInv ==
  ASSUME PInv, SInv', NEW w \in Workers, Insert(w) \/ WriteStatus(w)
  PROVE  PInv'
<1>1. /\ req[w] \in Jobs /\ req[w] # Idle /\ req[w].at \in {"insert", "write"}
      /\ req[w].o \in Orders /\ JobSound(req[w]) /\ Current(req[w])
  BY AtJob DEF PInv, SInv, SeenCurrent, Stages, Insert, WriteStatus
<1>2. PICK o \in Orders : o = req[w].o
  BY <1>1
<1>3. points' = points
  BY DEF Insert, WriteStatus, books
<1>4. order[o].status # "DELIVERED"
  <2>1. CASE Insert(w)
    BY <1>1, <1>2, <2>1 DEF Insert, At, Current, Placed
  <2>2. CASE WriteStatus(w)
    <3>1. req[w].to \in Allowed[order[o].status]
      BY <1>1, <1>2, <2>2 DEF WriteStatus, At, JobSound, Current
    <3> QED BY <3>1 DEF Allowed
  <2> QED BY <2>1, <2>2
<1>5. points[o] = 0
  BY <1>4 DEF PInv, SInv, IInv, TypeOK, AwardRows
<1>6. \A q \in Orders : q # o => order'[q].status = order[q].status
  BY <1>2 DEF Insert, WriteStatus, PInv, SInv, IInv, TypeOK
<1>7. AwardRows'
  BY <1>3, <1>5, <1>6 DEF PInv, AwardRows
<1>8. PICK stage \in Stages \cup {"idle"} :
        /\ Go(w, stage)
        /\ stage \in {"release", "loyalty"} => /\ req[w].to \in {"CANCELLED", "DELIVERED"}
                                               /\ stage = "loyalty" => req[w].to = "DELIVERED"
                                               /\ req[w].at = "write"
        /\ Refunding([at |-> stage]) => stage = "refundPayment" /\ req[w].to = "CANCELLED"
  <2>1. CASE Insert(w)
    BY <2>1 DEF Insert, Refunding, Stages
  <2>2. CASE WriteStatus(w)
    <3>1. Go(w, AfterWrite(req[w])) /\ req[w].at = "write"
      BY <2>2 DEF WriteStatus, At
    <3>2. /\ AfterWrite(req[w]) \in {"refundPayment", "release", "idle", "find", "loyalty"}
          /\ AfterWrite(req[w]) = "refundPayment" => req[w].to = "CANCELLED"
      BY <1>1, AfterStages
    <3>3. /\ AfterWrite(req[w]) = "release" => req[w].to \in {"CANCELLED", "DELIVERED"}
          /\ AfterWrite(req[w]) = "loyalty" => req[w].to = "DELIVERED"
      BY DEF AfterWrite, AfterRefund
    <3> QED BY <3>1, <3>2, <3>3 DEF Refunding, Stages
  <2> QED BY <2>1, <2>2
<1>9. PICK job : job = Moved(req[w], stage)
  OBVIOUS
<1>10. /\ job \in Jobs \cup {Idle}
       /\ job # Idle => job.at = stage /\ job.o = o /\ job.to = req[w].to
  BY <1>1, <1>2, <1>9, MovedType
<1>11. req' = [req EXCEPT ![w] = job]
  BY <1>8, <1>9, GoMoves DEF PInv, SInv
<1>12. ASSUME req[w].at = "write", req[w].to = "DELIVERED" PROVE order'[o].status = "DELIVERED"
  <2>1. order[o] \in OrderRows
    BY DEF PInv, SInv, IInv, TypeOK
  <2>2. [order[o] EXCEPT !.status = "DELIVERED"].status = "DELIVERED"
    BY <2>1 DEF OrderRows
  <2>3. order' = [order EXCEPT ![o] = [order[o] EXCEPT !.status = "DELIVERED"]]
    BY <1>2, <1>12 DEF Insert, WriteStatus, At
  <2> QED BY <2>2, <2>3 DEF PInv, SInv, IInv, TypeOK
<1>13. ASSUME NEW v \in Workers, req'[v] # Idle PROVE Owed(req[v])'
  <2>1. CASE v = w
    <3>1. req'[v] = job /\ job # Idle
      BY <1>11, <1>13, <2>1 DEF PInv, SInv, IInv, TypeOK
    <3>2. Owes(job) => req[w].at = "write" /\ req[w].to = "DELIVERED"
      BY <1>8, <1>10, <3>1 DEF Owes
    <3>3. Refunding(job) => job.to = "CANCELLED"
      BY <1>8, <1>10, <3>1 DEF Refunding
    <3> QED BY <1>3, <1>5, <1>10, <1>12, <3>1, <3>2, <3>3 DEF Owed, Owes, Refunding
  <2>2. CASE v # w
    <3>1. PICK r \in Jobs : r = req'[v] /\ r = req[v] /\ Owed(r)
      BY <1>11, <1>13, <2>2 DEF PInv, SInv, IInv, TypeOK, AwardJobs
    <3>2. r.o \in Orders /\ r.o # o
      BY <1>1, <1>2, <1>13, <2>2, <3>1 DEF PInv, SInv, Alone, Jobs
    <3> QED BY <1>3, <1>6, <3>1, <3>2 DEF Owed, Owes, Refunding
  <2> QED BY <2>1, <2>2
<1> QED BY <1>7, <1>13, Zenon DEF PInv, AwardJobs

LEMMA CrashPInv ==
  ASSUME PInv, SInv', SameStatus, NEW w \in Workers, Crash(w)
  PROVE  PInv'
BY QuietPInv DEF Crash, End, Go, books

LEMMA OutsidePInv ==
  ASSUME PInv, SInv', SameStatus, req' = req, points' = points
  PROVE  PInv'
<1>1. \A w \in Workers : req[w] # Idle => req[w].o \in Orders
  BY DEF PInv, SInv, IInv, TypeOK, Jobs
<1> QED BY <1>1 DEF PInv, AwardJobs, AwardRows, Owed, Owes, Refunding, SameStatus

LEMMA NextPInv ==
  ASSUME ~SameOrderOverlap
  PROVE  PInv /\ [Next]_vars => PInv'
<1> SUFFICES ASSUME PInv, [Next]_vars PROVE PInv'
  OBVIOUS
<1>1. SInv /\ IInv' /\ SInv'
  BY NextIInv, NextSerial DEF PInv, SInv
<1>2. ASSUME NEW w \in Workers, Arrive(w) PROVE PInv'
  BY <1>1, <1>2, ArriveSInv, ArrivePInv
<1>3. ASSUME NEW w \in Workers, Crash(w) PROVE PInv'
  BY <1>1, <1>3, CrashSInv, CrashPInv
<1>4. ASSUME NEW w \in Workers, Step(w) PROVE PInv'
  <2>1. CASE Insert(w) \/ WriteStatus(w)
    BY <1>1, <2>1, WritePInv
  <2>2. CASE ~Insert(w) /\ ~WriteStatus(w)
    <3>1. SameStatus
      BY <1>1, <1>4, <2>2, BooksStepSInv, RereadSInv, RiderStepSInv, SearchSInv DEF Step
    <3> QED BY <1>1, <1>4, <2>2, <3>1, StepPInv
  <2> QED BY <2>1, <2>2
<1>5. CASE \/ \E o \in Orders : PayFailed(o)
           \/ \E p \in Partners : RiderToggles(p) \/ AdminSuspends(p) \/ AdminRemoves(p)
           \/ UNCHANGED vars
  <2>1. SameStatus /\ req' = req
    BY <1>1, <1>5, OutsideStatus DEF SInv
  <2>2. points' = points
    BY <1>5 DEF PayFailed, RiderToggles, AdminSuspends, AdminRemoves, Unmoved, books, vars
  <2> QED BY <1>1, <2>1, <2>2, OutsidePInv
<1> QED BY <1>2, <1>3, <1>4, <1>5 DEF Next

(* When no two requests on one order overlap, the points of an order are     *)
(* awarded at most once, wherever requests die (applyStatusChange).          *)
THEOREM SerialAwardsOnce ==
  ASSUME ~SameOrderOverlap
  PROVE  Spec => []AwardedOnce
<1>1. PInv => AwardedOnce
  BY DEF PInv, SInv, IInv, TypeOK, AwardRows, AwardedOnce
<1> QED BY <1>1, InitPInv, NextPInv, PTL DEF Spec

(***************************************************************************)
(* A cancelled wallet order is paid back once.                             *)
(***************************************************************************)

(* What decides the refund is the "paid" that was read with the status: a    *)
(* wallet order is PAID from the moment create has finished until it is      *)
(* refunded, and the one request that cancels it holds the only refund.      *)
Cancelled(o) == "CANCELLED" \in history[o]
Creating(r) == r.at \in {"payment", "markPaid"}
RefundDue(o) == \E w \in Workers : req[w] # Idle /\ req[w].o = o /\ Refunding(req[w])
BeingCreated(o) == \E w \in Workers : req[w] # Idle /\ req[w].o = o /\ Creating(req[w])
Paying(r) == /\ Refunding(r) => refunded[r.o] = 0
             /\ r.at = "write" => r.seen.paid = order[r.o].paid
Kept(o) ==
  /\ charged[o] \in {0, 1} /\ refunded[o] \in {0, 1}
  /\ charged[o] = 1 => Method[o] = "WALLET"
  /\ Cancelled(o) => order[o].status \in {"CANCELLED", "REFUNDED"}
  /\ Method[o] = "WALLET" /\ Cancelled(o) => RefundDue(o) \/ refunded[o] = 1
  /\ Method[o] = "WALLET" /\ Placed(o) /\ ~Cancelled(o) =>
       BeingCreated(o) \/ order[o].paid = "PAID"
Money == /\ \A w \in Workers : req[w] # Idle => Paying(req[w])
         /\ \A o \in Orders : Kept(o)

LEMMA InitMoney == Init => Money
BY DEF Init, Money, Kept, Cancelled, Placed, Unplaced

(* What Money knows of an order.                                             *)
SameMoney(o) == /\ order'[o].status = order[o].status /\ order'[o].paid = order[o].paid
                /\ history'[o] = history[o] /\ charged'[o] = charged[o]
                /\ refunded'[o] = refunded[o]

(* A step of one request, on its own order.                                  *)
LEMMA MoneyMoves ==
  ASSUME SInv, Money, SInv', NEW w \in Workers, NEW o \in Orders, NEW job \in Jobs \cup {Idle},
         req' = [req EXCEPT ![w] = job],
         req[w] # Idle \/ job # Idle, req[w] # Idle => req[w].o = o,
         job # Idle => job.o = o /\ Paying(job)',
         \A q \in Orders : q # o => SameMoney(q),
         Kept(o)'
  PROVE  Money'
<1>1. \A v \in Workers : req'[v] = IF v = w THEN job ELSE req[v]
  BY DEF SInv, IInv, TypeOK
<1>2. ASSUME NEW v \in Workers, req'[v] # Idle PROVE Paying(req[v])'
  <2>1. CASE v = w
    BY <1>1, <1>2, <2>1 DEF Paying, Refunding
  <2>2. CASE v # w
    <3>1. PICK r \in Jobs : r = req'[v] /\ r = req[v] /\ Paying(r)
      BY <1>1, <1>2, <2>2 DEF SInv, IInv, TypeOK, Money
    <3>2. CASE job # Idle
      <4>1. r.o # o
        BY <1>1, <1>2, <2>2, <3>1, <3>2 DEF SInv, Alone
      <4>2. r.o \in Orders
        BY <3>1 DEF Jobs
      <4> QED BY <3>1, <4>1, <4>2 DEF Paying, Refunding, SameMoney
    <3>3. CASE req[w] # Idle
      <4>1. r.o # o
        BY <1>1, <1>2, <2>2, <3>1, <3>3 DEF SInv, Alone
      <4>2. r.o \in Orders
        BY <3>1 DEF Jobs
      <4> QED BY <3>1, <4>1, <4>2 DEF Paying, Refunding, SameMoney
    <3> QED BY <3>2, <3>3
  <2> QED BY <2>1, <2>2
<1>3. ASSUME NEW q \in Orders PROVE Kept(q)'
  <2>1. CASE q = o
    BY <2>1
  <2>2. CASE q # o
    <3>1. RefundDue(q) => RefundDue(q)'
      BY <1>1, <2>2 DEF RefundDue
    <3>2. BeingCreated(q) => BeingCreated(q)'
      BY <1>1, <2>2 DEF BeingCreated
    <3> QED BY <2>2, <3>1, <3>2 DEF Kept, Money, SameMoney, Cancelled, Placed
  <2> QED BY <2>1, <2>2
<1> QED BY <1>2, <1>3 DEF Money

(* A step that moves no money, of a request that was not about to.           *)
LEMMA MoneyQuiet ==
  ASSUME SInv, Money, SInv', NEW w \in Workers, NEW o \in Orders, NEW job \in Jobs \cup {Idle},
         req' = [req EXCEPT ![w] = job],
         req[w] # Idle \/ job # Idle,
         req[w] # Idle => req[w].o = o /\ ~Refunding(req[w]) /\ ~Creating(req[w]),
         job # Idle => job.o = o /\ ~Refunding(job)
                         /\ (job.at = "write" => job.seen.paid = order[o].paid),
         \A q \in Orders : SameMoney(q)
  PROVE  Money'
<1>1. job # Idle => job.o = o /\ Paying(job)'
  BY DEF Paying, Refunding, SameMoney
<1>2. req[w] # Idle => req[w].o = o
  OBVIOUS
<1>3. \A v \in Workers : req'[v] = IF v = w THEN job ELSE req[v]
  BY DEF SInv, IInv, TypeOK
<1>4. RefundDue(o) => RefundDue(o)'
  <2>1. RefundDue(o) => \E v \in Workers : v # w /\ req[v] # Idle /\ req[v].o = o /\ Refunding(req[v])
    BY DEF RefundDue
  <2> QED BY <1>3, <2>1 DEF RefundDue, Refunding
<1>5. BeingCreated(o) => BeingCreated(o)'
  <2>1. BeingCreated(o) => \E v \in Workers : v # w /\ req[v] # Idle /\ req[v].o = o /\ Creating(req[v])
    BY DEF BeingCreated
  <2> QED BY <1>3, <2>1 DEF BeingCreated, Creating
<1>6. Kept(o)'
  BY <1>4, <1>5 DEF Kept, Money, SameMoney, Cancelled, Placed
<1> QED BY <1>1, <1>2, <1>6, MoneyMoves

(* A request starts: what it reads of the payment is current.                *)
LEMMA MoneyStarts ==
  ASSUME SInv, Money, SInv', NEW w \in Workers, NEW o \in Orders, req[w] = Idle,
         NEW stage \in Stages \ {"refundPayment", "refundOrder", "credit"},
         NEW to \in Statuses \cup {None}, NEW p \in Partners \cup {None},
         NEW x \in Partners \cup {None},
         Begin(w, Job(stage, o, to, p, x)), \A q \in Orders : SameMoney(q)
  PROVE  Money'
<1>1. PICK job : job = Job(stage, o, to, p, x)
  OBVIOUS
<1>2. job \in Jobs /\ job.at = stage /\ job.o = o /\ job.seen = order[o]
  BY <1>1, JobType DEF SInv, IInv
<1>3. job # Idle
  BY <1>2 DEF Jobs, Idle
<1>4. job.o = o /\ ~Refunding(job) /\ (job.at = "write" => job.seen.paid = order[o].paid)
  BY <1>2 DEF Refunding
<1> QED BY <1>1, <1>2, <1>3, <1>4, MoneyQuiet DEF Begin

LEMMA CreateMoney ==
  ASSUME SInv, Money, SInv', NEW w \in Workers, NEW o \in Orders, Create(w, o)
  PROVE  Money'
<1>1. PICK job : job = Job("insert", o, None, None, None)
  OBVIOUS
<1>2. job \in Jobs /\ job.at = "insert" /\ job.o = o
  BY <1>1, JobType DEF SInv, IInv, Stages
<1>3. job # Idle
  BY <1>2 DEF Jobs, Idle
<1>4. req' = [req EXCEPT ![w] = job] /\ req[w] = Idle
  BY <1>1 DEF Create, Begin, MayStart
<1>5. Paying(job)'
  BY <1>2 DEF Paying, Refunding
<1>6. \A q \in Orders : q # o => SameMoney(q)
  BY DEF Create, SameMoney, SInv, IInv, TypeOK
<1>7. Kept(o)'
  <2>1. ~Placed(o) /\ history[o] = {}
    BY DEF Create, SInv, IInv, RowsAgree
  <2>2. charged'[o] \in {0, 1} /\ (charged'[o] = 1 => Method[o] = "WALLET")
    BY DEF Create, SInv, IInv, TypeOK
  <2> QED BY <2>1, <2>2 DEF Create, Kept, Money, Cancelled, Placed
<1> QED BY <1>2, <1>3, <1>4, <1>5, <1>6, <1>7, MoneyMoves

LEMMA ArriveMoney ==
  ASSUME SInv, Money, SInv', NEW w \in Workers, Arrive(w)
  PROVE  Money'
<1>1. ASSUME NEW o \in Orders, Create(w, o) PROVE Money'
  BY <1>1, CreateMoney
<1>2. ASSUME NEW o \in Orders, Pay(w, o) PROVE Money'
  BY <1>2, MoneyStarts DEF Pay, Stages, MayStart, SameMoney
<1>3. ASSUME NEW o \in Orders, CancelRequest(w, o) PROVE Money'
  BY <1>3, MoneyStarts DEF CancelRequest, Stages, Statuses, MayStart, SameMoney, books
<1>4. ASSUME NEW o \in Orders, NEW to \in Statuses, StatusRequest(w, o, to) PROVE Money'
  BY <1>4, MoneyStarts DEF StatusRequest, Stages, MayStart, SameMoney, books
<1>5. ASSUME NEW o \in Orders, NEW p \in Partners, NEW to \in RiderStatuses,
             RiderStatusRequest(w, o, p, to)
      PROVE  Money'
  BY <1>5, MoneyStarts DEF RiderStatusRequest, Stages, RiderStatuses, Statuses, MayStart,
                           SameMoney, books
<1>6. ASSUME NEW o \in Orders, NEW p \in Partners, AssignRequest(w, o, p) PROVE Money'
  BY <1>6, MoneyStarts DEF AssignRequest, Stages, MayStart, SameMoney, books
<1>7. ASSUME NEW o \in Orders, NEW p \in Partners, AcceptRequest(w, o, p) PROVE Money'
  BY <1>7, MoneyStarts DEF AcceptRequest, Answerable, Stages, MayStart, SameMoney, books
<1>8. ASSUME NEW o \in Orders, NEW p \in Partners, RejectRequest(w, o, p) PROVE Money'
  BY <1>8, MoneyStarts DEF RejectRequest, Answerable, Stages, MayStart, SameMoney, books
<1> QED BY <1>1, <1>2, <1>3, <1>4, <1>5, <1>6, <1>7, <1>8 DEF Arrive

(* A step that goes on to another stage.                                     *)
LEMMA MoneyGoes ==
  ASSUME SInv, Money, SInv', NEW w \in Workers, NEW o \in Orders, req[w] # Idle, req[w].o = o,
         NEW stage \in (Stages \cup {"idle"}) \ {"write"}, Go(w, stage),
         stage \in {"refundPayment", "refundOrder", "credit"} => refunded'[o] = 0,
         \A q \in Orders : q # o => SameMoney(q),
         \/ Kept(o)'
         \/ SameMoney(o) /\ ~Refunding(req[w]) /\ ~Creating(req[w])
  PROVE  Money'
<1>1. req[w] \in Jobs
  BY DEF SInv, IInv, TypeOK
<1>2. PICK job : job = Moved(req[w], stage)
  OBVIOUS
<1>3. /\ job \in Jobs \cup {Idle}
      /\ job # Idle => job.at = stage /\ job.o = o
  BY <1>1, <1>2, MovedType
<1>4. req' = [req EXCEPT ![w] = job]
  BY <1>2, GoMoves DEF SInv
<1>5. job # Idle => job.o = o /\ Paying(job)'
  BY <1>3 DEF Paying, Refunding
<1>6. Kept(o)'
  <2>1. CASE SameMoney(o) /\ ~Refunding(req[w]) /\ ~Creating(req[w])
    <3>1. \A v \in Workers : v # w => req'[v] = req[v]
      BY <1>4 DEF SInv, IInv, TypeOK
    <3>2. RefundDue(o) => RefundDue(o)'
      <4>1. RefundDue(o) => \E v \in Workers : v # w /\ req[v] # Idle /\ req[v].o = o /\ Refunding(req[v])
        BY <2>1 DEF RefundDue
      <4> QED BY <3>1, <4>1 DEF RefundDue, Refunding
    <3>3. BeingCreated(o) => BeingCreated(o)'
      <4>1. BeingCreated(o) => \E v \in Workers : v # w /\ req[v] # Idle /\ req[v].o = o /\ Creating(req[v])
        BY <2>1 DEF BeingCreated
      <4> QED BY <3>1, <4>1 DEF BeingCreated, Creating
    <3> QED BY <2>1, <3>2, <3>3 DEF Kept, Money, SameMoney, Cancelled, Placed
  <2> QED BY <2>1
<1> QED BY <1>3, <1>4, <1>5, <1>6, MoneyMoves

(* The job of an order that is being created or paid back is the only one.   *)
LEMMA OnlyJob ==
  ASSUME SInv, NEW w \in Workers, NEW o \in Orders, req[w] # Idle, req[w].o = o
  PROVE  /\ ~Refunding(req[w]) => ~RefundDue(o)
         /\ ~Creating(req[w]) => ~BeingCreated(o)
BY DEF SInv, Alone, RefundDue, BeingCreated

(* The request that has just moved on to a stage is there.                   *)
LEMMA WentOn ==
  ASSUME IInv, NEW w \in Workers, NEW o \in Orders, req[w] # Idle, req[w].o = o,
         NEW stage \in Stages, Go(w, stage)
  PROVE  /\ stage \in {"refundPayment", "refundOrder", "credit"} => RefundDue(o)'
         /\ stage \in {"payment", "markPaid"} => BeingCreated(o)'
<1>1. req[w] \in Jobs /\ req' = [req EXCEPT ![w] = [req[w] EXCEPT !.at = stage]]
  BY DEF IInv, TypeOK, Go, Stages
<1>2. /\ req'[w] = [req[w] EXCEPT !.at = stage]
      /\ req'[w].at = stage /\ req'[w].o = o
  BY <1>1 DEF IInv, TypeOK, Jobs
<1>3. req'[w] # Idle
  BY <1>1, <1>2 DEF Jobs, Idle
<1> QED BY <1>2, <1>3 DEF RefundDue, BeingCreated, Refunding, Creating

(* Setting one column of one order.                                          *)
LEMMA MoneyColumns ==
  ASSUME IInv, NEW o \in Orders, NEW row, order' = [order EXCEPT ![o] = row],
         UNCHANGED <<charged, refunded>>, \A q \in Orders : q # o => history'[q] = history[q]
  PROVE  /\ order'[o] = row
         /\ \A q \in Orders : q # o => SameMoney(q)
BY DEF IInv, TypeOK, SameMoney

LEMMA InsertMoney ==
  ASSUME SInv, Money, SInv', NEW w \in Workers, Insert(w)
  PROVE  Money'
<1>1. /\ req[w] \in Jobs /\ req[w] # Idle /\ req[w].at = "insert" /\ req[w].o \in Orders
      /\ order[req[w].o] \in OrderRows
  BY AtJob DEF SInv, Stages, Insert
<1>2. PICK o \in Orders : o = req[w].o
  BY <1>1
<1>3. history[o] = {}
  BY <1>1, <1>2 DEF SInv, SeenCurrent, Current, IInv, RowsAgree
<1>4. PICK row : row = [order[o] EXCEPT !.status = "PENDING"]
  OBVIOUS
<1>5. row.status = "PENDING"
  BY <1>1, <1>2, <1>4 DEF OrderRows
<1>6. order' = [order EXCEPT ![o] = row] /\ history' = [history EXCEPT ![o] = @ \cup {"PENDING"}]
  BY <1>2, <1>4 DEF Insert
<1>7. UNCHANGED <<charged, refunded>> /\ Go(w, "payment")
  BY DEF Insert, books
<1>8. \A q \in Orders : q # o => history'[q] = history[q]
  BY <1>6 DEF SInv, IInv, TypeOK
<1>9. order'[o] = row /\ (\A q \in Orders : q # o => SameMoney(q))
  BY <1>6, <1>7, <1>8, MoneyColumns DEF SInv
<1>10. history'[o] = {"PENDING"}
  BY <1>3, <1>6 DEF SInv, IInv, TypeOK
<1>11. BeingCreated(o)'
  BY <1>1, <1>2, <1>7, WentOn DEF Stages, SInv
<1>12. Kept(o)'
  <2>1. Kept(o) /\ ~Cancelled(o) /\ ~Cancelled(o)'
    BY <1>3, <1>10 DEF Money, Cancelled
  <2> QED BY <1>7, <1>11, <2>1 DEF Kept, Cancelled
<1> QED BY <1>1, <1>2, <1>7, <1>9, <1>12, MoneyGoes DEF Stages

(* create marks the order of a wallet paid before it ends.                   *)
LEMMA PaymentMoney ==
  ASSUME SInv, Money, SInv', NEW w \in Workers,
         CreatePayment(w) \/ GatewayFails(w) \/ MarkOrderPaid(w) \/ PayOrder(w)
  PROVE  Money'
<1>1. /\ req[w] \in Jobs /\ req[w] # Idle /\ req[w].o \in Orders
      /\ req[w].at \in {"payment", "markPaid", "payOrder"}
      /\ order[req[w].o] \in OrderRows
  BY AtJob DEF SInv, Stages, CreatePayment, GatewayFails, MarkOrderPaid, PayOrder
<1>2. PICK o \in Orders : o = req[w].o
  BY <1>1
<1>3. UNCHANGED <<charged, refunded, history>> /\ Kept(o)
  BY DEF CreatePayment, GatewayFails, MarkOrderPaid, PayOrder, books, Money
<1>4. ~RefundDue(o)
  BY <1>1, <1>2, OnlyJob DEF Refunding
<1>5. CASE CreatePayment(w) \/ GatewayFails(w)
  <2>1. \A q \in Orders : SameMoney(q)
    BY <1>3, <1>5 DEF CreatePayment, GatewayFails, SameMoney
  <2>2. CASE Method[o] = "WALLET"
    <3>1. Go(w, "markPaid")
      BY <1>2, <1>5, <2>2 DEF CreatePayment, GatewayFails
    <3>2. BeingCreated(o)'
      BY <1>1, <1>2, <3>1, WentOn DEF Stages, SInv
    <3>3. Kept(o)'
      BY <1>3, <1>4, <2>1, <3>2 DEF Kept, SameMoney, Cancelled, Placed
    <3> QED BY <1>1, <1>2, <2>1, <3>1, <3>3, MoneyGoes DEF Stages
  <2>3. CASE Method[o] # "WALLET"
    <3>1. Go(w, "idle")
      BY <1>2, <1>5, <2>3 DEF CreatePayment, GatewayFails, End
    <3>2. Kept(o)'
      BY <1>3, <2>1, <2>3 DEF Kept, SameMoney, Cancelled, Placed
    <3> QED BY <1>1, <1>2, <2>1, <3>1, <3>2, MoneyGoes
  <2> QED BY <2>2, <2>3
<1>6. CASE MarkOrderPaid(w) \/ PayOrder(w)
  <2>1. PICK row : row = [order[o] EXCEPT !.paid = "PAID"]
    OBVIOUS
  <2>2. row.paid = "PAID" /\ row.status = order[o].status
    BY <1>1, <1>2, <2>1 DEF OrderRows
  <2>3. order' = [order EXCEPT ![o] = row] /\ Go(w, "idle")
    BY <1>2, <1>6, <2>1 DEF MarkOrderPaid, PayOrder, End
  <2>4. order'[o] = row /\ (\A q \in Orders : q # o => SameMoney(q))
    BY <1>3, <2>3, MoneyColumns DEF SInv
  <2>5. Kept(o)'
    BY <1>3, <1>4, <2>2, <2>4 DEF Kept, Cancelled, Placed
  <2> QED BY <1>1, <1>2, <2>3, <2>4, <2>5, MoneyGoes
<1> QED BY <1>5, <1>6, Zenon

(* The write that cancels a wallet order finds it PAID, and goes on to the   *)
(* refund; the order has not been refunded before.                           *)
LEMMA WriteMoney ==
  ASSUME SInv, Money, SInv', NEW w \in Workers, WriteStatus(w)
  PROVE  Money'
<1>1. /\ req[w] \in Jobs /\ req[w] # Idle /\ req[w].at = "write" /\ req[w].o \in Orders
      /\ order[req[w].o] \in OrderRows /\ JobSound(req[w])
  BY AtJob DEF SInv, Stages, WriteStatus
<1>2. PICK o \in Orders, to \in Statuses : o = req[w].o /\ to = req[w].to
  BY <1>1 DEF JobSound
<1>3. /\ order[o].status \in history[o] /\ to \in Allowed[order[o].status]
      /\ req[w].seen.paid = order[o].paid
  BY <1>1, <1>2 DEF JobSound, SInv, SeenCurrent, Current, Money, Paying
<1>4. order[o].status \in Statuses /\ Placed(o)
  BY <1>3 DEF SInv, IInv, TypeOK, Placed, Statuses
<1>5. PICK row : row = [order[o] EXCEPT !.status = to]
  OBVIOUS
<1>6. row.status = to /\ row.paid = order[o].paid
  BY <1>1, <1>2, <1>5 DEF OrderRows
<1>7. order' = [order EXCEPT ![o] = row] /\ history' = [history EXCEPT ![o] = @ \cup {to}]
  BY <1>2, <1>5 DEF WriteStatus
<1>8. UNCHANGED <<charged, refunded>> /\ Kept(o)
  BY DEF WriteStatus, books, Money
<1>9. \A q \in Orders : q # o => history'[q] = history[q]
  BY <1>7 DEF SInv, IInv, TypeOK
<1>10. order'[o] = row /\ (\A q \in Orders : q # o => SameMoney(q))
  BY <1>7, <1>8, <1>9, MoneyColumns DEF SInv
<1>11. Cancelled(o)' <=> Cancelled(o) \/ to = "CANCELLED"
  BY <1>7 DEF Cancelled, SInv, IInv, TypeOK
<1>12. ~RefundDue(o) /\ ~BeingCreated(o)
  BY <1>1, <1>2, OnlyJob DEF Refunding, Creating
<1>13. PICK stage \in {"refundPayment", "release", "idle", "find", "loyalty"} :
         /\ stage = AfterWrite(req[w]) /\ Go(w, stage)
         /\ stage = "refundPayment" => to = "CANCELLED"
  BY <1>1, <1>2, AfterStages DEF WriteStatus
<1>14. to = "CANCELLED" => ~Cancelled(o) /\ refunded[o] = 0
  <2>1. to = "CANCELLED" => order[o].status \notin {"CANCELLED", "REFUNDED"}
    BY <1>3 DEF Allowed
  <2> QED BY <1>8, <2>1 DEF Kept, SInv, IInv, RefundGrounded, Cancelled
<1>15. Cancelled(o) => to = "REFUNDED"
  BY <1>3, <1>8 DEF Kept, Allowed
<1>16. Kept(o)'
  <2>1. CASE to = "CANCELLED"
    <3>1. Method[o] = "WALLET" => stage = "refundPayment"
      BY <1>2, <1>3, <1>4, <1>8, <1>12, <1>13, <1>14, <2>1 DEF Kept, AfterWrite
    <3>2. Method[o] = "WALLET" => RefundDue(o)'
      BY <1>1, <1>2, <1>13, <3>1, WentOn DEF Stages, SInv
    <3> QED BY <1>6, <1>8, <1>10, <1>11, <2>1, <3>2 DEF Kept, Placed
  <2>2. CASE to # "CANCELLED"
    <3>1. Cancelled(o)' <=> Cancelled(o)
      BY <1>11, <2>2
    <3>2. Method[o] = "WALLET" /\ ~Cancelled(o) => order'[o].paid = "PAID"
      BY <1>4, <1>6, <1>8, <1>10, <1>12 DEF Kept
    <3>3. Cancelled(o) => order'[o].status = "REFUNDED"
      BY <1>6, <1>10, <1>15
    <3>4. Method[o] = "WALLET" /\ Cancelled(o) => refunded'[o] = 1
      BY <1>8, <1>12 DEF Kept
    <3> QED BY <1>8, <3>1, <3>2, <3>3, <3>4 DEF Kept
  <2> QED BY <2>1, <2>2
<1> QED BY <1>1, <1>2, <1>8, <1>10, <1>13, <1>14, <1>16, MoneyGoes DEF Stages

(* The refund, up to the one credit.                                         *)
LEMMA RefundMoney ==
  ASSUME SInv, Money, SInv', NEW w \in Workers,
         RefundPayment(w) \/ RefundOrder(w) \/ RefundCredit(w)
  PROVE  Money'
<1>1. /\ req[w] \in Jobs /\ req[w] # Idle /\ req[w].o \in Orders
      /\ req[w].at \in {"refundPayment", "refundOrder", "credit"}
      /\ order[req[w].o] \in OrderRows /\ JobSound(req[w])
  BY AtJob DEF SInv, Stages, RefundPayment, RefundOrder, RefundCredit
<1>2. PICK o \in Orders : o = req[w].o
  BY <1>1
<1>3. Cancelled(o) /\ refunded[o] = 0 /\ Kept(o)
  BY <1>1, <1>2 DEF JobSound, Cancelled, Money, Paying, Refunding
<1>4. UNCHANGED <<charged, history>>
  BY DEF RefundPayment, RefundOrder, RefundCredit, books
<1>5. AfterRefund(req[w]) \in {"release", "idle"}
  BY <1>1, AfterStages
<1>6. CASE RefundPayment(w)
  <2>1. \A q \in Orders : SameMoney(q)
    BY <1>4, <1>6 DEF RefundPayment, SameMoney
  <2>2. Go(w, "refundOrder")
    BY <1>6 DEF RefundPayment
  <2>3. RefundDue(o)'
    BY <1>1, <1>2, <2>2, WentOn DEF Stages, SInv
  <2>4. Kept(o)'
    BY <1>3, <2>1, <2>3 DEF Kept, SameMoney, Cancelled
  <2>5. refunded'[o] = 0
    BY <1>3, <2>1 DEF SameMoney
  <2> QED BY <1>1, <1>2, <2>1, <2>2, <2>4, <2>5, MoneyGoes DEF Stages
<1>7. CASE RefundOrder(w)
  <2>1. PICK row : row = [order[o] EXCEPT !.paid = "REFUNDED"]
    OBVIOUS
  <2>2. row.status = order[o].status
    BY <1>1, <1>2, <2>1 DEF OrderRows
  <2>3. order' = [order EXCEPT ![o] = row] /\ refunded' = refunded
    BY <1>2, <1>7, <2>1 DEF RefundOrder, books
  <2>4. order'[o] = row /\ (\A q \in Orders : q # o => SameMoney(q))
    BY <1>4, <2>3, MoneyColumns DEF SInv
  <2>5. PICK stage \in {"credit", "release", "idle"} :
          Go(w, stage) /\ (Method[o] = "WALLET" => stage = "credit")
    BY <1>2, <1>5, <1>7 DEF RefundOrder
  <2>6. Method[o] = "WALLET" => RefundDue(o)'
    BY <1>1, <1>2, <2>5, WentOn DEF Stages, SInv
  <2>7. Kept(o)'
    BY <1>3, <1>4, <2>2, <2>3, <2>4, <2>6 DEF Kept, Cancelled
  <2> QED BY <1>1, <1>2, <1>3, <2>3, <2>4, <2>5, <2>7, MoneyGoes DEF Stages
<1>8. CASE RefundCredit(w)
  <2>1. refunded' = [refunded EXCEPT ![o] = 1] /\ order' = order
    <3>1. refunded' = [refunded EXCEPT ![o] = refunded[o] + 1] /\ order' = order
      BY <1>2, <1>8 DEF RefundCredit
    <3>2. refunded[o] + 1 = 1
      BY <1>3
    <3> QED BY <3>1, <3>2
  <2>2. refunded'[o] = 1 /\ (\A q \in Orders : q # o => SameMoney(q))
    BY <1>4, <2>1 DEF SameMoney, SInv, IInv, TypeOK
  <2>3. PICK stage \in {"release", "idle"} : Go(w, stage)
    BY <1>5, <1>8 DEF RefundCredit
  <2>4. Kept(o)'
    BY <1>3, <1>4, <2>1, <2>2 DEF Kept, Cancelled
  <2> QED BY <1>1, <1>2, <2>2, <2>3, <2>4, MoneyGoes DEF Stages
<1> QED BY <1>6, <1>7, <1>8, Zenon

(* Steps that touch neither status nor payment of an order.                  *)
LEMMA OtherMoney ==
  ASSUME SInv, Money, SInv', NEW w \in Workers,
         \/ ReleaseRider(w) \/ AwardPoints(w) \/ Vet(w) \/ Unassign(w) \/ Mark(w)
         \/ FreeRejecter(w) \/ Attach(w) \/ Accept(w) \/ ClearAssignment(w)
  PROVE  Money'
<1>1. /\ req[w] \in Jobs /\ req[w] # Idle /\ req[w].o \in Orders
      /\ req[w].at \in {"release", "loyalty", "vet", "unassign", "mark", "free", "attach",
                        "accept", "clear"}
      /\ order[req[w].o] \in OrderRows
  BY AtJob, Zenon DEF SInv, Stages, ReleaseRider, AwardPoints, Vet, Unassign, Mark, FreeRejecter,
               Attach, Accept, ClearAssignment
<1>2. PICK o \in Orders : o = req[w].o
  BY <1>1
<1>3. UNCHANGED <<charged, refunded, history>>
  BY DEF ReleaseRider, AwardPoints, Vet, Unassign, Mark, FreeRejecter, Attach, Accept,
         ClearAssignment, books
<1>4. PICK row : /\ row.status = order[o].status /\ row.paid = order[o].paid
                 /\ order' = [order EXCEPT ![o] = row] \/ order' = order
  <2> DEFINE Named(p, a) == [[order[o] EXCEPT !.partner = p] EXCEPT !.acceptance = a]
  <2>1. \A p, a : Named(p, a).status = order[o].status /\ Named(p, a).paid = order[o].paid
    BY <1>1, <1>2 DEF OrderRows
  <2>2. \A a : /\ [order[o] EXCEPT !.acceptance = a].status = order[o].status
               /\ [order[o] EXCEPT !.acceptance = a].paid = order[o].paid
    BY <1>1, <1>2 DEF OrderRows
  <2>3. CASE Attach(w)
    <3>1. order' = order \/ order' = [order EXCEPT ![o] = Named(req[w].partner, "PENDING")]
      BY <1>2, <2>3 DEF Attach
    <3> QED BY <2>1, <3>1
  <2>4. CASE Accept(w)
    <3>1. order' = [order EXCEPT ![o] = [order[o] EXCEPT !.acceptance = "ACCEPTED"]]
      BY <1>2, <2>4 DEF Accept
    <3> QED BY <2>2, <3>1
  <2>5. CASE ClearAssignment(w)
    <3>1. order' = [order EXCEPT ![o] = Named(None, "NONE")]
      BY <1>2, <2>5 DEF ClearAssignment
    <3> QED BY <2>1, <3>1
  <2>6. CASE ReleaseRider(w) \/ AwardPoints(w) \/ Vet(w) \/ Unassign(w) \/ Mark(w)
             \/ FreeRejecter(w)
    BY <2>6 DEF ReleaseRider, AwardPoints, Vet, Unassign, Mark, FreeRejecter
  <2> QED BY <2>3, <2>4, <2>5, <2>6
<1>5. \A q \in Orders : SameMoney(q)
  <2>1. CASE order' = order
    BY <1>3, <2>1 DEF SameMoney
  <2>2. CASE order' = [order EXCEPT ![o] = row]
    <3>1. order'[o] = row /\ (\A q \in Orders : q # o => SameMoney(q))
      BY <1>3, <2>2, MoneyColumns DEF SInv
    <3> QED BY <1>3, <1>4, <3>1 DEF SameMoney
  <2> QED BY <1>4, <2>1, <2>2
<1>6. PICK stage \in {"idle", "loyalty", "mark", "unassign", "attach", "clear", "find"} :
        Go(w, stage)
  BY DEF ReleaseRider, AwardPoints, Vet, Unassign, Mark, FreeRejecter, Attach, Accept,
         ClearAssignment, End
<1>7. ~Refunding(req[w]) /\ ~Creating(req[w])
  BY <1>1 DEF Refunding, Creating
<1> QED BY <1>1, <1>2, <1>5, <1>6, <1>7, MoneyGoes, Zenon DEF Stages

LEMMA SearchMoney ==
  ASSUME SInv, Money, SInv', NEW w \in Workers,
         FindRiders(w) \/ \E p \in Partners : ClaimRider(w, p)
  PROVE  Money'
<1>1. req[w] # Idle /\ req[w].at \in {"find", "claim"} /\ req[w] \in Jobs
  BY Zenon DEF FindRiders, ClaimRider, At, SInv, IInv, TypeOK
<1>2. PICK o \in Orders : o = req[w].o
  BY <1>1, Zenon DEF Jobs
<1>3. \A q \in Orders : SameMoney(q)
  BY Zenon DEF FindRiders, ClaimRider, SameMoney, books
<1>4. PICK job \in Jobs \cup {Idle} :
        /\ req' = [req EXCEPT ![w] = job]
        /\ job # Idle => job.o = req[w].o /\ job.at \in {"claim", "attach"}
  BY SearchJob DEF SInv
<1>5. job # Idle => job.o = o /\ ~Refunding(job)
                      /\ (job.at = "write" => job.seen.paid = order[o].paid)
  BY <1>2, <1>4 DEF Refunding
<1>6. req[w] # Idle => req[w].o = o /\ ~Refunding(req[w]) /\ ~Creating(req[w])
  BY <1>1, <1>2 DEF Refunding, Creating
<1> QED BY <1>1, <1>3, <1>4, <1>5, <1>6, MoneyQuiet

LEMMA RereadMoney ==
  ASSUME SInv, Money, SInv', NEW w \in Workers, Reread(w)
  PROVE  Money'
<1>1. /\ req[w] \in Jobs /\ req[w] # Idle /\ req[w].at = "reread" /\ req[w].o \in Orders
      /\ JobSound(req[w])
  BY AtJob DEF SInv, Stages, Reread
<1>2. PICK o \in Orders, to \in Statuses : o = req[w].o /\ to = req[w].to
  BY <1>1 DEF JobSound
<1>3. PICK job : job = Job("write", o, to, None, None)
  OBVIOUS
<1>4. job \in Jobs /\ job.at = "write" /\ job.o = o /\ job.seen = order[o]
  BY <1>3, ReadJobType DEF SInv, IInv, Stages
<1>5. req' = [req EXCEPT ![w] = job] \/ req' = [req EXCEPT ![w] = Idle]
  BY <1>2, <1>3 DEF Reread, Begin
<1>6. \A q \in Orders : SameMoney(q)
  BY DEF Reread, SameMoney, books
<1>7. req[w] # Idle => req[w].o = o /\ ~Refunding(req[w]) /\ ~Creating(req[w])
  BY <1>1, <1>2 DEF Refunding, Creating
<1>8. job # Idle => job.o = o /\ ~Refunding(job)
                      /\ (job.at = "write" => job.seen.paid = order[o].paid)
  BY <1>4 DEF Refunding
<1> QED BY <1>1, <1>4, <1>5, <1>6, <1>7, <1>8, MoneyQuiet

LEMMA OutsideMoney ==
  ASSUME SInv, Money,
         \/ \E o \in Orders : PayFailed(o)
         \/ \E p \in Partners : RiderToggles(p) \/ AdminSuspends(p) \/ AdminRemoves(p)
         \/ UNCHANGED vars
  PROVE  Money'
<1>1. SameStatus /\ req' = req
  BY OutsideStatus DEF SInv
<1>2. UNCHANGED <<charged, refunded, history>>
  BY DEF PayFailed, RiderToggles, AdminSuspends, AdminRemoves, Unmoved, vars, books
<1>3. \A q \in Orders : order'[q].paid = order[q].paid
  <2>1. ASSUME NEW p \in Partners, AdminRemoves(p) PROVE \A q \in Orders : order'[q].paid = order[q].paid
    <3>1. \A q \in Orders : [order[q] EXCEPT !.partner = None].paid = order[q].paid
      BY DEF SInv, IInv, TypeOK, OrderRows
    <3> QED BY <2>1, <3>1 DEF AdminRemoves
  <2> QED BY <2>1 DEF PayFailed, RiderToggles, AdminSuspends, Unmoved, vars
<1>4. \A q \in Orders : SameMoney(q)
  BY <1>1, <1>2, <1>3 DEF SameMoney, SameStatus
<1>5. ASSUME NEW w \in Workers, req'[w] # Idle PROVE Paying(req[w])'
  <2>1. PICK r \in Jobs : r = req[w] /\ r = req'[w] /\ Paying(r)
    BY <1>1, <1>5 DEF SInv, IInv, TypeOK, Money
  <2>2. r.o \in Orders
    BY <2>1 DEF Jobs
  <2> QED BY <1>4, <2>1, <2>2 DEF Paying, Refunding, SameMoney
<1>6. ASSUME NEW q \in Orders PROVE Kept(q)'
  <2>1. /\ RefundDue(q)' <=> RefundDue(q)
        /\ BeingCreated(q)' <=> BeingCreated(q)
    BY <1>1 DEF RefundDue, BeingCreated, Refunding, Creating
  <2> QED BY <1>4, <2>1 DEF Kept, Money, SameMoney, Cancelled, Placed
<1> QED BY <1>5, <1>6 DEF Money

(* Money holds until a request dies.                                         *)
MInv == SInv /\ (crashes = 0 => Money)

LEMMA NextMInv ==
  ASSUME ~SameOrderOverlap
  PROVE  MInv /\ [Next]_vars => MInv'
<1> SUFFICES ASSUME MInv, [Next]_vars, crashes' = 0 PROVE Money'
  BY NextSerial DEF MInv
<1>1. SInv /\ SInv'
  BY NextSerial DEF MInv
<1>2. crashes \in Nat
  BY <1>1 DEF SInv, IInv, TypeOK
<1>3. ASSUME NEW w \in Workers, Crash(w) PROVE FALSE
  BY <1>2, <1>3 DEF Crash
<1>4. crashes' = crashes
  <2>1. ASSUME NEW w \in Workers, Arrive(w) PROVE crashes' = crashes
    BY <2>1, Zenon DEF Arrive, Create, Pay, CancelRequest, StatusRequest, RiderStatusRequest,
       AssignRequest, AcceptRequest, RejectRequest
  <2>2. ASSUME NEW w \in Workers, Step(w) PROVE crashes' = crashes
    BY <2>2, Zenon DEF Step, Insert, CreatePayment, GatewayFails, MarkOrderPaid, PayOrder, Reread,
       WriteStatus, RefundPayment, RefundOrder, RefundCredit, ReleaseRider, AwardPoints,
       FindRiders, ClaimRider, Attach, Vet, Unassign, Mark, Accept, FreeRejecter, ClearAssignment
  <2>3. CASE \/ \E o \in Orders : PayFailed(o)
             \/ \E p \in Partners : RiderToggles(p) \/ AdminSuspends(p) \/ AdminRemoves(p)
             \/ UNCHANGED vars
    BY <2>3 DEF PayFailed, RiderToggles, AdminSuspends, AdminRemoves, Unmoved, vars
  <2> QED BY <1>3, <2>1, <2>2, <2>3 DEF Next
<1>5. Money
  BY <1>4 DEF MInv
<1>6. ASSUME NEW w \in Workers, Arrive(w) PROVE Money'
  BY <1>1, <1>5, <1>6, ArriveMoney
<1>7. ASSUME NEW w \in Workers, Step(w) PROVE Money'
  BY <1>1, <1>5, <1>7, InsertMoney, PaymentMoney, WriteMoney, RefundMoney, OtherMoney,
     SearchMoney, RereadMoney DEF Step
<1> QED BY <1>1, <1>3, <1>5, <1>6, <1>7, OutsideMoney DEF Next

(* When no two requests on one order overlap and none has died, a wallet     *)
(* order on which no request is at work has been paid back if and only if it *)
(* was cancelled, and then once, whatever is paid or fails on it meanwhile   *)
(* (create, markPaid, the refund of applyStatusChange).                      *)
THEOREM SerialRefundsOnce ==
  ASSUME ~SameOrderOverlap
  PROVE  Spec => [](crashes = 0 => RefundedOnce)
<1>1. Init => MInv
  BY InitSInv, InitMoney DEF MInv
<1>2. MInv => (crashes = 0 => RefundedOnce)
  <2> SUFFICES ASSUME SInv, Money, NEW o \in Orders, Resting(o)
               PROVE  refunded[o] = 1 <=> charged[o] = 1 /\ "CANCELLED" \in history[o]
    BY DEF MInv, RefundedOnce
  <2>1. Kept(o) /\ ~RefundDue(o)
    BY DEF Money, Resting, Busy, RefundDue
  <2>2. refunded[o] = 1 => charged[o] = 1 /\ "CANCELLED" \in history[o]
    BY DEF SInv, IInv, RefundGrounded
  <2> QED BY <2>1, <2>2 DEF Kept, Cancelled
<1> QED BY <1>1, <1>2, NextMInv, PTL DEF Spec

(***************************************************************************)
(* Riders, when no request has died either: who holds a rider that is not  *)
(* available, and when nobody else does.                                   *)
(***************************************************************************)

(* A rider is bound by a request that has claimed them and not yet written   *)
(* it to the order, and by one that has finished the order and not yet       *)
(* released them.  A request that has released a rider lets them go, though  *)
(* the order may still name them.                                            *)
Bound(r, p) == \/ r.at = "attach" /\ r.partner = p
               \/ r.at \in {"refundPayment", "refundOrder", "credit", "release"}
                  /\ r.seen.partner = p
Letting(r, p) == /\ r.at \in {"clear", "mark", "attach"} /\ r.seen.partner = p
                 /\ r.partner # p \/ r.excluded = p
Active(row) == row.status # "none" /\ row.status \notin Finished

(* An order with this row and this request at work on it holds p.            *)
Held(row, r, p) == \/ row.partner = p /\ Active(row) /\ ~Letting(r, p)
                   \/ Bound(r, p)
Holds(rows, jobs, o, p) ==
  \/ /\ rows[o].partner = p /\ Active(rows[o])
     /\ \A v \in Workers : jobs[v] # Idle /\ jobs[v].o = o => ~Letting(jobs[v], p)
  \/ \E v \in Workers : jobs[v] # Idle /\ jobs[v].o = o /\ Bound(jobs[v], p)
Keeps(o, p) == Holds(order, req, o, p)

(* What a request knows of the rider of its order.                           *)
SeenRider(r) == \/ order[r.o].partner = r.seen.partner
                \/ order[r.o].partner = None /\ ~Exists(r.seen.partner)
Guided(r) ==
  /\ r.at \in {"write", "vet", "unassign", "free"} => SeenRider(r)
  /\ r.at \in {"mark", "clear", "attach"} => order[r.o].partner \in {None, r.seen.partner}
  /\ r.at \in {"vet", "unassign", "mark", "find", "claim", "attach"} => Active(order[r.o])
  /\ r.at \in {"find", "claim"} => order[r.o].partner = None
  /\ r.at \in {"free", "clear"} => /\ r.partner = r.seen.partner /\ r.excluded = r.seen.partner
                                   /\ r.seen.status = order[r.o].status
Guides == \A w \in Workers : req[w] # Idle => Guided(req[w])
Waiting(p) == Exists(p) /\ ~pool[p].isAvailable
Accounted == \A p \in Partners : Waiting(p) => \E o \in Orders : Keeps(o, p)

(* Without assignments by hand and late answers, nobody else keeps the rider.*)
Certain(r) ==
  /\ r.at \notin {"vet", "unassign", "mark"}
  /\ r.at = "attach" => order[r.o].partner = None
  /\ r.at = "free" => Active(order[r.o])
  /\ r.at \in {"refundPayment", "refundOrder", "credit", "release"} => ~Active(order[r.o])
Ridden(o) == /\ order[o].partner \in Partners => Exists(order[o].partner)
             /\ ~Placed(o) => order[o].partner = None
ClaimedOnce == \A v, w \in Workers :
                 At(v, "attach") /\ At(w, "attach") /\ req[v].partner = req[w].partner => v = w
Exclusive == \A o \in Orders, p \in Partners :
               Exists(p) /\ Keeps(o, p) =>
                 ~pool[p].isAvailable /\ \A q \in Orders : Keeps(q, p) => q = o
Sole == /\ \A w \in Workers : req[w] # Idle => Certain(req[w])
        /\ \A o \in Orders : Ridden(o)
        /\ ClaimedOnce /\ Exclusive
Plain == "assign" \notin Requests /\ ~StaleScreens
Riders == Guides /\ Accounted /\ (Plain => Sole)

LEMMA InitRiders == Init => Riders
<1> SUFFICES ASSUME Init PROVE Riders
  OBVIOUS
<1>1. \A w \in Workers : req[w] = Idle
  BY DEF Init
<1>2. \A o \in Orders : order[o].partner = None /\ ~Active(order[o])
  BY DEF Init, Unplaced, Active
<1>3. Guides
  BY <1>1 DEF Guides
<1>4. Accounted
  BY DEF Init, PoolInit, Accounted, Waiting
<1>5. \A o \in Orders, p \in Partners : ~Keeps(o, p)
  BY <1>1, <1>2 DEF Keeps, Holds
<1>6. Sole
  BY <1>1, <1>2, <1>5, NoneIsNoPartner DEF Sole, Ridden, ClaimedOnce, Exclusive, At
<1> QED BY <1>3, <1>4, <1>6 DEF Riders

(***************************************************************************)
(* A step of one request, on its own order.                                *)
(***************************************************************************)

(* The only request on an order decides what the order holds.                *)
LEMMA HoldsAlone ==
  ASSUME NEW rows, NEW jobs, NEW w \in Workers, NEW o \in Orders, NEW p,
         \A v \in Workers : jobs[v] # Idle /\ jobs[v].o = o => v = w,
         jobs[w] # Idle => jobs[w].o = o
  PROVE  Holds(rows, jobs, o, p) <=> Held(rows[o], jobs[w], p)
<1>1. CASE jobs[w] = Idle
  <2>1. ~Letting(jobs[w], p) /\ ~Bound(jobs[w], p)
    BY <1>1 DEF Idle, Letting, Bound
  <2>2. \A v \in Workers : ~(jobs[v] # Idle /\ jobs[v].o = o)
    BY <1>1
  <2> QED BY <2>1, <2>2 DEF Holds, Held
<1>2. CASE jobs[w] # Idle
  BY <1>2 DEF Holds, Held
<1> QED BY <1>1, <1>2

Moves(w, o, job) ==
  /\ req' = [req EXCEPT ![w] = job]
  /\ req[w] # Idle \/ job # Idle
  /\ req[w] # Idle => req[w].o = o
  /\ job # Idle => job.o = o
  /\ \A q \in Orders : q # o => order'[q] = order[q]
  /\ \A p \in Partners : Exists(p)' <=> Exists(p)

LEMMA StepSplits ==
  ASSUME SInv, SInv', NEW w \in Workers, NEW o \in Orders, NEW job \in Jobs \cup {Idle},
         Moves(w, o, job), NEW p \in Partners
  PROVE  /\ Keeps(o, p) <=> Held(order[o], req[w], p)
         /\ Keeps(o, p)' <=> Held(order'[o], job, p)
         /\ \A q \in Orders : q # o => (Keeps(q, p)' <=> Keeps(q, p))
<1>1. \A v \in Workers : req'[v] = IF v = w THEN job ELSE req[v]
  BY DEF Moves, SInv, IInv, TypeOK
<1>2. \A v \in Workers : req[v] # Idle /\ req[v].o = o => v = w
  <2>1. CASE req[w] # Idle
    BY <2>1 DEF Moves, SInv, Alone
  <2>2. CASE req[w] = Idle
    <3>1. job # Idle /\ job.o = o
      BY <2>2 DEF Moves
    <3> QED BY <1>1, <3>1 DEF SInv, Alone
  <2> QED BY <2>1, <2>2
<1>3. \A v \in Workers : req'[v] # Idle /\ req'[v].o = o => v = w
  BY <1>1, <1>2
<1>4. Keeps(o, p) <=> Held(order[o], req[w], p)
  <2>1. req[w] # Idle => req[w].o = o
    BY DEF Moves
  <2> QED BY <1>2, <2>1, HoldsAlone DEF Keeps
<1>5. Keeps(o, p)' <=> Held(order'[o], job, p)
  <2>1. req'[w] # Idle => req'[w].o = o
    BY <1>1 DEF Moves
  <2>2. Holds(order', req', o, p) <=> Held(order'[o], req'[w], p)
    BY <1>3, <2>1, HoldsAlone
  <2> QED BY <1>1, <2>2 DEF Keeps, Holds
<1>6. ASSUME NEW q \in Orders, q # o PROVE Keeps(q, p)' <=> Keeps(q, p)
  <2>1. order'[q] = order[q]
    BY <1>6 DEF Moves
  <2>2. \A v \in Workers : (req'[v] # Idle /\ req'[v].o = q) <=> (req[v] # Idle /\ req[v].o = q)
    BY <1>1, <1>6 DEF Moves
  <2>3. \A v \in Workers : req'[v] # Idle /\ req'[v].o = q => req'[v] = req[v]
    BY <1>1, <1>6 DEF Moves
  <2> QED BY <2>1, <2>2, <2>3 DEF Keeps, Holds
<1> QED BY <1>4, <1>5, <1>6

(* What the requests on other orders know stays so.                          *)
LEMMA OthersGuided ==
  ASSUME SInv, SInv', Guides, NEW w \in Workers, NEW o \in Orders, NEW job \in Jobs \cup {Idle},
         Moves(w, o, job), job # Idle => Guided(job)'
  PROVE  Guides'
<1>1. \A v \in Workers : req'[v] = IF v = w THEN job ELSE req[v]
  BY DEF Moves, SInv, IInv, TypeOK
<1>2. ASSUME NEW v \in Workers, req'[v] # Idle PROVE Guided(req[v])'
  <2>1. CASE v = w
    BY <1>1, <1>2, <2>1, Zenon DEF Guided, SeenRider, Active
  <2>2. CASE v # w
    <3>1. PICK r \in Jobs : r = req'[v] /\ r = req[v] /\ Guided(r)
      BY <1>1, <1>2, <2>2 DEF SInv, IInv, TypeOK, Guides
    <3>2. r.o \in Orders /\ r.o # o
      <4>1. CASE job # Idle
        BY <1>1, <1>2, <2>2, <3>1, <4>1 DEF SInv, Alone, Moves, Jobs
      <4>2. CASE req[w] # Idle
        BY <1>1, <1>2, <2>2, <3>1, <4>2 DEF SInv, Alone, Moves, Jobs
      <4> QED BY <4>1, <4>2 DEF Moves
    <3>3. order'[r.o] = order[r.o]
      BY <3>2 DEF Moves
    <3>4. Exists(r.seen.partner)' <=> Exists(r.seen.partner)
      BY DEF Moves, Exists
    <3>5. Guided(r)'
      BY <3>1, <3>3, <3>4 DEF Guided, SeenRider, Active
    <3> QED BY <3>1, <3>5 DEF Guided, SeenRider, Active
  <2> QED BY <2>1, <2>2
<1> QED BY <1>2 DEF Guides

(* Nobody loses a keeper who is still waiting for one.                       *)
LEMMA StillAccounted ==
  ASSUME SInv, SInv', Accounted, NEW w \in Workers, NEW o \in Orders,
         NEW job \in Jobs \cup {Idle}, Moves(w, o, job),
         \A p \in Partners : Waiting(p)' =>
           \/ Held(order'[o], job, p)
           \/ Waiting(p) /\ ~Held(order[o], req[w], p)
  PROVE  Accounted'
<1> SUFFICES ASSUME NEW p \in Partners, Waiting(p)'
             PROVE  \E q \in Orders : Keeps(q, p)'
  BY DEF Accounted
<1>1. /\ Keeps(o, p) <=> Held(order[o], req[w], p)
      /\ Keeps(o, p)' <=> Held(order'[o], job, p)
      /\ \A q \in Orders : q # o => (Keeps(q, p)' <=> Keeps(q, p))
  BY StepSplits
<1>2. CASE Held(order'[o], job, p)
  BY <1>1, <1>2
<1>3. CASE Waiting(p) /\ ~Held(order[o], req[w], p)
  <2>1. PICK q \in Orders : Keeps(q, p)
    BY <1>3 DEF Accounted
  <2> QED BY <1>1, <1>3, <2>1
<1> QED BY <1>2, <1>3

(* Nobody gets a second keeper, or is released by a request that is not one. *)
LEMMA StillExclusive ==
  ASSUME SInv, SInv', Exclusive, NEW w \in Workers, NEW o \in Orders,
         NEW job \in Jobs \cup {Idle}, Moves(w, o, job),
         \A p \in Partners : Exists(p) /\ Held(order'[o], job, p) =>
           /\ ~pool'[p].isAvailable
           /\ Held(order[o], req[w], p) \/ pool[p].isAvailable,
         \A p \in Partners : Exists(p) /\ pool'[p].isAvailable =>
           pool[p].isAvailable \/ Held(order[o], req[w], p)
  PROVE  Exclusive'
<1> SUFFICES ASSUME NEW q \in Orders, NEW p \in Partners, Exists(p)', Keeps(q, p)'
             PROVE  ~pool'[p].isAvailable /\ \A u \in Orders : Keeps(u, p)' => u = q
  BY DEF Exclusive
<1>1. /\ Keeps(o, p) <=> Held(order[o], req[w], p)
      /\ Keeps(o, p)' <=> Held(order'[o], job, p)
      /\ \A u \in Orders : u # o => (Keeps(u, p)' <=> Keeps(u, p))
  BY StepSplits
<1>2. Exists(p)
  BY DEF Moves
<1>3. \A u \in Orders : Keeps(u, p) => ~pool[p].isAvailable /\ \A t \in Orders : Keeps(t, p) => t = u
  BY <1>2 DEF Exclusive
<1>4. CASE q = o
  <2>1. ~pool'[p].isAvailable /\ (Keeps(o, p) \/ pool[p].isAvailable)
    BY <1>1, <1>2, <1>4
  <2>2. \A u \in Orders : u # o => ~Keeps(u, p)
    BY <1>3, <2>1
  <2> QED BY <1>1, <1>4, <2>1, <2>2
<1>5. CASE q # o
  <2>1. Keeps(q, p) /\ ~pool[p].isAvailable /\ ~Keeps(o, p)
    BY <1>1, <1>3, <1>5
  <2>2. ~pool'[p].isAvailable
    BY <1>1, <1>2, <2>1
  <2>3. ~Keeps(o, p)'
    BY <1>1, <1>2, <2>1
  <2> QED BY <1>1, <1>3, <1>5, <2>1, <2>2, <2>3
<1> QED BY <1>4, <1>5

LEMMA StillSole ==
  ASSUME SInv, SInv', Sole, NEW w \in Workers, NEW o \in Orders,
         NEW job \in Jobs \cup {Idle}, Moves(w, o, job),
         job # Idle => Certain(job)', Ridden(o)', Exclusive',
         job # Idle /\ job.at = "attach" =>
           \A v \in Workers : At(v, "attach") => req[v].partner # job.partner
  PROVE  Sole'
<1>1. \A v \in Workers : req'[v] = IF v = w THEN job ELSE req[v]
  BY DEF Moves, SInv, IInv, TypeOK
<1>2. ASSUME NEW v \in Workers, req'[v] # Idle PROVE Certain(req[v])'
  <2>1. CASE v = w
    BY <1>1, <1>2, <2>1 DEF Certain, Active
  <2>2. CASE v # w
    <3>1. PICK r \in Jobs : r = req'[v] /\ r = req[v] /\ Certain(r)
      BY <1>1, <1>2, <2>2 DEF SInv, IInv, TypeOK, Sole
    <3>2. r.o \in Orders /\ r.o # o
      <4>1. CASE job # Idle
        BY <1>1, <1>2, <2>2, <3>1, <4>1 DEF SInv, Alone, Moves, Jobs
      <4>2. CASE req[w] # Idle
        BY <1>1, <1>2, <2>2, <3>1, <4>2 DEF SInv, Alone, Moves, Jobs
      <4> QED BY <4>1, <4>2 DEF Moves
    <3>3. order'[r.o] = order[r.o]
      BY <3>2 DEF Moves
    <3> QED BY <3>1, <3>3 DEF Certain, Active
  <2> QED BY <2>1, <2>2
<1>3. ASSUME NEW q \in Orders PROVE Ridden(q)'
  <2>1. CASE q # o
    <3>1. order'[q] = order[q] /\ Ridden(q)
      BY <2>1 DEF Moves, Sole
    <3> QED BY <3>1 DEF Ridden, Placed, Moves
  <2> QED BY <2>1
<1>4. ClaimedOnce'
  <2> SUFFICES ASSUME NEW u \in Workers, NEW v \in Workers, At(u, "attach")', At(v, "attach")',
                      req'[u].partner = req'[v].partner, u # v
               PROVE  FALSE
    BY DEF ClaimedOnce
  <2>1. req'[u] # Idle /\ req'[u].at = "attach" /\ req'[v] # Idle /\ req'[v].at = "attach"
    BY DEF At
  <2>2. CASE u = w
    BY <1>1, <2>1, <2>2 DEF At
  <2>3. CASE v = w
    BY <1>1, <2>1, <2>3 DEF At
  <2>4. CASE u # w /\ v # w
    BY <1>1, <2>1, <2>4 DEF At, Sole, ClaimedOnce
  <2> QED BY <2>2, <2>3, <2>4
<1> QED BY <1>2, <1>3, <1>4 DEF Sole

(* The step as a whole, and one that leaves the riders alone.                *)
LEMMA RidersMove ==
  ASSUME SInv, SInv', Riders, NEW w \in Workers, NEW o \in Orders,
         NEW job \in Jobs \cup {Idle}, Moves(w, o, job),
         job # Idle => Guided(job)',
         \A p \in Partners : Waiting(p)' =>
           \/ Held(order'[o], job, p)
           \/ Waiting(p) /\ ~Held(order[o], req[w], p),
         Plain /\ Sole =>
           /\ job # Idle => Certain(job)'
           /\ Ridden(o)'
           /\ job # Idle /\ job.at = "attach" =>
                \A v \in Workers : At(v, "attach") => req[v].partner # job.partner
           /\ \A p \in Partners : Exists(p) /\ Held(order'[o], job, p) =>
                /\ ~pool'[p].isAvailable
                /\ Held(order[o], req[w], p) \/ pool[p].isAvailable
           /\ \A p \in Partners : Exists(p) /\ pool'[p].isAvailable =>
                pool[p].isAvailable \/ Held(order[o], req[w], p)
  PROVE  Riders'
<1>1. Guides'
  BY OthersGuided DEF Riders
<1>2. Accounted'
  BY StillAccounted DEF Riders
<1>3. ASSUME Plain, Sole PROVE Sole'
  <2>1. Exclusive'
    BY <1>3, StillExclusive DEF Sole
  <2> QED BY <1>3, <2>1, StillSole
<1> QED BY <1>1, <1>2, <1>3 DEF Riders, Plain

LEMMA RidersRest ==
  ASSUME SInv, SInv', Riders, NEW w \in Workers, NEW o \in Orders,
         NEW job \in Jobs \cup {Idle}, Moves(w, o, job), pool' = pool,
         job # Idle => Guided(job)',
         \A p \in Partners :
           Exists(p) => (Held(order[o], req[w], p) => Held(order'[o], job, p)),
         Plain /\ Sole =>
           /\ job # Idle => Certain(job)' /\ job.at # "attach"
           /\ Ridden(o)'
           /\ \A p \in Partners : Exists(p) /\ Held(order'[o], job, p) =>
                Held(order[o], req[w], p)
  PROVE  Riders'
<1>1. \A p \in Partners : Waiting(p)' <=> Waiting(p)
  BY DEF Waiting, Exists
<1>2. ASSUME Sole, NEW p \in Partners, Exists(p), Held(order[o], req[w], p)
      PROVE  ~pool[p].isAvailable
  <2>1. Keeps(o, p)
    BY <1>2, StepSplits
  <2> QED BY <1>2, <2>1 DEF Sole, Exclusive
<1>3. Plain /\ Sole =>
        \A p \in Partners : Exists(p) /\ Held(order'[o], job, p) =>
          /\ ~pool'[p].isAvailable
          /\ Held(order[o], req[w], p) \/ pool[p].isAvailable
  BY <1>2
<1>4. \A p \in Partners : Waiting(p)' =>
        \/ Held(order'[o], job, p)
        \/ Waiting(p) /\ ~Held(order[o], req[w], p)
  BY <1>1 DEF Waiting
<1>5. \A p \in Partners : Exists(p) /\ pool'[p].isAvailable =>
        pool[p].isAvailable \/ Held(order[o], req[w], p)
  OBVIOUS
<1>6. Plain /\ Sole =>
        /\ job # Idle => Certain(job)'
        /\ Ridden(o)'
        /\ job # Idle /\ job.at = "attach" =>
             \A v \in Workers : At(v, "attach") => req[v].partner # job.partner
        /\ \A p \in Partners : Exists(p) /\ Held(order'[o], job, p) =>
             /\ ~pool'[p].isAvailable
             /\ Held(order[o], req[w], p) \/ pool[p].isAvailable
        /\ \A p \in Partners : Exists(p) /\ pool'[p].isAvailable =>
             pool[p].isAvailable \/ Held(order[o], req[w], p)
  BY <1>3, <1>5
<1> QED BY <1>4, <1>6, RidersMove

(***************************************************************************)
(* Requests that start, and steps that concern no rider.                   *)
(***************************************************************************)

(* Away from these stages an order holds the rider it names while it is      *)
(* active, and no other.                                                     *)
Neutral(r) == r.at \notin {"attach", "clear", "mark", "refundPayment", "refundOrder", "credit",
                           "release"}

LEMMA NeutralHeld ==
  ASSUME NEW r, NEW row, NEW p, Neutral(r)
  PROVE  Held(row, r, p) <=> row.partner = p /\ Active(row)
BY DEF Held, Letting, Bound, Neutral

LEMMA IdleNeutral == Neutral(Idle)
BY DEF Neutral, Idle

(* What an order without another request holds when one starts.              *)
LEMMA RidersStart ==
  ASSUME SInv, SInv', Riders, UNCHANGED <<order, pool>>, NEW w \in Workers, NEW o \in Orders,
         MayStart(w, o),
         NEW stage \in {"insert", "payOrder", "reread", "write", "vet", "accept", "free"},
         NEW to \in Statuses \cup {None}, NEW p \in Partners \cup {None},
         NEW x \in Partners \cup {None}, Begin(w, Job(stage, o, to, p, x)),
         stage = "vet" => "assign" \in Requests /\ Active(order[o]),
         stage = "free" => /\ p = order[o].partner /\ x = p
                           /\ StaleScreens \/ Active(order[o])
  PROVE  Riders'
<1>1. PICK job : job = Job(stage, o, to, p, x)
  OBVIOUS
<1>2. /\ job \in Jobs /\ job.at = stage /\ job.o = o /\ job.seen = order[o]
      /\ job.partner = p /\ job.excluded = x
  <2>1. stage \in Stages
    BY DEF Stages
  <2> QED BY <1>1, <2>1, JobType DEF SInv, IInv
<1>3. job # Idle /\ req[w] = Idle
  BY <1>2 DEF Jobs, Idle, MayStart
<1>4. Moves(w, o, job)
  BY <1>1, <1>2, <1>3 DEF Moves, Begin, Exists
<1>5. Neutral(job) /\ Neutral(req[w])
  BY <1>2, <1>3, IdleNeutral DEF Neutral
<1>6. \A q \in Partners : Held(order[o], req[w], q) <=> Held(order'[o], job, q)
  BY <1>5, NeutralHeld
<1>7. Guided(job)'
  BY <1>2 DEF Guided, SeenRider
<1>8. Plain /\ Sole =>
        /\ job # Idle => Certain(job)' /\ job.at # "attach"
        /\ Ridden(o)'
  BY <1>2 DEF Plain, Certain, Sole, Ridden, Placed, Exists
<1> QED BY <1>2, <1>4, <1>6, <1>7, <1>8, RidersRest

LEMMA ArriveRiders ==
  ASSUME SInv, SInv', Riders, NEW w \in Workers, Arrive(w)
  PROVE  Riders'
<1>1. ASSUME NEW o \in Orders, Create(w, o) PROVE Riders'
  BY <1>1, RidersStart DEF Create
<1>2. ASSUME NEW o \in Orders, Pay(w, o) PROVE Riders'
  BY <1>2, RidersStart DEF Pay
<1>3. ASSUME NEW o \in Orders, CancelRequest(w, o) PROVE Riders'
  BY <1>3, RidersStart DEF CancelRequest, Statuses
<1>4. ASSUME NEW o \in Orders, NEW to \in Statuses, StatusRequest(w, o, to) PROVE Riders'
  BY <1>4, RidersStart DEF StatusRequest
<1>5. ASSUME NEW o \in Orders, NEW p \in Partners, NEW to \in RiderStatuses,
             RiderStatusRequest(w, o, p, to)
      PROVE  Riders'
  BY <1>5, RidersStart DEF RiderStatusRequest, RiderStatuses, Statuses
<1>6. ASSUME NEW o \in Orders, NEW p \in Partners, AssignRequest(w, o, p) PROVE Riders'
  BY <1>6, RidersStart DEF AssignRequest, Live, Placed, Active
<1>7. ASSUME NEW o \in Orders, NEW p \in Partners, AcceptRequest(w, o, p) PROVE Riders'
  BY <1>7, RidersStart DEF AcceptRequest, Answerable
<1>8. ASSUME NEW o \in Orders, NEW p \in Partners, RejectRequest(w, o, p) PROVE Riders'
  BY <1>8, RidersStart DEF RejectRequest, Answerable, Live, Placed, Active
<1> QED BY <1>1, <1>2, <1>3, <1>4, <1>5, <1>6, <1>7, <1>8 DEF Arrive

(* The job of a request that goes on.                                        *)
LEMMA GoesTo ==
  ASSUME SInv, NEW w \in Workers, req[w] # Idle, NEW stage \in Stages \cup {"idle"}, Go(w, stage)
  PROVE  \E job \in Jobs \cup {Idle} :
           /\ req' = [req EXCEPT ![w] = job]
           /\ stage = "idle" <=> job = Idle
           /\ job.at = stage
           /\ job # Idle => /\ job.o = req[w].o /\ job.to = req[w].to
                            /\ job.seen = req[w].seen /\ job.partner = req[w].partner
                            /\ job.excluded = req[w].excluded
<1>1. req[w] \in Jobs
  BY DEF SInv, IInv, TypeOK
<1>2. PICK job : job = Moved(req[w], stage)
  OBVIOUS
<1>3. req' = [req EXCEPT ![w] = job]
  BY <1>2, GoMoves DEF SInv
<1>4. CASE stage = "idle"
  <2>1. job = Idle /\ job.at = "idle"
    BY <1>2, <1>4 DEF Moved, Idle
  <2> QED BY <1>3, <1>4, <2>1
<1>5. CASE stage # "idle"
  <2>1. job = [req[w] EXCEPT !.at = stage] /\ stage \in Stages
    BY <1>2, <1>5 DEF Moved
  <2>2. /\ job \in Jobs /\ job.at = stage /\ job.o = req[w].o /\ job.to = req[w].to
        /\ job.seen = req[w].seen /\ job.partner = req[w].partner
        /\ job.excluded = req[w].excluded
    BY <1>1, <2>1 DEF Jobs
  <2>3. job # Idle
    BY <2>2 DEF Jobs, Idle
  <2> QED BY <1>3, <1>5, <2>2, <2>3
<1> QED BY <1>4, <1>5

(* The columns of an order that concern its rider.                           *)
SameRide(o) == order'[o].status = order[o].status /\ order'[o].partner = order[o].partner

LEMMA RideColumns ==
  ASSUME IInv, NEW o \in Orders,
         \/ \E s : order' = [order EXCEPT ![o].paid = s]
         \/ \E a : order' = [order EXCEPT ![o].acceptance = a]
         \/ order' = order
  PROVE  SameRide(o) /\ \A q \in Orders : q # o => order'[q] = order[q]
<1>1. order \in [Orders -> OrderRows] /\ order[o] \in OrderRows
  BY DEF IInv, TypeOK
<1>2. /\ \A s : /\ [order[o] EXCEPT !.paid = s].status = order[o].status
                /\ [order[o] EXCEPT !.paid = s].partner = order[o].partner
      /\ \A a : /\ [order[o] EXCEPT !.acceptance = a].status = order[o].status
                /\ [order[o] EXCEPT !.acceptance = a].partner = order[o].partner
  BY <1>1 DEF OrderRows
<1>3. PICK row : /\ row.status = order[o].status /\ row.partner = order[o].partner
                 /\ order' = [order EXCEPT ![o] = row] \/ order' = order
  BY <1>2
<1> QED BY <1>1, <1>3 DEF SameRide

(* A step that neither touches nor binds a rider.                            *)
LEMMA RidersGo ==
  ASSUME SInv, SInv', Riders, pool' = pool, NEW w \in Workers, NEW o \in Orders,
         req[w] # Idle, req[w].o = o, SameRide(o),
         \A q \in Orders : q # o => order'[q] = order[q],
         NEW stage \in {"payment", "markPaid", "loyalty", "idle"}, Go(w, stage),
         Neutral(req[w])
  PROVE  Riders'
<1>1. PICK job \in Jobs \cup {Idle} :
        /\ req' = [req EXCEPT ![w] = job] /\ job.at = stage
        /\ job # Idle => job.o = req[w].o
  BY GoesTo DEF Stages
<1>2. Moves(w, o, job)
  BY <1>1 DEF Moves, Exists
<1>3. Neutral(job)
  BY <1>1 DEF Neutral
<1>4. \A p \in Partners : Held(order[o], req[w], p) <=> Held(order'[o], job, p)
  BY <1>3, NeutralHeld DEF SameRide, Active
<1>5. job # Idle => Guided(job)'
  BY <1>1 DEF Guided
<1>6. Plain /\ Sole =>
        /\ job # Idle => Certain(job)' /\ job.at # "attach"
        /\ Ridden(o)'
  BY <1>1 DEF Certain, Sole, Ridden, Placed, Exists, SameRide
<1> QED BY <1>2, <1>4, <1>5, <1>6, RidersRest

LEMMA BooksRiders ==
  ASSUME SInv, SInv', Riders, NEW w \in Workers,
         \/ CreatePayment(w) \/ GatewayFails(w) \/ MarkOrderPaid(w) \/ PayOrder(w)
         \/ AwardPoints(w) \/ Accept(w)
  PROVE  Riders'
<1>1. /\ req[w] \in Jobs /\ req[w] # Idle /\ req[w].o \in Orders
      /\ req[w].at \in {"payment", "markPaid", "payOrder", "loyalty", "accept"}
  BY AtJob DEF SInv, Stages, CreatePayment, GatewayFails, MarkOrderPaid, PayOrder, AwardPoints,
               Accept
<1>2. PICK o \in Orders : o = req[w].o
  BY <1>1
<1>3. Neutral(req[w])
  BY <1>1, Zenon DEF Neutral
<1>4. \/ \E s : order' = [order EXCEPT ![o].paid = s]
      \/ \E a : order' = [order EXCEPT ![o].acceptance = a]
      \/ order' = order
  BY <1>2 DEF CreatePayment, GatewayFails, MarkOrderPaid, PayOrder, AwardPoints, Accept
<1>5. SameRide(o) /\ \A q \in Orders : q # o => order'[q] = order[q]
  BY <1>4, RideColumns DEF SInv
<1>6. PICK stage \in {"payment", "markPaid", "loyalty", "idle"} : Go(w, stage)
  BY DEF CreatePayment, GatewayFails, MarkOrderPaid, PayOrder, AwardPoints, Accept, End
<1>7. pool' = pool
  BY DEF CreatePayment, GatewayFails, MarkOrderPaid, PayOrder, AwardPoints, Accept
<1> QED BY <1>1, <1>2, <1>3, <1>5, <1>6, <1>7, RidersGo, Zenon

(***************************************************************************)
(* The status, the refund and the release.                                 *)
(***************************************************************************)

LEMMA StatusColumn ==
  ASSUME IInv, NEW o \in Orders, NEW s \in Statuses, order' = [order EXCEPT ![o].status = s]
  PROVE  /\ order'[o].status = s /\ order'[o].partner = order[o].partner
         /\ \A q \in Orders : q # o => order'[q] = order[q]
<1>1. order \in [Orders -> OrderRows] /\ order[o] \in OrderRows
  BY DEF IInv, TypeOK
<1>2. PICK row : row = [order[o] EXCEPT !.status = s]
  OBVIOUS
<1>3. row.status = s /\ row.partner = order[o].partner
  BY <1>1, <1>2 DEF OrderRows
<1>4. order' = [order EXCEPT ![o] = row]
  BY <1>2
<1> QED BY <1>1, <1>3, <1>4

LEMMA InsertRiders ==
  ASSUME SInv, SInv', Riders, NEW w \in Workers, Insert(w)
  PROVE  Riders'
<1>1. /\ req[w] \in Jobs /\ req[w] # Idle /\ req[w].at = "insert" /\ req[w].o \in Orders
  BY AtJob DEF SInv, Stages, Insert
<1>2. PICK o \in Orders : o = req[w].o
  BY <1>1
<1>3. ~Placed(o)
  BY <1>1, <1>2 DEF SInv, SeenCurrent, Current
<1>4. /\ order'[o].status = "PENDING" /\ order'[o].partner = order[o].partner
      /\ \A q \in Orders : q # o => order'[q] = order[q]
  <2>1. order' = [order EXCEPT ![o].status = "PENDING"]
    BY <1>2 DEF Insert
  <2> QED BY <2>1, StatusColumn DEF SInv, Statuses
<1>5. PICK job \in Jobs \cup {Idle} :
        req' = [req EXCEPT ![w] = job] /\ job.at = "payment" /\ (job # Idle => job.o = req[w].o)
  BY <1>1, GoesTo DEF Insert, Stages
<1>6. pool' = pool
  BY DEF Insert
<1>7. Moves(w, o, job)
  BY <1>1, <1>2, <1>4, <1>5, <1>6 DEF Moves, Exists
<1>8. Neutral(job) /\ Neutral(req[w])
  BY <1>1, <1>5 DEF Neutral
<1>9. \A p \in Partners : ~Held(order[o], req[w], p)
  BY <1>3, <1>8, NeutralHeld DEF Placed, Active
<1>10. job # Idle => Guided(job)'
  BY <1>5 DEF Guided
<1>11. Plain /\ Sole =>
         /\ job # Idle => Certain(job)' /\ job.at # "attach"
         /\ Ridden(o)'
         /\ \A p \in Partners : Exists(p) /\ Held(order'[o], job, p) => Held(order[o], req[w], p)
  <2> SUFFICES ASSUME Sole
               PROVE  /\ job # Idle => Certain(job)' /\ job.at # "attach"
                      /\ Ridden(o)'
                      /\ \A p \in Partners : ~Held(order'[o], job, p)
    OBVIOUS
  <2>1. order[o].partner = None
    BY <1>3 DEF Sole, Ridden
  <2>2. \A p \in Partners : ~Held(order'[o], job, p)
    BY <1>4, <1>8, <2>1, NeutralHeld, NoneIsNoPartner
  <2> QED BY <1>4, <1>5, <2>1, <2>2, NoneIsNoPartner DEF Certain, Ridden
<1> QED BY <1>6, <1>7, <1>9, <1>10, <1>11, RidersRest

LEMMA RereadRiders ==
  ASSUME SInv, SInv', Riders, NEW w \in Workers, Reread(w)
  PROVE  Riders'
<1>1. /\ req[w] \in Jobs /\ req[w] # Idle /\ req[w].at = "reread" /\ req[w].o \in Orders
      /\ JobSound(req[w])
  BY AtJob DEF SInv, Stages, Reread
<1>2. PICK o \in Orders, to \in Statuses : o = req[w].o /\ to = req[w].to
  BY <1>1 DEF JobSound
<1>3. PICK new : new = Job("write", o, to, None, None)
  OBVIOUS
<1>4. new \in Jobs /\ new.at = "write" /\ new.o = o /\ new.seen = order[o]
  BY <1>3, ReadJobType DEF SInv, IInv, Stages
<1>5. PICK job \in {new, Idle} : req' = [req EXCEPT ![w] = job]
  BY <1>2, <1>3 DEF Reread, Begin
<1>6. UNCHANGED <<pool, order>>
  BY DEF Reread
<1>7. Moves(w, o, job)
  BY <1>1, <1>2, <1>4, <1>5, <1>6 DEF Moves, Exists
<1>8. Neutral(job) /\ Neutral(req[w])
  BY <1>1, <1>4, <1>5, IdleNeutral DEF Neutral
<1>9. \A p \in Partners : Held(order[o], req[w], p) <=> Held(order'[o], job, p)
  BY <1>6, <1>8, NeutralHeld
<1>10. job # Idle => Guided(job)'
  BY <1>4, <1>5, <1>6 DEF Guided, SeenRider
<1>11. Plain /\ Sole =>
         /\ job # Idle => Certain(job)' /\ job.at # "attach"
         /\ Ridden(o)'
  BY <1>4, <1>5, <1>6, <1>8 DEF Certain, Sole, Ridden, Placed, Exists, Neutral
<1> QED BY <1>4, <1>5, <1>6, <1>7, <1>9, <1>10, <1>11, RidersRest

(* The write that finishes an order goes on to release the rider it names.   *)
LEMMA WriteRiders ==
  ASSUME SInv, SInv', Riders, NEW w \in Workers, WriteStatus(w)
  PROVE  Riders'
<1>1. /\ req[w] \in Jobs /\ req[w] # Idle /\ req[w].at = "write" /\ req[w].o \in Orders
      /\ JobSound(req[w])
  BY AtJob DEF SInv, Stages, WriteStatus
<1>2. PICK o \in Orders, to \in Statuses : o = req[w].o /\ to = req[w].to
  BY <1>1 DEF JobSound
<1>3. PICK from \in Statuses : from = order[o].status /\ to \in Allowed[from]
  BY <1>1, <1>2 DEF JobSound, SInv, SeenCurrent, Current, IInv, TypeOK
<1>4. /\ from \in {"CANCELLED", "DELIVERED", "REFUNDED"} => to = "REFUNDED"
      /\ to = "REFUNDED" => from = "CANCELLED"
  BY <1>3 DEF Allowed, Statuses
<1>5. PICK seen : seen = req[w].seen.partner
  OBVIOUS
<1>6. order[o].partner = seen \/ (order[o].partner = None /\ ~Exists(seen))
  BY <1>1, <1>2, <1>5 DEF Riders, Guides, Guided, SeenRider
<1>7. /\ order'[o].status = to /\ order'[o].partner = order[o].partner
      /\ \A q \in Orders : q # o => order'[q] = order[q]
  <2>1. order' = [order EXCEPT ![o].status = to]
    BY <1>2 DEF WriteStatus
  <2> QED BY <2>1, StatusColumn DEF SInv
<1>8. PICK stage \in {"refundPayment", "release", "idle", "find", "loyalty"} :
        /\ stage = AfterWrite(req[w]) /\ Go(w, stage)
        /\ stage \in {"refundPayment", "release"} => to \in {"CANCELLED", "DELIVERED"}
        /\ to \in {"CANCELLED", "DELIVERED"} /\ seen # None => stage \in {"refundPayment", "release"}
        /\ stage = "find" => to = "READY" /\ seen = None
  <2>1. /\ AfterWrite(req[w]) \in {"refundPayment", "release", "idle", "find", "loyalty"}
        /\ Go(w, AfterWrite(req[w]))
    BY <1>1, AfterStages DEF WriteStatus
  <2>2. /\ AfterWrite(req[w]) \in {"refundPayment", "release"} => to \in {"CANCELLED", "DELIVERED"}
        /\ to \in {"CANCELLED", "DELIVERED"} /\ seen # None =>
             AfterWrite(req[w]) \in {"refundPayment", "release"}
        /\ AfterWrite(req[w]) = "find" => to = "READY" /\ seen = None
    BY <1>2, <1>5 DEF AfterWrite, AfterRefund
  <2> QED BY <2>1, <2>2
<1>9. PICK job \in Jobs \cup {Idle} :
        /\ req' = [req EXCEPT ![w] = job] /\ job.at = stage
        /\ job # Idle => job.o = o /\ job.seen.partner = seen
        /\ stage = "idle" <=> job = Idle
  BY <1>1, <1>2, <1>5, <1>8, GoesTo DEF Stages
<1>10. pool' = pool
  BY DEF WriteStatus
<1>11. Moves(w, o, job)
  BY <1>1, <1>2, <1>7, <1>9, <1>10 DEF Moves, Exists
<1>12. \A p : Held(order[o], req[w], p) <=> order[o].partner = p /\ Active(order[o])
  BY <1>1, NeutralHeld DEF Neutral
<1>13. \A p : /\ Bound(job, p) <=> stage \in {"refundPayment", "release"} /\ seen = p
              /\ ~Letting(job, p)
  BY <1>8, <1>9 DEF Bound, Letting
<1>14. Active(order[o]) <=> from \notin Finished
  BY <1>3 DEF Active, Statuses
<1>15. Active(order'[o]) <=> to \notin Finished
  BY <1>7 DEF Active, Statuses
<1>16. ASSUME NEW p \in Partners, Held(order[o], req[w], p) PROVE Held(order'[o], job, p)
  <2>1. order[o].partner = p /\ from \notin Finished
    BY <1>12, <1>14, <1>16
  <2>2. seen = p /\ p # None
    BY <1>6, <2>1, NoneIsNoPartner
  <2>3. CASE to \in Finished
    <3>1. to \in {"CANCELLED", "DELIVERED"}
      BY <1>4, <2>1, <2>3 DEF Finished
    <3> QED BY <1>8, <1>13, <2>2, <3>1 DEF Held
  <2>4. CASE to \notin Finished
    BY <1>7, <1>13, <1>15, <2>1, <2>4 DEF Held
  <2> QED BY <2>3, <2>4
<1>17. ASSUME NEW p \in Partners, Exists(p), Held(order'[o], job, p)
       PROVE  Held(order[o], req[w], p)
  <2>1. CASE order'[o].partner = p /\ Active(order'[o])
    BY <1>4, <1>7, <1>12, <1>14, <1>15, <2>1 DEF Finished
  <2>2. CASE Bound(job, p)
    <3>1. seen = p /\ to \in {"CANCELLED", "DELIVERED"}
      BY <1>8, <1>13, <2>2
    <3>2. order[o].partner = p
      BY <1>6, <1>17, <3>1
    <3>3. from \notin Finished
      BY <1>4, <3>1 DEF Finished
    <3> QED BY <1>12, <1>14, <3>2, <3>3
  <2> QED BY <1>17, <2>1, <2>2 DEF Held
<1>18. job # Idle => Guided(job)'
  BY <1>6, <1>7, <1>8, <1>9, <1>15 DEF Guided, Finished
<1>19. Plain /\ Sole => /\ job # Idle => Certain(job)' /\ job.at # "attach"
                        /\ Ridden(o)'
  <2>1. job # Idle => Certain(job)' /\ job.at # "attach"
    BY <1>8, <1>9, <1>15 DEF Certain, Finished
  <2>2. Sole => Ridden(o)'
    BY <1>7, <1>10 DEF Sole, Ridden, Placed, Exists, Statuses
  <2> QED BY <2>1, <2>2
<1> QED BY <1>10, <1>11, <1>16, <1>17, <1>18, <1>19, RidersRest, Zenon

(* The refund keeps the rider until the release that follows it.             *)
LEMMA RefundRiders ==
  ASSUME SInv, SInv', Riders, NEW w \in Workers,
         RefundPayment(w) \/ RefundOrder(w) \/ RefundCredit(w)
  PROVE  Riders'
<1>1. /\ req[w] \in Jobs /\ req[w] # Idle /\ req[w].o \in Orders
      /\ req[w].at \in {"refundPayment", "refundOrder", "credit"}
  BY AtJob DEF SInv, Stages, RefundPayment, RefundOrder, RefundCredit
<1>2. PICK o \in Orders : o = req[w].o
  BY <1>1
<1>3. SameRide(o) /\ \A q \in Orders : q # o => order'[q] = order[q]
  <2>1. (\E s : order' = [order EXCEPT ![o].paid = s]) \/ order' = order
    BY <1>2 DEF RefundPayment, RefundOrder, RefundCredit
  <2> QED BY <2>1, RideColumns DEF SInv
<1>4. pool' = pool
  BY DEF RefundPayment, RefundOrder, RefundCredit
<1>5. PICK stage \in {"refundOrder", "credit", "release", "idle"} :
        Go(w, stage) /\ (stage = "idle" => req[w].seen.partner = None)
  <2>1. /\ AfterRefund(req[w]) \in {"release", "idle"}
        /\ AfterRefund(req[w]) = "idle" => req[w].seen.partner = None
    BY DEF AfterRefund
  <2> QED BY <2>1 DEF RefundPayment, RefundOrder, RefundCredit
<1>6. PICK job \in Jobs \cup {Idle} :
        /\ req' = [req EXCEPT ![w] = job] /\ job.at = stage
        /\ job # Idle => job.o = o /\ job.seen = req[w].seen
        /\ stage = "idle" <=> job = Idle
  BY <1>1, <1>2, <1>5, GoesTo DEF Stages
<1>7. Moves(w, o, job)
  BY <1>1, <1>2, <1>3, <1>4, <1>6 DEF Moves, Exists
<1>8. \A p : ~Letting(job, p) /\ ~Letting(req[w], p)
  BY <1>1, <1>6 DEF Letting
<1>9. \A p \in Partners : Bound(job, p) <=> Bound(req[w], p)
  BY <1>1, <1>5, <1>6, NoneIsNoPartner DEF Bound
<1>10. \A p \in Partners : Held(order[o], req[w], p) <=> Held(order'[o], job, p)
  BY <1>3, <1>8, <1>9 DEF Held, SameRide, Active
<1>11. job # Idle => Guided(job)'
  BY <1>6 DEF Guided
<1>12. Plain /\ Sole => /\ job # Idle => Certain(job)' /\ job.at # "attach"
                        /\ Ridden(o)'
  <2>1. Sole => ~Active(order[o]) /\ Ridden(o)
    BY <1>1, <1>2 DEF Sole, Certain
  <2> QED BY <1>3, <1>4, <1>6, <2>1 DEF Certain, Ridden, Placed, Exists, SameRide, Active
<1> QED BY <1>4, <1>7, <1>10, <1>11, <1>12, RidersRest, Zenon

(* What the operations on the pool do to the riders.                         *)
LEMMA PoolMoves ==
  ASSUME PoolTypeOK, NEW p \in Partners
  PROVE  /\ pool' = Released(p) =>
              /\ \A q \in Partners : (Exists(q)' <=> Exists(q)) /\ (q # p => pool'[q] = pool[q])
              /\ Exists(p) => pool'[p].isAvailable
         /\ pool' \in {MarkedUnavailable(p), Claimed(p)} =>
              /\ \A q \in Partners : (Exists(q)' <=> Exists(q)) /\ (q # p => pool'[q] = pool[q])
              /\ Exists(p) => ~pool'[p].isAvailable
<1>1. \A b \in BOOLEAN : /\ [pool[p] EXCEPT !.isAvailable = b].isAvailable = b
                         /\ [pool[p] EXCEPT !.isAvailable = b].status = pool[p].status
  BY DEF PoolTypeOK, PartnerRows
<1>2. PICK up, down : /\ up = [pool[p] EXCEPT !.isAvailable = TRUE]
                      /\ down = [pool[p] EXCEPT !.isAvailable = FALSE]
  OBVIOUS
<1>3. /\ up.isAvailable /\ up.status = pool[p].status
      /\ ~down.isAvailable /\ down.status = pool[p].status
  BY <1>1, <1>2
<1>4. ASSUME pool' = Released(p)
      PROVE  /\ \A q \in Partners : (Exists(q)' <=> Exists(q)) /\ (q # p => pool'[q] = pool[q])
             /\ Exists(p) => pool'[p].isAvailable
  <2>1. pool' = IF Exists(p) THEN [pool EXCEPT ![p] = up] ELSE pool
    BY <1>2, <1>4 DEF Released
  <2> QED BY <1>3, <2>1 DEF PoolTypeOK, Exists
<1>5. ASSUME pool' \in {MarkedUnavailable(p), Claimed(p)}
      PROVE  /\ \A q \in Partners : (Exists(q)' <=> Exists(q)) /\ (q # p => pool'[q] = pool[q])
             /\ Exists(p) => ~pool'[p].isAvailable
  <2>1. pool' = [pool EXCEPT ![p] = down] \/ (pool' = pool /\ ~Exists(p))
    BY <1>2, <1>5 DEF MarkedUnavailable, Claimed
  <2> QED BY <1>3, <2>1 DEF PoolTypeOK, Exists
<1> QED BY <1>4, <1>5

(* Releasing a rider whom the order, if it holds anybody, holds.             *)
Releases(w, o, job, p) ==
  /\ job # Idle => job.o = o /\ Guided(job)'
  /\ \A q \in Partners : q # p /\ Held(order[o], req[w], q) => Held(order[o], job, q)
  /\ Plain /\ Sole =>
       /\ job # Idle => Certain(job)' /\ job.at # "attach"
       /\ \A q \in Partners : Exists(q) /\ Held(order[o], job, q) =>
            q # p /\ Held(order[o], req[w], q)
       /\ p \in Partners /\ Exists(p) => Held(order[o], req[w], p)

LEMMA RidersReleased ==
  ASSUME SInv, SInv', Riders, NEW w \in Workers, NEW o \in Orders, req[w] # Idle, req[w].o = o,
         NEW job \in Jobs \cup {Idle}, req' = [req EXCEPT ![w] = job],
         order' = order, NEW p \in Partners \cup {None}, pool' = Released(p),
         Releases(w, o, job, p)
  PROVE  Riders'
<1>1. /\ \A q \in Partners : (Exists(q)' <=> Exists(q)) /\ (q # p => pool'[q] = pool[q])
      /\ p \in Partners /\ Exists(p) => pool'[p].isAvailable
  <2>1. CASE p \in Partners
    BY <2>1, PoolMoves DEF SInv, IInv, TypeOK
  <2>2. CASE p \notin Partners
    <3>1. pool' = pool
      BY <2>2 DEF Released, Exists
    <3> QED BY <2>2, <3>1 DEF Exists
  <2> QED BY <2>1, <2>2
<1>2. Moves(w, o, job)
  BY <1>1 DEF Moves, Releases
<1>3. \A q \in Partners : Waiting(q)' =>
        \/ Held(order'[o], job, q)
        \/ Waiting(q) /\ ~Held(order[o], req[w], q)
  BY <1>1 DEF Waiting, Releases
<1>4. ASSUME Plain, Sole
      PROVE  /\ job # Idle => Certain(job)'
             /\ Ridden(o)'
             /\ job # Idle /\ job.at = "attach" =>
                  \A v \in Workers : At(v, "attach") => req[v].partner # job.partner
             /\ \A q \in Partners : Exists(q) /\ Held(order'[o], job, q) =>
                  /\ ~pool'[q].isAvailable
                  /\ Held(order[o], req[w], q) \/ pool[q].isAvailable
             /\ \A q \in Partners : Exists(q) /\ pool'[q].isAvailable =>
                  pool[q].isAvailable \/ Held(order[o], req[w], q)
  <2>1. ASSUME NEW q \in Partners, Exists(q), Held(order[o], req[w], q)
        PROVE  ~pool[q].isAvailable
    <3>1. Keeps(o, q)
      BY <1>2, <2>1, StepSplits
    <3> QED BY <1>4, <2>1, <3>1 DEF Sole, Exclusive
  <2>2. \A q \in Partners : Exists(q) /\ Held(order'[o], job, q) =>
          /\ ~pool'[q].isAvailable
          /\ Held(order[o], req[w], q) \/ pool[q].isAvailable
    BY <1>1, <1>4, <2>1 DEF Releases
  <2>3. \A q \in Partners : Exists(q) /\ pool'[q].isAvailable =>
          pool[q].isAvailable \/ Held(order[o], req[w], q)
    BY <1>1, <1>4 DEF Releases
  <2>4. Ridden(o)'
    <3>1. Ridden(o)
      BY <1>4 DEF Sole
    <3> QED BY <1>1, <3>1 DEF Ridden, Placed
  <2> QED BY <1>4, <2>2, <2>3, <2>4 DEF Releases
<1>5. job # Idle => Guided(job)'
  BY DEF Releases
<1> QED BY <1>2, <1>3, <1>4, <1>5, RidersMove

LEMMA ReleaseRiders ==
  ASSUME SInv, SInv', Riders, NEW w \in Workers, ReleaseRider(w)
  PROVE  Riders'
<1>1. req[w] \in Jobs /\ req[w] # Idle /\ req[w].o \in Orders /\ req[w].at = "release"
  BY AtJob DEF SInv, Stages, ReleaseRider
<1>2. PICK o \in Orders, p \in Partners \cup {None} : o = req[w].o /\ p = req[w].seen.partner
  BY <1>1 DEF Jobs, OrderRows
<1>3. pool' = Released(p) /\ order' = order
  BY <1>2 DEF ReleaseRider
<1>4. PICK stage \in {"loyalty", "idle"} : Go(w, stage)
  BY DEF ReleaseRider
<1>5. PICK job \in Jobs \cup {Idle} :
        req' = [req EXCEPT ![w] = job] /\ job.at = stage /\ (job # Idle => job.o = req[w].o)
  BY <1>1, <1>4, GoesTo DEF Stages
<1>6. /\ \A q : Held(order[o], job, q) <=> order[o].partner = q /\ Active(order[o])
      /\ \A q : Held(order[o], req[w], q) <=> p = q \/ (order[o].partner = q /\ Active(order[o]))
  BY <1>1, <1>2, <1>5 DEF Held, Bound, Letting
<1>7. job # Idle => Guided(job)'
  BY <1>5 DEF Guided
<1>8. Plain /\ Sole =>
        /\ job # Idle => Certain(job)' /\ job.at # "attach"
        /\ \A q \in Partners : ~Held(order[o], job, q)
  <2>1. Sole => ~Active(order[o])
    BY <1>1, <1>2 DEF Sole, Certain
  <2> QED BY <1>5, <1>6, <2>1 DEF Certain
<1>9. \A q \in Partners : q # p /\ Held(order[o], req[w], q) => Held(order[o], job, q)
  BY <1>6
<1>10. Releases(w, o, job, p)
  BY <1>2, <1>5, <1>6, <1>7, <1>8, <1>9 DEF Releases
<1> QED BY <1>1, <1>2, <1>3, <1>5, <1>10, RidersReleased

LEMMA FreeRiders ==
  ASSUME SInv, SInv', Riders, NEW w \in Workers, FreeRejecter(w)
  PROVE  Riders'
<1>1. req[w] \in Jobs /\ req[w] # Idle /\ req[w].o \in Orders /\ req[w].at = "free"
  BY AtJob DEF SInv, Stages, FreeRejecter
<1>2. PICK o \in Orders, p \in Partners \cup {None} : o = req[w].o /\ p = req[w].seen.partner
  BY <1>1 DEF Jobs, OrderRows
<1>3. /\ req[w].partner = p /\ req[w].excluded = p /\ req[w].seen.status = order[o].status
      /\ order[o].partner = p \/ (order[o].partner = None /\ ~Exists(p))
  BY <1>1, <1>2 DEF Riders, Guides, Guided, SeenRider
<1>4. pool' = Released(p) /\ order' = order
  BY <1>3, Zenon DEF FreeRejecter
<1>5. PICK job \in Jobs \cup {Idle} :
        /\ req' = [req EXCEPT ![w] = job] /\ job.at = "clear"
        /\ job # Idle => /\ job.o = o /\ job.seen = req[w].seen /\ job.partner = p
                         /\ job.excluded = p
        /\ job # Idle
  BY <1>1, <1>2, <1>3, GoesTo DEF FreeRejecter, Stages
<1>6. \A q \in Partners : /\ ~Held(order[o], job, q)
                          /\ Held(order[o], req[w], q) <=> order[o].partner = q /\ Active(order[o])
  BY <1>1, <1>2, <1>3, <1>5, NoneIsNoPartner DEF Held, Bound, Letting
<1>7. Guided(job)'
  BY <1>2, <1>3, <1>4, <1>5 DEF Guided
<1>8. Plain /\ Sole =>
        /\ Certain(job)' /\ job.at # "attach"
        /\ p \in Partners /\ Exists(p) => Held(order[o], req[w], p)
  <2>1. Sole => Active(order[o])
    BY <1>1, <1>2 DEF Sole, Certain
  <2> QED BY <1>3, <1>5, <1>6, <2>1 DEF Certain
<1>9. \A q \in Partners : q # p /\ Held(order[o], req[w], q) => Held(order[o], job, q)
  BY <1>3, <1>6, NoneIsNoPartner
<1>10. Releases(w, o, job, p)
  BY <1>5, <1>6, <1>7, <1>8, <1>9 DEF Releases
<1> QED BY <1>1, <1>2, <1>4, <1>5, <1>10, RidersReleased

(* An assignment by hand.                                                    *)
LEMMA UnassignRiders ==
  ASSUME SInv, SInv', Riders, NEW w \in Workers, Unassign(w)
  PROVE  Riders'
<1>1. req[w] \in Jobs /\ req[w] # Idle /\ req[w].o \in Orders /\ req[w].at = "unassign"
  BY AtJob DEF SInv, Stages, Unassign
<1>2. PICK o \in Orders, p \in Partners \cup {None} : o = req[w].o /\ p = req[w].seen.partner
  BY <1>1 DEF Jobs, OrderRows
<1>3. /\ order[o].partner = p \/ (order[o].partner = None /\ ~Exists(p))
      /\ Active(order[o])
  BY <1>1, <1>2 DEF Riders, Guides, Guided, SeenRider
<1>4. pool' = Released(p) /\ order' = order
  BY <1>2 DEF Unassign
<1>5. PICK job \in Jobs \cup {Idle} :
        /\ req' = [req EXCEPT ![w] = job] /\ job.at = "mark"
        /\ job # Idle => job.o = o /\ job.seen = req[w].seen
  BY <1>1, <1>2, GoesTo DEF Unassign, Stages
<1>6. \A q \in Partners : q # p => ~Held(order[o], req[w], q)
  BY <1>1, <1>3, NoneIsNoPartner DEF Held, Bound
<1>7. job # Idle => Guided(job)'
  BY <1>2, <1>3, <1>4, <1>5 DEF Guided
<1>8. ~(Plain /\ Sole)
  BY <1>1 DEF Sole, Certain
<1>9. Releases(w, o, job, p)
  BY <1>5, <1>6, <1>7, <1>8 DEF Releases
<1> QED BY <1>1, <1>2, <1>4, <1>5, <1>9, RidersReleased

LEMMA VetRiders ==
  ASSUME SInv, SInv', Riders, NEW w \in Workers, Vet(w)
  PROVE  Riders'
<1>1. /\ req[w] \in Jobs /\ req[w] # Idle /\ req[w].o \in Orders /\ req[w].at = "vet"
      /\ JobSound(req[w])
  BY AtJob DEF SInv, Stages, Vet
<1>2. PICK o \in Orders, p \in Partners \cup {None} : o = req[w].o /\ p = req[w].seen.partner
  BY <1>1 DEF Jobs, OrderRows
<1>3. /\ order[o].partner = p \/ (order[o].partner = None /\ ~Exists(p))
      /\ Active(order[o])
  BY <1>1, <1>2 DEF Riders, Guides, Guided, SeenRider
<1>4. pool' = pool /\ order' = order
  BY DEF Vet
<1>5. PICK stage \in {"idle", "mark", "unassign"} :
        Go(w, stage) /\ (stage = "mark" => p \in {None, req[w].partner})
  BY <1>2 DEF Vet
<1>6. PICK job \in Jobs \cup {Idle} :
        /\ req' = [req EXCEPT ![w] = job] /\ job.at = stage
        /\ job # Idle => /\ job.o = o /\ job.seen = req[w].seen
                         /\ job.partner = req[w].partner /\ job.excluded = req[w].excluded
        /\ stage = "idle" <=> job = Idle
  BY <1>1, <1>2, <1>5, GoesTo DEF Stages
<1>7. Moves(w, o, job)
  BY <1>1, <1>2, <1>4, <1>6 DEF Moves, Exists
<1>8. req[w].excluded = None
  BY <1>1 DEF JobSound
<1>9. \A q \in Partners : ~Letting(job, q)
  BY <1>2, <1>5, <1>6, <1>8, NoneIsNoPartner DEF Letting
<1>10. \A q \in Partners : Held(order[o], req[w], q) => Held(order'[o], job, q)
  BY <1>1, <1>4, <1>9 DEF Held, Bound
<1>11. job # Idle => Guided(job)'
  BY <1>2, <1>3, <1>4, <1>6 DEF Guided, SeenRider, Exists
<1>12. ~(Plain /\ Sole)
  BY <1>1 DEF Sole, Certain
<1> QED BY <1>4, <1>7, <1>10, <1>11, <1>12, RidersRest, Zenon

LEMMA MarkRiders ==
  ASSUME SInv, SInv', Riders, NEW w \in Workers, Mark(w)
  PROVE  Riders'
<1>1. /\ req[w] \in Jobs /\ req[w] # Idle /\ req[w].o \in Orders /\ req[w].at = "mark"
      /\ JobSound(req[w])
  BY AtJob DEF SInv, Stages, Mark
<1>2. PICK o \in Orders, p \in Partners : o = req[w].o /\ p = req[w].partner
  BY <1>1 DEF JobSound
<1>3. order[o].partner \in {None, req[w].seen.partner} /\ Active(order[o])
  BY <1>1, <1>2 DEF Riders, Guides, Guided
<1>4. pool' = MarkedUnavailable(p) /\ order' = order
  BY <1>2 DEF Mark
<1>5. PICK job \in Jobs \cup {Idle} :
        /\ req' = [req EXCEPT ![w] = job] /\ job.at = "attach"
        /\ job # Idle => /\ job.o = o /\ job.seen = req[w].seen
                         /\ job.partner = p /\ job.excluded = req[w].excluded
        /\ job # Idle
  BY <1>1, <1>2, GoesTo DEF Mark, Stages
<1>6. \A q \in Partners : (Exists(q)' <=> Exists(q)) /\ (q # p => pool'[q] = pool[q])
  BY <1>4, PoolMoves DEF SInv, IInv, TypeOK
<1>7. Moves(w, o, job)
  BY <1>1, <1>2, <1>4, <1>5, <1>6 DEF Moves
<1>8. Held(order'[o], job, p)
  BY <1>5 DEF Held, Bound
<1>9. \A q \in Partners : q # p => (Held(order[o], req[w], q) => Held(order'[o], job, q))
  BY <1>1, <1>2, <1>4, <1>5 DEF Held, Bound, Letting
<1>10. \A q \in Partners : Waiting(q)' =>
         \/ Held(order'[o], job, q)
         \/ Waiting(q) /\ ~Held(order[o], req[w], q)
  BY <1>6, <1>8, <1>9 DEF Waiting
<1>11. job # Idle => Guided(job)'
  BY <1>3, <1>4, <1>5 DEF Guided
<1>12. ~(Plain /\ Sole)
  BY <1>1 DEF Sole, Certain
<1> QED BY <1>7, <1>10, <1>11, <1>12, RidersMove

(***************************************************************************)
(* The order names another rider, or none.                                 *)
(***************************************************************************)

LEMMA PartnerColumn ==
  ASSUME IInv, NEW o \in Orders, NEW p, NEW a,
         order' = [order EXCEPT ![o] = [[@ EXCEPT !.partner = p] EXCEPT !.acceptance = a]]
  PROVE  /\ order'[o].status = order[o].status /\ order'[o].partner = p
         /\ \A q \in Orders : q # o => order'[q] = order[q]
<1>1. order \in [Orders -> OrderRows] /\ order[o] \in OrderRows
  BY DEF IInv, TypeOK
<1>2. PICK row : row = [[order[o] EXCEPT !.partner = p] EXCEPT !.acceptance = a]
  OBVIOUS
<1>3. row.status = order[o].status /\ row.partner = p
  BY <1>1, <1>2 DEF OrderRows
<1>4. order' = [order EXCEPT ![o] = row]
  BY <1>2
<1> QED BY <1>1, <1>3, <1>4

(* The claim becomes the order's rider, or comes to nothing if the rider has *)
(* been deleted; the rider it replaces had been let go before.               *)
LEMMA AttachRiders ==
  ASSUME SInv, SInv', Riders, NEW w \in Workers, Attach(w)
  PROVE  Riders'
<1>1. /\ req[w] \in Jobs /\ req[w] # Idle /\ req[w].o \in Orders /\ req[w].at = "attach"
      /\ JobSound(req[w])
  BY AtJob DEF SInv, Stages, Attach
<1>2. PICK o \in Orders, p \in Partners : o = req[w].o /\ p = req[w].partner
  BY <1>1 DEF JobSound
<1>3. order[o].partner \in {None, req[w].seen.partner} /\ Active(order[o])
  BY <1>1, <1>2 DEF Riders, Guides, Guided
<1>4. pool' = pool /\ req' = [req EXCEPT ![w] = Idle]
  BY DEF Attach, End, Go
<1>5. /\ order'[o].status = order[o].status
      /\ order'[o].partner = IF Exists(p) THEN p ELSE order[o].partner
      /\ \A q \in Orders : q # o => order'[q] = order[q]
  <2>1. CASE Exists(p)
    <3>1. order' = [order EXCEPT ![o] = [[@ EXCEPT !.partner = p] EXCEPT !.acceptance = "PENDING"]]
      BY <1>2, <2>1 DEF Attach
    <3>2. IInv
      BY DEF SInv
    <3>3. /\ order'[o].status = order[o].status /\ order'[o].partner = p
          /\ \A q \in Orders : q # o => order'[q] = order[q]
      BY <3>1, <3>2, PartnerColumn, Zenon
    <3> QED BY <2>1, <3>3
  <2>2. CASE ~Exists(p)
    BY <1>2, <2>2 DEF Attach
  <2> QED BY <2>1, <2>2
<1>6. Moves(w, o, Idle)
  BY <1>1, <1>2, <1>4, <1>5 DEF Moves, Exists
<1>7. Active(order'[o])
  BY <1>3, <1>5 DEF Active
<1>8. \A q : Held(order'[o], Idle, q) <=> order'[o].partner = q
  BY <1>7, IdleNeutral, NeutralHeld
<1>9. ASSUME NEW q \in Partners, Exists(q), Held(order[o], req[w], q)
      PROVE  Held(order'[o], Idle, q)
  <2>1. CASE q = p
    BY <1>5, <1>8, <1>9, <2>1
  <2>2. CASE q # p
    <3>1. order[o].partner = q /\ ~Letting(req[w], q)
      BY <1>1, <1>2, <1>9, <2>2 DEF Held, Bound
    <3>2. req[w].seen.partner = q
      BY <1>3, <3>1, NoneIsNoPartner
    <3> QED BY <1>1, <1>2, <2>2, <3>1, <3>2 DEF Letting
  <2> QED BY <2>1, <2>2
<1>10. Plain /\ Sole =>
         /\ Ridden(o)'
         /\ \A q \in Partners : Exists(q) /\ Held(order'[o], Idle, q) => Held(order[o], req[w], q)
  <2> SUFFICES ASSUME Sole
               PROVE  /\ Ridden(o)'
                      /\ \A q \in Partners : Held(order'[o], Idle, q) => Held(order[o], req[w], q)
    OBVIOUS
  <2>1. order[o].partner = None
    BY <1>1, <1>2 DEF Sole, Certain
  <2>2. Ridden(o)'
    BY <1>4, <1>5, <1>7, <2>1, NoneIsNoPartner DEF Ridden, Placed, Active, Exists
  <2>3. \A q \in Partners : Held(order'[o], Idle, q) => q = p
    BY <1>5, <1>8, <2>1, NoneIsNoPartner
  <2>4. Held(order[o], req[w], p)
    BY <1>1, <1>2 DEF Held, Bound
  <2> QED BY <2>2, <2>3, <2>4
<1> QED BY <1>4, <1>6, <1>9, <1>10, RidersRest

LEMMA ClearRiders ==
  ASSUME SInv, SInv', Riders, NEW w \in Workers, ClearAssignment(w)
  PROVE  Riders'
<1>1. req[w] \in Jobs /\ req[w] # Idle /\ req[w].o \in Orders /\ req[w].at = "clear"
  BY AtJob DEF SInv, Stages, ClearAssignment
<1>2. PICK o \in Orders : o = req[w].o
  BY <1>1
<1>3. /\ order[o].partner \in {None, req[w].seen.partner}
      /\ req[w].excluded = req[w].seen.partner /\ req[w].seen.status = order[o].status
  BY <1>1, <1>2 DEF Riders, Guides, Guided
<1>4. pool' = pool
  BY DEF ClearAssignment
<1>5. /\ order'[o].status = order[o].status /\ order'[o].partner = None
      /\ \A q \in Orders : q # o => order'[q] = order[q]
  <2>1. order' = [order EXCEPT ![o] = [[@ EXCEPT !.partner = None] EXCEPT !.acceptance = "NONE"]]
    BY <1>2 DEF ClearAssignment
  <2> QED BY <2>1, PartnerColumn, Zenon DEF SInv
<1>6. PICK stage \in {"find", "idle"} :
        Go(w, stage) /\ (stage = "find" => req[w].seen.status \in {"READY", "OUT_FOR_DELIVERY"})
  BY DEF ClearAssignment
<1>7. PICK job \in Jobs \cup {Idle} :
        req' = [req EXCEPT ![w] = job] /\ job.at = stage /\ (job # Idle => job.o = o)
  BY <1>1, <1>2, <1>6, GoesTo DEF Stages
<1>8. Moves(w, o, job)
  BY <1>1, <1>2, <1>4, <1>5, <1>7 DEF Moves, Exists
<1>9. Neutral(job)
  BY <1>7 DEF Neutral
<1>10. \A q \in Partners : ~Held(order[o], req[w], q) /\ ~Held(order'[o], job, q)
  <2>1. \A q \in Partners : ~Held(order[o], req[w], q)
    BY <1>1, <1>3, NoneIsNoPartner DEF Held, Bound, Letting
  <2>2. \A q \in Partners : ~Held(order'[o], job, q)
    BY <1>5, <1>9, NeutralHeld, NoneIsNoPartner
  <2> QED BY <2>1, <2>2
<1>11. job # Idle => Guided(job)'
  BY <1>3, <1>5, <1>6, <1>7 DEF Guided, Active, Finished
<1>12. Plain /\ Sole =>
         /\ job # Idle => Certain(job)' /\ job.at # "attach"
         /\ Ridden(o)'
  BY <1>5, <1>7, NoneIsNoPartner DEF Certain, Ridden
<1> QED BY <1>4, <1>8, <1>10, <1>11, <1>12, RidersRest, Zenon

(***************************************************************************)
(* The search.                                                             *)
(***************************************************************************)

LEMMA FindRidersRiders ==
  ASSUME SInv, SInv', Riders, NEW w \in Workers, FindRiders(w)
  PROVE  Riders'
<1>1. req[w] \in Jobs /\ req[w] # Idle /\ req[w].o \in Orders /\ req[w].at = "find"
  BY AtJob DEF SInv, Stages, FindRiders
<1>2. PICK o \in Orders : o = req[w].o
  BY <1>1
<1>3. order[o].partner = None /\ Active(order[o])
  BY <1>1, <1>2 DEF Riders, Guides, Guided
<1>4. UNCHANGED <<pool, order>>
  BY DEF FindRiders
<1>5. PICK job \in Jobs \cup {Idle} :
        req' = [req EXCEPT ![w] = job] /\ (job # Idle => job.o = o /\ job.at = "claim")
  <2>1. \A found \in SUBSET Partners :
          LET job == [[req[w] EXCEPT !.ranked = found] EXCEPT !.at = "claim"] IN
          job \in Jobs /\ job.o = req[w].o /\ job.at = "claim"
    BY <1>1 DEF Jobs, Stages
  <2>2. Candidates(req[w].excluded) \in SUBSET Partners
    BY DEF Candidates
  <2> QED BY <1>2, <2>1, <2>2, Zenon DEF FindRiders, Begin
<1>6. Moves(w, o, job)
  BY <1>1, <1>2, <1>4, <1>5 DEF Moves, Exists
<1>7. Neutral(job) /\ Neutral(req[w])
  BY <1>1, <1>5, IdleNeutral DEF Neutral
<1>8. \A p \in Partners : ~Held(order[o], req[w], p) /\ ~Held(order'[o], job, p)
  BY <1>3, <1>4, <1>7, NeutralHeld, NoneIsNoPartner
<1>9. job # Idle => Guided(job)'
  BY <1>3, <1>4, <1>5 DEF Guided
<1>10. Plain /\ Sole =>
         /\ job # Idle => Certain(job)' /\ job.at # "attach"
         /\ Ridden(o)'
  BY <1>3, <1>4, <1>5, NoneIsNoPartner DEF Certain, Ridden, Placed, Active
<1> QED BY <1>4, <1>6, <1>8, <1>9, <1>10, RidersRest

(* The conditional claim takes a rider whom nobody keeps.                    *)
LEMMA ClaimRiders ==
  ASSUME SInv, SInv', Riders, NEW w \in Workers, NEW p \in Partners, ClaimRider(w, p)
  PROVE  Riders'
<1>1. req[w] \in Jobs /\ req[w] # Idle /\ req[w].o \in Orders /\ req[w].at = "claim"
  BY AtJob DEF SInv, Stages, ClaimRider
<1>2. PICK o \in Orders : o = req[w].o
  BY <1>1
<1>3. order[o].partner = None /\ Active(order[o])
  BY <1>1, <1>2 DEF Riders, Guides, Guided
<1>4. order' = order
  BY DEF ClaimRider
<1>5. Neutral(req[w])
  BY <1>1 DEF Neutral
<1>6. \A q \in Partners : ~Held(order[o], req[w], q)
  BY <1>3, <1>5, NeutralHeld, NoneIsNoPartner
<1>7. CASE ClaimWins(p)
  <2>1. pool' = Claimed(p)
    BY <1>7 DEF ClaimRider
  <2>2. PICK job \in Jobs \cup {Idle} :
          /\ req' = [req EXCEPT ![w] = job] /\ job # Idle
          /\ job.o = o /\ job.at = "attach" /\ job.partner = p
    <3>1. PICK job : job = [[req[w] EXCEPT !.partner = p] EXCEPT !.at = "attach"]
      OBVIOUS
    <3>2. job \in Jobs /\ job.o = req[w].o /\ job.at = "attach" /\ job.partner = p
      BY <1>1, <3>1 DEF Jobs, Stages
    <3>3. job # Idle
      BY <3>2 DEF Jobs, Idle
    <3> QED BY <1>2, <1>7, <3>1, <3>2, <3>3 DEF ClaimRider, Begin
  <2>3. /\ \A q \in Partners : (Exists(q)' <=> Exists(q)) /\ (q # p => pool'[q] = pool[q])
        /\ ~pool'[p].isAvailable /\ Exists(p) /\ pool[p].isAvailable
    BY <1>7, <2>1, PoolMoves DEF SInv, IInv, TypeOK, ClaimWins
  <2>4. Moves(w, o, job)
    BY <1>1, <1>2, <1>4, <2>2, <2>3 DEF Moves
  <2>5. \A q \in Partners : Held(order'[o], job, q) <=> q = p
    BY <1>3, <1>4, <2>2, NoneIsNoPartner DEF Held, Bound, Letting
  <2>6. Guided(job)'
    BY <1>3, <1>4, <2>2 DEF Guided
  <2>7. \A q \in Partners : Waiting(q)' =>
          \/ Held(order'[o], job, q)
          \/ Waiting(q) /\ ~Held(order[o], req[w], q)
    BY <1>6, <2>3, <2>5 DEF Waiting
  <2>8. ASSUME Plain, Sole
        PROVE  /\ job # Idle => Certain(job)'
               /\ Ridden(o)'
               /\ job # Idle /\ job.at = "attach" =>
                    \A v \in Workers : At(v, "attach") => req[v].partner # job.partner
               /\ \A q \in Partners : Exists(q) /\ Held(order'[o], job, q) =>
                    /\ ~pool'[q].isAvailable
                    /\ Held(order[o], req[w], q) \/ pool[q].isAvailable
               /\ \A q \in Partners : Exists(q) /\ pool'[q].isAvailable =>
                    pool[q].isAvailable \/ Held(order[o], req[w], q)
    <3>1. Certain(job)'
      BY <1>3, <1>4, <2>2 DEF Certain
    <3>2. Ridden(o)'
      BY <1>3, <1>4, NoneIsNoPartner DEF Ridden, Placed, Active
    <3>3. ASSUME NEW v \in Workers, At(v, "attach"), req[v].partner = p PROVE FALSE
      <4>1. req[v] # Idle /\ req[v].o \in Orders /\ Bound(req[v], p)
        BY <3>3 DEF At, Bound, SInv, IInv, TypeOK, Jobs
      <4>2. Keeps(req[v].o, p)
        BY <4>1 DEF Keeps, Holds
      <4> QED BY <2>3, <2>8, <4>1, <4>2 DEF Sole, Exclusive
    <3>4. \A q \in Partners : Exists(q) /\ Held(order'[o], job, q) =>
            /\ ~pool'[q].isAvailable
            /\ Held(order[o], req[w], q) \/ pool[q].isAvailable
      BY <2>3, <2>5
    <3>5. \A q \in Partners : Exists(q) /\ pool'[q].isAvailable =>
            pool[q].isAvailable \/ Held(order[o], req[w], q)
      BY <2>3
    <3> QED BY <2>2, <3>1, <3>2, <3>3, <3>4, <3>5
  <2> QED BY <2>4, <2>6, <2>7, <2>8, RidersMove
<1>8. CASE ~ClaimWins(p)
  <2>1. pool' = pool
    BY <1>8 DEF ClaimRider
  <2>2. PICK job \in Jobs \cup {Idle} :
          req' = [req EXCEPT ![w] = job] /\ (job # Idle => job.o = o /\ job.at = "claim")
    <3>1. \A rest \in SUBSET Partners :
            LET job == [req[w] EXCEPT !.ranked = rest] IN
            job \in Jobs /\ job.o = req[w].o /\ job.at = "claim"
      BY <1>1 DEF Jobs
    <3>2. PICK rest \in SUBSET Partners : rest = req[w].ranked \ {p}
      BY <1>1 DEF Jobs
    <3>3. req' = [req EXCEPT ![w] = IF rest = {} THEN Idle ELSE [req[w] EXCEPT !.ranked = rest]]
      BY <1>8, <3>2 DEF ClaimRider, Begin
    <3>4. CASE rest = {}
      BY <3>3, <3>4
    <3>5. CASE rest # {}
      BY <1>2, <3>1, <3>3, <3>5
    <3> QED BY <3>4, <3>5
  <2>3. Moves(w, o, job)
    BY <1>1, <1>2, <1>4, <2>1, <2>2 DEF Moves, Exists
  <2>4. Neutral(job)
    BY <2>2, IdleNeutral DEF Neutral
  <2>5. \A q \in Partners : ~Held(order'[o], job, q)
    BY <1>3, <1>4, <2>4, NeutralHeld, NoneIsNoPartner
  <2>6. job # Idle => Guided(job)'
    BY <1>3, <1>4, <2>2 DEF Guided
  <2>7. Plain /\ Sole =>
          /\ job # Idle => Certain(job)' /\ job.at # "attach"
          /\ Ridden(o)'
    BY <1>3, <1>4, <2>2, NoneIsNoPartner DEF Certain, Ridden, Placed, Active
  <2> QED BY <1>6, <2>1, <2>3, <2>5, <2>6, <2>7, RidersRest
<1> QED BY <1>7, <1>8, Zenon

(***************************************************************************)
(* Riders and admins.                                                      *)
(***************************************************************************)

(* Neither changes the availability of a rider; a deleted rider leaves the   *)
(* orders that name them.                                                    *)
Apart ==
  /\ \A o \in Orders :
       /\ order'[o].status = order[o].status
       /\ order'[o].partner \in {order[o].partner, None}
       /\ \A p \in Partners : order[o].partner = p =>
            IF order'[o].partner = p THEN Exists(p) => Exists(p)' ELSE ~Exists(p)'
  /\ \A p \in Partners : Exists(p)' => Exists(p) /\ pool'[p].isAvailable = pool[p].isAvailable
  /\ req' = req

LEMMA OutsideApart ==
  ASSUME SInv,
         \/ \E o \in Orders : PayFailed(o)
         \/ \E p \in Partners : RiderToggles(p) \/ AdminSuspends(p) \/ AdminRemoves(p)
         \/ UNCHANGED vars
  PROVE  Apart
<1>1. /\ pool \in [Partners -> PartnerRows] /\ order \in [Orders -> OrderRows]
      /\ SameStatus /\ req' = req
  BY OutsideStatus DEF SInv, IInv, TypeOK, PoolTypeOK
<1>2. ASSUME NEW p \in Partners, NEW row,
             pool' = [pool EXCEPT ![p] = row],
             row.isAvailable = pool[p].isAvailable, row.status # "DELETED", order' = order,
             Exists(p)
      PROVE  Apart
  <2>1. pool'[p] = row /\ \A q \in Partners : q # p => pool'[q] = pool[q]
    BY <1>1, <1>2
  <2>2. \A q \in Partners : Exists(q)' <=> Exists(q)
    BY <1>2, <2>1 DEF Exists
  <2>3. \A q \in Partners : pool'[q].isAvailable = pool[q].isAvailable
    BY <1>2, <2>1
  <2> QED BY <1>1, <1>2, <2>2, <2>3 DEF Apart, SameStatus
<1>3. ASSUME NEW p \in Partners, RiderToggles(p) PROVE Apart
  <2>1. PICK row : row = [pool[p] EXCEPT !.isOnline = ~@]
    OBVIOUS
  <2>2. row.isAvailable = pool[p].isAvailable /\ row.status = pool[p].status
    BY <1>1, <2>1 DEF PartnerRows
  <2>3. pool' = [pool EXCEPT ![p] = row] /\ order' = order /\ Exists(p)
    BY <1>3, <2>1 DEF RiderToggles, ToggleOnline, Unmoved
  <2> QED BY <1>2, <2>2, <2>3 DEF Exists
<1>4. ASSUME NEW p \in Partners, AdminSuspends(p) PROVE Apart
  <2>1. PICK row : row = [pool[p] EXCEPT !.status = IF @ = "APPROVED" THEN "SUSPENDED"
                                                    ELSE "APPROVED"]
    OBVIOUS
  <2>2. row.isAvailable = pool[p].isAvailable /\ row.status # "DELETED"
    BY <1>1, <2>1 DEF PartnerRows
  <2>3. pool' = [pool EXCEPT ![p] = row] /\ order' = order /\ Exists(p)
    BY <1>4, <2>1 DEF AdminSuspends, ChangeStatus, Unmoved
  <2> QED BY <1>2, <2>2, <2>3
<1>5. ASSUME NEW p \in Partners, AdminRemoves(p) PROVE Apart
  <2>1. PICK row : row = [pool[p] EXCEPT !.status = "DELETED"]
    OBVIOUS
  <2>2. row.status = "DELETED"
    BY <1>1, <2>1 DEF PartnerRows
  <2>3. pool' = [pool EXCEPT ![p] = row] /\ Exists(p)
    BY <1>5, <2>1 DEF AdminRemoves, Remove
  <2>4. ~Exists(p)' /\ \A q \in Partners : q # p => (Exists(q)' <=> Exists(q)) /\ pool'[q] = pool[q]
    BY <1>1, <2>2, <2>3 DEF Exists
  <2>5. \A o \in Orders : order'[o].partner = IF order[o].partner = p THEN None
                                              ELSE order[o].partner
    <3>1. \A o \in Orders : [order[o] EXCEPT !.partner = None].partner = None
      BY <1>1 DEF OrderRows
    <3> QED BY <1>5, <3>1 DEF AdminRemoves
  <2>6. \A q \in Partners : Exists(q)' => Exists(q) /\ pool'[q].isAvailable = pool[q].isAvailable
    BY <2>4
  <2>7. ASSUME NEW o \in Orders, NEW q \in Partners, order[o].partner = q
        PROVE  IF order'[o].partner = q THEN Exists(q) => Exists(q)' ELSE ~Exists(q)'
    BY <2>4, <2>5, <2>7, NoneIsNoPartner
  <2> QED BY <1>1, <2>5, <2>6, <2>7 DEF Apart, SameStatus
<1>6. CASE (\E o \in Orders : PayFailed(o)) \/ UNCHANGED vars
  BY <1>1, <1>6 DEF PayFailed, vars, Apart, Exists
<1> QED BY <1>3, <1>4, <1>5, <1>6

LEMMA OutsideRiders ==
  ASSUME SInv, SInv', Riders, Apart
  PROVE  Riders'
<1>1. req' = req
  BY DEF Apart
<1>2. \A w \in Workers : req[w] # Idle => req[w] \in Jobs /\ req[w].o \in Orders
  BY DEF SInv, IInv, TypeOK, Jobs
<1>3. \A o \in Orders : Active(order'[o]) <=> Active(order[o])
  BY DEF Apart, Active
<1>4. ASSUME NEW p \in Partners, Exists(p)', NEW o \in Orders
      PROVE  /\ order'[o].partner = p <=> order[o].partner = p
             /\ Keeps(o, p)' <=> Keeps(o, p)
  <2>1. order'[o].partner = p <=> order[o].partner = p
    BY <1>4, NoneIsNoPartner DEF Apart
  <2> QED BY <1>1, <1>3, <2>1 DEF Keeps, Holds
<1>5. ASSUME NEW w \in Workers, req'[w] # Idle PROVE Guided(req[w])'
  <2>1. PICK r \in Jobs : r = req[w] /\ r = req'[w] /\ Guided(r) /\ r.o \in Orders
    BY <1>1, <1>2, <1>5 DEF Riders, Guides
  <2>2. SeenRider(r) => SeenRider(r)'
    <3>1. r.seen.partner \in Partners \cup {None}
      BY <2>1 DEF Jobs, OrderRows
    <3>2. Exists(r.seen.partner)' => Exists(r.seen.partner)
      BY <3>1, NoneIsNoPartner DEF Apart, Exists
    <3>3. CASE order[r.o].partner = r.seen.partner
      <4>1. ASSUME order'[r.o].partner # r.seen.partner
            PROVE  order'[r.o].partner = None /\ ~Exists(r.seen.partner)'
        BY <2>1, <3>1, <3>3, <4>1, NoneIsNoPartner DEF Apart
      <4> QED BY <4>1 DEF SeenRider
    <3>4. CASE order[r.o].partner = None /\ ~Exists(r.seen.partner)
      BY <2>1, <3>2, <3>4 DEF Apart, SeenRider
    <3> QED BY <3>3, <3>4 DEF SeenRider
  <2>3. order'[r.o].partner \in {order[r.o].partner, None} /\ order'[r.o].status = order[r.o].status
    BY <2>1 DEF Apart
  <2>4. Guided(r)'
    BY <2>1, <2>2, <2>3 DEF Guided, Active
  <2> QED BY <2>1, <2>4 DEF Guided, SeenRider, Active
<1>6. Accounted'
  <2> SUFFICES ASSUME NEW p \in Partners, Waiting(p)' PROVE \E o \in Orders : Keeps(o, p)'
    BY DEF Accounted
  <2>1. Waiting(p) /\ Exists(p)'
    BY DEF Apart, Waiting
  <2> QED BY <1>4, <2>1 DEF Riders, Accounted
<1>7. ASSUME Sole PROVE Sole'
  <2>1. ASSUME NEW w \in Workers, req'[w] # Idle PROVE Certain(req[w])'
    <3>1. PICK r \in Jobs : r = req[w] /\ r = req'[w] /\ Certain(r) /\ r.o \in Orders
      BY <1>1, <1>2, <1>7, <2>1 DEF Sole
    <3>2. order'[r.o].partner \in {order[r.o].partner, None} /\ order'[r.o].status = order[r.o].status
      BY <3>1 DEF Apart
    <3> QED BY <3>1, <3>2 DEF Certain, Active
  <2>2. ASSUME NEW o \in Orders PROVE Ridden(o)'
    <3>1. Ridden(o)
      BY <1>7 DEF Sole
    <3> QED BY <3>1, NoneIsNoPartner DEF Ridden, Apart, Placed
  <2>3. ClaimedOnce'
    BY <1>1, <1>7 DEF Sole, ClaimedOnce, At
  <2>4. Exclusive'
    <3> SUFFICES ASSUME NEW o \in Orders, NEW p \in Partners, Exists(p)', Keeps(o, p)'
                 PROVE  ~pool'[p].isAvailable /\ \A q \in Orders : Keeps(q, p)' => q = o
      BY DEF Exclusive
    <3>1. Keeps(o, p) /\ Exists(p) /\ pool'[p].isAvailable = pool[p].isAvailable
      BY <1>4 DEF Apart
    <3> QED BY <1>4, <1>7, <3>1 DEF Sole, Exclusive
  <2> QED BY <2>1, <2>2, <2>3, <2>4 DEF Sole
<1> QED BY <1>5, <1>6, <1>7 DEF Riders, Guides, Plain

(***************************************************************************)
(* The invariant, and what it says of the riders.                          *)
(***************************************************************************)

(* Riders holds until a request dies.                                        *)
RInv == SInv /\ (crashes = 0 => Riders)

LEMMA NextRInv ==
  ASSUME ~SameOrderOverlap
  PROVE  RInv /\ [Next]_vars => RInv'
<1> SUFFICES ASSUME RInv, [Next]_vars, crashes' = 0 PROVE Riders'
  BY NextSerial DEF RInv
<1>1. SInv /\ SInv'
  BY NextSerial DEF RInv
<1>2. crashes \in Nat
  BY <1>1 DEF SInv, IInv, TypeOK
<1>3. ASSUME NEW w \in Workers, Crash(w) PROVE FALSE
  BY <1>2, <1>3 DEF Crash
<1>4. crashes' = crashes
  <2>1. ASSUME NEW w \in Workers, Arrive(w) PROVE crashes' = crashes
    BY <2>1 DEF Arrive, Create, Pay, CancelRequest, StatusRequest, RiderStatusRequest,
       AssignRequest, AcceptRequest, RejectRequest
  <2>2. ASSUME NEW w \in Workers, Step(w) PROVE crashes' = crashes
    BY <2>2 DEF Step, Insert, CreatePayment, GatewayFails, MarkOrderPaid, PayOrder, Reread,
       WriteStatus, RefundPayment, RefundOrder, RefundCredit, ReleaseRider, AwardPoints,
       FindRiders, ClaimRider, Attach, Vet, Unassign, Mark, Accept, FreeRejecter, ClearAssignment
  <2>3. CASE \/ \E o \in Orders : PayFailed(o)
             \/ \E p \in Partners : RiderToggles(p) \/ AdminSuspends(p) \/ AdminRemoves(p)
             \/ UNCHANGED vars
    BY <2>3 DEF PayFailed, RiderToggles, AdminSuspends, AdminRemoves, Unmoved, vars
  <2> QED BY <1>3, <2>1, <2>2, <2>3 DEF Next
<1>5. Riders
  BY <1>4 DEF RInv
<1>6. ASSUME NEW w \in Workers, Arrive(w) PROVE Riders'
  BY <1>1, <1>5, <1>6, ArriveRiders
<1>7. ASSUME NEW w \in Workers, Step(w) PROVE Riders'
  BY <1>1, <1>5, <1>7, InsertRiders, RereadRiders, WriteRiders, RefundRiders, ReleaseRiders,
     FreeRiders, UnassignRiders, VetRiders, MarkRiders, AttachRiders, ClearRiders,
     FindRidersRiders, ClaimRiders, BooksRiders DEF Step
<1>8. CASE \/ \E o \in Orders : PayFailed(o)
           \/ \E p \in Partners : RiderToggles(p) \/ AdminSuspends(p) \/ AdminRemoves(p)
           \/ UNCHANGED vars
  BY <1>1, <1>5, <1>8, OutsideApart, OutsideRiders
<1> QED BY <1>3, <1>6, <1>7, <1>8 DEF Next

LEMMA AtMostOne ==
  ASSUME NEW S, \A x, y \in S : x = y
  PROVE  /\ Cardinality(S) \in Nat /\ Cardinality(S) <= 1
         /\ S = {} => Cardinality(S) = 0
<1>1. CASE S = {}
  BY <1>1, FS_EmptySet
<1>2. CASE S # {}
  <2>1. PICK x : x \in S
    BY <1>2
  <2>2. S = {x}
    BY <2>1
  <2>3. Cardinality({x}) = 1
    BY FS_Singleton
  <2> QED BY <2>2, <2>3
<1> QED BY <1>1, <1>2

(* What a rider is on, by the order's row and by the requests.               *)
LEMMA OnOrdersKept ==
  ASSUME SInv, NEW p \in Partners
  PROVE  OnOrders(p) = {o \in Orders : /\ order[o].partner = p /\ Active(order[o])
                                       /\ \A v \in Workers : req[v] # Idle /\ req[v].o = o
                                            => ~Letting(req[v], p)}
BY DEF OnOrders, TakenOff, At, Letting, Live, Placed, Active

(* When no two requests on one order overlap and none has died, a rider who  *)
(* is not available is on a live order as soon as every request has ended:   *)
(* each claim is written to an order, and each order that ends or is         *)
(* rejected releases its rider (tryAssign, applyStatusChange,                *)
(* respondToDeliveryAssignment), also with assignments by hand.              *)
THEOREM SerialNoneStuck ==
  ASSUME ~SameOrderOverlap
  PROVE  Spec => [](crashes = 0 => NoneStuck)
<1>1. Init => RInv
  BY InitSInv, InitRiders DEF RInv
<1>2. RInv => (crashes = 0 => NoneStuck)
  <2> SUFFICES ASSUME SInv, Riders, AllResting, NEW p \in Partners, Exists(p),
                      ~pool[p].isAvailable
               PROVE  OnOrders(p) # {}
    BY DEF RInv, NoneStuck
  <2>1. PICK o \in Orders : Keeps(o, p)
    BY DEF Riders, Accounted, Waiting
  <2>2. \A v \in Workers : ~(req[v] # Idle /\ req[v].o = o)
    BY DEF AllResting, Resting, Busy
  <2>3. o \in OnOrders(p)
    BY <2>1, <2>2, OnOrdersKept DEF Keeps, Holds
  <2> QED BY <2>3
<1> QED BY <1>1, <1>2, NextRInv, PTL DEF Spec

(* When further no admin assigns by hand and no rider answers for an order   *)
(* that has finished, a rider on a live order cannot be claimed for another. *)
THEOREM SerialBookedUnavailable ==
  ASSUME ~SameOrderOverlap, "assign" \notin Requests, ~StaleScreens
  PROVE  Spec => [](crashes = 0 => BookedUnavailable)
<1>1. Init => RInv
  BY InitSInv, InitRiders DEF RInv
<1>2. RInv => (crashes = 0 => BookedUnavailable)
  <2> SUFFICES ASSUME SInv, Riders, NEW p \in Partners, NEW o \in OnOrders(p), Exists(p)
               PROVE  ~pool[p].isAvailable
    BY DEF RInv, BookedUnavailable
  <2>1. o \in Orders /\ Keeps(o, p)
    BY OnOrdersKept DEF Keeps, Holds
  <2> QED BY <2>1 DEF Riders, Plain, Sole, Exclusive
<1> QED BY <1>1, <1>2, NextRInv, PTL DEF Spec

(* Under the same conditions a rider is on one delivery at most, counting    *)
(* the claims that are not yet written to an order: the point of the         *)
(* conditional claim in tryAssign.                                           *)
THEOREM SerialSingleDelivery ==
  ASSUME ~SameOrderOverlap, "assign" \notin Requests, ~StaleScreens
  PROVE  Spec => [](crashes = 0 => SingleDelivery)
<1>1. Init => RInv
  BY InitSInv, InitRiders DEF RInv
<1>2. RInv => (crashes = 0 => SingleDelivery)
  <2> SUFFICES ASSUME SInv, Riders, NEW p \in Partners
               PROVE  Cardinality(OnOrders(p)) + Cardinality(OnClaims(p)) <= 1
    BY Zenon DEF RInv, SingleDelivery
  <2>1. Sole
    BY DEF Riders, Plain
  <2>2. \A o, q \in OnOrders(p) : o = q
    <3> SUFFICES ASSUME NEW o \in OnOrders(p), NEW q \in OnOrders(p) PROVE o = q
      OBVIOUS
    <3>1. o \in Orders /\ order[o].partner = p /\ Keeps(o, p) /\ q \in Orders /\ Keeps(q, p)
      BY OnOrdersKept DEF Keeps, Holds
    <3>2. Exists(p)
      BY <2>1, <3>1 DEF Sole, Ridden
    <3> QED BY <2>1, <3>1, <3>2 DEF Sole, Exclusive
  <2>3. \A v, w \in OnClaims(p) : v = w
    BY <2>1 DEF OnClaims, Sole, ClaimedOnce
  <2>4. OnOrders(p) = {} \/ OnClaims(p) = {}
    <3> SUFFICES ASSUME NEW o \in OnOrders(p), NEW w \in OnClaims(p) PROVE FALSE
      OBVIOUS
    <3>1. o \in Orders /\ order[o].partner = p /\ Keeps(o, p)
      BY OnOrdersKept DEF Keeps, Holds
    <3>2. /\ w \in Workers /\ req[w] # Idle /\ req[w].at = "attach" /\ req[w].partner = p
          /\ req[w].o \in Orders
      BY DEF OnClaims, At, SInv, IInv, TypeOK, Jobs
    <3>3. Keeps(req[w].o, p)
      BY <3>2 DEF Keeps, Holds, Bound
    <3>4. Exists(p)
      BY <2>1, <3>1 DEF Sole, Ridden
    <3>5. req[w].o = o
      BY <2>1, <3>1, <3>2, <3>3, <3>4 DEF Sole, Exclusive
    <3> QED BY <2>1, <3>1, <3>2, <3>5, NoneIsNoPartner DEF Sole, Certain
  <2>5. Cardinality(OnOrders(p)) <= 1 /\ (OnOrders(p) = {} => Cardinality(OnOrders(p)) = 0)
    BY <2>2, AtMostOne
  <2>6. Cardinality(OnClaims(p)) <= 1 /\ (OnClaims(p) = {} => Cardinality(OnClaims(p)) = 0)
    BY <2>3, AtMostOne
  <2>7. Cardinality(OnOrders(p)) \in Nat /\ Cardinality(OnClaims(p)) \in Nat
    BY <2>2, <2>3, AtMostOne
  <2> QED BY <2>4, <2>5, <2>6, <2>7
<1> QED BY <1>1, <1>2, NextRInv, PTL DEF Spec
=============================================================================
