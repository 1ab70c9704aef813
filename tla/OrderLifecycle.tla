--------------------------- MODULE OrderLifecycle ---------------------------
(* What the README promises of an order's status, as a state machine of its  *)
(* own: PENDING -> ACCEPTED -> PREPARING -> READY -> OUT_FOR_DELIVERY ->     *)
(* DELIVERED, CANCELLED from one of the first three, REFUNDED after          *)
(* CANCELLED, and nothing else, whatever the clients send.                   *)
EXTENDS Naturals, Sequences

CONSTANT Orders

VARIABLE status   \* of each order; "none" while it has not been placed

Flow == <<"PENDING", "ACCEPTED", "PREPARING", "READY", "OUT_FOR_DELIVERY", "DELIVERED">>
Cancellable == 3   \* the length of the part of Flow a cancellation may leave

Init == status = [o \in Orders |-> "none"]

Place(o) == /\ status[o] = "none"
            /\ status' = [status EXCEPT ![o] = "PENDING"]

Advance(o) == \E i \in 1 .. Len(Flow) - 1 :
                /\ status[o] = Flow[i]
                /\ status' = [status EXCEPT ![o] = Flow[i + 1]]

Cancel(o) == \E i \in 1 .. Cancellable :
               /\ status[o] = Flow[i]
               /\ status' = [status EXCEPT ![o] = "CANCELLED"]

Refund(o) == /\ status[o] = "CANCELLED"
             /\ status' = [status EXCEPT ![o] = "REFUNDED"]

Next == \E o \in Orders : Place(o) \/ Advance(o) \/ Cancel(o) \/ Refund(o)

Spec == Init /\ [][Next]_status
=============================================================================
