----------------------------- MODULE DetailPages ----------------------------
(* The web client's pages about one order or ride: the buttons each offers   *)
(* for the status on the screen, the requests they send, the timer that      *)
(* loads the page again, and the transitions the API then accepts.           *)
EXTENDS Naturals, Sequences, FiniteSets, SequencesExt

CONSTANTS MaxReplies,    \* bound: loads on their way at once
          MaxPresses,    \* bound: buttons pressed
          MaxMoves,      \* bound: status changes by others
          MaxLosses      \* bound: loads that fail

VARIABLES screen,    \* which page this behaviour is about
          status,    \* of the order or ride
          seen,      \* the status on the screen, "none" before the first answer
          broken,    \* the screen shows an error
          replies,   \* loads on their way
          dialog,    \* "Cancel this order?": "closed", or open since the status on the
                     \* screen was "current", which it may be no longer ("outdated")
          pressed,   \* requests of the page, and whether the status is still what it was
          refused,   \* a request that was up to date has been refused
          presses, moves, losses

vars == <<screen, status, seen, broken, replies, dialog, pressed, refused, presses, moves, losses>>

(***************************************************************************)
(* What the API accepts.                                                   *)
(***************************************************************************)

OrderTransitions == [PENDING |-> {"ACCEPTED", "CANCELLED"}, ACCEPTED |-> {"PREPARING", "CANCELLED"},
                     PREPARING |-> {"READY", "CANCELLED"}, READY |-> {"OUT_FOR_DELIVERY"},
                     OUT_FOR_DELIVERY |-> {"DELIVERED"}, DELIVERED |-> {},
                     CANCELLED |-> {"REFUNDED"}, REFUNDED |-> {}]
CustomerCancels == [OrderTransitions EXCEPT !.PENDING = {"CANCELLED"}, !.ACCEPTED = {"CANCELLED"},
                    !.PREPARING = {}, !.READY = {}, !.OUT_FOR_DELIVERY = {}, !.CANCELLED = {}]
RideTransitions == [REQUESTED |-> {"CANCELLED"}, DRIVER_ASSIGNED |-> {"DRIVER_ARRIVED", "CANCELLED"},
                    DRIVER_ARRIVED |-> {"ONGOING", "CANCELLED"}, ONGOING |-> {"COMPLETED"},
                    COMPLETED |-> {}, CANCELLED |-> {}]
PassengerCancels == [RideTransitions EXCEPT !.DRIVER_ASSIGNED = {"CANCELLED"},
                     !.DRIVER_ARRIVED = {}, !.ONGOING = {}]

(* Rides move on by themselves once: the driver that the booking finds.      *)
Moves == OrderTransitions
RideMoves == [RideTransitions EXCEPT !.REQUESTED = @ \cup {"DRIVER_ASSIGNED"}]

(***************************************************************************)
(* The pages: the table each has of its own (NEXT_STATUS, canCancel), the  *)
(* table of the API behind its requests, how the row moves by itself,      *)
(* whether its buttons are disabled while a request is on its way, and     *)
(* whether a dialog asks before anything is sent.                          *)
(***************************************************************************)

KitchenOffers == [PENDING |-> {"ACCEPTED", "CANCELLED"}, ACCEPTED |-> {"PREPARING", "CANCELLED"},
                  PREPARING |-> {"READY", "CANCELLED"}, READY |-> {"OUT_FOR_DELIVERY"},
                  OUT_FOR_DELIVERY |-> {"DELIVERED"}]

AdminOrder == [offers |-> KitchenOffers, accepts |-> OrderTransitions, moves |-> Moves,
               first |-> "PENDING", locks |-> TRUE, asks |-> FALSE]
AdminGroceryOrder == AdminOrder
PartnerOrder == AdminOrder
CustomerOrder == [AdminOrder EXCEPT !.accepts = CustomerCancels, !.asks = TRUE,
                    !.offers = [PENDING |-> {"CANCELLED"}, ACCEPTED |-> {"CANCELLED"}]]
CustomerGroceryOrder == CustomerOrder

DispatchOffers ==
  [REQUESTED |-> {"CANCELLED"}, DRIVER_ASSIGNED |-> {"DRIVER_ARRIVED", "CANCELLED"},
   DRIVER_ARRIVED |-> {"ONGOING", "CANCELLED"}, ONGOING |-> {"COMPLETED"}]

AdminRide == [offers |-> DispatchOffers, accepts |-> RideTransitions, moves |-> RideMoves,
              first |-> "REQUESTED", locks |-> TRUE, asks |-> FALSE]

(* The one page whose button stays enabled while it waits.                   *)
PassengerRide == [AdminRide EXCEPT !.accepts = PassengerCancels, !.locks = FALSE, !.asks = TRUE,
                    !.offers = [REQUESTED |-> {"CANCELLED"}, DRIVER_ASSIGNED |-> {"CANCELLED"}]]

Screens == {AdminOrder, AdminGroceryOrder, PartnerOrder, CustomerOrder, CustomerGroceryOrder,
            AdminRide, PassengerRide}

Offers(of) == IF of \in DOMAIN screen.offers THEN screen.offers[of] ELSE {}

TypeOK == /\ screen \in Screens /\ status \in DOMAIN screen.moves
          /\ seen \in DOMAIN screen.moves \cup {"none"} /\ Len(replies) <= MaxReplies
          /\ pressed \in Seq([to : DOMAIN screen.moves, current : BOOLEAN])
          /\ dialog \in {"closed", "current", "outdated"}

Init == /\ screen \in Screens
        /\ status = screen.first /\ seen = "none" /\ broken = FALSE
        /\ replies = <<status>> /\ dialog = "closed" /\ pressed = <<>> /\ refused = FALSE
        /\ presses = 0 /\ moves = 0 /\ losses = 0

Outdated(requests) == [i \in DOMAIN requests |-> [requests[i] EXCEPT !.current = FALSE]]
LeaveDialog == dialog' = IF dialog = "current" THEN "outdated" ELSE dialog

Submit(to, current) ==
  /\ screen.locks => pressed = <<>>
  /\ presses < MaxPresses /\ presses' = presses + 1
  /\ pressed' = Append(pressed, [to |-> to, current |-> current])
  /\ UNCHANGED <<screen, status, seen, broken, replies, dialog, refused, moves, losses>>

(* A button of the page, with the status that is on the screen.              *)
Press(to) == /\ ~screen.asks /\ ~broken /\ to \in Offers(seen)
             /\ Submit(to, seen = status)

(* A button that opens the dialog, which then stays whatever the status on   *)
(* the screen becomes, until it is closed or its request has been agreed to. *)
AskFirst == /\ screen.asks /\ ~broken /\ "CANCELLED" \in Offers(seen) /\ dialog = "closed"
            /\ dialog' = IF seen = status THEN "current" ELSE "outdated"
            /\ UNCHANGED <<screen, status, seen, broken, replies, pressed, refused, presses, moves, losses>>
CloseDialog == /\ dialog # "closed" /\ dialog' = "closed"
               /\ UNCHANGED <<screen, status, seen, broken, replies, pressed, refused, presses, moves, losses>>
Confirm == /\ ~broken /\ dialog # "closed"
           /\ Submit("CANCELLED", dialog = "current")

(* The API answers, and the page loads again if it has agreed.               *)
Decide(i) ==
  /\ i \in DOMAIN pressed
  /\ IF pressed[i].to \in screen.accepts[status]
       THEN /\ Len(replies) < MaxReplies
            /\ status' = pressed[i].to
            /\ replies' = Append(replies, status') /\ broken' = FALSE
            /\ dialog' = "closed"
            /\ pressed' = Outdated(RemoveAt(pressed, i)) /\ UNCHANGED refused
       ELSE /\ refused' = (refused \/ pressed[i].current)
            /\ pressed' = RemoveAt(pressed, i) /\ UNCHANGED <<status, replies, broken, dialog>>
  /\ UNCHANGED <<screen, seen, presses, moves, losses>>

(* Somebody else, at another screen or at the steering wheel.                *)
Move(to) ==
  /\ moves < MaxMoves /\ moves' = moves + 1
  /\ to \in screen.moves[status] /\ status' = to
  /\ pressed' = Outdated(pressed) /\ LeaveDialog
  /\ UNCHANGED <<screen, seen, broken, replies, refused, presses, losses>>

(* Slip: a page that shows an error waits for a click.                       *)
ReloadUnlessBroken ==
  /\ ~broken /\ Len(replies) < MaxReplies
  /\ replies' = Append(replies, status) /\ broken' = FALSE
  /\ UNCHANGED <<screen, status, seen, dialog, pressed, refused, presses, moves, losses>>

(* setInterval(load, 6000), or an order:update that comes before.            *)
Reload ==
  /\ Len(replies) < MaxReplies
  /\ replies' = Append(replies, status) /\ broken' = FALSE
  /\ UNCHANGED <<screen, status, seen, dialog, pressed, refused, presses, moves, losses>>

Reply(i) ==
  /\ i \in DOMAIN replies
  /\ seen' = replies[i] /\ replies' = RemoveAt(replies, i)
  /\ UNCHANGED <<screen, status, broken, dialog, pressed, refused, presses, moves, losses>>

Lose(i) ==
  /\ i \in DOMAIN replies /\ losses < MaxLosses /\ losses' = losses + 1
  /\ broken' = TRUE /\ replies' = RemoveAt(replies, i)
  /\ UNCHANGED <<screen, status, seen, dialog, pressed, refused, presses, moves>>

Next == \/ \E to \in DOMAIN screen.moves : Press(to) \/ Move(to)
        \/ \E i \in DOMAIN pressed : Decide(i)
        \/ \E i \in DOMAIN replies : Reply(i) \/ Lose(i)
        \/ AskFirst \/ CloseDialog \/ Confirm \/ Reload

(***************************************************************************)
(* Properties.                                                             *)
(***************************************************************************)

(* No page offers what the API refuses: a request is refused only when the   *)
(* order has moved since its button was pressed, or the dialog was opened.   *)
OffersAccepted == ~refused

(* What a page that is open ends up showing, by its timer alone.             *)
Followed == seen = status /\ ~broken
=============================================================================
