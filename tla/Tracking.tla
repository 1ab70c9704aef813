------------------------------ MODULE Tracking ------------------------------
(* The rider on the customer's map: LocationTracker on the rider's phone,    *)
(* TrackingService, the events of the gateway, and useOrderTracking.         *)
EXTENDS Naturals, Sequences, FiniteSets, SequencesExt

CONSTANTS MaxFixes,     \* bound: positions of the rider
          MaxFrames,    \* bound: fixes and answers on their way
          MaxTurns,     \* bound: changes of the order
          MaxDrops     \* bound: answers that are lost

VARIABLES here,      \* the number of the rider's latest fix, 0 before the first
          frames,    \* fixes on their way to the API
          stored,    \* the position in the DeliveryPartner row
          found,     \* fixes stored whose orders have not been looked up yet
          delivery,  \* "offered" to the rider, "carried" by him, or "over"
          events,    \* order:location pushes on their way
          readings,  \* answers to GET /orders/:id/tracking on their way, oldest question first
          map,       \* what the page shows
          outrun, \* the last answer was asked for before another that came before it
          timer,     \* the page still polls
          turns, drops

vars == <<here, frames, stored, found, delivery, events, readings, map, outrun, timer,
          turns, drops>>

Unknown == [delivery |-> "unknown", rider |-> FALSE, fix |-> 0]

(* The rider is shown, and followed, once he has accepted.                   *)
RiderVisible == delivery = "carried"

Snapshot == [delivery |-> delivery, rider |-> RiderVisible,
             fix |-> IF RiderVisible THEN stored ELSE 0]

(* Whether the timer has asked, and whether a later question has its answer. *)
Question(timed) == [what |-> Snapshot, timed |-> timed, late |-> FALSE]

TypeOK == /\ here \in 0 .. MaxFixes /\ stored \in 0 .. here
          /\ delivery \in {"offered", "carried", "over"}
          /\ frames \cup events \subseteq 0 .. here /\ timer \in BOOLEAN /\ outrun \in BOOLEAN

Init == /\ here = 0 /\ frames = {} /\ stored = 0 /\ found = {}
        /\ delivery = "offered" /\ events = {}
        /\ readings = <<Question(FALSE)>> /\ map = Unknown /\ outrun = FALSE /\ timer = TRUE
        /\ turns = 0 /\ drops = 0

(***************************************************************************)
(* The rider's phone.                                                      *)
(***************************************************************************)

(* A fix that comes while another is being sent, or within four seconds of   *)
(* it, is not sent; and one that is sent and gets lost is like one that is   *)
(* not.                                                                      *)
OnFix(sent) == /\ here < MaxFixes /\ here' = here + 1
               /\ sent => Cardinality(frames) < MaxFrames
               /\ frames' = IF sent THEN frames \cup {here'} ELSE frames
               /\ UNCHANGED <<stored, found, delivery, events, readings, map, outrun, timer,
                              turns, drops>>

Heartbeat == /\ here > 0 /\ Cardinality(frames) < MaxFrames /\ frames' = frames \cup {here}
             /\ UNCHANGED <<here, stored, found, delivery, events, readings, map, outrun, timer,
                              turns, drops>>

(***************************************************************************)
(* The API.                                                                *)
(***************************************************************************)

(* Frames of a socket are handled side by side: the row has the last one.    *)
UpdateRiderLocation(fix) ==
  /\ fix \in frames /\ frames' = frames \ {fix}
  /\ stored' = fix /\ found' = found \cup {fix}
  /\ UNCHANGED <<here, delivery, events, readings, map, outrun, timer, turns, drops>>

EmitRiderLocation(fix) ==
  /\ fix \in found /\ found' = found \ {fix}
  /\ events' = IF RiderVisible THEN events \cup {fix} ELSE events
  /\ UNCHANGED <<here, frames, stored, delivery, readings, map, outrun, timer, turns, drops>>

(* Accepted, handed to another rider, brought to its end; order:update, if   *)
(* it is heard, makes the page ask.                                          *)
OrderMoves(to, heard) ==
  /\ turns < MaxTurns /\ turns' = turns + 1
  /\ delivery # "over" /\ to # delivery /\ delivery' = to
  /\ heard => Len(readings) < MaxFrames
  /\ UNCHANGED <<here, frames, stored, found, events, map, outrun, timer, drops>>
  /\ readings' = IF heard THEN Append(readings, Question(FALSE)') ELSE readings

(***************************************************************************)
(* The page.                                                               *)
(***************************************************************************)

Refresh(timed) == Len(readings) < MaxFrames /\ readings' = Append(readings, Question(timed))

(* A first fix of a rider the page does not know yet makes it ask for him.   *)
OnLocation(fix) ==
  /\ fix \in events /\ events' = events \ {fix}
  /\ IF map.rider THEN map' = [map EXCEPT !.fix = fix] /\ UNCHANGED readings
                  ELSE Refresh(FALSE) /\ UNCHANGED map
  /\ UNCHANGED <<here, frames, stored, found, delivery, outrun, timer, turns, drops>>

LosePush(fix) == /\ fix \in events /\ events' = events \ {fix}
                 /\ UNCHANGED <<here, frames, stored, found, delivery, readings, map, outrun,
                                timer, turns, drops>>

(* The timer is set again after every answer of its own, until the order on  *)
(* the screen is over.                                                       *)
Poll == /\ timer /\ \A i \in DOMAIN readings : ~readings[i].timed
        /\ IF map.delivery # "over" THEN Refresh(TRUE) /\ UNCHANGED timer
                                    ELSE timer' = FALSE /\ UNCHANGED readings
        /\ UNCHANGED <<here, frames, stored, found, delivery, events, map, outrun, turns, drops>>

(* setTracking(answer): whichever comes last stays.                          *)
Arrive(i) ==
  /\ i \in DOMAIN readings
  /\ map' = readings[i].what /\ outrun' = readings[i].late
  /\ readings' = RemoveAt([j \in DOMAIN readings |->
                             [readings[j] EXCEPT !.late = @ \/ j < i]], i)
  /\ UNCHANGED <<here, frames, stored, found, delivery, events, timer, turns, drops>>

(* The catch of refresh: nothing is said.                                    *)
Lose(i) == /\ i \in DOMAIN readings /\ drops < MaxDrops /\ drops' = drops + 1
           /\ readings' = RemoveAt(readings, i)
           /\ UNCHANGED <<here, frames, stored, found, delivery, events, map, outrun, timer, turns>>

Next == \/ \E sent \in BOOLEAN : OnFix(sent)
        \/ Heartbeat \/ Poll
        \/ \E i \in DOMAIN readings : Arrive(i) \/ Lose(i)
        \/ \E fix \in frames : UpdateRiderLocation(fix)
        \/ \E fix \in found : EmitRiderLocation(fix)
        \/ \E to \in {"offered", "carried", "over"}, heard \in BOOLEAN : OrderMoves(to, heard)
        \/ \E fix \in events : OnLocation(fix) \/ LosePush(fix)

(***************************************************************************)
(* Properties.                                                             *)
(***************************************************************************)

(* What the map rests on once rider and order rest: the rider where his last *)
(* fix was, and nobody before he accepts or after the order is over; unless  *)
(* an answer that was overtaken came after the timer had stopped, and stays. *)
MarkerTrue == \/ ~timer /\ outrun
              \/ map = [delivery |-> delivery, rider |-> RiderVisible,
                        fix |-> IF RiderVisible THEN here ELSE 0]
=============================================================================
