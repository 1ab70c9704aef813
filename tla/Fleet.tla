-------------------------------- MODULE Fleet -------------------------------
(* Riders and drivers: the two kinds of orders that share one pool of riders, *)
(* and rides, whose drivers are rows of their own.  Rides and deliveries     *)
(* share no rows; a behaviour is about one of them, its focus.               *)
EXTENDS SharedRiders

CONSTANTS Rides, PaidRides, Drivers, Ratings, RideWorkers, StepsOverlap, FreshScreens,  \* see Rides
          RidePostings, MaxToggles, RideCrashes

VARIABLES focus, ride, driver, review, debited, refunded, tipped, deadRides, toggles, rideReq

Cab == INSTANCE Rides WITH
         OnWallet <- PaidRides, Workers <- RideWorkers, MaxPostings <- RidePostings,
         MaxCrashes <- RideCrashes, dead <- deadRides, req <- rideReq

(* "none" names no driver.                                                   *)
ASSUME NoneIsNoDriver == Cab!None \notin Drivers

rideVars == <<ride, driver, review, debited, refunded, tipped, deadRides, toggles, rideReq>>

FleetInit == focus \in {"deliveries", "rides"} /\ Init /\ Cab!Init

FleetNext ==
  /\ UNCHANGED focus
  /\ \/ focus = "deliveries" /\ Next /\ UNCHANGED rideVars
     \/ focus = "rides" /\ Cab!Next /\ UNCHANGED <<pool, foodVars, groceryVars>>

FleetSpec == FleetInit /\ [][FleetNext]_<<focus, pool, foodVars, groceryVars, rideVars>>

(* See Rides: the flag of a driver and the rides that are under way agree,   *)
(* as do the wallet rows and the rides, and the rating and the reviews.      *)
OneRide       == Cab!OneRide
DriversFree   == Cab!DriversFree
PostingsMatch == Cab!PostingsMatch
RatingExact   == Cab!RatingExact
=============================================================================
