\* Once every order and ride has ended nothing is left to do: no deadlock.
SPECIFICATION FleetSpec
CONSTANTS
  f1 = f1  o1 = o1  g1 = g1  p1 = p1  p2 = p2  w1 = w1  v1 = v1
  r1 = r1  r2 = r2  d1 = d1  d2 = d2  x1 = x1  x2 = x2
  Partners = {p1, p2}
  FoodOrder = {f1}
  FoodWorkers = {w1}
  FoodRequests <- Dispatch
  GroceryOrder = {o1}
  GroceryWorkers = {v1}
  OnWallet = {}
  Products = {g1}
  Lines <- Wants
  InStock <- OneEach
  SameOrderOverlap = FALSE
  ByHand = {}
  MaxPostings = 2
  MaxCrashes = 0
  Rides = {r1, r2}
  PaidRides = {r1}
  Drivers = {d1, d2}
  Ratings = {1}
  RideWorkers = {x1, x2}
  StepsOverlap = FALSE
  FreshScreens = TRUE
  RidePostings = 3
  MaxToggles = 1
  RideCrashes = 1
INVARIANTS OneDelivery NoneStuck OneRide DriversFree PostingsMatch RatingExact
SYMMETRY Symmetry
CHECK_DEADLOCK FALSE
