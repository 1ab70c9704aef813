\* Once every ride has ended nothing is left to do.
CHECK_DEADLOCK FALSE
SPECIFICATION Spec
CONSTANTS
  r1 = r1  r2 = r2  d1 = d1  d2 = d2  w1 = w1  w2 = w2
  Rides = {r1, r2}
  OnWallet = {r1}
  Drivers = {d1, d2}
  Ratings = {1}
  Workers = {w1, w2}
  StepsOverlap = TRUE
  FreshScreens = TRUE
  MaxPostings = 3
  MaxToggles = 1
  MaxCrashes = 0
SYMMETRY Symmetry
INVARIANT OneRide
