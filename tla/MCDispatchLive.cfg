\* The same under fairness of the requests in flight.
\* Once every order has finished there is nothing left to do: no deadlock.
SPECIFICATION FairSpec
CONSTANTS
  o1 = o1
  o2 = o2
  p1 = p1
  p2 = p2
  Orders = {o1, o2}
  Partners = {p1, p2}
  Workers = {w1, w2}
  Method <- Mixed
  Requests <- Deliveries
  SameOrderOverlap = FALSE
  StaleScreens = FALSE
  MaxPostings = 2
  MaxCrashes = 0
PROPERTY RefundArrives
PROPERTY PointsArrive
CHECK_DEADLOCK FALSE
