\* Two requests at a time, on two orders, competing for two riders; one order
\* is paid from the wallet, one online.  Riders answer for live orders only.
\* Once every order has finished there is nothing left to do: no deadlock.
SPECIFICATION Spec
CONSTANTS
  o1 = o1
  o2 = o2
  p1 = p1
  p2 = p2
  Orders = {o1, o2}
  Partners = {p1, p2}
  Workers = {w1, w2}
  Method <- Mixed
  Requests <- Dispatch
  SameOrderOverlap = FALSE
  StaleScreens = FALSE
  MaxPostings = 2
  MaxCrashes = 0
INVARIANTS TypeOK SingleDelivery BookedUnavailable AwardedOnce
PROPERTY ImplementsLifecycle
SYMMETRY Symmetry
CHECK_DEADLOCK FALSE
