\* An online payment that arrives after the cancellation.
SPECIFICATION Spec
CONSTANTS
  o1 = o1
  o2 = o2
  p1 = p1
  p2 = p2
  Orders = {o1}
  Partners = {p1, p2}
  Workers = {w1}
  Method <- AllOnline
  Requests <- PayAndCancel
  SameOrderOverlap = FALSE
  StaleScreens = FALSE
  MaxPostings = 2
  MaxCrashes = 0
INVARIANT CancelledNotPaid
SYMMETRY Symmetry
CHECK_DEADLOCK FALSE
