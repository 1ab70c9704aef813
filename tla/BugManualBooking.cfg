\* A rider is assigned two orders by hand, and delivers one of them.
SPECIFICATION Spec
CONSTANTS
  o1 = o1
  o2 = o2
  p1 = p1
  p2 = p2
  Orders = {o1, o2}
  Partners = {p1, p2}
  Workers = {w1}
  Method <- AllCash
  Requests <- Manual
  SameOrderOverlap = FALSE
  StaleScreens = FALSE
  MaxPostings = 2
  MaxCrashes = 0
INVARIANT BookedUnavailable
SYMMETRY Symmetry
CHECK_DEADLOCK FALSE
