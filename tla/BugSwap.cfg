\* An admin assigns a rider while the order becomes READY.
SPECIFICATION Spec
CONSTANTS
  o1 = o1
  o2 = o2
  p1 = p1
  p2 = p2
  Orders = {o1}
  Partners = {p1, p2}
  Workers = {w1, w2}
  Method <- AllCash
  Requests <- Manual
  SameOrderOverlap = TRUE
  StaleScreens = FALSE
  MaxPostings = 2
  MaxCrashes = 0
PROPERTY NoSilentSwap
SYMMETRY Symmetry
CHECK_DEADLOCK FALSE
