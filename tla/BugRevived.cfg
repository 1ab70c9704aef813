\* Two overlapping status changes: the order leaves its life cycle.
SPECIFICATION Spec
CONSTANTS
  o1 = o1
  o2 = o2
  p1 = p1
  p2 = p2
  Orders = {o1}
  Partners = {p1, p2}
  Workers = {w1, w2}
  Method <- AllCash
  Requests <- StatusOnly
  SameOrderOverlap = TRUE
  StaleScreens = FALSE
  MaxPostings = 2
  MaxCrashes = 0
PROPERTY ImplementsLifecycle
SYMMETRY Symmetry
CHECK_DEADLOCK FALSE
