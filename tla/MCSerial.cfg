\* One request at a time; riders are replaced, reject and are deleted.
\* Once every order has finished there is nothing left to do: no deadlock.
SPECIFICATION Spec
CONSTANTS
  o1 = o1
  o2 = o2
  p1 = p1
  p2 = p2
  Orders = {o1, o2}
  Partners = {p1, p2}
  Workers = {w1}
  Method <- Mixed
  Requests <- Serial
  SameOrderOverlap = FALSE
  StaleScreens = TRUE
  MaxPostings = 2
  MaxCrashes = 0
INVARIANTS NoneStuck RefundedOnce RejecterSkipped
SYMMETRY Symmetry
CHECK_DEADLOCK FALSE
