\* Every kind of request on one order, overlapping, and one of them dying.
\* Once every order has finished there is nothing left to do: no deadlock.
SPECIFICATION Spec
CONSTANTS
  o1 = o1
  o2 = o2
  p1 = p1
  p2 = p2
  Orders = {o1}
  Partners = {p1, p2}
  Workers = {w1, w2}
  Method <- AllWallet
  Requests <- Racing
  SameOrderOverlap = TRUE
  StaleScreens = TRUE
  MaxPostings = 1
  MaxCrashes = 1
INVARIANTS RowsAgree HistoryGrounded RefundGrounded
SYMMETRY Symmetry
CHECK_DEADLOCK FALSE
