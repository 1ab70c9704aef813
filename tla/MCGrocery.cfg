\* Once every order has finished nothing is left to do.
CHECK_DEADLOCK FALSE
SPECIFICATION Spec
CONSTANTS
  o1 = o1  o2 = o2  g1 = g1  g2 = g2  p1 = p1  p2 = p2  w1 = w1  w2 = w2
  Partners = {p1, p2}
  Workers = {w1, w2}
  Orders = {o1, o2}
  OnWallet = {o1}
  Products = {g1, g2}
  Lines <- Wants
  InStock <- OneEach
  SameOrderOverlap = FALSE
  FreshScreens = TRUE
  ByHand = {o2}
  MaxPostings = 2
  MaxCrashes = 1
SYMMETRY Symmetry
INVARIANTS CancelledRestocked StockBalanced RefundedOnce
PROPERTY ImplementsLifecycle
