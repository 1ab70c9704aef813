\* A rider rejects a READY order when no other rider is idle.
SPECIFICATION FairSpec
CONSTANTS
  o1 = o1
  o2 = o2
  p1 = p1
  p2 = p2
  Orders = {o1, o2}
  Partners = {p1, p2}
  Workers = {w1}
  Method <- AllCash
  Requests <- Answers
  SameOrderOverlap = FALSE
  StaleScreens = FALSE
  MaxPostings = 2
  MaxCrashes = 0
PROPERTY Redispatched
CHECK_DEADLOCK FALSE
