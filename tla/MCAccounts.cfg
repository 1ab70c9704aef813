\* Bounds on tokens, codes and requests end every behaviour: no deadlock.
SPECIFICATION Spec
CONSTANTS
  Workers = {w1, w2}
  Browsers = {b1, b2}
  Window = 2
  MaxTokens = 3
  MaxEvents = 1
  Emails = {e1}
  Referred = {e1}
  Limit = 1
  MaxTries = 1
  MaxCodes = 3
  MaxAges = 1
  Addresses = {x1, x2, x3}
  Reviewable = {v1, v2, v3}
  Points = 1
  MaxRedeem = 1
  MaxRequests = 3
  Admins = {a1, a2}
  Boss = a1
  Outlets = {u1}
  MaxCalls = 3
  MaxDead = 1
  Rate = 3
  MaxWindows = 3
  MaxHits = 10
INVARIANTS SessionsSound LimitsKept BonusOnce ProfileSound LastSuperAdmin NothingUnlinked
SYMMETRY Symmetry
CHECK_DEADLOCK FALSE
