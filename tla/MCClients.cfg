\* Bounds on what users do end the behaviours without timers: no deadlock.
SPECIFICATION Spec
CONSTANTS
  Parts = {"pages", "bell", "details", "chat", "tracking", "shop", "seed"}
  Rows = {1, 2, 3}
  NewRows = {3}
  PageSize = 1
  MaxAnswers = 2
  MaxClicks = 2
  MaxOthers = 1
  MaxFailures = 1
  MaxNotes = 2
  MaxQueries = 2
  MaxTouches = 2
  MaxMisses = 1
  MaxReplies = 2
  MaxPresses = 2
  MaxMoves = 3
  MaxLosses = 1
  Customers = {c1, c2}
  Widget = c1
  Nobody = nobody
  MaxMessages = 2
  MaxFlight = 2
  MaxSwitches = 2
  MaxLapses = 1
  MaxFixes = 2
  MaxFrames = 2
  MaxTurns = 2
  MaxDrops = 1
  MaxSteps = 3
  MaxOrders = 2
  MaxAgain = 1
  MaxChanges = 1
  MaxFlaws = 1
  MaxRuns = 3
  MaxDeaths = 1
  MaxEdits = 2
INVARIANTS ScreensSound CheckoutSound SeededOnce
PROPERTY Converges
CHECK_DEADLOCK FALSE
