\* Every call of every kind overlapping with every other, and crashes.  The
\* bound MaxCredits may leave nothing to do, so a final state is no deadlock.
SPECIFICATION Spec
CONSTANTS
  Users = {u1}
  Amounts = {1, 2}
  Workers = {w1, w2, w3}
  DailyCap = 2
  MaxCredits = 3
INVARIANTS Isolated Balanced
PROPERTY ImplementsLedger
SYMMETRY Symmetry
CHECK_DEADLOCK FALSE
