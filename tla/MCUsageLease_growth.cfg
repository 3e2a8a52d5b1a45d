SPECIFICATION LeaseSpec
CONSTANTS
  b1 = b1
  Operations = {o1}
  Budgets = {b1}
  Modes = {"scalar", "vector"}
  Charges <- TwoCharges
  Growths <- OneIncrease
  Actuals <- OneActual
  Limits <- OneLimit
  Ttls = {1}
  Increments = {i1, i2}
  Outcomes = {"success"}
  IdempotencyTtl = 1
  MaxRetainedOperations = 1
  MaxRetainedBudgetKeys = 1
  MaxSafeInteger = 9
  MaxClock = 1
  MaxCursor = 3
  Handles = {h1, h2}
  Calls = {c1, c2}
  MaxAwaited = 1
SYMMETRY CallSymmetry
INVARIANT StoreAheadByUnresolvedOnly
INVARIANT ExactRetryResolves
PROPERTY PinnedUntilResolved
