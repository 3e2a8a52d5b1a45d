SPECIFICATION Spec
CONSTANTS
  b1 = b1
  b2 = b2
  Operations = {o1, o2}
  Budgets = {b1, b2}
  Charges <- SmallCharges
  Growths <- SmallGrowths
  Actuals <- SmallActuals
  Limits <- SmallLimits
  Ttls = {1}
  Increments = {i1}
  Outcomes = {"success"}
  CleanupBatchSize = 1
  IdempotencyTtl = 1
  MaxSafeInteger = 9
  MaxClock = 2
  MaxCursor = 2
INVARIANT IndexesAgree
PROPERTY VerdictsStand
PROPERTY BacklogReclaimed
PROPERTY ImplementsLedger
