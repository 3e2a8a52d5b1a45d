SPECIFICATION Spec
CONSTANTS
  b1 = b1
  b2 = b2
  Operations = {o1, o2}
  Budgets = {b1, b2}
  Hosts = {h1, h2}
  Cleaners = {c1}
  Charges <- SmallCharges
  Growths <- SmallGrowths
  Actuals <- SmallActuals
  Limits <- SmallLimits
  Ttls = {1}
  Increments = {i1}
  Outcomes = {"success"}
  CleanupBatchSize = 1
  MaxInspected = 2
  IdempotencyTtl = 1
  ExpiryGrace = 1
  MaxSkew = 1
  MaxSafeInteger = 9
  MaxClock = 3
  MaxCursor = 2
SYMMETRY Symmetry
INVARIANT FirestoreTypeOK
INVARIANT UsageConserved
PROPERTY NoEarlyRecovery
PROPERTY ImplementsLedger
