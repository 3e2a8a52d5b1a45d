SPECIFICATION RemoteSpec
CONSTANTS
  b1 = b1
  o1 = o1
  h1 = h1
  Operations = {o1, o2}
  Budgets = {b1}
  Charges <- SmallCharges
  Growths <- SmallGrowths
  Actuals <- SmallActuals
  Limits <- SmallLimits
  Prunes <- SmallPrunes
  OtherLimits <- SmallOtherLimits
  Ttls = {1, 2}
  Increments = {i1}
  Outcomes = {"success"}
  CleanupBatchSize = 1
  IdempotencyTtl = 1
  MaxSafeInteger = 2
  MaxClock = 2
  MaxCursor = 2
  Hosts = {h1}
  OpOf <- SmallOpOf
  TtlOf <- SmallTtlOf
  MaxAttempts = 2
  MaxStrays = 1
  MaxRestarts = 1
INVARIANT AcknowledgedStands
INVARIANT ExecutedOnce
INVARIANT AnswersUsable
PROPERTY CallsReturn
