SPECIFICATION Spec
CONSTANTS
  o1 = o1
  o2 = o2
  o3 = o3
  b1 = b1
  b2 = b2
  b3 = b3
  Operations = {o1, o2, o3}
  Budgets = {b1, b2, b3}
  Modes = {"scalar", "vector"}
  Charges <- SmallCharges
  Growths <- SmallGrowths
  Actuals <- SmallActuals
  Limits <- SmallLimits
  Ttls = {1}
  Increments = {i1, i2}
  i1 = i1
  i2 = i2
  Outcomes = {"success"}
  IdempotencyTtl = 1
  MaxRetainedOperations = 2
  MaxRetainedBudgetKeys = 2
  MaxSafeInteger = 2
  MaxClock = 2
  MaxCursor = 3
SYMMETRY Symmetry
INVARIANT TypeOK
INVARIANT UsageConserved
INVARIANT RecoveryGateSound
INVARIANT ReconciliationAgreesWithRecovery
INVARIANT NoOversubscription
INVARIANT RetentionBounded
INVARIANT GrowthReplayIsCurrent
PROPERTY ReservationNeverShrinks
PROPERTY LiableNeverRefunded
PROPERTY SettlementFinal
PROPERTY ImplementsLedger
