SPECIFICATION ObserverSpec
CONSTANTS
  b1 = b1
  Operations = {o1, o2}
  Budgets = {b1}
  Modes = {"scalar"}
  Charges <- OneCharge
  Growths <- None
  Actuals <- None
  Limits <- OneLimit
  Ttls = {1, 2}
  Increments = {}
  Outcomes = {}
  IdempotencyTtl = 1
  MaxRetainedOperations = 2
  MaxRetainedBudgetKeys = 1
  MaxSafeInteger = 9
  MaxClock = 2
  MaxCursor = 4
  MaxDepth = 1
  MaxSerial = 2
INVARIANT ObserverOutsideEnforcement
