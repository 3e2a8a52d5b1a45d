SPECIFICATION ObserverSpec
CONSTANTS
  b1 = b1
  Operations = {o1, o2, o3}
  Budgets = {b1}
  Modes = {"scalar"}
  Charges <- OneCharge
  Growths <- None
  Actuals <- None
  Limits <- OneLimit
  Ttls = {1, 2}
  Increments = {}
  Outcomes = {}
  IdempotencyTtl = 1
  MaxRetainedOperations = 3
  MaxRetainedBudgetKeys = 1
  MaxSafeInteger = 3
  MaxClock = 3
  MaxCursor = 4
  MaxDepth = 0
  MaxSerial = 3
PROPERTY RecoveryIsIndivisible
