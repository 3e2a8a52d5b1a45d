SPECIFICATION Spec
CONSTANTS
  FlowIds = {f1, f2}
  Bindings = {alice, bob}
  NoBinding = none
  Lifetimes = {2, 3}
  SafetyMargin = 1
  Retention = 3
  MaxLatency = 1
INVARIANT FlowStoresTypeOK
PROPERTY ImplementsContract
PROPERTY FlowsForgotten
