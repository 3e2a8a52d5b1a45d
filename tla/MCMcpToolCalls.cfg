SPECIFICATION Spec
CONSTANTS
  Calls = {c1, c2}
  Operations = {"export"}
  MultiRound = {TRUE}
  Bindings = {"export", "other"}
  FlowIds = {f1, f2}
  Ttl = 2
  SuspendTtl = 3
  MaxRounds = 2
  LateKinds = {"renew"}
  MaxLate = 1
INVARIANT McpTypeOK
INVARIANT HandlerNeverFree
INVARIANT OneReentryPerToken
INVARIANT OneHandlerPerOperation
INVARIANT SuspendedLeaseLasts
PROPERTY LiableSettles
