SPECIFICATION Spec
CONSTANTS
  Requests = {r1, r2}
  Contexts = {x1, x2}
  Backends = {b1}
  Default = b0
  MaxUse = 4
  MaxCalls = 2
  AbortIndex = 100
  Nil = Nil
INVARIANTS
  ChainInOrder
  AbortHolds
  OwnOutcome
CHECK_DEADLOCK FALSE
