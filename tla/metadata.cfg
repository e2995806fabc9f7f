CONSTANTS
  Requests = {r1, r2}
  Contexts = {c1, c2}
  MaxCalls = 2
  Nil = Nil
SPECIFICATION Spec
INVARIANTS RequestsIsolated 
PROPERTIES SentAsEdited
CHECK_DEADLOCK FALSE
