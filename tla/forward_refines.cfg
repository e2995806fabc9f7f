SPECIFICATION ReadingSpec
CONSTANTS
  ClientMsgs = 3
  BackendMsgs = 3
  Window = 2
  LocalFaults = FALSE
  Nil = Nil
PROPERTIES
  BackendEndsCall
  ImplementsPipe
CHECK_DEADLOCK FALSE
