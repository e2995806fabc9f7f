SPECIFICATION FairSpec
CONSTANTS
  ClientMsgs = 2
  BackendMsgs = 2
  Window = 1
  LocalFaults = TRUE
  Nil = Nil
INVARIANTS
  TypeOK
  ResultFaithful
  HalfCloseFaithful
  LateWriterHasCause
  PinnedWhileLive
  TrailerReadable
PROPERTIES
  FailureEndsCall
  NothingOutlivesCall
CHECK_DEADLOCK FALSE
