SPECIFICATION FairSpec
CONSTANTS
  Backends = {b1}
  Conns = {c1}
  Nil = Nil
  Handlers = {h1, h2}
  Stopping = {h2}
  Starters = {s1, s2}
  Users = {u1}
INVARIANTS
  PoolClosedForGood
  NoRPCCutOff
PROPERTIES
  SecondSignalEnds
  StopReturns
  WatchersLeave
CHECK_DEADLOCK FALSE
