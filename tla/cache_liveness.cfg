SPECIFICATION FairSpec
CONSTANTS
  Backends = {b1}
  Conns = {c1, c2}
  Workers = {w1, g1}
  Getters = {g1}
  Nil = Nil
  IdleTimeout = 1
  MaxPause = 0
  MaxTime = 2
PROPERTIES
  IdleConnsGo
  CloseFinishes
