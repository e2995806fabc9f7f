SPECIFICATION Spec
CONSTANTS
  Backends = {b1}
  Conns = {c1}
  Workers = {w1}
  Getters = {}
  Nil = Nil
  IdleTimeout = 3
  MaxPause = 1
  MaxTime = 6
INVARIANTS
  NothingEvicted
