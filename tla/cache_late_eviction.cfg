SPECIFICATION Spec
CONSTANTS
  Backends = {b1}
  Conns = {c1}
  Workers = {w1, w2}
  Getters = {}
  Nil = Nil
  IdleTimeout = 2
  MaxPause = 1
  MaxTime = 4
INVARIANTS
  HandedOutNotEvicted
