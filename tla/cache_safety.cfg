SPECIFICATION Spec
CONSTANTS
  Backends = {b1, b2}
  Conns = {c1, c2}
  Workers = {w1, w2}
  Getters = {}
  Nil = Nil
  IdleTimeout = 3
  MaxPause = 1
  MaxTime = 3
SYMMETRY Symmetry
INVARIANTS
  TypeOK
  InFlightExact
  MapOwnsOpenConns
  HandedOutNotEvicted
  StampLagBounded
  FreshUntilPinned
PROPERTIES
  ImplementsPool
