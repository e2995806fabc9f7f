SPECIFICATION Spec
CONSTANTS
  Bufs = {b1, b2, b3}
  Nil = Nil
  MaxMsgs = 4
  MaxQueue = 2
INVARIANTS
  RefExact
  BytesIntact
  NoLeak
