SPECIFICATION Spec
CONSTANTS
  Base = 3
  MaxMessageSize = 6
  MaxInput = 10
CHECK_DEADLOCK FALSE
INVARIANTS
  ParseInBounds
  DecodersAgree
  StaysInStep
  RoundTrip
