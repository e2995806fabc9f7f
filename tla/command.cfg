CONSTANTS
  Names = {"s", "t"}
  Addresses = {"a"}
  Limits = {2}
  Unlimited = 9
  MaxRoutes = 2
  None = None
SPECIFICATION Spec
INVARIANTS NeverPlaintext RoutedAsGiven LimitsHold
CHECK_DEADLOCK FALSE
