SPECIFICATION Spec
CONSTANTS
  Limits = {1}
  Capacity = 1
  Interruptible = TRUE
  MaxSent = 1
INVARIANTS
  StopsGracefully
CHECK_DEADLOCK FALSE
