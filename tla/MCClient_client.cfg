SPECIFICATION FairSpec
CONSTANTS
  Limits = {0, 2}
  Capacity = 2
  Interruptible = TRUE
  MaxSent = 2
INVARIANTS
  TypeOK
  Accounting
  SavedAddsUp
PROPERTIES
  ImplementsTally
  RunReturns
CHECK_DEADLOCK FALSE
