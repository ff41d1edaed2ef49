SPECIFICATION Spec
CONSTANTS
  Server = {s0, s1, s2, s3}
  Primary = s0
  F = 1
  CPInterval = 4
  Request = {r1, r2}
  MaxBatch = 2
  Reliable = TRUE
SYMMETRY Symmetry
INVARIANTS
  OrderReqsExecuted
CHECK_DEADLOCK FALSE
