SPECIFICATION Spec
CONSTANTS
  Server = {s0, s1, s2, s3}
  Primary = s0
  F = 1
  CPInterval = 2
  Request = {r1, r2, r3}
  MaxBatch = 2
  Reliable = FALSE
SYMMETRY Symmetry
INVARIANTS
  CheckpointUnderWay
CHECK_DEADLOCK FALSE
