SPECIFICATION Spec
CONSTANTS
  Server = {s0, s1, s2, s3}
  Primary = s0
  F = 1
  CPInterval = 2
  Request = {r1, r2, r3, r4}
  MaxBatch = 2
  Reliable = FALSE
SYMMETRY Symmetry
INVARIANTS
  TypeOK
  SpeculativeAgreement
  OneAnswer
  HistoryWindow
  CommittedByQuorum
  CheckpointAgreement
  TentativeInHistory
  ReplicaCheckpointUnderWay
  StuckAtRestart
PROPERTIES
  ImplementsLedger
  CheckpointsAdvance
  StuckForGood
CHECK_DEADLOCK FALSE
