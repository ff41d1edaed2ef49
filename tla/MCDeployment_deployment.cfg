SPECIFICATION Spec
CONSTANTS
  unset = unset
  Process <- Processes
  Server <- Servers
  Unset = unset
  Variables <- Settings
  FaultFlag <- Flags
  BasePorts = {10, 12, 14}
  MulticastPort = 12
  KeyCounts = {2, 4}
INVARIANTS
  TypeOK
  VerifiesAll
  OnlyMulticastPortClashes
CHECK_DEADLOCK FALSE
