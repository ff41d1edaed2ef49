SPECIFICATION Spec
CONSTANTS
  unset = unset
  Process <- Processes
  Server <- Servers
  Unset = unset
  Variables <- Settings
  FaultFlag <- Flags
  BasePorts = {10}
  MulticastPort = 11
  KeyCounts = {4}
INVARIANTS
  FlagsTakeEffect
CHECK_DEADLOCK FALSE
