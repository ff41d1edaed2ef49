SPECIFICATION FairSpec
CONSTANTS
  s0 = s0
  s1 = s1
  c1 = c1
  c2 = c2
  Server <- Servers
  Primary = s0
  Client <- Clients
  Contact <- Contacts
  BatchSizes = {1, 2}
  MaxTimestamp = 2
INVARIANTS
  TypeOK
  NoStrandedBatch
PROPERTIES
  ImplementsRequestLog
  NothingDropped
  OvertakenForGood
  AcceptedAreOrdered
CHECK_DEADLOCK FALSE
