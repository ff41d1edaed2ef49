SPECIFICATION FairSystemSpec
CONSTANTS
  s0 = s0
  s1 = s1
  c1 = c1
  Server = {s0, s1}
  Primary = s0
  Client = {c1}
  Contact <- Contacts
  BatchSizes = {1, 2}
  MaxTimestamp = 3
  F = 0
  CPInterval = 2
  MaxBatch = 3
  Reliable = FALSE
INVARIANTS
  OrderNeverBlocked
  AnswersNamePlaces
  OrderedIsOutdated
PROPERTIES
  ImplementsService
  AcceptedAreAnswered
CHECK_DEADLOCK FALSE
