SPECIFICATION FairProcessSpec
CONSTANTS
  r1 = r1
  c1 = c1
  o1 = o1
  own = own
  multicast = multicast
  Goroutine = {g1, g2}
  Main = main
  Free = free
  MaxHandlers = 5
  Socket <- Sockets
  Datagram <- Datagrams
  SocketOf <- Socks
  KindOf <- Kinds
  Length <- Lengths
  Nothing = nothing
INVARIANTS
  ProcessTypeOK
  LocksMatchPlaces
  NoDeadlock
  EveryRequestCounted
  ReportConsistent
  OnlyRequestsMistaken
  SectionsExclude
PROPERTIES
  HandlersFinish
  LostToLaterOnly
CHECK_DEADLOCK FALSE
