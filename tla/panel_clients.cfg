SPECIFICATION FairClientsSpec
CONSTANTS
  svc = svc
  Subscribers = {u1}
  Service = svc
  Stored = {}
  StartLists <- MCStartLists
  Days = 1
  Far = 9
  NoList = NoList
  MaxTime = 2
  MaxEvents = 2
CHECK_DEADLOCK FALSE
INVARIANT GrantsEnd
PROPERTIES ActiveIsServed ServiceStays
