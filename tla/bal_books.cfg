SPECIFICATION Spec
CONSTANTS
  u1 = u1
  u2 = u2
  r1 = r1
  r2 = r2
  d1 = d1
  Users = {u1, u2}
  Requests = {r1, r2, d1}
  Workers = {w1, w2}
  NoRequest = NoRequest
  DefaultDevices = 5
  Buyer <- MCBuyer
  Kind <- MCKind
  Price <- MCPrice
  Period <- MCPeriod
  Count <- MCCount
  Commission <- MCCommission
  InitialRows <- MCRows
  InitialBalance = 5
  Faults = {"provider", "store", "crash"}
  VlessTries = 2
  CardPeriod = 3
  MaxCards = 1
  MaxTime = 2
  MaxSubmits = 2
  Beginnings <- MCBeginnings
CHECK_DEADLOCK FALSE
SYMMETRY WorkerSymmetry
INVARIANTS BooksBalance CompletedStands RewardedIsCharged 
