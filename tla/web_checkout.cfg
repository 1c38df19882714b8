SPECIFICATION FairSpec
CONSTANTS
  tg = tg
  web = web
  Users <- MCUsers
  WebOnly <- MCWebOnly
  Payments = {p1}
  NoAccount = NoAccount
  Nobody = Nobody
  DefaultDevices = 5
  Counts = {5, 6, 7}
  Plan <- MCPlan
  InitialBalance = 27
  MaxAge = 0
  MaxTime = 2
  MaxMoves = 4
  MaxFaults = 1
  MaxHandwork = 1
INVARIANTS CreditedToBuyer OneDebitPerChoice
PROPERTY PaidIsCredited
CHECK_DEADLOCK FALSE
