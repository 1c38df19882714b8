SPECIFICATION FairSpec
CONSTANTS
  Users = {u1}
  Payments = {p1}
  Handlers = {h1, h2}
  Servers = {s1}
  NoPayment = NoPayment
  DefaultDevices = 5
  Payer <- MCPayer
  Period <- MCPeriod
  Devices <- MCDevices
  Referred = {u1}
  InitialAccounts <- MCAccounts
  MaxTries = 2
  MaxTime = 2
  MaxDeliveries = 3
INVARIANTS AckedIsDurable AppliedIsEntitled
PROPERTIES PromiseButForReplays PaidIsEventuallyApplied
CHECK_DEADLOCK FALSE
