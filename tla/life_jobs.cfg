SPECIFICATION FairSpec
CONSTANTS
  Users = {u1}
  NoUser = NoUser
  TrialCalls = {t1, t2}
  Servers = {s1}
  DefaultDevices = 5
  InitialAccounts <- MCAccounts
  PaidPeriod = 2
  TrialPeriod = 1
  Grace = 1
  KeyYear = 9
  Faults = {"provider", "crash"}
  Deployments <- MCDeployments
  MaxPayments = 1
  MaxTime = 3
CHECK_DEADLOCK FALSE
INVARIANT TrialAtMostOnce
PROPERTIES SelfHeals RelayFollows GraceEnds
