SPECIFICATION Spec
CONSTANTS
  TelegramUsers = {u1, u2}
  Emails = {e1, e2}
  u1 = u1
  u2 = u2
  e1 = e1
  l1 = l1
  k1 = k1
  e2 = e2
  Casts <- MCCasts
  Nobody = Nobody
  Linkers = {l1, l2}
  Logins = {k1, k2}
  Payments = {p1, p2}
  MaxSends = 3
  MaxAttempts = 1
  MaxWeb = 2
  MaxCodes = 3
  MaxCredits = 1
  MaxFaults = 1
SYMMETRY Symmetry
CHECK_DEADLOCK FALSE
INVARIANTS LinkedIsProven FactsHaveRows NobodyInvitesThemselves
PROPERTY RealOwnersStand
