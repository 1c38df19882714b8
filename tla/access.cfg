SPECIFICATION FairSpec
CONSTANTS
  Keys = {ensure, k1}
  EnsureKey = ensure
  NoKey = NoKey
  Bot = Bot
  Admin = Admin
  Chats = {c1}
  Supports = {a1}
  Operators = {o1}
  Updates = {n1}
  ResendLimit = 1
  MaxAsked = 3
  MaxPayments = 1
  MaxFaults = 1
INVARIANTS RevokedIsDurable DeliveredWasIssued ReadyIsReal
PROPERTIES LapsedIsRevoked
