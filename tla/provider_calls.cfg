SPECIFICATION FairSpec
CONSTANTS
  Users = {u1, u2}
  Importing = {u1}
  Servers = {s1}
  Workers = {w1, w2}
  NoLock = NoLock
  NoUser = NoUser
  NoCopy = NoCopy
  MaxLocks = 1
  MaxChanges = 1
  MaxRebuilds = 1
  MaxFaults = 1
INVARIANTS EntryIsCurrent HeldByCalls
PROPERTIES CacheCatchesUp
