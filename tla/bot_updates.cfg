SPECIFICATION FairSpec
CONSTANTS
  Users = {a, b, c}
  a = a
  b = b
  c = c
  NoOne = NoOne
  LastUpdate = 2
  Workers = {w1, w2}
  Scripts <- MCScripts
  Switched <- MCSwitched
  Referred <- MCReferred
  BatchLimit = 2
  Ttl = 2
  MaxTime = 3
  MaxCalls = 2
  MaxDisruptions = 1
CHECK_DEADLOCK FALSE
INVARIANTS CompletedIsBootstrapped SecondLevelFollowsFirst AdmittedApart AnsweredIsFinal
PROPERTY UpdatesAreHandled
