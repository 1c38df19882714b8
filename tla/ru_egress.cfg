SPECIFICATION EgressSpec
CONSTANTS
  fra = fra
  hel = hel
  moscow = moscow
  entry = entry
  Panels = {fra, hel}
  Relay = moscow
  Entries = {entry}
  OldRelay = OldRelay
  Tags = {"api", "direct", "blocked", "ru-relay", "relay-to-russia", "relay-to-helsinki", "abroad"}
  Starting <- MCStarting
  None = None
  Torn = Torn
  MaxCommands = 4
CHECK_DEADLOCK FALSE
INVARIANTS FamiliesKeepTheirEgress EveryRouteEnds
PROPERTY RevertUndoesEveryMerge
