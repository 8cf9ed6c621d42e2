SPECIFICATION PartsSpec
CONSTANTS
  Id = {c1, c2, c3}
  Caller = {g1, g2, g3}
  MaxEvents = 2
  MaxEdits = 3
INVARIANTS
  TypeOK
  NoEarlyRelease
  WatcherTypeOK
  NoSpuriousRestart
PROPERTIES
  AtMostOncePerId
  ServedUnlessLost
