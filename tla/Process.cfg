SPECIFICATION FairSpec
CONSTANTS
  Detach = {"attached", "now", "healthy"}
  AutoRestart = {TRUE, FALSE}
  Engines = {"jvm", "native"}
  Child = {c1, c2}
  None = None
CHECK_DEADLOCK FALSE
INVARIANTS
  TypeOK
  WgAccounting
  SettledIsDead
  OneMockAtATime
  NothingOrphaned
PROPERTIES
  SessionEnds
  UsesDebouncer
