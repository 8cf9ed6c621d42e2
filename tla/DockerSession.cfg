SPECIFICATION Spec
CONSTANTS
  Detach = {"attached", "now", "healthy"}
  AutoRestart = {TRUE, FALSE}
  MaxContainers = 2
CHECK_DEADLOCK FALSE
INVARIANTS
  TypeOK
  WgAccounting
  ExitsSettled
  NothingLeaked
PROPERTIES
  RestartHoldsMain
  UsesDebouncer
