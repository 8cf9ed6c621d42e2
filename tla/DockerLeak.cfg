SPECIFICATION Spec
CONSTANTS
  Detach = {"attached"}
  AutoRestart = {FALSE}
  MaxContainers = 1
CHECK_DEADLOCK FALSE
INVARIANTS
  NeverLeaksRunningMock
