SPECIFICATION FairSpec
CONSTANTS
  Detach = {"attached"}
  AutoRestart = {TRUE}
  MaxContainers = 2
CHECK_DEADLOCK FALSE
PROPERTIES
  InterruptEndsRestart
