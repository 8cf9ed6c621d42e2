SPECIFICATION FairSpec
CONSTANTS
  Detach = {"attached", "healthy"}
  AutoRestart = {TRUE, FALSE}
  MaxContainers = 2
CHECK_DEADLOCK FALSE
PROPERTIES
  SessionEnds
