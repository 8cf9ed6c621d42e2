SPECIFICATION WatcherFairSpec
CONSTANTS
  MaxEvents = 2
  MaxEdits = 2
PROPERTIES
  ChangeIsServed
