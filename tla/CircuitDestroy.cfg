CONSTANTS
  N = 3
  MaxCells = 1
  MaxEvents = 0
  MaxCrashes = 0
SPECIFICATION Spec
PROPERTY DestroyReachesAll
CHECK_DEADLOCK FALSE
