CONSTANTS
  HASHMAP_AMOUNT = 2
  NoValue = none
  RELAY_DATA_MSG_SIZE = 1
  MaxConns = 3
  MaxSent = 0
  MaxProduced = 0
  Lengths = {1}
  MaxQueue = 2
  MaxHasty = 2
SPECIFICATION Spec
INVARIANT EventsHaveEntry
PROPERTY CloseReachesServer
CHECK_DEADLOCK FALSE
