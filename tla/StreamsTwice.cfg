CONSTANTS
  HASHMAP_AMOUNT = 2
  NoValue = none
  RELAY_DATA_MSG_SIZE = 1
  MaxConns = 6
  MaxSent = 0
  MaxProduced = 0
  Lengths = {1}
  MaxQueue = 3
  MaxHasty = 5
SPECIFICATION Spec
INVARIANT IdentifiesOneConnection
CHECK_DEADLOCK FALSE
