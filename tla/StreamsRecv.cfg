CONSTANTS
  HASHMAP_AMOUNT = 2
  NoValue = none
  RELAY_DATA_MSG_SIZE = 2
  MaxConns = 1
  MaxSent = 1
  MaxProduced = 2
  Lengths = {2}
  MaxQueue = 2
  MaxHasty = 0
SPECIFICATION Spec
INVARIANT RecvReturnsServerBytes
CHECK_DEADLOCK FALSE
