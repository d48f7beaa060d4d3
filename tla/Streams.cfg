CONSTANTS
  HASHMAP_AMOUNT = 2
  NoValue = none
  RELAY_DATA_MSG_SIZE = 2
  MaxConns = 2
  MaxSent = 3
  MaxProduced = 2
  Lengths = {4}
  MaxQueue = 2
  MaxHasty = 0
SPECIFICATION Spec
INVARIANTS TypeOK ReceivedInOrder TablesAgreeWhenQuiet BytesReachTheirServer
CHECK_DEADLOCK FALSE
