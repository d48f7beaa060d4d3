CONSTANTS
  AES_BYTES = 4
  TOR_MSG_SIZE = 16
  MaxHops = 3
SPECIFICATION CipherSpec
INVARIANT WholeMessageArrives
CHECK_DEADLOCK FALSE
