CONSTANTS
  Objects = {p1, p2, p3, p4}
  Descriptors = {d}
  NULL = NULL
  ZeroDescriptor = Zero
  SERVER_RELAYS_MAP_AMOUNT = 2
  HASHMAP_AMOUNT = 3
  IdSpace = 6
  MaxCounter = 9
  NoValue = none
  INITIAL_BUFFER_CAPACITY = 2
  MaxCapacity = 8
  Sizes = {1, 2, 3, 5}
  Bytes = 9
  Junk = 99
  MAX_RELAYS = 3
  DEAULT_RELAY_AMOUNT = 2
  Arguments = {0, 1, 3, 4, 257}
  MaxListed = 3
  AES_BYTES = 4
  TOR_MSG_SIZE = 16
  MaxHops = 3
  DH_KEY_BYTES = 2
  G_GLOBAL = 5
  Randoms = {0, 12, 16, 18, 33000, 65535}
  Garbage = {0, 170}
SPECIFICATION PartsSpec
INVARIANTS PartsTypeOK IdsPartitioned InsideArrays UniqueRelayId MapComplete
           ClientFindsOpened RelayFindsConnected FifoUnlessMisplaced
           QueryIsServers KeysFreedOnce
           FullBlocksArrive AesIsFips197 ShaIsFips180 DhKeysAgree
PROPERTY RegistrySpec
CHECK_DEADLOCK FALSE
