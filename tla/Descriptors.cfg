CONSTANTS
  Threads = {t1, t2, t3}
  KEY_LIST_START_SIZE = 1
  FirstFd = 1
  NoFd = NoFd
  NoKey = NoKey
  Circuits = {c1, c2}
  MaxFd = 5
  StreamNumbers = {1, 4}
  Main = main
  NoValue = none
  HASHMAP_AMOUNT = 3
SPECIFICATION DescriptorsSpec
INVARIANTS TypeOK EntryPerSession SocksUsedCounts NoneLeaked
           RelayProcessTypeOK OwnDescriptors FreedLeavesOpen
SYMMETRY CircuitSymmetry
CHECK_DEADLOCK FALSE
