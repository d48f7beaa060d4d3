CONSTANTS
  Threads = {t1, t2, t3}
  KEY_LIST_START_SIZE = 1
  FirstFd = 1
  NoFd = NoFd
  NoKey = NoKey
SPECIFICATION Spec
INVARIANT KeyIsOwn
CHECK_DEADLOCK FALSE
