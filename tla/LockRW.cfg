\* One read/write lock and three threads, so that two can wait for a third.
CONSTANTS
  N = 3
  NormalMutexes = {}
  ErrorcheckMutexes = {}
  RecursiveMutexes = {}
  RWLocks = {rw1}
  UINT_MAX = 4
  MaxReads = 1
  NULL = NULL
SPECIFICATION FairSpec
INVARIANTS LockInv
PROPERTIES WaitersServed FreedLockIsTaken ImplementsRWLock
