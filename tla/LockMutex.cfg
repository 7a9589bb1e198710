\* One mutex of each type and a read/write lock, two threads; the recursion
\* count is exhausted by three acquisitions.
CONSTANTS
  N = 2
  NormalMutexes = {n1}
  ErrorcheckMutexes = {e1}
  RecursiveMutexes = {r1}
  RWLocks = {rw1}
  UINT_MAX = 3
  MaxReads = 1
  NULL = NULL
SPECIFICATION Spec
INVARIANTS ErrorsAreHonest DeadlockIsReal
