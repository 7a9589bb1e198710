\* Three threads, one of which calls sem_getvalue and another is cancelled.
SPECIFICATION FairSpec
CONSTANTS Threads = {t1, t2, t3}
          Getters = {t1}
          Cancellable = {t3}
          Values = {0, 1}
          MaxCount = 1
          MaxTaken = 2
          NULL = NULL
INVARIANTS SemInv InterlockWakes
PROPERTIES ImplementsSem WaiterProceeds
CHECK_DEADLOCK FALSE
