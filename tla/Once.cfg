SPECIFICATION FairOnceSpec
CONSTANTS Threads = {t1, t2, t3}
          Controls = {o1, o2}
          NULL = NULL
          CancelledInInit = {t2, t3}
          MaxDepth = 1
INVARIANT OnceInv
PROPERTY OnceReturns
CHECK_DEADLOCK FALSE
