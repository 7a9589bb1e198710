\* Three threads send a signal to two of them, one of which may be cancelled.
SPECIFICATION FairSigwaitSpec
CONSTANTS Threads = {t1, t2, t3}
          Signals = {s1}
          NULL = NULL
          Receivers = {t1, t2}
          Cancellable = {t1}
          MaxSent = 1
INVARIANT SigwaitInv
PROPERTY SignalGetsThrough
CHECK_DEADLOCK FALSE
