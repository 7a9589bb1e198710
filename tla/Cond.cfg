\* Three threads and a condition variable, with a deadline inside a second.
SPECIFICATION FairSpec
CONSTANTS Threads = {t1, t2, t3}
          Conds = {c1}
          NULL = NULL
          AbsTimes = {1}
          Second = 2
          Phase = 1
          MaxClock = 3
INVARIANTS CondInv WaitTellsTheTruth
PROPERTIES ImplementsCond TimedWaitEnds
CHECK_DEADLOCK FALSE
