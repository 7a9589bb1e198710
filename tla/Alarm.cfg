\* Seven programs; a second of three ticks, a tick of two microseconds.
SPECIFICATION FairSpec
CONSTANTS TICKS = 3
          USECS = 2
          Programs <- MCPrograms
INVARIANTS TimersInv SleepInv
PROPERTY SleepEnds
CHECK_DEADLOCK FALSE
