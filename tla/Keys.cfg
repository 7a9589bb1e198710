\* Two threads, one of which deletes keys.
SPECIFICATION FairKeysSpec
CONSTANTS Threads = {t1, t2}
          Values = {v1}
          NULL = NULL
          Deleters = {t1}
          KeysMax = 2
          Iterations = 1
          MaxFailures = 1
INVARIANTS NodesInv ValuesInv
PROPERTY ExitEnds
CHECK_DEADLOCK FALSE
