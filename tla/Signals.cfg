\* Three programs.
SPECIFICATION FairSpec
CONSTANTS Sigs = {9, 11, 17, 18, 19, 20, 21, 29, 30, 33}
          KILL = 9
          STOP = 17
          CONT = 19
          JobStops = {18, 21}
          Ignorable = {20}
          Infos = {29}
          Faults = {11}
          Wide = {33}
          Programs <- MCPrograms
INVARIANTS SignalsInv NoneLost
PROPERTIES DeliveryEnds SuspendWakes
CHECK_DEADLOCK FALSE
