------------------------------ MODULE MCSignals ------------------------------
\* Signals for three programs.
EXTENDS Signals

\* It blocks, catches and jumps, and its handlers return or restore the mask.
Plain == [masks |-> {{}, {9, 18, 30}}, caught |-> {30}, raised |-> {18, 30}, async |-> {},
          plainjumps |-> FALSE, restarts |-> FALSE, leader |-> FALSE, orphan |-> FALSE,
          raises |-> 2]

\* An orphan that leads its group, with a timer.
Timed == [masks |-> {{}, {9, 30}}, caught |-> {30}, raised |-> {20, 21, 29}, async |-> {30},
          plainjumps |-> FALSE, restarts |-> FALSE, leader |-> TRUE, orphan |-> TRUE,
          raises |-> 1]

\* Its handlers leave without a word to post_signal.
Jumping == [masks |-> {{30}}, caught |-> {11, 30}, raised |-> {11, 30}, async |-> {},
            plainjumps |-> TRUE, restarts |-> TRUE, leader |-> FALSE, orphan |-> FALSE,
            raises |-> 1]

MCPrograms == {Plain, Timed, Jumping}
=============================================================================
