---------------------------- MODULE MCProcesses ----------------------------
(* Processes for TLC: six programs, each of which reaches another part.    *)
(* Structures, handles and images of a kind are interchangeable.           *)
EXTENDS Processes

(* Two processes that open and duplicate nothing and wait for any child.   *)
Bare == [procs |-> 2, kinds |-> {}, dups |-> FALSE, redirected |-> TRUE,
         forks |-> {"vfork"}, execs |-> {}, nested |-> FALSE, areas |-> {FALSE},
         flags |-> FALSE, threaded |-> FALSE, faults |-> {}, waits |-> {"any"},
         ends |-> {"exit"}]

Pipes == [Bare EXCEPT !.kinds = {"pipe"}, !.dups = TRUE, !.execs = {"foreign"}]
Tree == [Bare EXCEPT !.procs = 3, !.forks = {"fork"}, !.nested = TRUE,
                     !.execs = {"unixlib", "foreign"}]
Forking == [Bare EXCEPT !.procs = 3, !.redirected = FALSE, !.areas = BOOLEAN,
                        !.forks = {"fork", "vfork"}, !.execs = {"unixlib"},
                        !.faults = {"struct"}]
Terminal == [Bare EXCEPT !.procs = 3, !.kinds = {"tty"}, !.execs = {"unixlib"}]
Threaded == [Bare EXCEPT !.procs = 1, !.kinds = {"file", "tty"}, !.dups = TRUE,
                         !.threaded = TRUE]
Failing == [Bare EXCEPT !.flags = TRUE, !.forks = {"fork", "vfork"},
                        !.execs = {"unixlib"}, !.faults = {"environ", "table", "slot"},
                        !.waits = {"any", "mypgrp", "stranger"},
                        !.ends = {"exit", "signal", "core"}]

MCPrograms == {Pipes, Tree, Forking, Terminal, Threaded, Failing}

Symmetry == Permutations(Procs) \cup Permutations(Handles) \cup Permutations(Images)
=============================================================================
