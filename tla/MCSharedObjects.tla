--------------------------- MODULE MCSharedObjects ---------------------------
(* SharedObjects for TLC: the tasks are interchangeable.                   *)
EXTENDS SharedObjects, TLC

(* Nothing fails and the clock runs on; loads fail at every step, one      *)
(* after the other; the clock wraps, also with others between the SWIs of  *)
(* a load; and starts fail, with libraries that expire at once.            *)
Quiet == [maxidle |-> 2, period |-> 2, wrap |-> 8, wraps |-> FALSE,
          race |-> FALSE, fails |-> {}]
Failing == [maxidle |-> 1, period |-> 1, wrap |-> 5, wraps |-> FALSE,
            race |-> FALSE, fails |-> {"alloc", "malloc", "read", "reloc"}]
Wrapping == [maxidle |-> 2, period |-> 1, wrap |-> 3, wraps |-> TRUE,
             race |-> FALSE, fails |-> {"read", "reloc"}]
Contended == [maxidle |-> 1, period |-> 1, wrap |-> 3, wraps |-> TRUE,
              race |-> TRUE, fails |-> {"malloc", "read", "reloc"}]
Starting == [maxidle |-> 0, period |-> 1, wrap |-> 1, wraps |-> TRUE,
             race |-> TRUE, fails |-> {"run", "reloc"}]

MCSettings == {Quiet, Failing, Wrapping, Contended, Starting}

Symmetry == Permutations(Clients)
=============================================================================
