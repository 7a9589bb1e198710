------------------------------ MODULE SemSpec -------------------------------
(***************************************************************************)
(* What a counting semaphore promises: it is taken only while its value is *)
(* positive, and its value is what was put in less what was taken out.     *)
(***************************************************************************)
EXTENDS Naturals

VARIABLES value, posted, taken

svars == <<value, posted, taken>>

Init == value \in Nat /\ posted = 0 /\ taken = 0

Post == /\ value' = value + 1
        /\ posted' = posted + 1
        /\ taken' = taken

Take == /\ value > 0
        /\ value' = value - 1
        /\ taken' = taken + 1
        /\ posted' = posted

\* A destroyed semaphore may be initialised again.
Restart == value' \in Nat /\ posted' = 0 /\ taken' = 0

Next == Post \/ Take \/ Restart

Spec == Init /\ [][Next]_svars
=============================================================================
