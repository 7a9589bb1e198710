------------------------------ MODULE CondSpec ------------------------------
(***************************************************************************)
(* What a mutex and its condition variables promise: one holder; a wait    *)
(* gives the mutex up and joins the end of the queue in one step; a signal *)
(* lets the first of the queue go, a broadcast all of them; a timeout      *)
(* takes a thread out of the queue it is in.                               *)
(***************************************************************************)
EXTENDS Naturals, Sequences

CONSTANTS Threads, Conds, NULL

VARIABLES holder, queue

cvars == <<holder, queue>>

Init == holder = NULL /\ queue = [c \in Conds |-> << >>]

Acquire(t) == holder = NULL /\ holder' = t /\ queue' = queue

Release(t) == holder = t /\ holder' = NULL /\ queue' = queue

Wait(t, c) == /\ holder = t /\ holder' = NULL
              /\ queue' = [queue EXCEPT ![c] = Append(@, t)]

Signal(c) == /\ queue[c] # << >>
             /\ queue' = [queue EXCEPT ![c] = Tail(@)]
             /\ holder' = holder

Broadcast(c) == queue' = [queue EXCEPT ![c] = << >>] /\ holder' = holder

Timeout(t, c) == /\ \E i \in 1 .. Len(queue[c]) :
                      /\ queue[c][i] = t
                      /\ queue' = [queue EXCEPT ![c] = SubSeq(@, 1, i - 1) \o SubSeq(@, i + 1, Len(@))]
                 /\ holder' = holder

Next == \/ \E t \in Threads : Acquire(t) \/ Release(t)
        \/ \E c \in Conds : Signal(c) \/ Broadcast(c)
        \/ \E t \in Threads, c \in Conds : Wait(t, c) \/ Timeout(t, c)

Spec == Init /\ [][Next]_cvars
=============================================================================
