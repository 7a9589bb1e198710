----------------------------- MODULE RWLockSpec -----------------------------
(***************************************************************************)
(* What a mutex or a read/write lock promises its users: who may hold it   *)
(* at the same time, and in which mode.  Nothing is said about queues,     *)
(* scheduling or return codes; PthreadLock is shown to implement this.     *)
(***************************************************************************)
EXTENDS Naturals, Sequences, SequencesExt

CONSTANTS Threads,      \* the users of the locks
          Locks,        \* mutexes and read/write locks alike
          Recursive     \* the mutexes a holder may take again

VARIABLES mode,         \* mode[l]: "FREE" or how l is held
          holders       \* holders[l]: one entry per acquisition not given back

Modes == {"READ", "WRITE", "MUTEX"}

HeldOnlyBy(t, l) == \A i \in 1 .. Len(holders[l]) : holders[l][i] = t

Init == /\ mode = [l \in Locks |-> "FREE"]
        /\ holders = [l \in Locks |-> << >>]

Acquire(t, l, m) ==
  /\ \/ mode[l] = "FREE"
     \/ mode[l] = "READ" /\ m = "READ"
     \/ mode[l] = "MUTEX" /\ m = "MUTEX" /\ l \in Recursive /\ HeldOnlyBy(t, l)
  /\ mode' = [mode EXCEPT ![l] = m]
  /\ holders' = [holders EXCEPT ![l] = Append(@, t)]

Release(t, l) ==
  \E i \in 1 .. Len(holders[l]) :
    /\ holders[l][i] = t
    /\ holders' = [holders EXCEPT ![l] = RemoveAt(@, i)]
    /\ mode' = [mode EXCEPT ![l] = IF Len(holders[l]) = 1 THEN "FREE" ELSE @]

Next == \E t \in Threads, l \in Locks :
          \/ \E m \in Modes : Acquire(t, l, m)
          \/ Release(t, l)

Spec == Init /\ [][Next]_<<mode, holders>>
=============================================================================
