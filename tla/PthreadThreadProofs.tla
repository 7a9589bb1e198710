------------------------ MODULE PthreadThreadProofs -------------------------
(***************************************************************************)
(* Proofs about PthreadThread, for any number of threads: its safety       *)
(* properties are theorems.  Each follows from one inductive invariant,    *)
(* IInv, which a lemma per group of conjuncts shows every step to keep.    *)
(***************************************************************************)
EXTENDS PthreadThread, TLAPS, SequenceTheorems, FiniteSetTheorems

(***************************************************************************)
(* The inductive invariant.  ListInv needs the joiner that an exiting      *)
(* thread wakes to be a live thread (JoinInv), and it needs the list to    *)
(* hold a thread that has not exited whenever an idle one is disposed of   *)
(* (CountInv).  Both need to know in which state a thread is at each place *)
(* in the library (PlaceInv), and where the running one can be (RunInv).   *)
(* JoinResult needs to know what a thread carries through pthread_exit     *)
(* (ResultInv), DeadlockIsReal what a wrap of the scheduler has shown      *)
(* (SwitchInv).                                                            *)
(***************************************************************************)

\* Which states a thread can be in at each place in the library.
PlaceInv ==
  \A t \in Threads :
    /\ pc[t] = "user" => state[t] \in {"NEW", "RUNNING"}
    /\ pc[t] \in {"handlers", "exit_window"} => state[t] = "CLEANUP"
    /\ pc[t] = "idle" => state[t] \in {"IDLE", "UNALLOCED", "FREED"}
    /\ pc[t] \in {"join", "joinwait"} => state[t] \in {"JOIN", "RUNNING"}
    /\ pc[t] = "redirected" => state[t] \in {"RUNNING", "CLEANUP"}

\* The thread on the processor can run, or is about to yield.
RunInv ==
  phase = "user" => \/ Runnable(running)
                    \/ state[running] = "JOIN" /\ pc[running] = "join"
                    \/ state[running] = "IDLE" /\ pc[running] = "idle"

\* Nobody knows a thread that has not been created.
NewInv ==
  \A x \in Threads : state[x] = "NEW" =>
    joined[x] = NULL /\ \A t \in Threads : tojoin[t] # x

\* Before the first pthread_create there is only the main thread.
AloneInv ==
  ~system_running => \A t \in Threads \ {main} : state[t] = "NEW"

\* The program goes on while a thread is left.
PositiveInv == Running => num_running > 0

\* A thread in pthread_exit has a status, which is in its node once the
\* handlers are done; one in pthread_join waits for somebody.
ResultInv ==
  \A t \in Threads :
    /\ state[t] = "CLEANUP" => status[t] # NULL
    /\ pc[t] = "exit_window" => ret[t] = status[t]
    /\ pc[t] \in {"join", "joinwait"} => tojoin[t] # NULL

\* What the scheduler knows from having wrapped: after the first wrap, the
\* threads from the head to where it stands cannot run; after the second one,
\* no thread can.
SwitchInv ==
  phase = "switch" =>
    /\ iter = 2 => \A t \in Threads : ~Runnable(t)
    /\ iter >= 1 => \A i \in 1 .. Len(list) : list[i] = running =>
                     \A j \in 1 .. i : ~Runnable(list[j])

IInv == /\ TypeOK /\ PlaceInv /\ RunInv /\ NewInv /\ AloneInv
        /\ PositiveInv /\ ResultInv /\ ListInv /\ CountInv /\ JoinInv
        /\ JoinResult /\ ExitsWhenAllDone /\ SwitchInv /\ DeadlockIsReal

-----------------------------------------------------------------------------
\* Removing the i-th element of a sequence keeps the elements before it, and
\* moves the ones after it one place down.
LEMMA RemoveAtIndex ==
  ASSUME NEW S, NEW s \in Seq(S), NEW i \in 1 .. Len(s)
  PROVE  /\ RemoveAt(s, i) \in Seq(S)
         /\ Len(RemoveAt(s, i)) = Len(s) - 1
         /\ \A j \in 1 .. Len(s) - 1 :
              RemoveAt(s, i)[j] = IF j < i THEN s[j] ELSE s[j + 1]
<1> DEFINE a == SubSeq(s, 1, i - 1)
           b == SubSeq(s, i + 1, Len(s))
<1>1. a \in Seq(S) /\ Len(a) = i - 1 /\ \A j \in 1 .. i - 1 : a[j] = s[j]
  OBVIOUS
<1>2. b \in Seq(S) /\ Len(b) = Len(s) - i /\ \A j \in 1 .. Len(s) - i : b[j] = s[i + j]
  OBVIOUS
<1> HIDE DEF a, b
<1>3. /\ a \o b \in Seq(S)
      /\ Len(a \o b) = Len(a) + Len(b)
      /\ \A j \in 1 .. Len(a) + Len(b) :
           (a \o b)[j] = IF j <= Len(a) THEN a[j] ELSE b[j - Len(a)]
  BY <1>1, <1>2, ConcatProperties
<1>4. Len(s) \in Nat /\ Len(a) + Len(b) = Len(s) - 1
  BY <1>1, <1>2
<1>5. ASSUME NEW j \in 1 .. Len(s) - 1
      PROVE  (a \o b)[j] = IF j < i THEN s[j] ELSE s[j + 1]
  <2>1. (a \o b)[j] = IF j <= Len(a) THEN a[j] ELSE b[j - Len(a)]
    BY <1>3, <1>4
  <2> QED
    BY <2>1, <1>1, <1>2, <1>4
<1> QED
  BY <1>3, <1>4, <1>5 DEF RemoveAt, a, b

\* Disposing of an idle thread keeps the types of the list and of the states.
LEMMA DisposeType ==
  ASSUME TypeOK, NEW v \in Threads, Dispose(v)
  PROVE  list' \in Seq(Threads) /\ state' \in [Threads -> States]
<1>1. CASE state[v] # "IDLE"
  BY <1>1 DEF Dispose, TypeOK
<1>2. CASE state[v] = "IDLE"
  <2>1. PICK i \in 1 .. Len(list) : list' = RemoveAt(list, i)
    BY <1>2 DEF Dispose
  <2>2. list' \in Seq(Threads)
    BY <2>1, RemoveAtIndex DEF TypeOK
  <2>3. state' = [state EXCEPT ![v] = IF detached[v] THEN "FREED" ELSE "UNALLOCED"]
    BY <1>2 DEF Dispose
  <2> QED
    BY <2>2, <2>3 DEF TypeOK, States
<1> QED
  BY <1>1, <1>2

\* Exit keeps the types.
LEMMA ExitType ==
  ASSUME TypeOK, NEW t \in Threads, NEW s \in Statuses, Exit(t, s)
  PROVE  TypeOK'
<1>1. /\ state' \in [Threads -> States]
      /\ phase' \in {"user", "switch", "exited", "deadlocked", "derailed"}
  BY DEF Exit, TypeOK, States
<1>2. pc' \in [Threads -> {"user", "handlers", "exit_window", "idle", "join",
                          "joinwait", "redirected"}]
  BY DEF Exit, TypeOK
<1>3. /\ status' \in [Threads -> Statuses]
      /\ tojoin' \in [Threads -> Threads \cup {NULL}]
  BY DEF Exit, TypeOK
<1>4. UNCHANGED <<list, running, iter, detached, joined, ret, cancel, gbl>>
  BY DEF Exit
<1> QED
  BY <1>1, <1>2, <1>3, <1>4 DEF TypeOK, cancel, gbl

\* Every step keeps the type of every field.
LEMMA TypeStep == TypeOK /\ [Next]_vars => TypeOK'
<1> SUFFICES ASSUME TypeOK, [Next]_vars PROVE TypeOK'
  OBVIOUS
<1> USE DEF sched, cancel, gbl
<1>1. CASE UNCHANGED vars
  BY <1>1 DEF TypeOK, vars
<1>2. CASE Tick
  BY <1>2 DEF Tick, SwitchBegins, TypeOK
<1>3. CASE SwitchStep
  <2>1. PICK u \in Threads, v \in Threads :
          /\ running' = u
          /\ Dispose(v)
          /\ Runnable(u) => phase' = "user" /\ SwitchIn(u)
          /\ ~Runnable(u) => phase' = "switch" /\ pc' = pc
    BY <1>3 DEF SwitchStep, Visit
  <2>2. iter' \in 0 .. 2
    BY <1>3 DEF SwitchStep, TypeOK
  <2>3. pc' \in [Threads -> {"user", "handlers", "exit_window", "idle", "join",
                             "joinwait", "redirected"}]
    BY <2>1 DEF SwitchIn, TypeOK
  <2> QED
    BY <1>3, <2>1, <2>2, <2>3, DisposeType DEF SwitchStep, Visit, TypeOK
<1>4. CASE SwitchDeadlock
  BY <1>4 DEF SwitchDeadlock, TypeOK
<1>5. CASE Ended
  BY <1>5 DEF Ended, TypeOK, vars
<1>6. ASSUME NEW t \in Threads, Continue(t) PROVE TypeOK'
  <2>1. CASE HandlersDone(t)
    <3>1. ret' \in [Threads -> Statuses]
      BY <2>1 DEF HandlersDone, SettleJoiner, TypeOK
    <3>2. state' \in [Threads -> States]
      BY <2>1 DEF HandlersDone, SettleJoiner, TypeOK, States
    <3>3. joined' \in [Threads -> Threads \cup {NULL}]
      BY <2>1 DEF HandlersDone, SettleJoiner, TypeOK
    <3>4. detached' \in [Threads -> BOOLEAN]
      BY <2>1 DEF HandlersDone, TypeOK
    <3> QED
      BY <2>1, <3>1, <3>2, <3>3, <3>4 DEF HandlersDone, TypeOK
  <2>2. CASE ExitFinish(t)
    BY <2>2 DEF ExitFinish, TypeOK, States
  <2>3. CASE IdleYield(t)
    BY <2>3 DEF IdleYield, SwitchBegins, TypeOK, States
  <2>4. CASE JoinYield(t)
    BY <2>4 DEF JoinYield, SwitchBegins, TypeOK
  <2>5. CASE JoinReturn(t)
    BY <2>5 DEF JoinReturn, TypeOK
  <2>6. CASE Redirected(t)
    <3>1. CASE Exit(t, CANCELED)
      BY <3>1, ExitType DEF Statuses
    <3>2. CASE ~Exit(t, CANCELED)
      BY <2>6, <3>2 DEF Redirected, TypeOK
    <3> QED
      BY <3>1, <3>2
  <2> QED
    BY <1>6, <2>1, <2>2, <2>3, <2>4, <2>5, <2>6 DEF Continue
<1>7. ASSUME NEW t \in Threads, Call(t) PROVE TypeOK'
  <2>1. CASE Yield(t)
    BY <2>1 DEF Yield, SwitchBegins, TypeOK
  <2>2. CASE CreateFails(t)
    BY <2>2 DEF CreateFails, TypeOK
  <2>3. CASE ExitCall(t)
    BY <2>3, ExitType DEF ExitCall, Statuses
  <2>4. CASE TestCancel(t)
    BY <2>4, ExitType DEF TestCancel, Statuses
  <2>5. ASSUME NEW b \in BOOLEAN, SetCancelState(t, b) PROVE TypeOK'
    BY <2>5, Zenon DEF SetCancelState, TypeOK
  <2>6. ASSUME NEW b \in BOOLEAN, SetCancelType(t, b) PROVE TypeOK'
    BY <2>6, Zenon DEF SetCancelType, TypeOK
  <2>7. ASSUME NEW x \in Threads, NEW d \in BOOLEAN, Create(t, x, d) PROVE TypeOK'
    <3>1. list' \in Seq(Threads)
      BY <2>7 DEF Create, Link, TypeOK
    <3>2. detached' \in [Threads -> BOOLEAN]
      BY <2>7, Zenon DEF Create, TypeOK
    <3>3. state' \in [Threads -> States] /\ num_running' \in Int
      BY <2>7 DEF Create, TypeOK, States
    <3>4. ticker' \in BOOLEAN /\ system_running' \in BOOLEAN
      BY <2>7, Zenon DEF Create
    <3> QED
      BY <2>7, <3>1, <3>2, <3>3, <3>4 DEF Create, TypeOK
  <2>8. ASSUME NEW x \in Threads, JoinUnalloced(t, x) PROVE TypeOK'
    BY <2>8 DEF JoinUnalloced, TypeOK, States
  <2>9. ASSUME NEW x \in Threads, JoinSuspends(t, x) PROVE TypeOK'
    BY <2>9 DEF JoinSuspends, TypeOK, States
  <2>10. ASSUME NEW x \in Threads, Detach(t, x) PROVE TypeOK'
    BY <2>10 DEF Detach, TypeOK, States
  <2>11. ASSUME NEW x \in Threads, Cancel(t, x) PROVE TypeOK'
    BY <2>11 DEF Cancel, TypeOK
  <2> QED
    BY <1>7, <2>1, <2>2, <2>3, <2>4, <2>5, <2>6, <2>7, <2>8, <2>9, <2>10, <2>11 DEF Call
<1> QED
  BY <1>1, <1>2, <1>3, <1>4, <1>5, <1>6, <1>7 DEF Next

\* __pthread_prog_init sets every field to a value of its type.
LEMMA InitType == Init => TypeOK
<1> SUFFICES ASSUME Init PROVE TypeOK
  OBVIOUS
<1>1. main \in Threads
  BY NAssumption DEF main, Threads
<1>2. /\ detached \in [Threads -> BOOLEAN] /\ cancelpending \in [Threads -> BOOLEAN]
      /\ cancelstate \in [Threads -> BOOLEAN] /\ canceltype \in [Threads -> BOOLEAN]
  BY Zenon DEF Init
<1>3. list \in Seq(Threads)
  BY <1>1 DEF Init
<1>4. /\ state \in [Threads -> States]
      /\ joined \in [Threads -> Threads \cup {NULL}]
      /\ ret \in [Threads -> Statuses]
      /\ tojoin \in [Threads -> Threads \cup {NULL}]
      /\ status \in [Threads -> Statuses]
  BY DEF Init, States, Statuses
<1>5. pc \in [Threads -> {"user", "handlers", "exit_window", "idle", "join",
                          "joinwait", "redirected"}]
  BY DEF Init
<1>6. running \in Threads /\ phase = "user" /\ iter \in 0 .. 2 /\ num_running \in Int
  BY <1>1 DEF Init
<1>7. ticker \in BOOLEAN /\ system_running \in BOOLEAN
  BY Zenon DEF Init
<1> QED
  BY <1>2, <1>3, <1>4, <1>5, <1>6, <1>7, Zenon DEF TypeOK

\* Every field of the threads keeps its type, and the scheduler wraps around
\* the list three times at most.
THEOREM TypeCorrect == Spec => []TypeOK
  BY InitType, TypeStep, PTL DEF Spec

-----------------------------------------------------------------------------
\* What the other steps are shown to need of the joiner of an exiting thread.
LEMMA JoinerSleeps ==
  ASSUME TypeOK, PlaceInv, JoinInv, NEW t \in Threads, state[t] = "CLEANUP",
         joined[t] # NULL
  PROVE  /\ joined[t] \in Threads /\ joined[t] # t
         /\ state[joined[t]] = "JOIN" /\ tojoin[joined[t]] = t
         /\ pc[joined[t]] \in {"join", "joinwait"}
<1>1. joined[t] \in Threads
  BY DEF TypeOK
<1>2. state[joined[t]] = "JOIN" /\ tojoin[joined[t]] = t
  BY <1>1 DEF JoinInv, Invalid
<1>3. pc[joined[t]] \in {"user", "handlers", "exit_window", "idle", "join",
                         "joinwait", "redirected"}
  BY <1>1 DEF TypeOK
<1> QED
  BY <1>1, <1>2, <1>3 DEF PlaceInv

\* A thread that executes the program is in STATE_RUNNING.
LEMMA UserRuns ==
  ASSUME TypeOK, PlaceInv, RunInv, NEW t \in Threads, At(t, "user")
  PROVE  state[t] = "RUNNING"
  BY DEF PlaceInv, RunInv, At, Runnable

\* Exit by a running thread: it is in its cleanup handlers, in STATE_CLEANUP.
LEMMA ExitPlace ==
  ASSUME TypeOK, PlaceInv, RunInv, NEW t \in Threads, NEW s \in Statuses,
         running = t, state[t] = "RUNNING", Exit(t, s)
  PROVE  PlaceInv' /\ RunInv'
  BY DEF Exit, PlaceInv, RunInv, TypeOK, Runnable

\* In every step a thread's state agrees with where it is in the library, and
\* the running one can be on the processor.
LEMMA PlaceStep ==
  ASSUME TypeOK, PlaceInv, RunInv, JoinInv, [Next]_vars
  PROVE  PlaceInv' /\ RunInv'
<1> USE DEF sched, cancel, gbl, Runnable
<1>1. CASE UNCHANGED vars
  BY <1>1 DEF PlaceInv, RunInv, vars
<1>2. CASE Tick
  BY <1>2 DEF Tick, SwitchBegins, PlaceInv, RunInv
<1>3. CASE SwitchStep
  <2>1. PICK u \in Threads, v \in Threads :
          /\ running' = u
          /\ Dispose(v)
          /\ Runnable(u) => phase' = "user" /\ SwitchIn(u)
          /\ ~Runnable(u) => phase' = "switch" /\ pc' = pc
    BY <1>3 DEF SwitchStep, Visit
  <2>2. \A t \in Threads : \/ state'[t] = state[t]
                           \/ state[t] = "IDLE" /\ state'[t] \in {"FREED", "UNALLOCED"}
    BY <2>1 DEF Dispose, TypeOK
  <2>3. \A t \in Threads : pc'[t] = pc[t] \/ (t = u /\ pc'[t] = "redirected" /\ Runnable(u))
    <3>1. CASE ~Runnable(u)
      BY <2>1, <3>1
    <3>2. CASE Runnable(u)
      <4>1. \/ pc' = [pc EXCEPT ![u] = "redirected"]
            \/ pc' = [pc EXCEPT ![u] = pc[u]]
        BY <2>1, <3>2 DEF SwitchIn
      <4> QED
        BY <3>2, <4>1 DEF TypeOK
    <3> QED
      BY <3>1, <3>2
  <2>4. PlaceInv'
    <3> SUFFICES ASSUME NEW t \in Threads
                 PROVE  /\ pc'[t] = "user" => state'[t] \in {"NEW", "RUNNING"}
                        /\ pc'[t] \in {"handlers", "exit_window"} => state'[t] = "CLEANUP"
                        /\ pc'[t] = "idle" => state'[t] \in {"IDLE", "UNALLOCED", "FREED"}
                        /\ pc'[t] \in {"join", "joinwait"} => state'[t] \in {"JOIN", "RUNNING"}
                        /\ pc'[t] = "redirected" => state'[t] \in {"RUNNING", "CLEANUP"}
      BY DEF PlaceInv
    <3>1. CASE pc'[t] = pc[t]
      BY <2>2, <3>1 DEF PlaceInv, TypeOK
    <3>2. CASE t = u /\ pc'[t] = "redirected" /\ Runnable(u)
      BY <2>2, <3>2
    <3> QED
      BY <2>3, <3>1, <3>2
  <2>5. RunInv'
    BY <2>1, <2>2 DEF RunInv
  <2> QED
    BY <2>4, <2>5
<1>4. CASE SwitchDeadlock
  BY <1>4 DEF SwitchDeadlock, PlaceInv, RunInv
<1>5. CASE Ended
  BY <1>5 DEF Ended, PlaceInv, RunInv, vars
<1>7. ASSUME NEW t \in Threads, Continue(t) PROVE PlaceInv' /\ RunInv'
  <2>1. CASE HandlersDone(t)
    <3>1. state[t] = "CLEANUP" /\ running = t
      BY <2>1 DEF HandlersDone, At, PlaceInv
    <3>2. CASE joined[t] = NULL
      <4>1. \A u \in Threads : u # joined[t]
        BY <3>2 DEF Threads, NULL
      <4> QED
        BY <2>1, <3>1, <4>1 DEF HandlersDone, SettleJoiner, PlaceInv, RunInv, TypeOK
    <3>3. CASE joined[t] # NULL
      BY <2>1, <3>1, <3>3, JoinerSleeps DEF HandlersDone, SettleJoiner, PlaceInv, RunInv, TypeOK
    <3> QED
      BY <3>2, <3>3
  <2>2. CASE ExitFinish(t)
    BY <2>2 DEF ExitFinish, At, PlaceInv, RunInv, TypeOK
  <2>3. CASE IdleYield(t)
    BY <2>3 DEF IdleYield, At, SwitchBegins, PlaceInv, RunInv, TypeOK
  <2>4. CASE JoinYield(t)
    BY <2>4 DEF JoinYield, At, SwitchBegins, PlaceInv, RunInv, TypeOK
  <2>5. CASE JoinReturn(t)
    BY <2>5 DEF JoinReturn, At, PlaceInv, RunInv, TypeOK
  <2>6. CASE Redirected(t)
    <3>1. CASE state[t] = "RUNNING"
      BY <2>6, <3>1, ExitPlace DEF Redirected, At, Statuses
    <3>2. CASE state[t] # "RUNNING"
      BY <2>6, <3>2 DEF Redirected, PlaceInv, RunInv
    <3> QED
      BY <3>1, <3>2
  <2> QED
    BY <1>7, <2>1, <2>2, <2>3, <2>4, <2>5, <2>6 DEF Continue
<1>8. ASSUME NEW t \in Threads, Call(t) PROVE PlaceInv' /\ RunInv'
  <2>1. CASE Yield(t)
    BY <2>1 DEF Yield, SwitchBegins, PlaceInv, RunInv
  <2>2. CASE CreateFails(t)
    BY <2>2 DEF CreateFails, PlaceInv, RunInv
  <2>3. CASE ExitCall(t)
    BY <2>3, UserRuns, ExitPlace DEF ExitCall, At, Statuses
  <2>4. CASE TestCancel(t)
    BY <2>4, ExitPlace DEF TestCancel, At, Statuses
  <2>5. ASSUME NEW b \in BOOLEAN, SetCancelState(t, b) \/ SetCancelType(t, b)
        PROVE  PlaceInv' /\ RunInv'
    BY <2>5 DEF SetCancelState, SetCancelType, PlaceInv, RunInv
  <2>6. ASSUME NEW x \in Threads, NEW d \in BOOLEAN, Create(t, x, d)
        PROVE  PlaceInv' /\ RunInv'
    BY <2>6 DEF Create, At, PlaceInv, RunInv, TypeOK
  <2>7. ASSUME NEW x \in Threads, JoinUnalloced(t, x) \/ Detach(t, x)
        PROVE  PlaceInv' /\ RunInv'
    BY <2>7 DEF JoinUnalloced, Detach, At, PlaceInv, RunInv, TypeOK
  <2>8. ASSUME NEW x \in Threads, JoinSuspends(t, x) PROVE PlaceInv' /\ RunInv'
    BY <2>8 DEF JoinSuspends, At, PlaceInv, RunInv, TypeOK
  <2>9. ASSUME NEW x \in Threads, Cancel(t, x) PROVE PlaceInv' /\ RunInv'
    BY <2>9 DEF Cancel, PlaceInv, RunInv
  <2> QED
    BY <1>8, <2>1, <2>2, <2>3, <2>4, <2>5, <2>6, <2>7, <2>8, <2>9 DEF Call
<1> QED
  BY <1>1, <1>2, <1>3, <1>4, <1>5, <1>7, <1>8 DEF Next

-----------------------------------------------------------------------------
\* A step that registers no joiner, and moves no thread into or out of
\* STATE_JOIN, or from the unborn or the freed to the living, keeps JoinInv.
LEMMA JoinKept ==
  ASSUME TypeOK, JoinInv, NewInv, joined' = joined, tojoin' = tojoin,
         \A t \in Threads :
           \/ state'[t] = state[t]
           \/ /\ state[t] \notin {"JOIN", "NEW", "FREED"}
              /\ state'[t] \notin {"JOIN", "NEW"}
  PROVE  JoinInv' /\ NewInv'
  BY DEF JoinInv, NewInv, Invalid

\* Exit by a running thread keeps JoinInv: it is nobody's joiner.
LEMMA ExitJoin ==
  ASSUME TypeOK, JoinInv, NewInv, NEW t \in Threads, NEW s \in Statuses,
         state[t] = "RUNNING", Exit(t, s)
  PROVE  JoinInv' /\ NewInv'
<1>1. /\ tojoin' = [tojoin EXCEPT ![t] = NULL]
      /\ joined' = joined
      /\ \A u \in Threads \ {t} : state'[u] = state[u]
      /\ state'[t] \in {"RUNNING", "CLEANUP"}
  BY DEF Exit, TypeOK
<1>2. \A x \in Threads : x # NULL
  BY DEF Threads, NULL
<1> QED
  BY <1>1, <1>2 DEF JoinInv, NewInv, Invalid, TypeOK

\* In every step, who sleeps in pthread_join is registered with the thread it
\* waits for, and nobody is registered with a thread that does not exist yet.
LEMMA JoinStep ==
  ASSUME TypeOK, PlaceInv, RunInv, NewInv, JoinInv, [Next]_vars
  PROVE  JoinInv' /\ NewInv'
<1> USE DEF sched, cancel, gbl
<1>0. \A x \in Threads : x # NULL
  BY DEF Threads, NULL
<1>1. CASE UNCHANGED vars
  BY <1>1, JoinKept DEF vars
<1>2. CASE Tick
  BY <1>2, JoinKept DEF Tick
<1>3. CASE SwitchStep
  <2>1. PICK v \in Threads : Dispose(v)
    BY <1>3 DEF SwitchStep, Visit
  <2>2. \A t \in Threads : \/ state'[t] = state[t]
                           \/ state[t] = "IDLE" /\ state'[t] \in {"FREED", "UNALLOCED"}
    BY <2>1 DEF Dispose, TypeOK
  <2> QED
    BY <1>3, <2>2, JoinKept DEF SwitchStep, Visit
<1>4. CASE SwitchDeadlock
  BY <1>4, JoinKept DEF SwitchDeadlock
<1>5. CASE Ended
  BY <1>5, JoinKept DEF Ended, vars
<1>6. ASSUME NEW t \in Threads, Continue(t) PROVE JoinInv' /\ NewInv'
  <2>1. CASE HandlersDone(t)
    <3>1. state[t] = "CLEANUP"
      BY <2>1 DEF HandlersDone, At, PlaceInv
    <3>2. /\ joined' = [joined EXCEPT ![t] = NULL]
          /\ tojoin' = tojoin
          /\ state' = [u \in Threads |-> IF u = joined[t] THEN "RUNNING" ELSE state[u]]
      BY <2>1 DEF HandlersDone, SettleJoiner
    <3>3. CASE joined[t] = NULL
      BY <1>0, <3>2, <3>3 DEF JoinInv, NewInv, Invalid, TypeOK
    <3>4. CASE joined[t] # NULL
      BY <1>0, <3>1, <3>2, <3>4, JoinerSleeps DEF JoinInv, NewInv, Invalid, TypeOK
    <3> QED
      BY <3>3, <3>4
  <2>2. CASE ExitFinish(t)
    <3>1. state[t] = "CLEANUP"
      BY <2>2 DEF ExitFinish, At, PlaceInv
    <3> QED
      BY <2>2, <3>1, JoinKept DEF ExitFinish, TypeOK
  <2>3. CASE IdleYield(t)
    <3>1. state[t] = "IDLE"
      BY <2>3 DEF IdleYield, At, PlaceInv, RunInv, Runnable
    <3> QED
      BY <2>3, <3>1, JoinKept DEF IdleYield, TypeOK
  <2>4. CASE JoinYield(t)
    BY <2>4, JoinKept DEF JoinYield
  <2>5. CASE JoinReturn(t)
    <3>1. state[t] = "RUNNING"
      BY <2>5 DEF JoinReturn, At, PlaceInv, RunInv, Runnable
    <3> QED
      BY <1>0, <2>5, <3>1 DEF JoinReturn, JoinInv, NewInv, Invalid, TypeOK
  <2>6. CASE Redirected(t)
    <3>1. CASE state[t] = "RUNNING"
      BY <2>6, <3>1, ExitJoin DEF Redirected, Statuses
    <3>2. CASE state[t] # "RUNNING"
      BY <2>6, <3>2, JoinKept DEF Redirected
    <3> QED
      BY <3>1, <3>2
  <2> QED
    BY <1>6, <2>1, <2>2, <2>3, <2>4, <2>5, <2>6 DEF Continue
<1>7. ASSUME NEW t \in Threads, Call(t) PROVE JoinInv' /\ NewInv'
  <2>1. CASE Yield(t)
    BY <2>1, JoinKept DEF Yield
  <2>2. CASE CreateFails(t)
    BY <2>2, JoinKept DEF CreateFails
  <2>3. CASE ExitCall(t)
    BY <2>3, UserRuns, ExitJoin DEF ExitCall, Statuses
  <2>4. CASE TestCancel(t)
    BY <2>4, ExitJoin DEF TestCancel, Statuses
  <2>5. ASSUME NEW b \in BOOLEAN, SetCancelState(t, b) \/ SetCancelType(t, b)
        PROVE  JoinInv' /\ NewInv'
    BY <2>5, JoinKept DEF SetCancelState, SetCancelType
  <2>6. ASSUME NEW x \in Threads, NEW d \in BOOLEAN, Create(t, x, d)
        PROVE  JoinInv' /\ NewInv'
    BY <1>0, <2>6 DEF Create, JoinInv, NewInv, Invalid, TypeOK
  <2>7. ASSUME NEW x \in Threads, JoinUnalloced(t, x) \/ Detach(t, x)
        PROVE  JoinInv' /\ NewInv'
    <3>1. \A u \in Threads : state'[u] = state[u] \/ (state[u] = "UNALLOCED" /\ state'[u] = "FREED")
      BY <2>7 DEF JoinUnalloced, Detach, TypeOK
    <3> QED
      BY <2>7, <3>1, JoinKept DEF JoinUnalloced, Detach
  <2>8. ASSUME NEW x \in Threads, JoinSuspends(t, x) PROVE JoinInv' /\ NewInv'
    <3>1. state[t] = "RUNNING"
      BY <2>8, UserRuns DEF JoinSuspends
    <3> QED
      BY <1>0, <2>8, <3>1 DEF JoinSuspends, Joinable, JoinInv, NewInv, Invalid, TypeOK
  <2>9. ASSUME NEW x \in Threads, Cancel(t, x) PROVE JoinInv' /\ NewInv'
    BY <2>9, JoinKept DEF Cancel
  <2> QED
    BY <1>7, <2>1, <2>2, <2>3, <2>4, <2>5, <2>6, <2>7, <2>8, <2>9 DEF Call
<1> QED
  BY <1>1, <1>2, <1>3, <1>4, <1>5, <1>6, <1>7 DEF Next

-----------------------------------------------------------------------------
(***************************************************************************)
(* What a step does to the list and to the number of threads: nothing, a   *)
(* thread is created, a thread finishes pthread_exit, or the scheduler     *)
(* visits a thread.                                                        *)
(***************************************************************************)

QuietStep ==
  /\ list' = list /\ running' = running
  /\ num_running' = num_running /\ ticker' = ticker
  /\ system_running => system_running'
  /\ \A t \in Threads :
       \/ state'[t] = state[t]
       \/ /\ state[t] \in {"RUNNING", "CLEANUP", "JOIN"}
          /\ state'[t] \in {"RUNNING", "CLEANUP", "JOIN"}
       \/ state[t] = "UNALLOCED" /\ state'[t] = "FREED"
  /\ Running' => Running
  /\ phase' = "exited" =>
       \/ phase = "exited" /\ state' = state
       \/ ~system_running /\ state' = state /\ state[running] # "NEW"

\* Exit by a running thread leaves the list and the count alone.
LEMMA ExitQuiet ==
  ASSUME TypeOK, NEW t \in Threads, NEW s \in Statuses, running = t,
         phase = "user", state[t] = "RUNNING", Exit(t, s)
  PROVE  QuietStep
<1> USE DEF gbl, cancel, Running
<1>1. CASE system_running
  BY <1>1 DEF Exit, QuietStep, TypeOK
<1>2. CASE ~system_running
  BY <1>2 DEF Exit, QuietStep, TypeOK
<1> QED
  BY <1>1, <1>2

\* The steps of a thread inside the library other than the last of
\* pthread_exit are quiet.
LEMMA ContinueQuiet ==
  ASSUME TypeOK, PlaceInv, RunInv, JoinInv, NEW t \in Threads, Continue(t)
  PROVE  QuietStep \/ ExitFinish(t)
<1> USE DEF sched, cancel, gbl, Running
<1>1. CASE HandlersDone(t)
  <2>1. state[t] = "CLEANUP"
    BY <1>1 DEF HandlersDone, At, PlaceInv
  <2>2. state' = [u \in Threads |-> IF u = joined[t] THEN "RUNNING" ELSE state[u]]
    BY <1>1 DEF HandlersDone, SettleJoiner
  <2>3. \A u \in Threads : u = joined[t] => state[u] = "JOIN"
    BY <2>1, JoinerSleeps DEF Threads, NULL
  <2> QED
    BY <1>1, <2>2, <2>3 DEF HandlersDone, At, QuietStep
<1>2. CASE IdleYield(t)
  <2>1. state[t] = "IDLE"
    BY <1>2 DEF IdleYield, At, PlaceInv, RunInv, Runnable
  <2> QED
    BY <1>2, <2>1 DEF IdleYield, At, SwitchBegins, QuietStep, TypeOK
<1>3. CASE JoinYield(t)
  BY <1>3 DEF JoinYield, At, SwitchBegins, QuietStep
<1>4. CASE JoinReturn(t)
  BY <1>4 DEF JoinReturn, At, QuietStep
<1>5. CASE Redirected(t)
  <2>1. CASE state[t] = "RUNNING"
    BY <1>5, <2>1, ExitQuiet DEF Redirected, At, Statuses
  <2>2. CASE state[t] # "RUNNING"
    BY <1>5, <2>2 DEF Redirected, QuietStep
  <2> QED
    BY <2>1, <2>2
<1> QED
  BY <1>1, <1>2, <1>3, <1>4, <1>5 DEF Continue

\* The calls of a program other than pthread_create are quiet.
LEMMA CallQuiet ==
  ASSUME TypeOK, PlaceInv, RunInv, NEW t \in Threads, Call(t)
  PROVE  QuietStep \/ \E x \in Threads, d \in BOOLEAN : Create(t, x, d)
<1> USE DEF sched, cancel, gbl, Running
<1>1. CASE Yield(t)
  BY <1>1 DEF Yield, At, SwitchBegins, QuietStep
<1>2. CASE CreateFails(t)
  BY <1>2 DEF CreateFails, At, QuietStep
<1>3. CASE ExitCall(t)
  BY <1>3, UserRuns, ExitQuiet DEF ExitCall, At, Statuses
<1>4. CASE TestCancel(t)
  BY <1>4, ExitQuiet DEF TestCancel, At, Statuses
<1>5. ASSUME NEW b \in BOOLEAN, SetCancelState(t, b) \/ SetCancelType(t, b)
      PROVE  QuietStep
  BY <1>5 DEF SetCancelState, SetCancelType, At, QuietStep
<1>6. ASSUME NEW x \in Threads, JoinUnalloced(t, x) \/ Detach(t, x)
      PROVE  QuietStep
  BY <1>6 DEF JoinUnalloced, Detach, At, QuietStep, TypeOK
<1>7. ASSUME NEW x \in Threads, JoinSuspends(t, x) PROVE QuietStep
  <2>1. state[t] = "RUNNING"
    BY <1>7, UserRuns DEF JoinSuspends
  <2> QED
    BY <1>7, <2>1 DEF JoinSuspends, At, QuietStep, TypeOK
<1>8. ASSUME NEW x \in Threads, Cancel(t, x) PROVE QuietStep
  BY <1>8 DEF Cancel, At, QuietStep
<1> QED
  BY <1>1, <1>2, <1>3, <1>4, <1>5, <1>6, <1>7, <1>8 DEF Call

\* Every step is of one of the four kinds.
LEMMA StepKinds ==
  ASSUME TypeOK, PlaceInv, RunInv, JoinInv, [Next]_vars
  PROVE  \/ QuietStep
         \/ SwitchStep
         \/ \E t \in Threads : ExitFinish(t)
         \/ \E t, x \in Threads, d \in BOOLEAN : Create(t, x, d)
<1> USE DEF sched, cancel, gbl, Running
<1>1. CASE UNCHANGED vars
  BY <1>1 DEF vars, QuietStep
<1>2. CASE Tick
  BY <1>2 DEF Tick, SwitchBegins, QuietStep
<1>3. CASE SwitchDeadlock
  BY <1>3 DEF SwitchDeadlock, QuietStep
<1>4. CASE Ended
  BY <1>4 DEF Ended, vars, QuietStep
<1>5. ASSUME NEW t \in Threads, Continue(t) PROVE QuietStep \/ ExitFinish(t)
  BY <1>5, ContinueQuiet
<1>6. ASSUME NEW t \in Threads, Call(t)
      PROVE  QuietStep \/ \E x \in Threads, d \in BOOLEAN : Create(t, x, d)
  BY <1>6, CallQuiet
<1> QED
  BY <1>1, <1>2, <1>3, <1>4, <1>5, <1>6 DEF Next

-----------------------------------------------------------------------------
\* There are finitely many threads that have not finished.
LEMMA UnfinishedFinite == IsFiniteSet(Unfinished)
<1>1. IsFiniteSet(Threads)
  BY NAssumption, FS_Interval DEF Threads
<1> QED
  BY <1>1, FS_Subset DEF Unfinished

\* While the program goes on, some thread has not finished, and it is listed.
LEMMA SomebodyIsLeft ==
  ASSUME TypeOK, CountInv, PositiveInv, ListInv, Running
  PROVE  \E t \in Threads : t \in Unfinished /\ t \in Listed
<1>1. Cardinality(Unfinished) > 0
  BY DEF CountInv, PositiveInv
<1>2. Unfinished # {}
  BY <1>1, FS_EmptySet
<1> QED
  BY <1>2 DEF Unfinished, ListInv, Live

\* The scheduler removes the node it disposes of from the list, and no other.
LEMMA RemovedFromList ==
  ASSUME TypeOK, ListInv, NEW v \in Threads, NEW i \in 1 .. Len(list),
         list[i] = v, list' = RemoveAt(list, i)
  PROVE  /\ \A j, k \in 1 .. Len(list') : list'[j] = list'[k] => j = k
         /\ Listed' = Listed \ {v}
<1>1. /\ Len(list) \in Nat
      /\ Len(list') = Len(list) - 1
      /\ \A j \in 1 .. Len(list) - 1 :
           list'[j] = IF j < i THEN list[j] ELSE list[j + 1]
  <2>1. list \in Seq(Threads)
    BY DEF TypeOK
  <2>2. /\ Len(RemoveAt(list, i)) = Len(list) - 1
        /\ \A j \in 1 .. Len(list) - 1 :
             RemoveAt(list, i)[j] = IF j < i THEN list[j] ELSE list[j + 1]
    BY <2>1, RemoveAtIndex, Zenon
  <2> QED
    BY <2>1, <2>2
<1>2. \A j, k \in 1 .. Len(list) : list[j] = list[k] => j = k
  BY DEF ListInv
<1>3. ASSUME NEW j \in 1 .. Len(list'), NEW k \in 1 .. Len(list'), list'[j] = list'[k]
      PROVE  j = k
  BY <1>1, <1>2, <1>3
<1>4. ASSUME NEW j \in 1 .. Len(list')
      PROVE  list'[j] \in Listed /\ list'[j] # v
  BY <1>1, <1>2 DEF Listed
<1>5. ASSUME NEW j \in 1 .. Len(list), list[j] # v
      PROVE  list[j] \in Listed'
  <2>1. CASE j < i
    <3>1. j \in 1 .. Len(list) - 1 /\ list'[j] = list[j]
      BY <1>1, <2>1
    <3> QED
      BY <1>1, <3>1 DEF Listed
  <2>2. CASE j > i
    <3>1. j - 1 \in 1 .. Len(list) - 1 /\ list'[j - 1] = list[j]
      BY <1>1, <2>2
    <3> QED
      BY <1>1, <3>1 DEF Listed
  <2> QED
    BY <1>5, <2>1, <2>2
<1>6. Listed' \subseteq Listed \ {v}
  BY <1>4 DEF Listed
<1>7. Listed \ {v} \subseteq Listed'
  BY <1>5 DEF Listed
<1> QED
  BY <1>3, <1>6, <1>7

\* In every step the list holds the live nodes, once each.
LEMMA ListStep ==
  ASSUME TypeOK, PlaceInv, RunInv, JoinInv, ListInv, CountInv, PositiveInv,
         [Next]_vars
  PROVE  ListInv'
<1> USE DEF sched, cancel, gbl
<1>1. CASE QuietStep
  <2>1. Live' = Live
    BY <1>1 DEF QuietStep, Live
  <2>2. Listed' = Listed
    BY <1>1 DEF QuietStep, Listed
  <2> QED
    BY <1>1, <2>1, <2>2 DEF QuietStep, ListInv
<1>2. CASE SwitchStep
  <2>1. PICK u \in Threads, v \in Threads :
          Follows(running, u) /\ Follows(u, v) /\ running' = u /\ Dispose(v)
    BY <1>2 DEF SwitchStep, Visit
  <2>2. Len(list) \in Nat /\ Len(list) >= 1
    BY DEF ListInv, Listed, TypeOK
  <2>3. u \in Listed
    BY <2>1, <2>2 DEF Follows, Listed
  <2>4. CASE state[v] # "IDLE"
    <3>1. list' = list /\ state' = state
      BY <2>1, <2>4 DEF Dispose
    <3>2. Listed' = Listed /\ Live' = Live
      BY <3>1 DEF Listed, Live
    <3> QED
      BY <2>1, <2>3, <3>1, <3>2 DEF ListInv
  <2>5. CASE state[v] = "IDLE"
    <3>1. PICK i \in 1 .. Len(list) : list[i] = v /\ list' = RemoveAt(list, i)
      BY <2>1, <2>5 DEF Dispose
    <3>2. state' = [state EXCEPT ![v] = IF detached[v] THEN "FREED" ELSE "UNALLOCED"]
      BY <2>1, <2>5 DEF Dispose
    <3>3. Live' = Live \ {v}
      BY <3>2 DEF Live, TypeOK
    <3>4. u # v
      <4>1. SUFFICES ASSUME u = v PROVE FALSE
        OBVIOUS
      <4>2. Len(list) = 1
        BY <2>1, <2>2, <4>1 DEF Follows, IsLast, ListInv
      <4>3. Listed = {v}
        BY <3>1, <4>2 DEF Listed
      <4>4. Running
        BY <1>2 DEF SwitchStep, Running
      <4> QED
        BY <2>5, <4>3, <4>4, SomebodyIsLeft DEF Unfinished
    <3>5. /\ \A j, k \in 1 .. Len(list') : list'[j] = list'[k] => j = k
          /\ Listed' = Listed \ {v}
      BY <3>1, RemovedFromList
    <3> QED
      BY <2>1, <2>3, <3>3, <3>4, <3>5 DEF ListInv
  <2> QED
    BY <2>4, <2>5
<1>3. ASSUME NEW t \in Threads, ExitFinish(t) PROVE ListInv'
  <2>1. state[t] = "CLEANUP"
    BY <1>3 DEF ExitFinish, At, PlaceInv
  <2>2. Live' = Live
    BY <1>3, <2>1 DEF ExitFinish, Live, TypeOK
  <2>3. Listed' = Listed
    BY <1>3 DEF ExitFinish, Listed
  <2> QED
    BY <1>3, <2>2, <2>3 DEF ExitFinish, ListInv
<1>4. ASSUME NEW t \in Threads, NEW x \in Threads, NEW d \in BOOLEAN, Create(t, x, d)
      PROVE  ListInv'
  <2>1. /\ list' = <<x>> \o list
        /\ state[x] = "NEW"
        /\ state' = [state EXCEPT ![x] = "RUNNING"]
        /\ running' = running
    BY <1>4 DEF Create, Link
  <2>2. /\ Len(list) \in Nat
        /\ Len(list') = Len(list) + 1
        /\ \A j \in 1 .. Len(list) + 1 : list'[j] = IF j = 1 THEN x ELSE list[j - 1]
    BY <2>1 DEF TypeOK
  <2>3. x \notin Listed
    BY <2>1 DEF ListInv, Live
  <2>4. \A j \in 1 .. Len(list) : list[j] # x
    BY <2>3 DEF Listed
  <2>5. Live' = Live \cup {x}
    BY <2>1 DEF Live, TypeOK
  <2>6. ASSUME NEW j \in 1 .. Len(list'), NEW k \in 1 .. Len(list'), list'[j] = list'[k]
        PROVE  j = k
    BY <2>2, <2>4, <2>6 DEF ListInv
  <2>7. Listed' \subseteq Listed \cup {x}
    <3>1. \A j \in 1 .. Len(list') : list'[j] \in Listed \cup {x}
      BY <2>2 DEF Listed
    <3> QED
      BY <3>1 DEF Listed
  <2>8. Listed \subseteq Listed'
    <3>1. \A j \in 1 .. Len(list) : j + 1 \in 1 .. Len(list') /\ list'[j + 1] = list[j]
      BY <2>2
    <3>2. \A j \in 1 .. Len(list) : list[j] \in Listed'
      BY <3>1 DEF Listed
    <3> QED
      BY <3>2 DEF Listed
  <2>9. x \in Listed'
    <3>1. 1 \in 1 .. Len(list') /\ list'[1] = x
      BY <2>2
    <3> QED
      BY <3>1 DEF Listed
  <2> QED
    BY <2>1, <2>5, <2>6, <2>7, <2>8, <2>9 DEF ListInv
<1> QED
  BY <1>1, <1>2, <1>3, <1>4, StepKinds

-----------------------------------------------------------------------------
\* In every step the count is that of the threads that have not finished, the
\* ticker is on if it is above one, and the program ends when it is zero.
LEMMA CountStep ==
  ASSUME TypeOK, PlaceInv, RunInv, JoinInv, CountInv, PositiveInv, [Next]_vars
  PROVE  CountInv' /\ PositiveInv'
<1> USE DEF sched, cancel, gbl, Running
<1>1. CASE QuietStep
  <2>1. Unfinished' = Unfinished
    BY <1>1 DEF QuietStep, Unfinished
  <2> QED
    BY <1>1, <2>1 DEF QuietStep, CountInv, PositiveInv
<1>2. CASE SwitchStep
  <2>1. PICK v \in Threads : Dispose(v)
    BY <1>2 DEF SwitchStep, Visit
  <2>2. Unfinished' = Unfinished
    BY <2>1 DEF Dispose, Unfinished, TypeOK
  <2> QED
    BY <1>2, <2>2 DEF SwitchStep, Visit, CountInv, PositiveInv
<1>3. ASSUME NEW t \in Threads, ExitFinish(t) PROVE CountInv' /\ PositiveInv'
  <2>1. state[t] = "CLEANUP" /\ phase = "user"
    BY <1>3 DEF ExitFinish, At, PlaceInv
  <2>2. num_running' = num_running - 1 /\ ticker' = (ticker /\ num_running - 1 > 1)
    BY <1>3 DEF ExitFinish, TickerNeeded
  <2>3. CASE num_running - 1 <= 0
    BY <1>3, <2>3 DEF ExitFinish, LastThread, CountInv, PositiveInv
  <2>4. CASE ~(num_running - 1 <= 0)
    <3>1. state' = [state EXCEPT ![t] = "IDLE"]
      BY <1>3, <2>4 DEF ExitFinish, LastThread
    <3>2. t \in Unfinished /\ Unfinished' = Unfinished \ {t}
      BY <2>1, <3>1 DEF Unfinished, TypeOK
    <3>3. Cardinality(Unfinished \ {t}) = Cardinality(Unfinished) - 1
      BY <3>2, UnfinishedFinite, FS_RemoveElement
    <3>4. num_running = Cardinality(Unfinished) /\ (ticker <=> num_running > 1)
      BY <2>1 DEF CountInv
    <3>5. num_running' = Cardinality(Unfinished)'
      BY <2>2, <3>2, <3>3, <3>4
    <3>6. ticker' <=> num_running' > 1
      <4>1. /\ num_running - 1 > 1 => num_running > 1
            /\ num_running' > 1 <=> num_running - 1 > 1
        BY <2>2 DEF TypeOK
      <4>2. ticker' <=> (ticker /\ num_running - 1 > 1)
        BY <2>2, Zenon
      <4> QED
        BY <3>4, <4>1, <4>2, Zenon
    <3>7. num_running' > 0
      BY <2>2, <2>4 DEF TypeOK
    <3> QED
      BY <3>5, <3>6, <3>7 DEF CountInv, PositiveInv
  <2> QED
    BY <2>3, <2>4
<1>4. ASSUME NEW t \in Threads, NEW x \in Threads, NEW d \in BOOLEAN, Create(t, x, d)
      PROVE  CountInv' /\ PositiveInv'
  <2>1. /\ num_running' = num_running + 1
        /\ ticker' = (ticker \/ num_running + 1 > 1)
        /\ state[x] = "NEW"
        /\ state' = [state EXCEPT ![x] = "RUNNING"]
        /\ phase = "user"
    BY <1>4 DEF Create, At, TickerNeeded
  <2>2. x \notin Unfinished /\ Unfinished' = Unfinished \cup {x}
    BY <2>1 DEF Unfinished, TypeOK
  <2>3. Cardinality(Unfinished \cup {x}) = Cardinality(Unfinished) + 1
    BY <2>2, UnfinishedFinite, FS_AddElement
  <2>4. num_running = Cardinality(Unfinished) /\ num_running > 0
    BY <2>1 DEF CountInv, PositiveInv
  <2>5. num_running' = Cardinality(Unfinished)'
    BY <2>1, <2>2, <2>3, <2>4
  <2>6. num_running + 1 > 1 /\ num_running' > 1
    BY <2>1, <2>4 DEF TypeOK
  <2>7. ticker'
    BY <2>1, <2>6, Zenon
  <2>8. num_running' > 0
    BY <2>1, <2>4 DEF TypeOK
  <2> QED
    BY <2>5, <2>6, <2>7, <2>8, Zenon DEF CountInv, PositiveInv
<1> QED
  BY <1>1, <1>2, <1>3, <1>4, StepKinds

\* In every step, the program ends only when no other thread is left.
LEMMA ExitStep ==
  ASSUME TypeOK, PlaceInv, RunInv, JoinInv, CountInv, AloneInv,
         ExitsWhenAllDone, [Next]_vars
  PROVE  ExitsWhenAllDone' /\ AloneInv'
<1> USE DEF sched, cancel, gbl, Running
<1>1. CASE QuietStep
  BY <1>1 DEF QuietStep, ExitsWhenAllDone, AloneInv, TypeOK
<1>2. CASE SwitchStep
  <2>1. PICK v \in Threads : Dispose(v)
    BY <1>2 DEF SwitchStep, Visit
  <2>2. \A t \in Threads : state[t] = "NEW" => state'[t] = "NEW"
    BY <2>1 DEF Dispose, TypeOK
  <2>3. phase' \in {"user", "switch"} /\ system_running' = system_running
    BY <1>2 DEF SwitchStep, Visit
  <2> QED
    BY <2>2, <2>3 DEF ExitsWhenAllDone, AloneInv
<1>3. ASSUME NEW t \in Threads, ExitFinish(t) PROVE ExitsWhenAllDone' /\ AloneInv'
  <2>1. state[t] = "CLEANUP" /\ phase = "user" /\ running = t
    BY <1>3 DEF ExitFinish, At, PlaceInv
  <2>2. AloneInv'
    BY <1>3, <2>1 DEF ExitFinish, AloneInv, TypeOK
  <2>3. CASE num_running - 1 <= 0
    <3>1. phase' = "exited" /\ state' = state /\ running' = running
      BY <1>3, <2>3 DEF ExitFinish, LastThread
    <3>2. t \in Unfinished
      BY <2>1 DEF Unfinished
    <3>3. Cardinality(Unfinished \ {t}) = Cardinality(Unfinished) - 1
      BY <3>2, UnfinishedFinite, FS_RemoveElement
    <3>4. IsFiniteSet(Unfinished \ {t}) /\ Cardinality(Unfinished \ {t}) <= 0
      BY <2>1, <2>3, <3>3, UnfinishedFinite, FS_Subset DEF CountInv
    <3>5. Unfinished \ {t} = {}
      BY <3>4, FS_CardinalityType, FS_EmptySet
    <3> QED
      BY <2>1, <2>2, <3>1, <3>5 DEF ExitsWhenAllDone, Unfinished, TypeOK, States
  <2>4. CASE ~(num_running - 1 <= 0)
    BY <1>3, <2>1, <2>2, <2>4 DEF ExitFinish, LastThread, ExitsWhenAllDone
  <2> QED
    BY <2>3, <2>4
<1>4. ASSUME NEW t \in Threads, NEW x \in Threads, NEW d \in BOOLEAN, Create(t, x, d)
      PROVE  ExitsWhenAllDone' /\ AloneInv'
  BY <1>4 DEF Create, At, ExitsWhenAllDone, AloneInv
<1> QED
  BY <1>1, <1>2, <1>3, <1>4, StepKinds

-----------------------------------------------------------------------------
\* A step that leaves exit statuses and joins alone, and disposes of or frees
\* exited threads at most, keeps the results of pthread_join.
LEMMA ResultKept ==
  ASSUME TypeOK, PlaceInv, ResultInv, JoinResult,
         ret' = ret, status' = status, tojoin' = tojoin,
         \A t \in Threads : \/ pc'[t] = pc[t]
                            \/ pc'[t] = "redirected"
                            \/ pc[t] = "join" /\ pc'[t] = "joinwait",
         \A t \in Threads : \/ state'[t] = state[t]
                            \/ state[t] = "IDLE" /\ state'[t] \in {"UNALLOCED", "FREED"}
                            \/ state[t] = "UNALLOCED" /\ state'[t] = "FREED"
  PROVE  ResultInv' /\ JoinResult'
<1>1. \A t \in Threads : tojoin[t] \in Threads \cup {NULL}
  BY DEF TypeOK
<1>2. ResultInv'
  BY DEF ResultInv
<1>3. ASSUME NEW t \in Threads, pc'[t] \in {"join", "joinwait"}, state'[t] = "RUNNING"
      PROVE  /\ ret'[t] = status'[tojoin'[t]] /\ ret'[t] # NULL
             /\ state'[tojoin'[t]] \notin {"NEW", "RUNNING", "JOIN"}
  <2>1. pc[t] \in {"join", "joinwait"} /\ state[t] = "RUNNING"
    BY <1>3
  <2>2. tojoin[t] \in Threads
    BY <1>1, <2>1 DEF ResultInv
  <2>3. /\ ret[t] = status[tojoin[t]] /\ ret[t] # NULL
        /\ state[tojoin[t]] \notin {"NEW", "RUNNING", "JOIN"}
    BY <2>1 DEF JoinResult
  <2> QED
    BY <2>2, <2>3
<1>4. ASSUME NEW t \in Threads, state'[t] \in {"IDLE", "UNALLOCED"}
      PROVE  ret'[t] = status'[t] /\ ret'[t] # NULL
  BY <1>4 DEF JoinResult
<1> QED
  BY <1>2, <1>3, <1>4 DEF JoinResult

\* Exit sets a status nobody has been given yet.
LEMMA ExitResult ==
  ASSUME TypeOK, ResultInv, JoinResult, NEW t \in Threads,
         NEW s \in Statuses, s # NULL, state[t] = "RUNNING",
         pc[t] \in {"user", "redirected"}, Exit(t, s)
  PROVE  ResultInv' /\ JoinResult'
<1> USE DEF cancel, gbl
<1>1. \A u \in Threads : tojoin[u] \in Threads \cup {NULL}
  BY DEF TypeOK
<1>2. /\ tojoin' = [tojoin EXCEPT ![t] = NULL] /\ ret' = ret
      /\ \A u \in Threads \ {t} : state'[u] = state[u] /\ pc'[u] = pc[u] /\ status'[u] = status[u]
      /\ \/ state'[t] = "CLEANUP" /\ pc'[t] = "handlers" /\ status'[t] = s
         \/ state'[t] = state[t] /\ pc'[t] = pc[t] /\ status'[t] = status[t]
  <2>1. CASE system_running
    BY <2>1 DEF Exit, TypeOK
  <2>2. CASE ~system_running
    BY <2>2 DEF Exit
  <2> QED
    BY <2>1, <2>2
<1>3. ResultInv'
  BY <1>2 DEF ResultInv, TypeOK
<1>4. ASSUME NEW u \in Threads, pc'[u] \in {"join", "joinwait"}, state'[u] = "RUNNING"
      PROVE  /\ ret'[u] = status'[tojoin'[u]] /\ ret'[u] # NULL
             /\ state'[tojoin'[u]] \notin {"NEW", "RUNNING", "JOIN"}
  <2>1. u # t /\ pc[u] \in {"join", "joinwait"} /\ state[u] = "RUNNING"
    BY <1>2, <1>4
  <2>2. tojoin[u] \in Threads
    BY <1>1, <2>1 DEF ResultInv
  <2>3. /\ ret[u] = status[tojoin[u]] /\ ret[u] # NULL
        /\ state[tojoin[u]] \notin {"NEW", "RUNNING", "JOIN"}
    BY <2>1 DEF JoinResult
  <2>4. tojoin'[u] = tojoin[u] /\ tojoin[u] # t
    BY <1>2, <2>1, <2>3 DEF TypeOK
  <2> QED
    BY <1>2, <2>2, <2>3, <2>4
<1>5. ASSUME NEW u \in Threads, state'[u] \in {"IDLE", "UNALLOCED"}
      PROVE  ret'[u] = status'[u] /\ ret'[u] # NULL
  BY <1>2, <1>5 DEF JoinResult
<1> QED
  BY <1>3, <1>4, <1>5 DEF JoinResult

\* In every step pthread_join is left with the status of the thread it waited
\* for.
LEMMA ResultStep ==
  ASSUME TypeOK, PlaceInv, RunInv, NewInv, JoinInv, ResultInv, JoinResult,
         [Next]_vars
  PROVE  ResultInv' /\ JoinResult'
<1> USE DEF sched, cancel, gbl
<1>0. /\ \A u \in Threads : u # NULL /\ u \in Statuses
      /\ CANCELED # NULL /\ CANCELED \in Statuses
  BY DEF Threads, NULL, CANCELED, Statuses
<1>1. CASE UNCHANGED vars
  BY <1>1, ResultKept DEF vars
<1>2. CASE Tick
  BY <1>2, ResultKept DEF Tick
<1>3. CASE SwitchStep
  <2>1. PICK u \in Threads, v \in Threads :
          /\ Dispose(v)
          /\ Runnable(u) => SwitchIn(u)
          /\ ~Runnable(u) => pc' = pc
    BY <1>3 DEF SwitchStep, Visit
  <2>2. \A t \in Threads : \/ state'[t] = state[t]
                           \/ state[t] = "IDLE" /\ state'[t] \in {"UNALLOCED", "FREED"}
    BY <2>1 DEF Dispose, TypeOK
  <2>3. \A t \in Threads : pc'[t] = pc[t] \/ pc'[t] = "redirected"
    BY <2>1 DEF SwitchIn, TypeOK
  <2> QED
    BY <1>3, <2>2, <2>3, ResultKept DEF SwitchStep, Visit
<1>4. CASE SwitchDeadlock
  BY <1>4, ResultKept DEF SwitchDeadlock
<1>5. CASE Ended
  BY <1>5, ResultKept DEF Ended, vars
<1>6. ASSUME NEW t \in Threads, Continue(t) PROVE ResultInv' /\ JoinResult'
  <2>1. CASE HandlersDone(t)
    <3>1. state[t] = "CLEANUP" /\ pc[t] = "handlers" /\ status[t] # NULL
      BY <2>1 DEF HandlersDone, At, PlaceInv, ResultInv
    <3>2. /\ status' = status /\ tojoin' = tojoin
          /\ pc' = [pc EXCEPT ![t] = "exit_window"]
          /\ ret' = [u \in Threads |-> IF u \in {t, joined[t]} THEN status[t] ELSE ret[u]]
          /\ state' = [u \in Threads |-> IF u = joined[t] THEN "RUNNING" ELSE state[u]]
      BY <2>1 DEF HandlersDone, SettleJoiner
    <3>3. \A u \in Threads : u = joined[t] =>
            /\ u # t /\ state[u] = "JOIN" /\ tojoin[u] = t
            /\ pc[u] \in {"join", "joinwait"}
      BY <1>0, <3>1, JoinerSleeps
    <3>4. ResultInv'
      BY <3>1, <3>2, <3>3 DEF ResultInv, PlaceInv, TypeOK
    <3>5. ASSUME NEW u \in Threads, pc'[u] \in {"join", "joinwait"}, state'[u] = "RUNNING"
          PROVE  /\ ret'[u] = status'[tojoin'[u]] /\ ret'[u] # NULL
                 /\ state'[tojoin'[u]] \notin {"NEW", "RUNNING", "JOIN"}
      <4>1. CASE u = joined[t]
        BY <3>1, <3>2, <3>3, <4>1
      <4>2. CASE u # joined[t]
        <5>1. u # t /\ pc[u] \in {"join", "joinwait"} /\ state[u] = "RUNNING"
          BY <3>2, <3>5, <4>2 DEF TypeOK
        <5>2. tojoin[u] \in Threads
          BY <5>1 DEF ResultInv, TypeOK
        <5>3. /\ ret[u] = status[tojoin[u]] /\ ret[u] # NULL
              /\ state[tojoin[u]] \notin {"NEW", "RUNNING", "JOIN"}
          BY <5>1 DEF JoinResult
        <5> QED
          BY <3>2, <3>3, <4>2, <5>1, <5>2, <5>3
      <4> QED
        BY <4>1, <4>2
    <3>6. ASSUME NEW u \in Threads, state'[u] \in {"IDLE", "UNALLOCED"}
          PROVE  ret'[u] = status'[u] /\ ret'[u] # NULL
      BY <3>1, <3>2, <3>6 DEF JoinResult
    <3> QED
      BY <3>4, <3>5, <3>6 DEF JoinResult
  <2>2. CASE ExitFinish(t)
    <3>1. state[t] = "CLEANUP" /\ ret[t] = status[t] /\ ret[t] # NULL
      BY <2>2 DEF ExitFinish, At, PlaceInv, ResultInv
    <3>2. /\ status' = status /\ tojoin' = tojoin /\ ret' = ret
          /\ \A u \in Threads \ {t} : state'[u] = state[u] /\ pc'[u] = pc[u]
          /\ \/ state'[t] = "IDLE" /\ pc'[t] = "idle"
             \/ state'[t] = "CLEANUP" /\ pc'[t] = "exit_window"
      BY <2>2, <3>1 DEF ExitFinish, At, TypeOK
    <3>3. ResultInv'
      BY <3>1, <3>2 DEF ResultInv
    <3>4. ASSUME NEW u \in Threads, pc'[u] \in {"join", "joinwait"}, state'[u] = "RUNNING"
          PROVE  /\ ret'[u] = status'[tojoin'[u]] /\ ret'[u] # NULL
                 /\ state'[tojoin'[u]] \notin {"NEW", "RUNNING", "JOIN"}
      <4>1. u # t /\ pc[u] \in {"join", "joinwait"} /\ state[u] = "RUNNING"
        BY <3>2, <3>4
      <4>2. tojoin[u] \in Threads
        BY <4>1 DEF ResultInv, TypeOK
      <4> QED
        BY <3>2, <4>1, <4>2 DEF JoinResult
    <3>5. ASSUME NEW u \in Threads, state'[u] \in {"IDLE", "UNALLOCED"}
          PROVE  ret'[u] = status'[u] /\ ret'[u] # NULL
      BY <3>1, <3>2, <3>5 DEF JoinResult
    <3> QED
      BY <3>3, <3>4, <3>5 DEF JoinResult
  <2>3. CASE IdleYield(t)
    <3>1. state[t] = "IDLE"
      BY <2>3 DEF IdleYield, At, PlaceInv, RunInv, Runnable
    <3>2. state' = state
      BY <2>3, <3>1 DEF IdleYield, TypeOK
    <3> QED
      BY <2>3, <3>2, ResultKept DEF IdleYield
  <2>4. CASE JoinYield(t)
    <3>1. \A u \in Threads : pc'[u] = pc[u] \/ (pc[u] = "join" /\ pc'[u] = "joinwait")
      BY <2>4 DEF JoinYield, At, TypeOK
    <3> QED
      BY <2>4, <3>1, ResultKept DEF JoinYield
  <2>5. CASE JoinReturn(t)
    <3>1. /\ pc' = [pc EXCEPT ![t] = "user"]
          /\ tojoin' = [tojoin EXCEPT ![t] = NULL]
          /\ status' = status /\ ret' = ret /\ state' = state
      BY <2>5 DEF JoinReturn
    <3> QED
      BY <3>1 DEF ResultInv, JoinResult, TypeOK
  <2>6. CASE Redirected(t)
    <3>1. CASE state[t] = "RUNNING"
      BY <1>0, <2>6, <3>1, ExitResult DEF Redirected, At
    <3>2. CASE state[t] # "RUNNING"
      BY <2>6, <3>2, ResultKept DEF Redirected
    <3> QED
      BY <3>1, <3>2
  <2> QED
    BY <1>6, <2>1, <2>2, <2>3, <2>4, <2>5, <2>6 DEF Continue
<1>7. ASSUME NEW t \in Threads, Call(t) PROVE ResultInv' /\ JoinResult'
  <2>1. CASE Yield(t)
    BY <2>1, ResultKept DEF Yield
  <2>2. CASE CreateFails(t)
    BY <2>2, ResultKept DEF CreateFails
  <2>3. CASE ExitCall(t)
    BY <1>0, <2>3, UserRuns, ExitResult DEF ExitCall, At
  <2>4. CASE TestCancel(t)
    BY <1>0, <2>4, ExitResult DEF TestCancel, At
  <2>5. ASSUME NEW b \in BOOLEAN, SetCancelState(t, b) \/ SetCancelType(t, b)
        PROVE  ResultInv' /\ JoinResult'
    BY <2>5, ResultKept DEF SetCancelState, SetCancelType
  <2>6. ASSUME NEW x \in Threads, NEW d \in BOOLEAN, Create(t, x, d)
        PROVE  ResultInv' /\ JoinResult'
    <3>1. /\ status' = status /\ tojoin' = tojoin /\ ret' = ret /\ pc' = pc
          /\ state[x] = "NEW" /\ state' = [state EXCEPT ![x] = "RUNNING"]
      BY <2>6 DEF Create
    <3>2. pc[x] = "user"
      BY <3>1 DEF PlaceInv, TypeOK
    <3> QED
      BY <3>1, <3>2 DEF ResultInv, JoinResult, NewInv, TypeOK
  <2>7. ASSUME NEW x \in Threads, JoinUnalloced(t, x) \/ Detach(t, x)
        PROVE  ResultInv' /\ JoinResult'
    <3>1. \A u \in Threads : state'[u] = state[u] \/ (state[u] = "UNALLOCED" /\ state'[u] = "FREED")
      BY <2>7 DEF JoinUnalloced, Detach, TypeOK
    <3> QED
      BY <2>7, <3>1, ResultKept DEF JoinUnalloced, Detach
  <2>8. ASSUME NEW x \in Threads, JoinSuspends(t, x) PROVE ResultInv' /\ JoinResult'
    <3>1. /\ state[t] = "RUNNING" /\ pc[t] = "user"
          /\ status' = status /\ ret' = ret
          /\ state' = [state EXCEPT ![t] = "JOIN"]
          /\ pc' = [pc EXCEPT ![t] = "join"]
          /\ tojoin' = [tojoin EXCEPT ![t] = x]
      BY <2>8, UserRuns DEF JoinSuspends, At
    <3>2. ResultInv'
      BY <1>0, <3>1 DEF ResultInv, TypeOK
    <3>3. ASSUME NEW u \in Threads, pc'[u] \in {"join", "joinwait"}, state'[u] = "RUNNING"
          PROVE  /\ ret'[u] = status'[tojoin'[u]] /\ ret'[u] # NULL
                 /\ state'[tojoin'[u]] \notin {"NEW", "RUNNING", "JOIN"}
      <4>1. u # t /\ pc[u] \in {"join", "joinwait"} /\ state[u] = "RUNNING"
        BY <3>1, <3>3 DEF TypeOK
      <4>2. tojoin[u] \in Threads
        BY <4>1 DEF ResultInv, TypeOK
      <4> QED
        BY <3>1, <4>1, <4>2 DEF JoinResult, TypeOK
    <3>4. ASSUME NEW u \in Threads, state'[u] \in {"IDLE", "UNALLOCED"}
          PROVE  ret'[u] = status'[u] /\ ret'[u] # NULL
      BY <3>1, <3>4 DEF JoinResult, TypeOK
    <3> QED
      BY <3>2, <3>3, <3>4 DEF JoinResult
  <2>9. ASSUME NEW x \in Threads, Cancel(t, x) PROVE ResultInv' /\ JoinResult'
    BY <2>9, ResultKept DEF Cancel
  <2> QED
    BY <1>7, <2>1, <2>2, <2>3, <2>4, <2>5, <2>6, <2>7, <2>8, <2>9 DEF Call
<1> QED
  BY <1>1, <1>2, <1>3, <1>4, <1>5, <1>6, <1>7 DEF Next

-----------------------------------------------------------------------------
\* Who is ahead of u in the list after the i-th node was removed was ahead of
\* it before.
LEMMA AheadBefore ==
  ASSUME TypeOK, ListInv, NEW i \in 1 .. Len(list), list' = RemoveAt(list, i),
         NEW p \in 1 .. Len(list), NEW q \in 1 .. Len(list'), list'[q] = list[p],
         NEW j \in 1 .. q
  PROVE  \E k \in 1 .. p : list'[j] = list[k]
<1>1. /\ Len(list) \in Nat
      /\ Len(list') = Len(list) - 1
      /\ \A n \in 1 .. Len(list) - 1 :
           list'[n] = IF n < i THEN list[n] ELSE list[n + 1]
  <2>1. list \in Seq(Threads)
    BY DEF TypeOK
  <2>2. /\ Len(RemoveAt(list, i)) = Len(list) - 1
        /\ \A n \in 1 .. Len(list) - 1 :
             RemoveAt(list, i)[n] = IF n < i THEN list[n] ELSE list[n + 1]
    BY <2>1, RemoveAtIndex, Zenon
  <2> QED
    BY <2>1, <2>2
<1>2. \A m, n \in 1 .. Len(list) : list[m] = list[n] => m = n
  BY DEF ListInv
<1>3. p = IF q < i THEN q ELSE q + 1
  <2>1. q \in 1 .. Len(list) - 1 /\ q \in 1 .. Len(list) /\ q + 1 \in 1 .. Len(list)
    BY <1>1
  <2>2. list[p] = IF q < i THEN list[q] ELSE list[q + 1]
    BY <1>1, <2>1
  <2> QED
    BY <1>2, <2>1, <2>2
<1>4. CASE j < i
  <2>1. list'[j] = list[j] /\ j \in 1 .. p
    BY <1>1, <1>3, <1>4
  <2> QED
    BY <2>1
<1>5. CASE ~(j < i)
  <2>1. p = q + 1 /\ j \in 1 .. Len(list) - 1
    BY <1>1, <1>3, <1>5
  <2>2. list'[j] = list[j + 1]
    BY <1>1, <1>5, <2>1
  <2>3. j + 1 \in 1 .. p
    BY <1>1, <2>1
  <2> QED
    BY <2>2, <2>3
<1> QED
  BY <1>4, <1>5

\* A step that does not stutter and is not the scheduler's ends outside the
\* scheduler, or before its first wrap.
LEMMA PhaseKinds ==
  ASSUME [Next]_vars
  PROVE  \/ UNCHANGED vars \/ SwitchStep \/ SwitchDeadlock
         \/ phase' \notin {"switch", "deadlocked"}
         \/ phase' = "switch" /\ iter' = 0
<1> USE DEF sched, At
<1>1. CASE Tick
  BY <1>1 DEF Tick, SwitchBegins
<1>2. ASSUME NEW t \in Threads, Continue(t)
      PROVE  phase' \notin {"switch", "deadlocked"} \/ (phase' = "switch" /\ iter' = 0)
  BY <1>2 DEF Continue, HandlersDone, ExitFinish, IdleYield, JoinYield, JoinReturn,
              Redirected, Exit, SwitchBegins
<1>3. ASSUME NEW t \in Threads, Call(t)
      PROVE  phase' \notin {"switch", "deadlocked"} \/ (phase' = "switch" /\ iter' = 0)
  BY <1>3 DEF Call, Yield, CreateFails, ExitCall, TestCancel, SetCancelState,
              SetCancelType, Create, JoinUnalloced, JoinSuspends, Detach, Cancel,
              Exit, SwitchBegins
<1> QED
  BY <1>1, <1>2, <1>3 DEF Next, Ended

\* In every step the scheduler that has wrapped has seen no runnable thread,
\* although it unlinks nodes from the list that it goes around.
LEMMA DeadlockStep ==
  ASSUME TypeOK, ListInv, CountInv, PositiveInv, SwitchInv, DeadlockIsReal, ListInv',
         [Next]_vars
  PROVE  SwitchInv' /\ DeadlockIsReal'
<1>1. CASE UNCHANGED vars
  BY <1>1 DEF vars, sched, SwitchInv, DeadlockIsReal, Runnable
<1>2. CASE SwitchDeadlock
  BY <1>2 DEF SwitchDeadlock, SwitchInv, DeadlockIsReal, Runnable, TypeOK
<1>3. CASE phase' \notin {"switch", "deadlocked"} \/ (phase' = "switch" /\ iter' = 0)
  BY <1>3 DEF SwitchInv, DeadlockIsReal
<1>4. CASE SwitchStep
  <2>1. PICK u \in Threads, v \in Threads :
          /\ Follows(running, u) /\ Follows(u, v) /\ running' = u /\ Dispose(v)
          /\ Runnable(u) => phase' = "user"
          /\ ~Runnable(u) => phase' = "switch"
    BY <1>4 DEF SwitchStep, Visit
  <2>2. /\ phase = "switch"
        /\ IsLast(running) => iter <= 1 /\ iter' = iter + 1
        /\ ~IsLast(running) => iter' = iter
    BY <1>4 DEF SwitchStep
  <2>3. CASE Runnable(u)
    BY <2>1, <2>3 DEF SwitchInv, DeadlockIsReal
  <2>4. CASE ~Runnable(u)
    <3>1. \A t \in Threads : ~Runnable(t) => state'[t] \notin {"RUNNING", "CLEANUP"}
      BY <2>1 DEF Dispose, Runnable, TypeOK
    <3>2. \A t \in Threads : Runnable(t) => t \in Listed
      BY DEF Runnable, ListInv, Live
    <3>3. PICK k \in 1 .. Len(list) : list[k] = running
      BY DEF ListInv, Listed
    <3>4. Len(list) \in Nat /\ \A m, n \in 1 .. Len(list) : list[m] = list[n] => m = n
      BY DEF TypeOK, ListInv
    <3>5. ASSUME iter' = 2, NEW t \in Threads PROVE ~Runnable(t)
      <4>1. CASE iter = 2
        BY <2>2, <4>1 DEF SwitchInv
      <4>2. CASE iter # 2
        <5>1. IsLast(running) /\ iter = 1
          BY <2>2, <3>5, <4>2 DEF TypeOK
        <5>2. k = Len(list)
          BY <3>3, <3>4, <5>1 DEF IsLast
        <5>3. \A j \in 1 .. Len(list) : ~Runnable(list[j])
          BY <2>2, <3>3, <5>1, <5>2 DEF SwitchInv
        <5> QED
          BY <3>2, <5>3 DEF Listed
      <4> QED
        BY <4>1, <4>2
    <3>6. ASSUME iter' >= 1
          PROVE  \E p \in 1 .. Len(list) :
                   list[p] = u /\ \A j \in 1 .. p : ~Runnable(list[j])
      <4>1. CASE IsLast(running)
        <5>1. u = list[1]
          <6>1. ASSUME NEW i \in 1 .. Len(list) - 1, list[i] = running PROVE FALSE
            BY <3>4, <4>1, <6>1 DEF IsLast
          <6> QED
            BY <2>1, <6>1 DEF Follows
        <5>2. 1 \in 1 .. Len(list) /\ \A j \in 1 .. 1 : ~Runnable(list[j])
          BY <2>4, <3>3, <3>4, <5>1
        <5> QED
          BY <5>1, <5>2
      <4>2. CASE ~IsLast(running)
        <5>1. k + 1 \in 1 .. Len(list) /\ u = list[k + 1]
          BY <2>1, <3>3, <3>4, <4>2 DEF Follows
        <5>2. iter >= 1
          BY <2>2, <3>6, <4>2
        <5>3. \A j \in 1 .. k : ~Runnable(list[j])
          BY <2>2, <3>3, <5>2 DEF SwitchInv
        <5>4. \A j \in 1 .. k + 1 : j \in 1 .. k \/ j = k + 1
          BY <3>3
        <5> QED
          BY <2>4, <5>1, <5>3, <5>4
      <4> QED
        BY <4>1, <4>2
    <3>7. ASSUME iter' >= 1, NEW q \in 1 .. Len(list'), list'[q] = u, NEW j \in 1 .. q
          PROVE  state'[list'[j]] \notin {"RUNNING", "CLEANUP"}
      <4>1. PICK p \in 1 .. Len(list) : list[p] = u /\ \A m \in 1 .. p : ~Runnable(list[m])
        BY <3>6, <3>7
      <4>2. \E m \in 1 .. p : list'[j] = list[m]
        <5>1. CASE list' = list
          BY <3>4, <3>7, <4>1, <5>1
        <5>2. CASE list' # list
          <6>1. PICK i \in 1 .. Len(list) : list' = RemoveAt(list, i)
            BY <2>1, <5>2 DEF Dispose
          <6> QED
            BY <3>7, <4>1, <6>1, AheadBefore
        <5> QED
          BY <5>1, <5>2
      <4>3. PICK m \in 1 .. p : list'[j] = list[m]
        BY <4>2
      <4>4. list[m] \in Threads
        BY <3>4 DEF TypeOK
      <4> QED
        BY <3>1, <4>1, <4>3, <4>4
    <3> QED
      BY <2>1, <2>4, <3>1, <3>5, <3>7 DEF SwitchInv, DeadlockIsReal, Runnable
  <2> QED
    BY <2>3, <2>4
<1> QED
  BY <1>1, <1>2, <1>3, <1>4, PhaseKinds

-----------------------------------------------------------------------------
\* __pthread_prog_init establishes the invariant.
LEMMA InitIInv == Init => IInv
<1> SUFFICES ASSUME Init PROVE IInv
  OBVIOUS
<1>1. TypeOK
  BY InitType
<1>2. main \in Threads /\ \A t \in Threads : t # NULL
  BY NAssumption DEF main, Threads, NULL
<1>3. /\ state[main] = "RUNNING" /\ \A t \in Threads \ {main} : state[t] = "NEW"
      /\ \A t \in Threads : /\ pc[t] = "user" /\ joined[t] = NULL
                            /\ tojoin[t] = NULL /\ state[t] \in {"NEW", "RUNNING"}
  BY <1>2 DEF Init
<1>4. PlaceInv /\ RunInv /\ NewInv /\ AloneInv /\ PositiveInv /\ ResultInv
  BY <1>2, <1>3 DEF Init, PlaceInv, RunInv, Runnable, NewInv, AloneInv, PositiveInv, ResultInv
<1>5. JoinInv /\ JoinResult /\ ExitsWhenAllDone
  BY <1>2, <1>3 DEF Init, JoinInv, Invalid, JoinResult, ExitsWhenAllDone
<1>6. ListInv
  <2>1. Len(list) = 1 /\ list[1] = main
    BY DEF Init
  <2>2. Listed = {main}
    BY <2>1 DEF Listed
  <2>3. Live = {main}
    BY <1>2, <1>3 DEF Live
  <2> QED
    BY <2>1, <2>2, <2>3 DEF Init, ListInv
<1>7. CountInv
  <2>1. Unfinished = {main}
    BY <1>2, <1>3 DEF Unfinished
  <2>2. Cardinality(Unfinished) = 1
    BY <2>1, FS_Singleton
  <2> QED
    BY <2>2 DEF Init, CountInv
<1>8. SwitchInv /\ DeadlockIsReal
  BY DEF Init, SwitchInv, DeadlockIsReal
<1> QED
  BY <1>1, <1>4, <1>5, <1>6, <1>7, <1>8 DEF IInv

\* Every step keeps the invariant.
LEMMA StepIInv == IInv /\ [Next]_vars => IInv'
  BY TypeStep, PlaceStep, JoinStep, ListStep, CountStep, ExitStep,
     ResultStep, DeadlockStep DEF IInv

\* The inductive invariant holds in every reachable state.
LEMMA Invariance == Spec => []IInv
  BY InitIInv, StepIInv, PTL DEF Spec

\* The thread list always has exactly the nodes that are neither unborn nor
\* disposed of, once each, with the scheduler on one of them, whatever the
\* order in which threads are created, exit and are disposed of.
THEOREM ListCorrect == Spec => []ListInv
<1>1. IInv => ListInv
  BY DEF IInv
<1> QED
  BY <1>1, Invariance, PTL

\* pthread_num_running_threads counts the threads that have not finished
\* pthread_exit, and the ticker is on exactly when there are two or more.
THEOREM CountCorrect == Spec => []CountInv
<1>1. IInv => CountInv
  BY DEF IInv
<1> QED
  BY <1>1, Invariance, PTL

\* Who sleeps in pthread_join is the one joiner registered with the thread it
\* waits for, and a registered joiner sleeps.
THEOREM JoinersCorrect == Spec => []JoinInv
<1>1. IInv => JoinInv
  BY DEF IInv
<1> QED
  BY <1>1, Invariance, PTL

\* pthread_join delivers the status that the thread it waited for passed to
\* pthread_exit.
THEOREM JoinDelivers == Spec => []JoinResult
<1>1. IInv => JoinResult
  BY DEF IInv
<1> QED
  BY <1>1, Invariance, PTL

\* pthread_exit ends the program only when no other thread is left.
THEOREM ExitCorrect == Spec => []ExitsWhenAllDone
<1>1. IInv => ExitsWhenAllDone
  BY DEF IInv
<1> QED
  BY <1>1, Invariance, PTL

\* The scheduler reports a deadlock only when no thread can run: two wraps are
\* enough to know, although it unlinks nodes while it goes around.
THEOREM DeadlocksAreReal == Spec => []DeadlockIsReal
<1>1. IInv => DeadlockIsReal
  BY DEF IInv
<1> QED
  BY <1>1, Invariance, PTL

\* The thread list, the count, the ticker and the joiners agree with the states
\* of the threads (create.c, exit.c, join.c, context.c).
THEOREM ThreadsCorrect == Spec => []ThreadInv
  BY TypeCorrect, ListCorrect, CountCorrect, JoinersCorrect, PTL DEF ThreadInv

\* The program ends, or is declared deadlocked, only when it should be.
THEOREM EndCorrect == Spec => []EndIsRight
  BY ExitCorrect, DeadlocksAreReal, PTL DEF EndIsRight
=============================================================================
