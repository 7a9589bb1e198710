--------------------------- MODULE PthreadThread ----------------------------
(***************************************************************************)
(* The life of a UnixLib thread (pthread/create.c, exit.c, join.c,         *)
(* detach.c, cancel.c, testcancel.c) and the round-robin scheduler that    *)
(* runs threads and disposes of the exited ones (context.c, _yield.s,      *)
(* _context.s).                                                            *)
(*                                                                         *)
(* A thread's step is what it does between two places where the ticker may *)
(* take the processor away.  The scheduler runs in a callback, so nothing  *)
(* interleaves with it; each round of its loop is one step here, which     *)
(* makes its termination a property instead of an assumption.              *)
(***************************************************************************)
EXTENDS Integers, Sequences, FiniteSets, SequencesExt

CONSTANTS N,            \* thread nodes; node 1 is the static mainthread
          Cancellable,  \* bound: the threads that are cancelled, or set their
                        \* cancellation state
          Async,        \* bound: those that ask for asynchronous cancellation
          CancelRoom    \* bound: cancellation happens while only nodes up to
                        \* this one exist, and no more are created after it

ASSUME NAssumption == N \in Nat \ {0}
ASSUME CancelAssumption == Async \subseteq Cancellable /\ Cancellable \subseteq 1 .. N
ASSUME RoomAssumption == CancelRoom \in Nat

Threads  == 1 .. N
NULL     == 0
main     == 1

\* An exit status is the exiting thread itself or PTHREAD_CANCELED.
CANCELED == -1
Statuses == Threads \cup {NULL, CANCELED}

VARIABLES
  list,            \* __pthread_thread_list, from the head along ->next
  running,         \* __pthread_running_thread
  phase,           \* "user": a thread runs; "switch": in the scheduler's
                   \* loop; otherwise how the program ended
  iter,            \* the scheduler's count of wraps
  state,           \* node->state; also NEW before malloc and FREED after free
  detached,        \* node->detachstate = PTHREAD_CREATE_DETACHED
  joined,          \* node->joined
  ret,             \* node->ret
  cancelpending, cancelstate, canceltype,
                   \* cancelstate: enabled?  canceltype: asynchronous?
  pc,              \* where the thread is in the library
  tojoin,          \* the argument of its pthread_join in progress
  status,          \* the argument of its pthread_exit
  num_running,     \* gbl->pthread_num_running_threads
  ticker,          \* the CallEvery ticker is on
  system_running   \* gbl->pthread_system_running

sched  == <<running, phase, iter>>
cancel == <<cancelpending, cancelstate, canceltype>>
gbl    == <<num_running, ticker, system_running>>
vars   == <<list, sched, state, detached, joined, ret, cancel, pc, tojoin,
            status, gbl>>

States == {"NEW", "RUNNING", "CLEANUP", "JOIN", "IDLE", "UNALLOCED", "FREED"}

TypeOK ==
  /\ list \in Seq(Threads)
  /\ running \in Threads
  /\ phase \in {"user", "switch", "exited", "deadlocked", "derailed"}
  /\ iter \in 0 .. 2
  /\ state \in [Threads -> States]
  /\ detached \in [Threads -> BOOLEAN]
  /\ joined \in [Threads -> Threads \cup {NULL}]
  /\ ret \in [Threads -> Statuses]
  /\ cancelpending \in [Threads -> BOOLEAN]
  /\ cancelstate \in [Threads -> BOOLEAN]
  /\ canceltype \in [Threads -> BOOLEAN]
  /\ pc \in [Threads -> {"user", "handlers", "exit_window", "idle", "join",
                         "joinwait", "redirected"}]
  /\ tojoin \in [Threads -> Threads \cup {NULL}]
  /\ status \in [Threads -> Statuses]
  /\ num_running \in Int
  /\ ticker \in BOOLEAN
  /\ system_running \in BOOLEAN

\* t is about to execute what follows the label `at`.
At(t, at) == phase = "user" /\ running = t /\ pc[t] = at

\* __pthread_invalid: the magic number is only there between the end of
\* pthread_create and the release of the node.
Invalid(x) == state[x] \in {"NEW", "FREED"}

-----------------------------------------------------------------------------
(***************************************************************************)
(* The scheduler.                                                          *)
(***************************************************************************)

SwitchBegins == phase' = "switch" /\ iter' = 0 /\ running' = running

\* The ticker set the callback flag and the running thread is interrupted.
Tick ==
  /\ phase = "user" /\ ticker
  /\ SwitchBegins
  /\ UNCHANGED <<list, state, detached, joined, ret, cancel, pc, tojoin, status, gbl>>

\* pthread_yield does nothing until a thread has been created.
Yield(t) ==
  /\ At(t, "user") /\ system_running
  /\ SwitchBegins
  /\ UNCHANGED <<list, state, detached, joined, ret, cancel, pc, tojoin, status, gbl>>

\* A thread the scheduler may switch in.
Runnable(t) == state[t] \in {"RUNNING", "CLEANUP"}

\* The thread after t in the list, the head after the last one.
IsLast(t) == list[Len(list)] = t
Follows(t, u) == \/ IsLast(t) /\ u = list[1]
                 \/ \E i \in 1 .. Len(list) - 1 : list[i] = t /\ list[i + 1] = u

\* __pthread_cleanup_idle on v, if it is idle and has been unlinked.
Dispose(v) ==
  IF state[v] = "IDLE"
  THEN /\ \E i \in 1 .. Len(list) : list[i] = v /\ list' = RemoveAt(list, i)
       /\ state' = [state EXCEPT ![v] = IF detached[v] THEN "FREED" ELSE "UNALLOCED"]
  ELSE UNCHANGED <<list, state>>

\* The end of __pthread_context_switch: u runs next, unless an asynchronous
\* cancellation sends it to pthread_testcancel instead.
SwitchIn(u) ==
  pc' = [pc EXCEPT ![u] =
           IF cancelpending[u] /\ cancelstate[u] /\ canceltype[u] THEN "redirected" ELSE @]

\* One round of the loop: look at u, the next thread, and dispose of the
\* idle thread that follows it.
Visit ==
  /\ \E u, v \in Threads :
       /\ Follows(running, u) /\ Follows(u, v)
       /\ running' = u
       /\ Dispose(v)
       /\ IF Runnable(u)
          THEN phase' = "user" /\ SwitchIn(u)
          ELSE phase' = "switch" /\ pc' = pc
  /\ UNCHANGED <<detached, joined, ret, cancel, tojoin, status, gbl>>

\* Mutants of SwitchStep: the wraps are not limited, or not counted.
SwitchNeverGivesUp ==
  /\ phase = "switch"
  /\ iter' = IF IsLast(running) THEN iter + 1 ELSE iter
  /\ Visit

SwitchForgetsWraps ==
  /\ phase = "switch"
  /\ iter' = 0
  /\ Visit

SwitchStep ==
  /\ phase = "switch"
  /\ IsLast(running) => iter <= 1
  /\ iter' = IF IsLast(running) THEN iter + 1 ELSE iter
  /\ Visit

\* Mutant of SwitchDeadlock: the first wrap counts as a deadlock.
SwitchDeadlockEarly ==
  /\ phase = "switch"
  /\ IsLast(running)
  /\ phase' = "deadlocked"
  /\ UNCHANGED <<list, running, iter, state, detached, joined, ret, cancel, pc,
                 tojoin, status, gbl>>

\* "Deadlocked (no runnable threads to schedule)": the third wrap.
SwitchDeadlock ==
  /\ phase = "switch"
  /\ IsLast(running) /\ iter > 1
  /\ phase' = "deadlocked"
  /\ UNCHANGED <<list, running, iter, state, detached, joined, ret, cancel, pc,
                 tojoin, status, gbl>>

-----------------------------------------------------------------------------
\* The bound CancelRoom.
NoCancellation ==
  \A t \in Threads : ~cancelpending[t] /\ cancelstate[t] /\ ~canceltype[t]
RoomForCancellation == \A x \in Threads : x > CancelRoom => state[x] = "NEW"

(***************************************************************************)
(* pthread_create.  A node is used once: a handle to a freed node stays    *)
(* invalid here.                                                           *)
(***************************************************************************)

\* Mutants of Link and TickerNeeded: thread->next is not set; the ticker is
\* for three threads or more; the ticker is for a lone thread too.
LinkLosesList(x) == list' = <<x>>
TickerForThree(n) == n > 2
TickerForOne(n) == n > 0

\* A new thread goes to the head of the list.
Link(x) == list' = <<x>> \o list

\* The ticker is for n > 1 threads: __pthread_start_ticker does nothing for
\* fewer, and pthread_exit calls __pthread_stop_ticker.
TickerNeeded(n) == n > 1

Create(t, x, d) ==
  /\ At(t, "user") /\ (x > CancelRoom => NoCancellation)
  /\ state[x] = "NEW" /\ \A y \in Threads : y < x => state[y] # "NEW"
  /\ system_running' = TRUE
  /\ state' = [state EXCEPT ![x] = "RUNNING"]
  /\ detached' = [detached EXCEPT ![x] = d]
  /\ Link(x)
  /\ num_running' = num_running + 1
  /\ ticker' = (ticker \/ TickerNeeded(num_running + 1))
  /\ UNCHANGED <<sched, joined, ret, cancel, pc, tojoin, status>>

\* No memory: EAGAIN, but the thread system counts as running from now on.
CreateFails(t) ==
  /\ At(t, "user")
  /\ system_running' = TRUE
  /\ UNCHANGED <<list, sched, state, detached, joined, ret, cancel, pc, tojoin,
                 status, num_running, ticker>>

-----------------------------------------------------------------------------
(***************************************************************************)
(* pthread_exit.                                                           *)
(***************************************************************************)

\* Up to the cleanup handlers and destructors, which run with context
\* switching enabled.
Exit(t, s) ==
  /\ IF system_running
     THEN /\ state' = [state EXCEPT ![t] = "CLEANUP"]
          /\ pc' = [pc EXCEPT ![t] = "handlers"]
          /\ status' = [status EXCEPT ![t] = s]
          /\ phase' = phase
     ELSE /\ phase' = "exited"
          /\ UNCHANGED <<state, pc, status>>
  /\ tojoin' = [tojoin EXCEPT ![t] = NULL]
  /\ UNCHANGED <<list, running, iter, detached, joined, ret, cancel, gbl>>

ExitCall(t) == At(t, "user") /\ Exit(t, t)

TestCancel(t) ==
  /\ At(t, "user")
  /\ cancelpending[t] /\ cancelstate[t] /\ state[t] = "RUNNING"
  /\ Exit(t, CANCELED)

\* Mutants of SettleJoiner: the joiner stays registered, is not given the
\* status, or is not woken.
JoinerStaysRegistered(t, j) ==
  /\ ret' = [u \in Threads |-> IF u \in {t, j} THEN status[t] ELSE ret[u]]
  /\ state' = [u \in Threads |-> IF u = j THEN "RUNNING" ELSE state[u]]
  /\ joined' = joined

JoinerGetsNoStatus(t, j) ==
  /\ ret' = [ret EXCEPT ![t] = status[t]]
  /\ state' = [u \in Threads |-> IF u = j THEN "RUNNING" ELSE state[u]]
  /\ joined' = [joined EXCEPT ![t] = NULL]

JoinerNotWoken(t, j) ==
  /\ ret' = [u \in Threads |-> IF u \in {t, j} THEN status[t] ELSE ret[u]]
  /\ joined' = [joined EXCEPT ![t] = NULL]
  /\ state' = state

\* The return value is saved, and a joiner j woken with a copy of it.
SettleJoiner(t, j) ==
  /\ ret' = [u \in Threads |-> IF u \in {t, j} THEN status[t] ELSE ret[u]]
  /\ state' = [u \in Threads |-> IF u = j THEN "RUNNING" ELSE state[u]]
  /\ joined' = [joined EXCEPT ![t] = NULL]

\* The critical section after the handlers; a joined thread is detached.
HandlersDone(t) ==
  /\ At(t, "handlers")
  /\ SettleJoiner(t, joined[t])
  /\ detached' = [detached EXCEPT ![t] = @ \/ joined[t] # NULL]
  /\ pc' = [pc EXCEPT ![t] = "exit_window"]
  /\ UNCHANGED <<list, sched, cancel, tojoin, status, gbl>>

\* Mutant of LastThread: the last thread but one ends the program.
LastButOne(n) == n <= 1

LastThread(n) == n <= 0

\* The critical section after __pthread_exit has freed the alloca blocks: the
\* last thread calls exit, another one becomes idle.
ExitFinish(t) ==
  /\ At(t, "exit_window")
  /\ num_running' = num_running - 1
  /\ ticker' = (ticker /\ TickerNeeded(num_running - 1))
  /\ IF LastThread(num_running - 1)
     THEN /\ phase' = "exited"
          /\ UNCHANGED <<state, pc>>
     ELSE /\ state' = [state EXCEPT ![t] = "IDLE"]
          /\ pc' = [pc EXCEPT ![t] = "idle"]
          /\ phase' = phase
  /\ UNCHANGED <<list, running, iter, detached, joined, ret, cancel, tojoin,
                 status, system_running>>

\* while (1) { thread->state = STATE_IDLE; pthread_yield (); }
IdleYield(t) ==
  /\ At(t, "idle")
  /\ state' = [state EXCEPT ![t] = "IDLE"]
  /\ SwitchBegins
  /\ UNCHANGED <<list, detached, joined, ret, cancel, pc, tojoin, status, gbl>>

-----------------------------------------------------------------------------
(***************************************************************************)
(* pthread_join and pthread_detach.  An error code (EDEADLK for oneself,   *)
(* ESRCH, EINVAL for a thread that is joined or detached) changes nothing. *)
(***************************************************************************)

Joinable(t, x) == /\ x # t /\ ~Invalid(x)
                  /\ joined[x] = NULL /\ ~detached[x]

\* The thread has exited and been disposed of: its node is freed.
JoinUnalloced(t, x) ==
  /\ At(t, "user") /\ Joinable(t, x)
  /\ state[x] = "UNALLOCED"
  /\ state' = [state EXCEPT ![x] = "FREED"]
  /\ UNCHANGED <<list, sched, detached, joined, ret, cancel, pc, tojoin, status, gbl>>

\* A thread in STATE_IDLE is answered from its node, which is left as it is:
\* no step.  In any other state the caller goes to sleep.
JoinSuspends(t, x) ==
  /\ At(t, "user") /\ Joinable(t, x)
  /\ state[x] \notin {"UNALLOCED", "IDLE"}
  /\ state' = [state EXCEPT ![t] = "JOIN"]
  /\ joined' = [joined EXCEPT ![x] = t]
  /\ pc' = [pc EXCEPT ![t] = "join"]
  /\ tojoin' = [tojoin EXCEPT ![t] = x]
  /\ UNCHANGED <<list, sched, detached, ret, cancel, status, gbl>>

JoinYield(t) ==
  /\ At(t, "join")
  /\ pc' = [pc EXCEPT ![t] = "joinwait"]
  /\ SwitchBegins
  /\ UNCHANGED <<list, state, detached, joined, ret, cancel, tojoin, status, gbl>>

\* *status = __pthread_running_thread->ret
JoinReturn(t) ==
  /\ At(t, "joinwait")
  /\ pc' = [pc EXCEPT ![t] = "user"]
  /\ tojoin' = [tojoin EXCEPT ![t] = NULL]
  /\ UNCHANGED <<list, sched, state, detached, joined, ret, cancel, status, gbl>>

\* The validity check precedes the critical section; a program must not
\* detach (or cancel) a thread that a third thread may be reaping.
Detach(t, x) ==
  /\ At(t, "user") /\ ~Invalid(x)
  /\ detached' = [detached EXCEPT ![x] = TRUE]
  /\ state' = [state EXCEPT ![x] = IF @ = "UNALLOCED" THEN "FREED" ELSE @]
  /\ UNCHANGED <<list, sched, joined, ret, cancel, pc, tojoin, status, gbl>>

-----------------------------------------------------------------------------
(***************************************************************************)
(* Cancellation.                                                           *)
(***************************************************************************)

Cancel(t, x) ==
  /\ At(t, "user") /\ ~Invalid(x) /\ x \in Cancellable /\ RoomForCancellation
  /\ cancelpending' = [cancelpending EXCEPT ![x] = TRUE]
  /\ UNCHANGED <<list, sched, state, detached, joined, ret, cancelstate,
                 canceltype, pc, tojoin, status, gbl>>

SetCancelState(t, s) ==
  /\ At(t, "user") /\ t \in Cancellable /\ RoomForCancellation
  /\ cancelstate' = [cancelstate EXCEPT ![t] = s]
  /\ UNCHANGED <<list, sched, state, detached, joined, ret, cancelpending,
                 canceltype, pc, tojoin, status, gbl>>

SetCancelType(t, a) ==
  /\ At(t, "user") /\ t \in Async /\ RoomForCancellation
  /\ canceltype' = [canceltype EXCEPT ![t] = a]
  /\ UNCHANGED <<list, sched, state, detached, joined, ret, cancelpending,
                 cancelstate, pc, tojoin, status, gbl>>

\* pthread_testcancel, entered because the scheduler overwrote the thread's
\* program counter.  If it does not exit it returns through whatever the
\* interrupted code had in r14: what happens then is undefined.
Redirected(t) ==
  /\ At(t, "redirected")
  /\ \/ state[t] = "RUNNING" /\ Exit(t, CANCELED)
     \/ /\ state[t] # "RUNNING"
        /\ phase' = "derailed"
        /\ UNCHANGED <<list, running, iter, state, detached, joined, ret, cancel,
                       pc, tojoin, status, gbl>>

-----------------------------------------------------------------------------
\* __pthread_prog_init
Init ==
  /\ list = <<main>>
  /\ running = main
  /\ phase = "user"
  /\ iter = 0
  /\ state = [t \in Threads |-> IF t = main THEN "RUNNING" ELSE "NEW"]
  /\ detached = [t \in Threads |-> FALSE]
  /\ joined = [t \in Threads |-> NULL]
  /\ ret = [t \in Threads |-> NULL]
  /\ cancelpending = [t \in Threads |-> FALSE]
  /\ cancelstate = [t \in Threads |-> TRUE]
  /\ canceltype = [t \in Threads |-> FALSE]
  /\ pc = [t \in Threads |-> "user"]
  /\ tojoin = [t \in Threads |-> NULL]
  /\ status = [t \in Threads |-> NULL]
  /\ num_running = 1
  /\ ticker = FALSE
  /\ system_running = FALSE

\* What a thread inside the library does next.
Continue(t) == \/ HandlersDone(t) \/ ExitFinish(t) \/ IdleYield(t)
               \/ JoinYield(t) \/ JoinReturn(t) \/ Redirected(t)

Call(t) ==
  \/ Yield(t) \/ CreateFails(t) \/ ExitCall(t) \/ TestCancel(t)
  \/ \E b \in BOOLEAN : SetCancelState(t, b) \/ SetCancelType(t, b)
  \/ \E x \in Threads :
       \/ \E d \in BOOLEAN : Create(t, x, d)
       \/ JoinUnalloced(t, x) \/ JoinSuspends(t, x)
       \/ Detach(t, x) \/ Cancel(t, x)

Ended == phase \notin {"user", "switch"} /\ UNCHANGED vars

Next == \/ Tick \/ SwitchStep \/ SwitchDeadlock \/ Ended
        \/ \E t \in Threads : Continue(t) \/ Call(t)

Spec == Init /\ [][Next]_vars

(***************************************************************************)
(* A switched-on ticker goes on ticking, a callback that has begun runs to *)
(* its end, and a thread that is given the processor again and again gets  *)
(* on with the library call it is in.  A program need not do anything.     *)
(***************************************************************************)
FairSpec ==
  /\ Spec
  /\ WF_vars(Tick) /\ WF_vars(SwitchStep \/ SwitchDeadlock)
  /\ \A t \in Threads : SF_vars(Continue(t))

-----------------------------------------------------------------------------
(***************************************************************************)
(* Properties.                                                             *)
(***************************************************************************)

Running == phase \in {"user", "switch"}

\* The threads in the list, the nodes that should be there, and the threads
\* that have not finished pthread_exit.
Listed == {list[i] : i \in 1 .. Len(list)}
Live == {t \in Threads : state[t] \notin {"NEW", "UNALLOCED", "FREED"}}
Unfinished == {t \in Threads : state[t] \in {"RUNNING", "CLEANUP", "JOIN"}}

\* The thread list has exactly the nodes that are neither unborn nor disposed
\* of, once each, and the scheduler always stands on one of them: no node is
\* used after it was freed, and the list is never empty.
ListInv ==
  /\ \A i, j \in 1 .. Len(list) : list[i] = list[j] => i = j
  /\ Listed = Live
  /\ running \in Listed

\* The count is the number of threads that have not finished pthread_exit, and
\* the ticker is on exactly when there is somebody to switch to.
CountInv ==
  Running =>
    /\ num_running = Cardinality(Unfinished)
    /\ ticker <=> num_running > 1

\* A sleeping joiner is registered with the one thread it waits for, and a
\* thread registered as joiner sleeps: nobody else will be sent its wakeup.
JoinInv ==
  \A t, x \in Threads :
    /\ state[t] = "JOIN" => tojoin[t] # NULL
    /\ ~Invalid(x) => (joined[x] = t <=> state[t] = "JOIN" /\ tojoin[t] = x)

\* pthread_join hands over the status its thread passed to pthread_exit: in
\* the caller's node when it was woken, in the exited thread's node before.
JoinResult ==
  \A t \in Threads :
    /\ pc[t] \in {"join", "joinwait"} /\ state[t] = "RUNNING" =>
         /\ ret[t] = status[tojoin[t]] /\ ret[t] # NULL
         /\ state[tojoin[t]] \notin {"NEW", "RUNNING", "JOIN"}
    /\ state[t] \in {"IDLE", "UNALLOCED"} => ret[t] = status[t] /\ ret[t] # NULL

\* pthread_exit ends the program only when no other thread is left.
ExitsWhenAllDone ==
  phase = "exited" => \A t \in Threads \ {running} :
    state[t] \in {"NEW", "IDLE", "UNALLOCED", "FREED"}

\* The scheduler reports a deadlock only when no thread could run: every
\* thread sleeps in pthread_join or has exited.
DeadlockIsReal ==
  phase = "deadlocked" => \A t \in Threads : ~Runnable(t)

\* The scheduler's loop ends.
SwitchEnds == phase = "switch" ~> phase # "switch"

\* Every runnable thread is given the processor, although the ticker is
\* stopped and started as threads come and go.
RunnableRuns ==
  \A t \in Threads : Runnable(t) ~> (running = t /\ phase = "user") \/ ~Running

\* Who sleeps in pthread_join when its thread is in its cleanup handlers is
\* woken.
JoinCompletes ==
  \A t \in Threads :
    state[t] = "JOIN" /\ pc[tojoin[t]] = "handlers"
      ~> state[t] = "RUNNING" \/ ~Running

\* The thread list, the count, the ticker and the joiners agree with the states
\* of the threads, whatever the scheduler has disposed of on its way.
ThreadInv == TypeOK /\ ListInv /\ CountInv /\ JoinInv

\* The program ends when all its threads have, and is aborted for a deadlock
\* only when there is one.
EndIsRight == ExitsWhenAllDone /\ DeadlockIsReal

\* The scheduler's loop ends, and every runnable thread gets the processor.
SchedulerProgresses == SwitchEnds /\ RunnableRuns
=============================================================================
