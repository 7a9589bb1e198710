# Specifications of GCCSDK's run-time: UnixLib and the Shared Object Manager

GCCSDK is a GNU tool chain for RISC OS: recipes for GCC and binutils, the C
library UnixLib, a manager for shared objects, and tools.  Most of the
repository is third-party code, or sequential programs that a test reaches.
What is its own and hard to test is the run-time that programs share:

- UnixLib's pthreads library, a pre-emptive, single-processor thread system
  built on an OS ticker and a callback, in which a critical section is the
  absence of context switches;
- UnixLib's signals, timers and processes, POSIX semantics on an operating
  system that has none of them;
- the Shared Object Manager, a module that every dynamically linked program
  calls, with a callback that frees what nobody uses.

These specifications model those three.  Paths below are relative to
`src/gcc4/recipe/files/gcc/libunixlib/` unless they start with `src/`;
`module2/` is `src/gcc4/riscos/soloader/module2/` and `d-link/` is
`src/gcc4/riscos/soloader/dynamic/ld.so-1.9.9/d-link/`.

## Inventory

| Component | State | Operations | Interacts with | What makes it correct |
|---|---|---|---|---|
| Locks: `pthread/lock.c`, `mutex.c`, `rwlock.c` | count, owner, type and list of waiting threads of each lock | lock, trylock, unlock, init, destroy | the scheduler (states of threads, yields) | exclusion, no lost wakeup, writers before readers, truthful error codes |
| Threads: `pthread/create.c`, `exit.c`, `join.c`, `detach.c`, `cancel.c`, `testcancel.c`, `newnode.c`, `pthinit.c` | the list of nodes; per node state, joiner, exit status, cancellation; count of running threads | create, exit, join, detach, cancel, testcancel | the scheduler disposes of exited nodes; the ticker is on for two or more | a node is freed once and not used after; joiners get the status; the program ends when all are done |
| Scheduler: `pthread/context.c`, `_yield.s`, `_context.s` | running thread, place in the list | context switch by tick or yield, disposal of idle nodes, asynchronous cancellation, timeouts of condition variables | everything that sets a thread's state | every runnable thread runs, the loop ends, a reported deadlock is one |
| Condition variables: `pthread/cond.c` | list of waiting threads, timeouts | wait, timedwait, signal, broadcast | locks, scheduler | no lost signal, true return codes, a timed wait ends |
| Semaphores: `pthread/sem.c` | count, queue, interlock (a read/write lock) | init, destroy, wait, trywait, post, getvalue | locks, scheduler | no update lost, never taken at zero, waiters proceed |
| Thread signals: `pthread/pthsignal.c` | pending signals of a thread, one mutex | kill, sigwait | condition variables | no wakeup missed, no signal taken twice |
| Once, keys, cleanup handlers: `pthread/once.c`, `key.c`, `keydest.c`, `cleanup.c` | once mutex; lists of keys and values; handler stack | once, key create, delete, set, get; push, pop | locks, `pthread_exit` | exactly once; a new key is NULL; destructors end |
| Signals: `signal/post.c`, `_signal.s`, `sigprocmsk.c`, `sigsuspend.c`, `sys/sigsetjmp.c` | pending, blocked, actions, currently_handling | raise, post, mask, suspend, jump out of a handler | timers, processes | masks restored, nothing lost, handled once, delivery ends |
| Timers: `time/setitmr.c`, `sys/alarm.c`, `signal/sleep.c`, `_signal.s` | itimers, ticker events, callbacks | setitimer, alarm, ualarm, sleep | kernel ticker, signals | the ticker is the one asked for; sleep lasts, ends and restores |
| Processes and files: `unix/unix.c`, `dup2.c`, `fcntl.c`, `ul_close.c`, `wait4.c`, `sys/vfork.c`, `exec.c`, `module/sul.s` | process structures, descriptor tables, handle, tty and area counts | open, pipe, dup, dup2, close, fork, vfork, exec, exit, wait4 | SharedUnixLibrary, Shared Object Manager | counts are exact, no death lost, nothing freed that is in use |
| Shared Object Manager: `module2/`; loader: `d-link/` | libraries with use counts and expiry times, object array, clients and their arrays | run, find, query, load, register, generate, close, exit, expiry callback | ld.so, clock | a library in use stays; lists, counts and arrays agree |
| Critical sections: `pthread/_ints.s` | `pthread_worksemaphore` | disable, enable | ticker and callback | what the other modules take as one step |
| gdbserver, libc proper, rest of ld.so, compilers, asasm, decaof, elftoolchain, tools, autobuilder | | | | vendored, generated or sequential; not modelled |

What is hard: a thread loses the processor between any two instructions outside
a critical section; several calls are two or three critical sections with a
window between them (`lock.c:55`, `exit.c:66`, `pthsignal.c:24`); the scheduler
frees nodes of the list that it walks; a signal can come at every step of
`sleep`; a child is a copy of its parent, status bits and all; and a library
that was found in one SWI can have expired by the next.  `PROJECT.json` lists
the hazards line by line.

## Modules

| Module | Models | Uses |
|---|---|---|
| `RWLockSpec` | what a mutex or a read/write lock promises | |
| `PthreadLock`, `PthreadLockProofs` | `lock.c`, `mutex.c`, `rwlock.c`, and the scheduler as far as locks see it | implements `RWLockSpec` |
| `PthreadThread`, `PthreadThreadProofs` | `create.c`, `exit.c`, `join.c`, `detach.c`, `cancel.c`, `testcancel.c`, `context.c`, with the ticker | |
| `SemSpec` | what a counting semaphore promises | |
| `PthreadSem`, `PthreadSemProofs` | `sem.c` composed with the interlock's code in `lock.c` | implements `SemSpec` |
| `CondSpec` | queues, a mutex, and a wait that gives up the one and joins the other at once | |
| `PthreadCond`, `PthreadCondProofs` | `cond.c` composed with `lock.c` and the timeout of `context.c` | implements `CondSpec` |
| `Pthreads` | the threads and the null pointer that the next three modules share | |
| `PthreadSigwait` | `pthsignal.c`, on condition variables as `CondSpec` has them | `Pthreads` |
| `PthreadOnce` | `once.c`, `cleanup.c`, `cleanupcall.c` | `Pthreads` |
| `PthreadKeys` | `key.c`, `keydest.c`, and `pthread_exit` as far as keys see it | `Pthreads` |
| `Signals`, `SignalsProofs`, `MCSignals` | `post.c`, raise and delivery in `_signal.s`, masks, `sigsuspend.c`, `sigsetjmp.c` | |
| `Alarm`, `MCAlarm` | `setitmr.c`, the ticker routines of `_signal.s`, `alarm.c`, `sleep.c` | |
| `ServicesProofs` | the proofs about `PthreadOnce`, `PthreadSigwait`, `PthreadKeys` and `Alarm` | |
| `Processes`, `ProcessesProofs`, `MCProcesses` | `unix.c`, descriptors, `sul.s`, `vfork.c`, `exec.c`, `wait4.c` | |
| `SharedObjects`, `SharedObjectsProofs`, `MCSharedObjects` | `module2/` and the SWIs of `d-link/readelflib1.c`, `boot1.c`, `dlib.c` | |

In the thread modules one action is what a thread does between two places where
it can lose the processor; the code between `__pthread_disable_ints` and
`__pthread_enable_ints` is one action.  `pc[t]` says in which such gap of a
library call a thread is.  In `Signals`, `Alarm`, `Processes` and
`SharedObjects` one action is what happens between two places where a callback,
another thread or another task can come in.  Operators whose comment begins with
"Mutant of" are plausible mistakes in the definition that follows them; nothing
uses them except to show that a property would notice.

`PthreadSigwait`, `PthreadOnce`, `PthreadKeys` and `Alarm` share one module of
proofs, so the specifications of the first three are `SigwaitSpec`, `OnceSpec`
and `KeysSpec`, and their `pc`s and mutexes are told apart by name.

`Signals`, `Alarm`, `Processes` and `SharedObjects` have a variable (`prog`,
`env`) that is chosen in the initial state and never changes: what kind of
program runs, or what may go wrong around it.  It makes one run of several
instances.  A property that the code only keeps for some of them says so in its
antecedent, by name (`Tame`, `ForksWhole`, `UnixLibOnly`, `ExecsAreLeaves`,
`Undisturbed`, `Registers`); what the code does to the others is under
"Disagreements met".  The hazards in `PROJECT.json` that only such programs meet
have no property; a note says so, also where it is only one side of a hazard
that the properties do not cover.

### PthreadLock

`count`, `owner`, `type` and `waiting` are the fields of `struct
__pthread_lock`, the linked list as a sequence; `state`, `mutex`, `mutextype`
those of a thread's node.  `held`, `ret` and `owed` are history: who holds which
lock, what the last call answered, which threads an unlock woke that have not
run since.  No action's guard depends on history except `LockCall`'s bound
`MaxReads` and `MayUnlock`, an assumption about programs (below).

| Action | Code |
|---|---|
| `LockCall` | the argument checks of `pthread_mutex_lock` and its siblings |
| `LockGranted`, `LockRefused`, `LockBlocks` | `__pthread_lock_lock`, as `Decision` says; `LockBlocks` includes the enqueueing of `__pthread_lock_block` |
| `BlockYield`, `RecheckFails`, `RecheckTakes` | the loop of `__pthread_lock_block` |
| `Unlock`, `UnlockRefused`, `UnlockYield` | `__pthread_lock_unlock`, its critical section and the yield after it |
| `Destroy`, `Reinit` | `pthread_mutex_destroy`, `pthread_rwlock_destroy` and the init functions |
| `Tick` | a context switch by the ticker |
| `Aborted` | after `__pthread_fatal_error` |

Assumed of programs: a read lock is given back only by a thread that holds it
(the code cannot tell), and a lock is neither destroyed nor initialised while
another thread is inside a call on it.  `NULL` arguments, which every function
refuses first, are left out.

`count` is unsigned, as in the code: it wraps at `UINT_MAX`.
`pthread_rwlock_init` answers EBUSY for a lock that is alive, held or not, while
`pthread_rwlock_destroy` does for one that is held or waited for; `ret` keeps the
call with its answer, and `ErrorsAreHonest` says of each what its EBUSY means.

### PthreadThread

`list` is `__pthread_thread_list` along `next`.  `state` adds to
`enum __pthread_state` the values NEW (no node yet) and FREED; nodes are not
used twice.  `phase` tells a thread's own steps from the rounds of the
scheduler's loop, during which nothing else happens, and how the program ended:
`exited`, `deadlocked`, or `derailed`, when `pthread_testcancel` returned to a
place it was never called from.

| Action | Code |
|---|---|
| `Tick`, `Yield` | the ticker's callback; `pthread_yield` |
| `SwitchStep`, `SwitchDeadlock` | one round of the loop of `__pthread_context_switch`, with `__pthread_cleanup_idle` (`Dispose`) and asynchronous cancellation (`SwitchIn`); its fatal error |
| `Create`, `CreateFails` | `pthread_create` |
| `ExitCall`, `HandlersDone`, `ExitFinish`, `IdleYield` | `pthread_exit`: up to the handlers, the two critical sections after them, the idle loop |
| `TestCancel`, `Redirected` | `pthread_testcancel`, called or entered through an overwritten program counter |
| `JoinUnalloced`, `JoinSuspends`, `JoinYield`, `JoinReturn` | `pthread_join` |
| `Detach`, `Cancel`, `SetCancelState`, `SetCancelType` | the calls of that name |

An exit status is abstracted to the thread that exited or `PTHREAD_CANCELED`.
Cleanup handlers and destructors may lose the processor and do nothing else the
model sees: they call no blocking pthread function.  A joiner of a thread in
`STATE_IDLE` is answered at once and changes nothing, so it is no step.
`Detach` and `Cancel` are one step although their validity check precedes the
critical section, because a program must not use a handle that another thread
may be reaping.

### PthreadSem

`usem_count++` is a load and a store (`Load`, `Store`), so that a lost update
would be one.  The interlock is `lock.c` for one read/write lock, its error codes
ignored as `sem.c` ignores them: `LockReturns` covers both the acquiring branches
and EDEADLK.

| Action | Code |
|---|---|
| `SemInit`, `Destroy` | `sem_init`, `sem_destroy` |
| `Call` | the argument checks and the cancellation test at the start of each function |
| `LockReturns`, `LockBlocks`, `LockWoken` | `pthread_rwlock_rdlock` and `_wrlock` on the interlock |
| `WaitTest` | the loop of `sem_wait`: cancellation, count, queue |
| `Load`, `Store`, `PostWake` | the change of the count; `sem_post`'s look at the queue |
| `Finish` | the unlock and what follows it: return, yield and retry, or exit |
| `Cancel`, `SetCancelState` | `pthread_cancel`, `pthread_setcancelstate` |

### PthreadCond

Lists are kept as the code keeps them: heads, and one `nextwait` per thread that
survives the list it was for.  `Members` follows the links.  Time counts ticks of
the monotonic clock; `Deadline` is the conversion of `abstime` through
`time(NULL)`.  `Wait` is `pthread_cond_timedwait` up to its yield, the unlock of
the mutex included (one critical section); `WaitReturns` what follows the yield;
`TimeoutStep` the scheduler's test (`context.c:132-157`); `Signal`, `Broadcast`
the calls; `LockCall`, `LockGranted`, `LockBlocks`, `LockWoken`, `Unlock` the
mutex, which is not recursive.

### PthreadSigwait, PthreadOnce

`KillCall` to `KillSignal` are `pthread_kill` with the mutex, the pending set,
the unlock and the signal to the condition variable each a step of its own;
`WaitCall` to `WaitUnlock` are `sigwait`.  A node's condition variable has only
its own thread as waiter, so its queue is whether that thread is asleep.

`Call`, `Lock`, `Test`, `Push`, `InitReturns`, `Set`, `Unlock` are
`pthread_once` with `pthread_cleanup_push` and `_pop`; `Cancelled` is a
`pthread_exit` inside the init routine, `Cleanup` the handlers it runs.

### PthreadKeys

`KeyCreate`, `KeyCreateFails`, `SetSpecific` are one critical section each;
`KeyDelete` and `KeyDeleteRest` are the test of the list's head and the critical
section after it.  `Exit`, `TakeAndCall`, `TakeAndFree`, `DestructorReturns`,
`Freed`, `ExitRest` are `__pthread_key_calldestructors` inside `pthread_exit`,
with a destructor free to set values.

### Signals

`pc` is where the one process is: in the program, inside `raise`, in
`post_signal` (`post`, `next`, `end`), in a handler, or in `sigsuspend`.
`Raise` and `RaiseRest` are the two halves of raising; `PostHold`, `PostStop`,
`PostIgnore`, `PostDie`, `PostHandle` the verdicts of `post_signal`;
`NextPending`, `NonePending`, `PostReturns` its loop over pending signals;
`HandlerReturns`, `HandlerRestarts`, `Siglongjmp`, `SiglongjmpPlain` the ways out
of a handler; `Sigprocmask`, `Sigaction`, `Sigsuspend`, `SuspendSleeps`,
`SuspendReturns`, `Sigsetjmp` the calls; `Timer` a timer's callback and
`TimerTorn` one that comes inside the read-modify-write of the pending set, which
then loses one of the two updates.

Left out: `__u->stopped`, which no code sets; `sigsuspend` called from a handler;
a timer between the two halves of another timer's raise.

### Alarm

`Tick` lets ticker events expire and ask for a callback; `CallBack` is
`__h_sigalrm` up to the handler, `HandlerReturns` the rest of it, which starts an
interval again.  `SetTimer`, `RemoveTicker`, `Assign`, `AddTicker` are
`setitimer` with the SWIs it calls as separate steps, since a tick inside one
takes effect when it returns.  `SleepBegin`, `SleepArmed`, `Suspend`,
`SuspendSleeps`, `SuspendReturns`, `SleepWoken`, `SleepReturns` are `sleep_int`
with `ualarm` and `sigsuspend`; `Sigaction`, `OtherSignal` the program and the
rest of the world.

A second has three ticks and a tick two microseconds, so that whole seconds,
fractions and rounding up all occur below ten.  A ticker event has a number
(`NewTicker`), since two with the same times can exist side by side after a
handler has set the timer (disagreement 22), and `setitimer` removes one.  Only
SIGALRM has a mask and an action; the other two timers run the same code.  The
loop of `sleep` in a task window is not modelled.

### Processes

One process runs at a time; `cur` is it.  `proc` holds the structures of the
SharedUnixLibrary, `refs` and `dev` the handles, `ttyref` the ttys, `dref` the
count inside a dynamic area, `clients` who is registered with the Shared Object
Manager, `told` what `wait4` answered.

| Action | Code |
|---|---|
| `OpenFd`, `Pipe`, `Close`, `SetFd`, `DupFd` | `open`, `pipe`, `close`, `fcntl` (F_SETFD, F_DUPFD) |
| `Dup2`, `Dup2Copy`, `Dup2Returns` | `dup2`, in which another thread can come between close and copy |
| `Fork`, `ForkFails` | `fork` and `vfork` through `sul_fork`, with its error paths |
| `Exec`, `Start` | `execve`, and `__unixinit` of the new program |
| `Exit`, `ForeignExit` | `_exit` and `sul_exit`; the end of a program without UnixLib |
| `Wait4`, `WaitReturns` | `wait4` and its answer |
| `Over` | nothing can happen any more: all ended, a `wait4` that never answers, or a fork that failed half way |

A fork that failed after the child was linked leaves structures that the code
frees and still uses; such a program is followed no further (`Intact`).  Error
returns that change nothing are left out, as are `__reopen`, the environment,
`setpgrp`, stopped children and the memory that `sul_fork` moves; a vfork child
does not fork before it execs.

### SharedObjects

Every SWI of a load is a step: `Find` (look-up by name), `Query` (its details),
`LoadFile`, `LoadFails`, `RegisterLib`, `NoData`, `Generate`, `GenerateFails`.
`Run` and `RunFails` are `command_run` as a whole, `DlClose`, `RelocFails` and
`Exit` the ways out, `CallBack` the expiry of libraries, `Tick` the clock.

A `dlopen` that fails closes what it has opened (`CloseOpening`), and so lets go
of the libraries that are the client's and removes at once those that nobody has
(`Bogus`): one whose registration failed half way, or one the client has under
two names.  A library whose file cannot be read leaves its memory allocated
(`Unread`).

Left out: the history of clients, printing commands, reading ELF, symbolic links,
the end of the module, and starts that fail before anything has changed.
`dlclose` is called for libraries nobody else in the program has open; a callback
that is due runs before the next centisecond; the client of a query that fails is
not followed further; without `race` a load is not interrupted.

## What TLC checks

| Run | Instance | States | Shows |
|---|---|---|---|
| `lock_rw` | 1 read/write lock, 3 threads, fair | 39,222 | ownership, queue, wakeups, order of readers and writers, fairness to woken threads, internal checks, progress, refinement of `RWLockSpec` |
| `lock_mutex` | one mutex of each type and 1 read/write lock, 2 threads, `UINT_MAX = 3` | 1,263,808 | truthful error codes, full counts refused, real deadlocks |
| `thread` | 3 threads, one cancelled either way while there are two, fair | 44,194 | list, count and ticker, joiners, statuses, end of program, deadlock report; the scheduler's loop ends, runnable threads run, joiners are woken |
| `sem` | 3 threads, 1 reader of the value, 1 cancelled, fair | 203,958 | exclusive interlock, no lost update, no lost wakeup, refinement of `SemSpec`, waiters proceed |
| `cond` | 3 threads, 1 condition variable, a deadline inside a second, fair | 191,166 | lists, wakeups, true return codes, refinement of `CondSpec`, timed waits end |
| `sigwait` | 3 threads, 2 receivers, 1 cancelled, fair | 82,828 | no signal missed or taken twice, signals get through |
| `once` | 3 threads, 2 controls, 2 cancelled, fair | 2,940 | exactly once, alone, done on return, calls return |
| `keys` | 2 threads, 2 keys, 1 deleter, destructor limit 1, fair | 320,752 | fresh keys, own values, nodes freed once, exit ends |
| `signals` | 3 programs, 10 signals, fair | 272,956 | masks, nothing left behind, handled once, none lost, delivery ends, sigsuspend wakes |
| `alarm` | 7 programs, fair | 271,721 | timers match, one ticker, intervals go on, sleep is safe, long enough, restores and ends |
| `processes` | 6 programs, 3 processes, 3 handles, 2 ttys, 2 images | 222,527 | exact counts, family tree, ends reported, areas, clients and ttys kept |
| `som` | 5 settings, 2 clients, 2 blocks, 2 names | 1,450,473 | counts, slots and arrays agree; libraries in use stay although loads fail, idle ones go in time and not before |

A run checks the invariants of a component in a few conjunctions, whose parts the
modules define and explain one by one:

| Invariant | Parts |
|---|---|
| `LockInv` | `TypeOK`, `OwnershipInv`, `QueueInv`, `NoInternalError` |
| `WaitersServed` | `WaitersInv`, which is `NoLostWakeup`, `ReadersStayBehindWriters` and `WokenRunBeforeUnlocker`; and, of steps, `NoReaderOvertakes` |
| `ThreadInv` | `TypeOK`, `ListInv`, `CountInv`, `JoinInv` |
| `EndIsRight` | `ExitsWhenAllDone`, `DeadlockIsReal` |
| `SchedulerProgresses` | `SwitchEnds`, `RunnableRuns` |
| `SemInv` | `TypeOK`, `InterlockProtects`, `CountIsTrue` |
| `CondInv` | `TypeOK`, `ListsInv`, `MutexWakes` |
| `SigwaitInv` | `TypeOK`, `MutexHeld`, `NoSignalMissed`, `TakenOnce` |
| `OnceInv` | `TypeOK`, `OnceOnly`, `InitAlone`, `ReturnsAfterInit` |
| `NodesInv`, `ValuesInv` | `TypeOK`, `NodesAccounted`, `NoWildRead`; `KeysAreFresh`, `GetsWhatWasSet` |
| `SignalsInv` | `TypeOK`, `MaskKept`, `KillNotBlocked`, `NothingLeftBehind`, `TakenOnce` |
| `TimersInv` | `TypeOK`, `TimerMatches`, `OneTicker`, `IntervalGoesOn` |
| `SleepInv` | `SleepIsSafe`, `SleepsLongEnough`, `SleepRestores`, `AlarmOff` |
| `CountsInv` | `TypeOK`, `RefcountExact`, `TtyCountExact`, `AreaShared` |
| `FamilyInv` | `FamilyTree`, `Chain` |
| `UsedIsKept` | `NoEarlyEof`, `TtyKept`, `TtysEnd`, `ClientKept` |
| `ManagerInv` | `TypeOK`, `UsageExact`, `SlotsExact` |
| `LibrariesInv` | `FoundIsThere`, `ListedIsLoaded`, `NothingLost`, `UsedIsCounted`, `ArrayRight`, `GoneInTime` |

Each property, and each part, has a mutant in `PROJECT.json`: a plausible mistake
in one definition under which TLC finds it violated.

### Bounds

Three threads are enough for the interesting cases of a lock: a holder, a
writer that waits and a reader behind it; or an unlocker, the thread it woke and
a third one that comes first.  `MaxReads` keeps readers from adding up without
end: no new read lock is *asked for* while `MaxReads` are held; calls already on
their way may still exceed it, which is how several threads come to read
together with `MaxReads = 1`.  `BoundAssumption` keeps the count of read locks
at or below `UINT_MAX`: in the code that takes as many threads.
`UINT_MAX = 3` brings the limit of a recursive mutex within reach, and leaves
room for the readers of two threads.  In `PthreadThread` three threads give a
joiner, a joined thread and a third whose exit moves the list and the ticker;
`Cancellable`, `Async` and `CancelRoom` say which threads are cancelled and when,
and only keep the number of states down.

`MaxCount` and `MaxTaken` end the counting of a semaphore; with 1 and 2 a count
goes up and down from both initial values.  In `PthreadCond` the clock stops at
`MaxClock`, past the one deadline, which lies inside a second so that the
conversion through whole seconds rounds.  Two receivers and three senders give
`pthread_kill` a signal for a thread that another sender is about to wake; two
controls and three threads let a mutex that serves both be contended.
`KeysMax = 2` and `Iterations = 1` bring both limits of the keys within reach,
and a destructor that sets a value again meets the second.  The three programs
of `MCSignals` are one whose handlers behave, one with a timer, and one whose
handlers jump; each signal is raised `raises` times at most.  Three processes
are a program, its child and a grandchild or a sibling; three descriptors hold
both ends of a pipe and a duplicate.  `SharedObjects` has five settings.  In
`Quiet` a clock of eight values with `max_idle_time` two lets a library be used,
idle, used again and expire.  In `Failing` every step of a load fails in turn.  In
`Wrapping` a clock of three values wraps around `max_idle_time` two, so that a due
time before and one after the wrap both occur, and reads and relocations fail.  In
`Contended` the callback and the other client also come between the SWIs of a
load.  In `Starting` programs fail to start, and libraries expire at once, which
puts the callback between any two steps.  The programs of `MCAlarm` set timers once, from handlers or with
an interval, sleep for whole seconds, less than one or one and a part, with and
without other signals, or set timers and sleep; `maxcalls` ends them, and
`maxslept` the counting of a sleep's ticks.

`CHECK_DEADLOCK FALSE` stands where threads may all have exited or used up their
calls, where a process may be dead, and in `som` where the clock has reached its
last value.

### Fairness

`PthreadLock!FairSpec`: the ticker goes on ticking (weak fairness of `Tick`), a
thread that is given the processor again and again gets on with its library call
(strong fairness, since it is only enabled while it has the processor), and a
program gives back the locks it holds.  `PthreadThread!FairSpec`: a ticker that
is on goes on ticking (`OS_CallEvery`), the scheduler's callback runs to its end,
and threads get on with library calls.  A program is never required to call
anything.  `RunnableRuns` therefore rests on the code's own handling of the
ticker: if it were off with two runnable threads, nothing would force a switch.

The modules above the locks have no processor of their own and take from
`RunnableRuns` that a thread that can go on does: weak fairness of `Continue` in
`PthreadSem`, `PthreadCond` and `PthreadKeys`.  `PthreadCond` also needs that the
clock goes on, that the scheduler looks at sleepers (`SwitchEnds`) and that a
program gives back its mutex.  `PthreadSigwait` and `PthreadOnce` abstract the
queue of their mutex, and a thread in it may find it taken and free again and
again; strong fairness stands for the queue's order, which `PthreadLock` has.
`PthreadKeys` lets a destructor do other things first but not for ever (strong
fairness of `DestructorReturns`).  `Signals`: the process goes on inside the
library, a handler returns at last (it may raise signals first, hence strong
fairness), a `sigsuspend` is completed.  `Alarm`: the clock ticks, callbacks run,
a process gets on with the library call it is in although ticks come in between,
and handlers return.  `Processes` and `SharedObjects` state no liveness:
`GoneInTime` says by the clock when a library must have gone.

### Disagreements met

Where the code does not do what a comment or a header of the repository says, the
models follow the code.  The properties leave these cases out, by a constant or
by an antecedent, both named below; putting the case back makes TLC refute the
property that is about it, with the behaviour described.

Threads (`include/pthread.h` for the quotations without a file):

1. `pthread/lock.c:147`: `owner` names the last reader that acquired the lock
   and stays when that reader unlocks while others still read.  If it now asks
   for the write lock it is told EDEADLK instead of waiting.  `ErrorsAreHonest`
   leaves out EDEADLK for a lock held for reading.
2. `pthread/exit.c:66`: `pthread_exit` wakes its joiner in one critical section
   and becomes idle in the next.  A `pthread_join` in between finds neither an
   idle thread nor one that will still look at `joined`, and sleeps for ever.
   `JoinCompletes` speaks of a thread that is still in its handlers.
3. `pthread/context.c:171`: the scheduler redirects a cancelled asynchronous
   thread each time it is switched in, although it already runs its handlers;
   `pthread_testcancel` then returns to wherever r14 points.  The phase
   `derailed` is that end.
4. `pthread/sem.c:323`: `sem_post`, `sem_wait` and `sem_trywait` ignore the
   result of `pthread_rwlock_wrlock`.  With two threads in `sem_getvalue` the
   stale owner of (1) makes it EDEADLK, and the count is changed without the
   interlock, of which `include/semaphore.h:57` says "Protects data below."
   (`Getters` has one thread in the run and at most one in the proofs.)
5. `pthread/sem.c:228`: `sem_wait` tests `cancelpending` alone and ends a thread
   that has disabled cancellation ("Disable thread from being cancelled",
   line 150).  `WaitTest` has this; no property is about it.
6. `pthread/pthsignal.c:44`: `sigwait` tests for cancellation before it waits
   only, and `pthread_cancel` wakes nobody, though `include/signal.h:267` says
   "This function is a cancellation point."
7. `pthread/once.c:30`: "This won't fail" is said of a lock that fails with
   EDEADLK when an init routine calls `pthread_once`; the inner call then gives
   away the mutex of the outer one and another thread runs the outer routine
   again ("Ensure init_routine is called exactly once", line 431).  `MaxDepth` is
   1 in the run and in the proofs.
8. `pthread/key.c:60`: `pthread_key_delete` tests the list before it disables
   context switches and follows its head after; when another thread deletes the
   last key in between it reads through a null pointer.  `Deleters` has one
   thread.
9. `pthread/keydest.c:23`: the limit of destructor calls counts all keys of a
   thread together, so values beyond it are freed without a call; line 401 calls
   it "Maximum number of times a key destructor will be called".
10. `pthread/keydest.c:28`: `free_unlocked` runs with context switches enabled;
    `stdlib/alloc.c:3911` warns of "a race condition between the pthread context
    switcher and malloc".

Signals (`Tame` and the antecedents of `TakenOnce` and `NoneLost` leave these
out; 13 and 16 have no property):

11. `signal/post.c:734`: a timer's callback between the last test for pending
    signals and `currently_handling = 0` leaves its signal to a loop that is
    over; `incl-local/internal/sigstate.h:45` says "Any raised signals will be
    pended and executed after the current signal has finished executing."  The
    same callback between the halves of `raise` has a signal handled twice.
12. `incl-local/signal.h:23`: signal 33 has no bit in a set of 32; raised while
    another is handled it is lost.
13. `signal/sigprocmsk.c:68`: in a handler the signals it unblocks stay pending,
    against "at least one of those signals will be delivered to the process
    before sigprocmask returns" (line 22).
14. `sys/sigsetjmp.c:31` and `signal/post.c:706`: a handler left by a jump
    without mask, or by a changed pc, leaves `currently_handling` set, and no
    signal is delivered any more.
15. `signal/sigsuspend.c:38`: signals that were pending are delivered before
    `sleeping` is set and do not end the wait ("wait until a signal arrives").
    `SuspendWakes` speaks of handlers that run while it sleeps.
16. `signal/post.c:541`: signals raised in a handler are delivered by number:
    SIGTSTP first, which deletes the SIGCONT raised after it ("SIGCONT clears
    stop signals and resumes the process").

Timers and sleep (the antecedents on `naps`, `times`, `others` and `intervals`):

17. `sys/alarm.c:66`: `ualarm` returns the old microseconds plus the *new*
    seconds.  A sleep of one and a half seconds takes that for a sooner alarm of
    the program's, restores the default action and is killed by SIGALRM; an
    interrupted `sleep (1)` sets an alarm nobody asked for; and an alarm of whole
    seconds is turned off ("Restore the user's alarm if we have not already past
    it", `signal/sleep.c:139`).  `setitimer` itself reports the value that was
    set, also of a timer that has expired (`time/setitmr.c:104`, "information
    about any previous unexpired timer", line 39), so a sleep after an alarm
    long past sets another.  `AlarmOff` therefore speaks of programs that set no
    alarm, and `SleepRestores` and `SleepIsSafe` of naps for which nothing is
    made up (`PlainNaps`).
18. `signal/sleep.c:142`: when another signal ends the sleep, SIGALRM can still
    come before "be sure to turn off the alarm" and kills at line 145.
19. `signal/sleep.c:108`: "Restore sooner alarm" sets sleep's own time.
20. `signal/sleep.c:126`: an alarm that goes off before `sigsuspend` sleeps does
    not wake it (as in 15).
21. `signal/_signal.s:1006`: the next delay is 100 times the seconds plus the
    *micro*seconds, where line 1004 says "delay in csecs".
22. `signal/_signal.s:995`: a handler that sets the timer leaves two tickers
    behind ("Only one timer of each kind can be set", `time/setitmr.c:32`).  So
    does one that sets it while the program is inside `setitimer`, between the
    removal of the ticker and the new one (`time/setitmr.c:117`; `Nests`), and
    so does a tick during that removal that ends an interval timer: its callback
    still sees the old interval, and calls OS_CallEvery (`Undisturbed`).

Processes (`ForksWhole`, `UnixLibOnly`, `ExecsAreLeaves`; 23 and 27 to 31
have no property):

23. `sys/exec.c:436`: close-on-exec is tested in `dflag`, where no code sets it
    (`unix/fcntl.c:69` sets it in `fflag`).
24. `module/sul.s:937` and `:928`: a fork that fails late frees the child's
    structure, which stays on the parent's list, and, when the slot cannot be
    copied, stays `sulproc`.
25. `unix/unix.c:133`: `__free_process` frees the tty of the process that runs
    and not that of the zombie: one in use goes, or one nobody uses stays.  What
    goes by mistake may be allocated again with references from before, so the
    counts of ttys (`TtyCountExact`) are stated of `UnixLibOnly` programs too.
26. `unix/unix.c:448`: a child forked by an exec'd program inherits `execed` and
    deregisters its parent's client ("should not be deregistered", line 441).
27. `sys/exec.c:468`: a child that execs twice leaves the first program's client
    registered.
28. `unix/dup2.c:25`: another thread can take the descriptor between close and
    copy; `dup2` then returns a higher one ("making it open on the same file").
29. `unix/wait4.c:78`: waiting for the caller's group compares a gid with a
    process group and never finds a child.
30. `unix/wait4.c:161`: waiting for a stranger loops for ever where ECHILD is
    promised (line 32).
31. `unix/wait4.c:61`: a core dump is reported as a signal only.

Shared objects (`Undisturbed` for 32 and 33, `Registers` for 34 and 35, and the
antecedents of `UsedIsCounted`, `GoneInTime` and `KeptIdle`):

32. `d-link/readelflib1.c:367`: an idle library is found in one SWI and expires
    before it is registered in a later one.
33. `module2/som_runcom.c:679`: a start that fails late frees the loader's
    memory although it is on the list ("the DL is not linked into the list").
34. `d-link/readelflib1.c:594`: a registration that fails goes unnoticed; the
    library is used and counted for nobody.  If it got as far as
    the list it has no due time there, and the next callback removes it.
35. `module2/som_array.c:116`: the old arrays are freed before the new ones are
    allocated; when that fails a running program has none.
36. `module2/som_main.c:47`: expiry times are compared as unsigned numbers of a
    clock that wraps; a due time past the wrap is met at once, and the library
    goes too early.  `KeptIdle` allows a removal before `max_idle_time` only
    where that time ends past the last value of the clock.

## What is proved

TLAPS checks all theorems, for any number of threads, locks, signals, programs
or clients, from the named assumptions on the constants.  Where the runs check a
conjunction, a theorem of the module combines the parts: `LockCorrect`,
`WaitersCorrect`, `ThreadsCorrect`, `EndCorrect`, `SemCorrect`, `CondCorrect`,
`SigwaitCorrect`, `OnceCorrect`, `NodesCorrect`, `ValuesCorrect`,
`TimersCorrect`, `SleepCorrect`, `SignalsCorrect`, `ManagerCorrect`,
`LibrariesCorrect`, `CountsCorrect`, `FamilyCorrect` and `UsedCorrect`.

`PthreadLockProofs`, from `NAssumption`, `BoundAssumption`, `NullAssumption` and
`KindAssumption` (the four kinds of lock are disjoint): `TypeCorrect`,
`OwnershipCorrect`, `QueueCorrect`, `NoWakeupIsLost`, `WritersComeFirst`,
`ChecksNeverFail`, `DeadlocksAreReal`, `Refinement`, `WaitersCorrect` and
`ErrorsCorrect`.  The invariants hold each other up.  A wakeup is not lost
because the woken threads are exactly those in the list (`QueueInv`), which the
internal checks of the unlock would refute otherwise; the refinement needs
`OwnershipInv`, since `RWLockSpec` speaks of holders and the code of a count and
one owner.  `DeadlockIsReal` follows from `NoLostWakeup`: if nobody can run, no
woken thread waits, so every lock that is waited for is held.  That a woken
thread runs before the one that woke it goes on (`WokenRunBeforeUnlocker`) is a
property of the round robin: `OwedInv` says that the debt is only to threads
that are runnable and still come before the debtor on the way round from the
thread that runs.  `ErrorsAreHonest` is shown of each refusal, from what the
fields say of the holders at that moment.  That the unsigned count of a
read/write lock never wraps is `RoomInv`: the readers that hold it and those on
their way to it (`Askers`) are together at most `MaxReads + N`; a mutex at its
limit refuses.  `WaitersCorrect` joins to the invariants the steps of
`NoReaderOvertakes`: whoever takes a lock for reading while a writer waits was in
the list before that writer.

`PthreadThreadProofs`, from `NAssumption`: `TypeCorrect`, `ListCorrect`,
`CountCorrect`, `JoinersCorrect`, `JoinDelivers`, `ExitCorrect` and
`DeadlocksAreReal`.  `IInv` adds to these properties where a thread in each
state can be in the library (`PlaceInv`, `RunInv`), that nobody knows a thread
before it exists (`NewInv`), that the main thread is alone before the first
`pthread_create` (`AloneInv`), that the count is positive while the program runs
(`PositiveInv`), what a thread carries through `pthread_exit` (`ResultInv`), and
what the scheduler has seen when it has wrapped (`SwitchInv`).  The heart is
`ListStep`: the scheduler may unlink the node after the one it stands on because
the two differ, and they differ because the count says that a thread that is not
idle is left in the list.

`PthreadSemProofs`: `TypeCorrect` and `WakesCorrect` for any threads, and where
at most one thread calls `sem_getvalue` (`OneGetter`, disagreement 4)
`InterlockHolds`, `NoUpdateIsLost` and `Refinement` of `SemSpec`.  `IInv` says
who holds the interlock, for reading or for writing, and that the register of
its holder is still the count; a reader that is alone leaves no stale owner
behind, so nobody is refused the interlock.  It also has the queue of waiters
empty, always: `sem_wait` only ever joins a queue that has somebody in it.

`PthreadCondProofs`, from `ThreadsAssumption` (finitely many threads),
`NullAssumption` and `TimeAssumption`: `CondCorrect`, `WaitCorrect` and
`Refinement` of `CondSpec`.  `Queued` says that the links from a head run
through a sequence without repetitions that holds exactly the threads asleep
there (`Chain`); that sequence is what `Members` and `List` compute
(`ChainList`, by a first position where they could differ, not by an induction
over the list), and `ChainAppend` and `ChainWithout` say what the code's pointer
assignments do to it.  Links left over from earlier lists do no harm since no
chain runs through a thread that is in none.  `WaitTellsTheTruth` needs the
arithmetic of `Deadline`, which is never before `abstime` (`DeadlineIsLate`).

`ServicesProofs`, in four parts:

- signals for a thread: `SigwaitTypeCorrect`, `MutexCorrect`,
  `NoSignalIsMissed`, `SignalsTakenOnce`.  `NoSignalMissed` is inductive with who
  has the mutex and who sleeps (`SigwaitIInv`): a thread goes to sleep with the
  mutex and nothing pending, and whatever is added later is added by a thread
  that has yet to signal it.
- `pthread_once`, for `MaxDepth = 1` (disagreement 7): `OnceTypeCorrect`,
  `CalledOnce`, `NeverTwoInInit`, `ReturnsWhenDone`.  `OnceIInv` says who has the
  mutex at every point, in the cleanup handler of a cancelled call too
  (`HoldsOnceMutex`), and what is known of a control there (`ControlInv`).
- thread specific data, from `ThreadsAssumption`, `ValuesAssumption`,
  `LimitsAssumption` and `NodeAssumption` (a node is not the null pointer):
  `KeysTypeCorrect`, `ValuesCorrect`, and where one thread at most deletes keys
  (`OneDeleter`, disagreement 8) `NodesCorrect`.  `StoredIs` and `TailIs` say
  what setting a key and taking the head off do to the keys in a list and to the
  value of each.  `KeysIInv` has lists and history agree on every key there has
  been (`GetsRight`) and keeps the keys in the lists below the next new one
  (`Created`), which is why a new key reads as NULL everywhere although lists
  keep the values of deleted keys.  It counts the nodes as the sizes of two sets,
  the places in the lists (`Linked`) and the threads with a node in hand
  (`Taking`).
- interval timers and sleep, from `ClockAssumption`, `ProgramsAssumption` and
  `NapsAssumption` (the ticks of a sleep are counted as far as the longest one):
  `TimersCorrect` and `SleepCorrect`, for every set of programs and every
  resolution of the clock.  What sleep's arithmetic comes to is a few lemmas
  about division: the delay for a sleep of *n* ticks is *n* (`NapDelay`), and
  what `ualarm` makes up is the whole seconds of the sleep itself (`MadeUp`).
  `AlarmIInv` says where a program that is inside `setitimer` is on its way to
  (`Place`) and whether SIGALRM is blocked there (`PlaceInv`); that a semaphore
  that is set has a ticker that repeats, and a timer that is set a ticker, a
  callback or a handler that has yet to return (`IntervalInv`); that there is one
  ticker at most unless setting the timer is disturbed, since a callback that is
  due or waits for a handler will add none to one that is there (`OneInv`); which
  ticker a timer that goes off once has at every step (`MatchInv`); and, in a program
  that sets no alarm (`Calm`), what sleep gives to `setitimer` and what it finds
  there (`NapInv`), that its alarm goes off when it has slept long enough and
  leaves nothing behind (`FlightInv`), and which action it meets and gives back
  (`KeptInv`, `RestoredInv`).  `NapInv` needs `FlightInv`: sleep turns its alarm
  off because it has slept for the whole seconds that `ualarm` made up.
  Looking for these invariants showed which conditions the properties need:
  those on `Nests`, `PlainNaps` and programs that set alarms are from there,
  each confirmed by a counterexample.

`SignalsProofs`: `TypeCorrect` for every program, and for programs whose
handlers return, or jump with the mask (`Returning`; timers are allowed)
`MaskIsKept`, `KillIsNotBlocked`, `NothingIsLeftBehind`, `HandledOnce` and
`NoSignalIsLost`.  The last three are about programs without timers, as their
properties say.  `ControlInv` ties `currently_handling` to where control is,
`MaskInv` says where the program's mask is kept at every point (in `blocked`, in
a handler's frame or in `sigsuspend`'s), `PendingInv` what may be pending there,
and `CountInv` that a signal that can still be handled was raised more often
than it has been.

`SharedObjectsProofs`, from `SharedObjectsAssumption`, for every setting,
failures and races included: `TypeCorrect`, `UsageCorrect`, `SlotsCorrect`; and,
under the antecedents of the properties, `LostCorrect`, `ArraysCorrect` (both
with races, where registrations succeed), `LibrariesCorrect` and `KeptCorrect`.  `IInv` adds to the
properties that a task without a client structure has no libraries
(`NewcomersInv`: so a start counts the loader once) and what a loader is about
to register (`LoadInv`).  The proof splits each step into what it does to the
manager (`ObjectsOK`), the programs (`ProgramsOK`) and the clock (`ClockOK`); a
count goes up or down by one because the set of a library's users gains or loses
exactly one client.

Undisturbed, one program loads at a time (`OneLoads`), a loader loads only what
is not among its modules (`LoaderLists`), and what is on the list has a name
(`LoadersInv`); then names, blocks and memory agree (`LoadedInv`), although files,
memory, registrations and relocations fail: what `dlopen` removes at once
(`Bogus`) is not what another loader has found.  While registrations and copies
succeed as well, nothing is removed at once that a program uses, so what it uses
is counted (`AllUsed`).

`TimeInv`, for a clock that does not wrap, adds up due time and time without
clients and relates them to the next callback, whatever fails; `GoneInTime`
follows.  `DueInv`, for a clock that may wrap and with others running in between,
says that the due time of an idle library is `now` plus what is left of
`max_idle_time`, on the clock (`OnClock`); a due time that is met is then that of
a library that has been idle long enough, or one past the last value of the
clock, and that is `KeptIdle`.

`ProcessesProofs`, from `ProcessesAssumption`, `FiniteAssumption` (finitely many
process structures and handles), `NullAssumption` and `DevicesAssumption` (a tty
is not one of the other kinds of device): `CountsCorrect`, `FamilyCorrect`,
`UsedCorrect` and `ReapedCorrect`, for every program.  `IInv` is `Good`, or
`Stuck` after a fork that failed half way, where no step that matters is left.
`Good` counts references as places in the table of all descriptors (`RefsInv`)
and handles and consoles of each tty (`TtysInv`); it says what a structure still
holds that no program runs in (`EmptyInv`), who runs in which image and is a
client (`ImagesInv`), and that the live processes can be written as a sequence
from the oldest to the one that runs, each the parent of the next (`KinInv`).
The sequence grows by a fork and loses its last element by an end, so it needs
no induction; and the counts of a fork or an end follow from what copying or
clearing one row of the table does to them.  The hard step is `__free_process`,
which frees a tree of zombies: `Doomed` is the least set closed under children,
and as the chain has one live child at most below each process, and none below
the one that runs, everything in the tree is a zombie (`GoneIs`).

Only model-checked: every liveness property (`FreedLockIsTaken`,
`SchedulerProgresses`, `JoinCompletes`, `WaiterProceeds`, `TimedWaitEnds`,
`SignalGetsThrough`, `OnceReturns`, `ExitEnds`, `DeliveryEnds`, `SuspendWakes`,
`SleepEnds`), which needs fairness and is out of the prover's reach.  Every
invariant and every action property of the runs is stated by a theorem.

## Not modelled

- The wrap of the 32-bit clock under a timed wait, of which
  `pthread/context.c:138` warns: the clock of `PthreadCond` ends at `MaxClock`.
- Critical sections themselves (`pthread/_ints.s`): taken as one step.  The
  assembler that counts them and remembers missed callbacks is below what the
  properties see.
- Register, stack and floating-point saving (`pthread/_context.s`), the Wimp
  filters that pause the ticker, `__pthread_prog_fini`, memory exhaustion other
  than in `pthread_create`, attribute objects.
- `popen` and `pclose`, reading and writing, sockets, terminals' line discipline.
- Core dumps, backtraces and the hardware exception entries of `_signal.s`.
- gdbserver: driven by a debugger's packets and by exceptions of the program it
  debugs; its state is mostly saved registers and sockets.
- ld.so's symbol look-up and relocation, dlmalloc, libm, gdtoa, regexp, the
  resolver, elftoolchain: vendored.
- The rest of the C library, asasm, decaof, cmunge, elf2aif and the other tools:
  sequential programs from an input to an output, which tests reach.
- The recipes for GCC and binutils and the autobuilder: patches to other
  programs.

## Running

    tlc -config LockRW.cfg PthreadLock
    tlc -config Processes.cfg MCProcesses
    tlapm PthreadThreadProofs.tla
