---------------------------- MODULE PthreadLock -----------------------------
(***************************************************************************)
(* UnixLib's mutexes and read/write locks (pthread/lock.c, mutex.c and     *)
(* rwlock.c): one lock structure, one FIFO list of waiting threads per     *)
(* lock, and a round-robin scheduler that only interrupts a thread while   *)
(* context switching is enabled.                                           *)
(*                                                                         *)
(* A step of the model is what a thread does between two places where the  *)
(* ticker may take the processor away: the code between                    *)
(* __pthread_disable_ints and __pthread_enable_ints is one action.         *)
(***************************************************************************)
EXTENDS Integers, Sequences, SequencesExt

CONSTANTS N,           \* number of threads; thread t + 1 follows t in the list
          NormalMutexes, ErrorcheckMutexes, RecursiveMutexes,
          RWLocks,
          UINT_MAX,    \* the largest value of mutex->count
          MaxReads,    \* bound: read holds at which no more are asked for
          NULL

Threads == 0 .. N - 1
Mutexes == NormalMutexes \cup ErrorcheckMutexes \cup RecursiveMutexes
Locks   == Mutexes \cup RWLocks

ASSUME NAssumption == N \in Nat \ {0}
ASSUME BoundAssumption == /\ UINT_MAX \in Nat \ {0}
                          /\ MaxReads \in Nat
                          /\ RWLocks # {} => MaxReads + N <= UINT_MAX
ASSUME NullAssumption == NULL \notin Threads \cup Locks
ASSUME KindAssumption ==
  /\ NormalMutexes \cap (ErrorcheckMutexes \cup RecursiveMutexes \cup RWLocks) = {}
  /\ ErrorcheckMutexes \cap (RecursiveMutexes \cup RWLocks) = {}
  /\ RecursiveMutexes \cap RWLocks = {}

VARIABLES
  count, owner, type, waiting,
             \* the fields of the pthread_mutex_t / pthread_rwlock_t of a lock
  state,     \* state[t]: node->state, RUNNING or MUTEX_WAIT
  running,   \* __pthread_running_thread
  pc,        \* pc[t]: where t is in the library
  mutex, mutextype, trylock,
             \* the arguments of a thread's call in progress; a blocked thread
             \* keeps the first two in its node
  fatal,     \* which fatal error ended the program, or "none"
  held,      \* history: held[l], one entry per acquisition not given back
  ret,       \* history: the error code the last step returned, if it did, and
             \* the call that returned it
  owed       \* history: owed[t], the threads t's last unlock woke that have
             \* not had the processor since

fields == <<count, owner, type, waiting>>
args   == <<mutex, mutextype, trylock>>
vars   == <<fields, state, running, pc, args, fatal, held, ret, owed>>

Types  == {"READ", "WRITE", "MUTEX"}
Codes  == {"EINVAL", "EBUSY", "EDEADLK", "EAGAIN", "EPERM"}
Calls  == {"lock", "unlock", "destroy", "init"}
NoRet  == [thread |-> NULL, lock |-> NULL, call |-> "none", code |-> "none"]

TypesOf(l) == IF l \in Mutexes THEN {"MUTEX"} ELSE {"READ", "WRITE"}

\* pthread_rwlockattr_init and a NULL attr both leave the default type.
AttrType(l) == IF l \in NormalMutexes THEN "NORMAL"
               ELSE IF l \in RecursiveMutexes THEN "RECURSIVE"
               ELSE "ERRORCHECK"

Returns == [thread : Threads \cup {NULL}, lock : Locks \cup {NULL},
            call : Calls \cup {"none"}, code : Codes \cup {"none"}]

TypeOK ==
  /\ count \in [Locks -> 0 .. UINT_MAX]
  /\ owner \in [Locks -> Threads \cup {NULL}]
  /\ type \in [Locks -> Types \cup {"INVALID"}]
  /\ waiting \in [Locks -> Seq(Threads)]
  /\ state \in [Threads -> {"RUNNING", "MUTEX_WAIT"}]
  /\ running \in Threads
  /\ pc \in [Threads -> {"run", "enter", "block", "recheck", "unlock"}]
  /\ mutex \in [Threads -> Locks \cup {NULL}]
  /\ \A t \in Threads : pc[t] = "run" <=> mutex[t] = NULL
  /\ mutextype \in [Threads -> Types]
  /\ trylock \in [Threads -> BOOLEAN]
  /\ fatal \in {"none", "deadlocked", "not_waiting", "wrong_list"}
  /\ held \in [Locks -> Seq(Threads)]
  /\ ret \in Returns
  /\ owed \in [Threads -> SUBSET Threads]

Holds(t, l) == \E i \in 1 .. Len(held[l]) : held[l][i] = t

\* node->mutex: set by __pthread_lock_block, cleared when it is done.
WaitsFor(t) == IF pc[t] \in {"block", "recheck"} THEN mutex[t] ELSE NULL

Positions(l) == 1 .. Len(waiting[l])

\* The waiting positions of threads that want the lock to themselves.
Writers(l) == {i \in Positions(l) : mutextype[waiting[l][i]] # "READ"}

Error(t, l, f, c) == ret' = [thread |-> t, lock |-> l, call |-> f, code |-> c]
NoError == ret' = NoRet

-----------------------------------------------------------------------------
(***************************************************************************)
(* The scheduler, as far as locks see it.  __pthread_context_switch walks  *)
(* the list from the running thread, wraps, and takes the first thread     *)
(* whose state is RUNNING, the running one itself last.                    *)
(***************************************************************************)

Distance(t, u) == IF u > t THEN u - t ELSE u - t + N

Schedule(st) ==
  \/ /\ \A u \in Threads : st[u] # "RUNNING"
     /\ fatal' = "deadlocked"
     /\ UNCHANGED <<running, owed>>
  \/ /\ \E u \in Threads :
          /\ st[u] = "RUNNING"
          /\ \A v \in Threads : st[v] = "RUNNING" => Distance(running, u) <= Distance(running, v)
          /\ running' = u
          /\ owed' = [v \in Threads |-> owed[v] \ {u}]
     /\ fatal' = fatal

\* The ticker's callback: the running thread loses the processor where it is.
Tick ==
  /\ fatal = "none"
  /\ Schedule(state)
  /\ NoError
  /\ UNCHANGED <<fields, state, pc, args, held>>

-----------------------------------------------------------------------------
(***************************************************************************)
(* Locking.                                                                *)
(***************************************************************************)

\* pthread_mutex_lock and its siblings look at mutex->type before the
\* critical section begins.
LockCall(t, l, ty, try) ==
  /\ fatal = "none" /\ running = t /\ pc[t] = "run"
  /\ ty \in TypesOf(l)
  /\ ty = "READ" => Len(held[l]) < MaxReads
  /\ IF type[l] \in TypesOf(l)
     THEN /\ pc' = [pc EXCEPT ![t] = "enter"]
          /\ mutex' = [mutex EXCEPT ![t] = l]
          /\ mutextype' = [mutextype EXCEPT ![t] = ty]
          /\ trylock' = [trylock EXCEPT ![t] = try]
          /\ NoError
     ELSE /\ Error(t, l, "lock", "EINVAL")
          /\ UNCHANGED <<pc, args>>
  /\ UNCHANGED <<fields, state, running, fatal, held, owed>>

\* Mutants of Decision: || for && in the first test, the writers that wait are
\* not looked at, and a count limit that is one too small or forgotten.
DecisionAnyReader(t) ==
  LET l == mutex[t]
      busy == IF trylock[t] THEN "EBUSY" ELSE "block"
  IN IF owner[l] = NULL \/ type[l] = "READ" \/ mutextype[t] = "READ"
     THEN IF mutextype[t] = "READ" /\ Writers(l) # {} THEN busy ELSE "acquire"
     ELSE busy

DecisionIgnoresWriters(t) ==
  LET l == mutex[t]
      busy == IF trylock[t] THEN "EBUSY" ELSE "block"
  IN IF owner[l] = NULL \/ (type[l] = "READ" /\ mutextype[t] = "READ")
     THEN "acquire"
     ELSE IF owner[l] = t /\ AttrType(l) # "NORMAL"
     THEN IF AttrType(l) = "ERRORCHECK"
          THEN IF trylock[t] THEN "EBUSY" ELSE "EDEADLK"
          ELSE IF count[l] = UINT_MAX THEN "EAGAIN" ELSE "acquire"
     ELSE busy

DecisionNoLimit(t) ==
  LET l == mutex[t]
      busy == IF trylock[t] THEN "EBUSY" ELSE "block"
  IN IF owner[l] = NULL \/ (type[l] = "READ" /\ mutextype[t] = "READ")
     THEN IF mutextype[t] = "READ" /\ Writers(l) # {} THEN busy ELSE "acquire"
     ELSE IF owner[l] = t /\ AttrType(l) # "NORMAL"
     THEN IF AttrType(l) = "ERRORCHECK"
          THEN IF trylock[t] THEN "EBUSY" ELSE "EDEADLK"
          ELSE "acquire"
     ELSE busy

DecisionLimitLow(t) ==
  LET l == mutex[t]
      busy == IF trylock[t] THEN "EBUSY" ELSE "block"
  IN IF owner[l] = NULL \/ (type[l] = "READ" /\ mutextype[t] = "READ")
     THEN IF mutextype[t] = "READ" /\ Writers(l) # {} THEN busy ELSE "acquire"
     ELSE IF owner[l] = t /\ AttrType(l) # "NORMAL"
     THEN IF AttrType(l) = "ERRORCHECK"
          THEN IF trylock[t] THEN "EBUSY" ELSE "EDEADLK"
          ELSE IF count[l] + 1 = UINT_MAX THEN "EAGAIN" ELSE "acquire"
     ELSE busy

\* What __pthread_lock_lock decides: "acquire", "block" or an error code.
Decision(t) ==
  LET l == mutex[t]
      busy == IF trylock[t] THEN "EBUSY" ELSE "block"
  IN IF owner[l] = NULL \/ (type[l] = "READ" /\ mutextype[t] = "READ")
     THEN IF mutextype[t] = "READ" /\ Writers(l) # {} THEN busy ELSE "acquire"
     ELSE IF owner[l] = t /\ AttrType(l) # "NORMAL"
     THEN IF AttrType(l) = "ERRORCHECK"
          THEN IF trylock[t] THEN "EBUSY" ELSE "EDEADLK"
          ELSE IF count[l] = UINT_MAX THEN "EAGAIN" ELSE "acquire"
     ELSE busy

\* __pthread_lock_acquire; the count is an unsigned int.
Acquire(t, l) ==
  /\ owner' = [owner EXCEPT ![l] = t]
  /\ count' = [count EXCEPT ![l] = IF @ = UINT_MAX THEN 0 ELSE @ + 1]
  /\ type' = [type EXCEPT ![l] = mutextype[t]]
  /\ held' = [held EXCEPT ![l] = Append(@, t)]

\* Mutant of Leave: node->mutex is not cleared.
LeaveKeepsMutex(t) ==
  /\ pc' = [pc EXCEPT ![t] = "run"]
  /\ mutextype' = [mutextype EXCEPT ![t] = "MUTEX"]
  /\ trylock' = [trylock EXCEPT ![t] = FALSE]
  /\ UNCHANGED mutex

\* The call is over: t is back in the program.
Leave(t) == /\ pc' = [pc EXCEPT ![t] = "run"]
            /\ mutex' = [mutex EXCEPT ![t] = NULL]
            /\ mutextype' = [mutextype EXCEPT ![t] = "MUTEX"]
            /\ trylock' = [trylock EXCEPT ![t] = FALSE]

LockGranted(t) ==
  /\ fatal = "none" /\ running = t /\ pc[t] = "enter"
  /\ Decision(t) = "acquire"
  /\ Acquire(t, mutex[t])
  /\ Leave(t) /\ NoError
  /\ UNCHANGED <<waiting, state, running, fatal, owed>>

LockRefused(t) ==
  /\ fatal = "none" /\ running = t /\ pc[t] = "enter"
  /\ Decision(t) \in {"EBUSY", "EDEADLK", "EAGAIN"}
  /\ Error(t, mutex[t], "lock", Decision(t))
  /\ Leave(t)
  /\ UNCHANGED <<fields, state, running, fatal, held, owed>>

\* Mutant of LockBlocks: the thread becomes the whole list.
LockBlocksOverwrites(t) ==
  /\ fatal = "none" /\ running = t /\ pc[t] = "enter"
  /\ Decision(t) = "block"
  /\ waiting' = [waiting EXCEPT ![mutex[t]] = <<t>>]
  /\ state' = [state EXCEPT ![t] = "MUTEX_WAIT"]
  /\ pc' = [pc EXCEPT ![t] = "block"]
  /\ NoError
  /\ UNCHANGED <<count, owner, type, running, args, fatal, held, owed>>

\* __pthread_lock_block up to enable_ints: join the end of the list.
LockBlocks(t) ==
  /\ fatal = "none" /\ running = t /\ pc[t] = "enter"
  /\ Decision(t) = "block"
  /\ waiting' = [waiting EXCEPT ![mutex[t]] = Append(@, t)]
  /\ state' = [state EXCEPT ![t] = "MUTEX_WAIT"]
  /\ pc' = [pc EXCEPT ![t] = "block"]
  /\ NoError
  /\ UNCHANGED <<count, owner, type, running, args, fatal, held, owed>>

\* The pthread_yield of __pthread_lock_block.
BlockYield(t) ==
  /\ fatal = "none" /\ running = t /\ pc[t] = "block"
  /\ pc' = [pc EXCEPT ![t] = "recheck"]
  /\ Schedule(state)
  /\ NoError
  /\ UNCHANGED <<fields, state, args, held>>

MayTake(t, l) == \/ owner[l] = NULL
                 \/ mutextype[t] = "READ" /\ type[l] = "READ"

\* Back from pthread_yield and the lock is still taken: wait once more.
RecheckFails(t) ==
  /\ fatal = "none" /\ running = t /\ pc[t] = "recheck"
  /\ ~MayTake(t, mutex[t])
  /\ state' = [state EXCEPT ![t] = "MUTEX_WAIT"]
  /\ pc' = [pc EXCEPT ![t] = "block"]
  /\ NoError
  /\ UNCHANGED <<fields, running, args, fatal, held, owed>>

\* Mutant of RecheckTakes: the thread stays in the list.
RecheckTakesStaysQueued(t) ==
  /\ fatal = "none" /\ running = t /\ pc[t] = "recheck"
  /\ MayTake(t, mutex[t])
  /\ Acquire(t, mutex[t])
  /\ Leave(t) /\ NoError
  /\ UNCHANGED <<waiting, state, running, fatal, owed>>

\* Back from pthread_yield and the lock is available: leave the list, take it.
RecheckTakes(t) ==
  LET l == mutex[t] IN
  /\ fatal = "none" /\ running = t /\ pc[t] = "recheck"
  /\ MayTake(t, l)
  /\ \/ \E i \in Positions(l) :
          /\ waiting[l][i] = t
          /\ waiting' = [waiting EXCEPT ![l] = RemoveAt(@, i)]
          /\ Acquire(t, l)
          /\ Leave(t)
          /\ fatal' = fatal
     \/ /\ \A i \in Positions(l) : waiting[l][i] # t
        /\ fatal' = "not_waiting"
        /\ UNCHANGED <<fields, held, pc, args>>
  /\ NoError
  /\ UNCHANGED <<state, running, owed>>

-----------------------------------------------------------------------------
(***************************************************************************)
(* Unlocking.                                                              *)
(***************************************************************************)

\* The positions __pthread_lock_unlock looks at: up to the first writer.
Scanned(l) == {i \in Positions(l) : \A j \in Writers(l) : i <= j}

\* Mutants of Woken: everybody wakes up, only the head does, the head is
\* skipped, or readers are forgotten.
WokenAll(l) == {waiting[l][i] : i \in Positions(l)}
WokenHead(l) == {waiting[l][i] : i \in Positions(l) \cap {1}}
WokenSkipsHead(l) == {waiting[l][i] : i \in Positions(l) \ {1}}
WokenWriterOnly(l) == {waiting[l][i] : i \in Scanned(l) \cap Writers(l)}

\* The first writer if there is one, every reader otherwise.
Woken(l) == {waiting[l][i] : i \in IF Writers(l) = {} THEN Positions(l)
                                   ELSE Scanned(l) \cap Writers(l)}

NotOwner(t, l) == \/ type[l] # "READ" /\ owner[l] # t
                  \/ count[l] = 0

\* Giving back a read lock one does not hold is an error of the program that
\* the code cannot see (it keeps no list of readers): programs do not do it.
MayUnlock(t, l) == type[l] = "READ" /\ count[l] > 0 => Holds(t, l)

UnlockRefused(t, l) ==
  /\ fatal = "none" /\ running = t /\ pc[t] = "run"
  /\ NotOwner(t, l)
  /\ Error(t, l, "unlock", "EPERM")
  /\ UNCHANGED <<fields, state, running, pc, args, fatal, held, owed>>

GiveBack(t, l) ==
  \/ \E i \in 1 .. Len(held[l]) : /\ held[l][i] = t
                                  /\ held' = [held EXCEPT ![l] = RemoveAt(@, i)]
  \/ ~Holds(t, l) /\ held' = held

\* More acquisitions remain: only the count changes.
UnlockInner(t, l) ==
  /\ count[l] > 1
  /\ count' = [count EXCEPT ![l] = @ - 1]
  /\ UNCHANGED <<owner, state, fatal, owed>>

\* Mutant of UnlockLast: the owner is not reset.
UnlockLastKeepsOwner(t, l) ==
  /\ count[l] = 1
  /\ count' = [count EXCEPT ![l] = 0]
  /\ owed' = [owed EXCEPT ![t] = Woken(l)]
  /\ state' = [u \in Threads |-> IF u \in Woken(l) THEN "RUNNING" ELSE state[u]]
  /\ UNCHANGED <<owner, fatal>>

\* The last acquisition: the lock is free, and waiters are woken.
UnlockLast(t, l) ==
  /\ count[l] = 1
  /\ count' = [count EXCEPT ![l] = 0]
  /\ owner' = [owner EXCEPT ![l] = NULL]
  /\ IF \E i \in Scanned(l) : waiting[l][i] = t \/ WaitsFor(waiting[l][i]) # l
     THEN /\ fatal' = "wrong_list"
          /\ UNCHANGED <<state, owed>>
     ELSE /\ fatal' = fatal
          /\ owed' = [owed EXCEPT ![t] = Woken(l)]
          /\ state' = [u \in Threads |-> IF u \in Woken(l) THEN "RUNNING" ELSE state[u]]

Unlock(t, l) ==
  /\ fatal = "none" /\ running = t /\ pc[t] = "run"
  /\ ~NotOwner(t, l) /\ MayUnlock(t, l)
  /\ UnlockInner(t, l) \/ UnlockLast(t, l)
  /\ GiveBack(t, l)
  /\ pc' = [pc EXCEPT ![t] = "unlock"]
  /\ mutex' = [mutex EXCEPT ![t] = l]
  /\ NoError
  /\ UNCHANGED <<type, waiting, running, mutextype, trylock>>

\* Mutant of UnlockYield: the processor is kept.
UnlockKeepsProcessor(t) ==
  /\ fatal = "none" /\ running = t /\ pc[t] = "unlock"
  /\ Leave(t) /\ NoError
  /\ UNCHANGED <<fields, state, running, fatal, held, owed>>

\* The end of __pthread_lock_unlock reads mutex->waiting with context
\* switching enabled again, and yields if somebody waits.
UnlockYield(t) ==
  /\ fatal = "none" /\ running = t /\ pc[t] = "unlock"
  /\ IF waiting[mutex[t]] # << >>
     THEN Schedule(state)
     ELSE UNCHANGED <<running, fatal, owed>>
  /\ Leave(t) /\ NoError
  /\ UNCHANGED <<fields, state, held>>

-----------------------------------------------------------------------------
(***************************************************************************)
(* Destroying a lock and initialising it again.  Neither call is a         *)
(* critical section: a program must not destroy or initialise a lock while *)
(* another thread is inside a call on it, and a live mutex is not          *)
(* initialised.  pthread_rwlock_init refuses a live read/write lock.       *)
(***************************************************************************)

InUse(l) == \E t \in Threads : mutex[t] = l

Destroy(t, l) ==
  /\ fatal = "none" /\ running = t /\ pc[t] = "run"
  /\ ~InUse(l)
  /\ IF type[l] \notin TypesOf(l)
     THEN Error(t, l, "destroy", "EINVAL") /\ type' = type
     ELSE IF count[l] # 0 \/ waiting[l] # << >>
     THEN Error(t, l, "destroy", "EBUSY") /\ type' = type
     ELSE NoError /\ type' = [type EXCEPT ![l] = "INVALID"]
  /\ UNCHANGED <<count, owner, waiting, state, running, pc, args, fatal, held, owed>>

Reinit(t, l) ==
  /\ fatal = "none" /\ running = t /\ pc[t] = "run"
  /\ \/ /\ type[l] = "INVALID" /\ ~InUse(l)
        /\ count' = [count EXCEPT ![l] = 0]
        /\ owner' = [owner EXCEPT ![l] = NULL]
        /\ type' = [type EXCEPT ![l] = IF l \in Mutexes THEN "MUTEX" ELSE "READ"]
        /\ waiting' = [waiting EXCEPT ![l] = << >>]
        /\ NoError
     \/ /\ l \in RWLocks /\ type[l] \in {"READ", "WRITE"}
        /\ Error(t, l, "init", "EBUSY")
        /\ UNCHANGED fields
  /\ UNCHANGED <<state, running, pc, args, fatal, held, owed>>

\* __pthread_fatal_error does not return.
Aborted == fatal # "none" /\ UNCHANGED vars

-----------------------------------------------------------------------------
Init ==
  /\ count = [l \in Locks |-> 0]
  /\ owner = [l \in Locks |-> NULL]
  /\ type = [l \in Locks |-> IF l \in Mutexes THEN "MUTEX" ELSE "READ"]
  /\ waiting = [l \in Locks |-> << >>]
  /\ state = [t \in Threads |-> "RUNNING"]
  /\ running = 0
  /\ pc = [t \in Threads |-> "run"]
  /\ mutex = [t \in Threads |-> NULL]
  /\ mutextype = [t \in Threads |-> "MUTEX"]
  /\ trylock = [t \in Threads |-> FALSE]
  /\ fatal = "none"
  /\ held = [l \in Locks |-> << >>]
  /\ ret = NoRet
  /\ owed = [t \in Threads |-> {}]

\* What a thread inside a call does next.
Continue(t) == \/ LockGranted(t) \/ LockRefused(t) \/ LockBlocks(t)
               \/ BlockYield(t) \/ RecheckFails(t) \/ RecheckTakes(t)
               \/ UnlockYield(t)

Next ==
  \/ Tick
  \/ Aborted
  \/ \E t \in Threads :
       \/ Continue(t)
       \/ \E l \in Locks :
            \/ \E ty \in Types, try \in BOOLEAN : LockCall(t, l, ty, try)
            \/ Unlock(t, l)
            \/ UnlockRefused(t, l)
            \/ Destroy(t, l)
            \/ Reinit(t, l)

Spec == Init /\ [][Next]_vars

(***************************************************************************)
(* The ticker goes on ticking while more than one thread exists; a thread  *)
(* that is given the processor again and again gets on with the library    *)
(* call it is in; and a program gives back what it holds.                  *)
(***************************************************************************)
FairSpec ==
  /\ Spec
  /\ WF_vars(Tick)
  /\ \A t \in Threads : SF_vars(Continue(t))
  /\ \A t \in Threads, l \in Locks : SF_vars(Holds(t, l) /\ Unlock(t, l))

-----------------------------------------------------------------------------
(***************************************************************************)
(* Properties.                                                             *)
(***************************************************************************)

\* count, owner and type agree with who really holds the lock: the count is
\* the number of acquisitions not given back, a lock without owner is free,
\* and a lock not held for reading is held by its owner alone.
OwnershipInv ==
  \A l \in Locks :
    /\ Len(held[l]) = count[l]
    /\ owner[l] = NULL <=> count[l] = 0
    /\ type[l] # "READ" => \A i \in 1 .. Len(held[l]) : held[l][i] = owner[l]
    /\ count[l] > 1 => type[l] = "READ" \/ l \in RecursiveMutexes
    /\ count[l] > 0 => type[l] \in TypesOf(l)

\* A thread is in the waiting list of a lock exactly while it is inside
\* __pthread_lock_block for that lock, once, and only such a thread sleeps.
QueueInv ==
  /\ \A l \in Locks :
       /\ \A i, j \in Positions(l) : waiting[l][i] = waiting[l][j] => i = j
       /\ \A t \in Threads :
            WaitsFor(t) = l <=> \E i \in Positions(l) : waiting[l][i] = t
  /\ \A t \in Threads : state[t] = "MUTEX_WAIT" => pc[t] \in {"block", "recheck"}

\* No wakeup is lost.  If a lock is free and some thread waits to have it to
\* itself, such a thread has been woken; and a reader only sleeps while the
\* lock is held for writing or such a thread is in the list.
NoLostWakeup ==
  \A l \in Locks :
    /\ owner[l] = NULL /\ Writers(l) # {}
         => \E i \in Writers(l) : state[waiting[l][i]] = "RUNNING"
    /\ owner[l] = NULL \/ type[l] = "READ"
         => \A i \in Positions(l) : state[waiting[l][i]] = "MUTEX_WAIT" => Writers(l) # {}

\* A reader that queued up behind a writer is not woken while that writer
\* waits ("block to prevent writer starvation", lock.c).
ReadersStayBehindWriters ==
  \A l \in Locks : \A i \in Positions(l), j \in Writers(l) :
    j < i /\ i \notin Writers(l) => state[waiting[l][i]] = "MUTEX_WAIT"

\* A thread that unlocks with others waiting "yields once the lock has been
\* given up, to prevent possible starvation": by the time it runs program code
\* again, every thread its unlock woke has had the processor.
WokenRunBeforeUnlocker ==
  \A t \in Threads : running = t /\ pc[t] = "run" => owed[t] = {}

\* The consistency checks of lock.c that abort the program never fail.
NoInternalError == fatal \notin {"not_waiting", "wrong_list"}

\* "Deadlocked (no runnable threads to schedule)" is only reported when every
\* thread waits for a lock that somebody holds.
DeadlockIsReal ==
  fatal = "deadlocked" =>
    \A t \in Threads : WaitsFor(t) # NULL /\ held[WaitsFor(t)] # << >>

\* An error code tells the truth about the lock: EDEADLK and EAGAIN go to a
\* holder, EPERM to a thread that does not hold the lock, EINVAL when it is
\* destroyed.  EBUSY from pthread_rwlock_init says that the lock is alive, from
\* any other call that it is held or waited for.  A lock held for reading is
\* left out of the first: its owner field names the last thread that got it,
\* which may have given it back, and then is told EDEADLK all the same.
ErrorsAreHonest ==
  LET t == ret.thread  l == ret.lock IN
  /\ ret.code = "EDEADLK" /\ type[l] # "READ" => Holds(t, l)
  /\ ret.code = "EAGAIN" => Holds(t, l) /\ Len(held[l]) = UINT_MAX
  /\ ret.code = "EPERM" => ~Holds(t, l)
  /\ ret.code = "EBUSY" => IF ret.call = "init" THEN type[l] \in TypesOf(l)
                           ELSE held[l] # << >> \/ waiting[l] # << >>
  /\ ret.code = "EINVAL" => type[l] = "INVALID" /\ held[l] = << >>

\* A freed lock that threads wait for is taken again by somebody.
FreedLockIsTaken ==
  \A l \in Locks : (owner[l] = NULL /\ waiting[l] # << >>) ~> owner[l] # NULL

\* The locks implement RWLockSpec: the mode is read off the type field.
Abstract == INSTANCE RWLockSpec WITH
  Recursive <- RecursiveMutexes,
  holders <- held,
  mode <- [l \in Locks |-> IF count[l] = 0 THEN "FREE" ELSE type[l]]

\* Every step of the code is a step of the abstract lock or leaves it alone.
ImplementsRWLock == Abstract!Spec

\* The lock structures, the threads' fields and who holds what agree, and the
\* consistency checks of lock.c never abort the program.
LockInv == TypeOK /\ OwnershipInv /\ QueueInv /\ NoInternalError

\* An unlock wakes whom it should: nobody sleeps by a free lock, readers stay
\* behind a waiting writer, and who was woken runs before the unlocker goes on.
WaitersInv ==
  /\ NoLostWakeup
  /\ ReadersStayBehindWriters
  /\ WokenRunBeforeUnlocker

\* No reader overtakes a writer that waits, neither one that asks now nor one
\* that was woken: who takes the lock for reading while writers wait was in the
\* list before each of them ("block to prevent writer starvation", lock.c).
NoReaderOvertakes ==
  \A l \in Locks :
    held'[l] = Append(held[l], running) /\ type'[l] = "READ"
      => \A j \in Writers(l) : \E i \in 1 .. j - 1 : waiting[l][i] = running

\* The waiting list does its work: nobody is forgotten, woken too early or
\* overtaken.
WaitersServed == []WaitersInv /\ [][NoReaderOvertakes]_vars
=============================================================================
