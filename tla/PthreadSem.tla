----------------------------- MODULE PthreadSem -----------------------------
(***************************************************************************)
(* UnixLib's POSIX semaphores (pthread/sem.c): a count guarded by a        *)
(* read/write lock, the interlock, whose error codes are ignored.          *)
(*                                                                         *)
(* Any thread that is not asleep may take the next step: the ticker can    *)
(* give it the processor between any two of them.  usem_count++ and        *)
(* usem_count-- are a load and a store; it is unsigned, and -1 stands for  *)
(* UINT_MAX, which a lost update could lead to.  The interlock is lock.c,  *)
(* each critical section of it a step; PthreadLock is about that code.     *)
(***************************************************************************)
EXTENDS Integers, Sequences, SequencesExt

CONSTANTS Threads,
          Getters,     \* the threads that call sem_getvalue
          Cancellable, \* the threads that pthread_cancel is called for
          Values,      \* the values sem_init is called with
          MaxCount,    \* bound: no sem_post at this count or above
          MaxTaken,    \* bound: no call at this number of semaphores taken
          NULL

ASSUME GettersAssumption == Getters \subseteq Threads /\ Cancellable \subseteq Threads
ASSUME ValuesAssumption == Values \subseteq Nat /\ Values # {}
ASSUME BoundAssumption == MaxCount \in Nat /\ MaxTaken \in Nat
ASSUME NullAssumption == NULL \notin Threads

VARIABLES
  magic,         \* usem_magic is USEM_MAGIC
  usem_count,
  usem_waiters,  \* the threads of the queue
  owner, lcount, ltype, waiting,
                 \* the fields of usem_interlock
  asleep,        \* the threads in STATE_MUTEX_WAIT or STATE_BLOCKED
  cancelpending, cancelstate,
  pc,            \* pc[t]: where t is in the library
  op,            \* op[t]: the function that t is in
  reg,           \* reg[t]: the usem_count that t has loaded
  initial, posted, taken
                 \* history: the value at sem_init, the increments, the
                 \* decrements since then

sem       == <<magic, usem_count, usem_waiters>>
interlock == <<owner, lcount, ltype, waiting>>
cancel    == <<cancelpending, cancelstate>>
history   == <<initial, posted, taken>>
vars      == <<sem, interlock, asleep, cancel, pc, op, reg, history>>

Ops == {"wait", "trywait", "post", "getvalue"}
None == "none"
Pcs == {"idle", "lock", "blocked", "test", "load", "store", "wake", "unlock",
        "retry", "cancelled", "exited"}

\* What a function asks of the interlock.
Want(o) == IF o = "getvalue" THEN "READ" ELSE "WRITE"

TypeOK ==
  /\ magic \in BOOLEAN
  /\ usem_count \in Int
  /\ usem_waiters \in Seq(Threads)
  /\ owner \in Threads \cup {NULL}
  /\ lcount \in Nat
  /\ ltype \in {"READ", "WRITE"}
  /\ waiting \in Seq(Threads)
  /\ asleep \in SUBSET Threads
  /\ cancelpending \in [Threads -> BOOLEAN]
  /\ cancelstate \in [Threads -> BOOLEAN]
  /\ pc \in [Threads -> Pcs]
  /\ op \in [Threads -> Ops \cup {None}]
  /\ \A t \in Threads : pc[t] \notin {"idle", "exited"} => op[t] \in Ops
  /\ reg \in [Threads -> Int]
  /\ initial \in Nat /\ posted \in Nat /\ taken \in Nat

Goto(t, l) == pc' = [pc EXCEPT ![t] = l]
At(t, l)   == pc[t] = l /\ t \notin asleep

-----------------------------------------------------------------------------
(***************************************************************************)
(* The interlock (lock.c).                                                 *)
(***************************************************************************)

WriterWaits == \E i \in 1 .. Len(waiting) : Want(op[waiting[i]]) = "WRITE"

Acquire(t) == /\ owner' = t
              /\ lcount' = lcount + 1
              /\ ltype' = Want(op[t])

\* Where a function goes on once it has called pthread_rwlock_wrlock or rdlock.
AfterLock(t) == CASE op[t] = "wait" -> "test"
                  [] op[t] \in {"trywait", "post"} -> "load"
                  [] op[t] = "getvalue" -> "unlock"

Available(t) == owner = NULL \/ (ltype = "READ" /\ Want(op[t]) = "READ")

Queues(t) == IF Available(t) THEN Want(op[t]) = "READ" /\ WriterWaits
             ELSE owner # t

\* Mutant of LockReturns: nobody waits, whoever holds the lock.
LockNeverWaits(t) ==
  /\ At(t, "lock") /\ (~Queues(t) \/ ~Available(t))
  /\ IF Available(t) THEN Acquire(t) ELSE UNCHANGED <<owner, lcount, ltype>>
  /\ Goto(t, AfterLock(t))
  /\ UNCHANGED <<sem, waiting, asleep, cancel, op, reg, history>>

\* The lock is acquired; or the last thread to have acquired it asks for it
\* again and gets EDEADLK, which no function of sem.c looks at.
LockReturns(t) ==
  /\ At(t, "lock") /\ ~Queues(t)
  /\ IF Available(t) THEN Acquire(t) ELSE UNCHANGED <<owner, lcount, ltype>>
  /\ Goto(t, AfterLock(t))
  /\ UNCHANGED <<sem, waiting, asleep, cancel, op, reg, history>>

LockBlocks(t) ==
  /\ At(t, "lock") /\ Queues(t)
  /\ waiting' = Append(waiting, t)
  /\ asleep' = asleep \cup {t}
  /\ Goto(t, "blocked")
  /\ UNCHANGED <<sem, owner, lcount, ltype, cancel, op, reg, history>>

\* Awake again: take the lock, or wait once more.
LockWoken(t) ==
  /\ At(t, "blocked")
  /\ IF Available(t)
     THEN /\ Acquire(t)
          /\ \E i \in 1 .. Len(waiting) : /\ waiting[i] = t
                                          /\ waiting' = RemoveAt(waiting, i)
          /\ Goto(t, AfterLock(t))
          /\ asleep' = asleep
     ELSE /\ asleep' = asleep \cup {t}
          /\ UNCHANGED <<interlock, pc>>
  /\ UNCHANGED <<sem, cancel, op, reg, history>>

\* Mutant of Woken: readers are left asleep.
WokenWriters == {waiting[i] : i \in {i \in 1 .. Len(waiting) : Want(op[waiting[i]]) = "WRITE"}}

\* The first writer if there is one, every reader otherwise.
Woken == {waiting[i] : i \in
            IF WriterWaits
            THEN {i \in 1 .. Len(waiting) :
                    /\ Want(op[waiting[i]]) = "WRITE"
                    /\ \A j \in 1 .. i - 1 : Want(op[waiting[j]]) = "READ"}
            ELSE 1 .. Len(waiting)}

\* Mutant of Unlock: nobody is woken.
UnlockQuietly(t) ==
  IF (ltype # "READ" /\ owner # t) \/ lcount = 0
  THEN UNCHANGED <<interlock, asleep>>      \* EPERM, ignored
  ELSE /\ lcount' = lcount - 1
       /\ owner' = IF lcount = 1 THEN NULL ELSE owner
       /\ UNCHANGED <<ltype, waiting, asleep>>

\* pthread_rwlock_unlock
Unlock(t) ==
  IF (ltype # "READ" /\ owner # t) \/ lcount = 0
  THEN UNCHANGED <<interlock, asleep>>      \* EPERM, ignored
  ELSE /\ lcount' = lcount - 1
       /\ IF lcount = 1
          THEN owner' = NULL /\ asleep' = asleep \ Woken
          ELSE UNCHANGED <<owner, asleep>>
       /\ UNCHANGED <<ltype, waiting>>

-----------------------------------------------------------------------------
(***************************************************************************)
(* The functions of sem.c.                                                 *)
(***************************************************************************)

\* sem_check_validity; sem_wait is a cancellation point before it does
\* anything else.
Call(t, o) ==
  /\ At(t, "idle") /\ magic
  /\ o = "getvalue" => t \in Getters
  /\ o = "post" => usem_count < MaxCount
  /\ taken < MaxTaken
  /\ IF o = "wait" /\ cancelpending[t] /\ cancelstate[t]
     THEN Goto(t, "exited") /\ op' = op
     ELSE Goto(t, "lock") /\ op' = [op EXCEPT ![t] = o]
  /\ UNCHANGED <<sem, interlock, asleep, cancel, reg, history>>

\* Mutant of WaitTest: a semaphore at zero can be taken.
WaitTestLow(t) ==
  /\ At(t, "test")
  /\ Goto(t, "load")
  /\ UNCHANGED <<sem, interlock, asleep, cancel, op, reg, history>>

\* The critical section of sem_wait.  usem_waiters is only appended to when it
\* is not empty.
WaitTest(t) ==
  /\ At(t, "test")
  /\ IF cancelpending[t]
     THEN Goto(t, "cancelled") /\ UNCHANGED <<usem_waiters, asleep>>
     ELSE IF usem_count # 0
     THEN Goto(t, "load") /\ UNCHANGED <<usem_waiters, asleep>>
     ELSE /\ Goto(t, "retry")
          /\ IF usem_waiters # << >>
             THEN /\ usem_waiters' = IF Contains(usem_waiters, t) THEN usem_waiters
                                     ELSE Append(usem_waiters, t)
                  /\ asleep' = asleep \cup {t}
             ELSE UNCHANGED <<usem_waiters, asleep>>
  /\ UNCHANGED <<magic, usem_count, interlock, cancel, op, reg, history>>

\* sem_trywait tests what it has loaded.
Load(t) ==
  /\ At(t, "load")
  /\ reg' = [reg EXCEPT ![t] = usem_count]
  /\ Goto(t, IF op[t] = "trywait" /\ usem_count = 0 THEN "unlock" ELSE "store")
  /\ UNCHANGED <<sem, interlock, asleep, cancel, op, history>>

Store(t) ==
  /\ At(t, "store")
  /\ reg' = [reg EXCEPT ![t] = 0]
  /\ IF op[t] = "post"
     THEN /\ usem_count' = reg[t] + 1
          /\ posted' = posted + 1 /\ taken' = taken
          /\ Goto(t, "wake")
     ELSE /\ usem_count' = reg[t] - 1
          /\ taken' = taken + 1 /\ posted' = posted
          /\ Goto(t, "unlock")
  /\ UNCHANGED <<magic, usem_waiters, interlock, asleep, cancel, op, initial>>

\* "Give the head of the blocked queue another try."
PostWake(t) ==
  /\ At(t, "wake")
  /\ IF usem_waiters # << >>
     THEN usem_waiters' = Tail(usem_waiters) /\ asleep' = asleep \ {Head(usem_waiters)}
     ELSE UNCHANGED <<usem_waiters, asleep>>
  /\ Goto(t, "unlock")
  /\ UNCHANGED <<magic, usem_count, interlock, cancel, op, reg, history>>

\* Mutant of Finish: a sem_wait that goes round again has returned already.
FinishForgets(t) ==
  /\ pc[t] \in {"unlock", "retry", "cancelled"} /\ t \notin asleep
  /\ Unlock(t)
  /\ Goto(t, CASE pc[t] = "unlock" -> "idle"
               [] pc[t] = "retry" -> "lock"
               [] pc[t] = "cancelled" -> "exited")
  /\ op' = [op EXCEPT ![t] = None]
  /\ UNCHANGED <<sem, cancel, reg, history>>

\* The function gives up the interlock and returns; sem_wait goes round its
\* loop again if it has not got the semaphore, and a cancelled one exits.
Finish(t) ==
  /\ pc[t] \in {"unlock", "retry", "cancelled"} /\ t \notin asleep
  /\ Unlock(t)
  /\ Goto(t, CASE pc[t] = "unlock" -> "idle"
               [] pc[t] = "retry" -> "lock"
               [] pc[t] = "cancelled" -> "exited")
  /\ op' = IF pc[t] = "retry" THEN op ELSE [op EXCEPT ![t] = None]
  /\ UNCHANGED <<sem, cancel, reg, history>>

\* A program destroys a semaphore that no thread is using, and may initialise
\* it again.  The interlock is taken for reading and given back.
Destroy(t) ==
  /\ At(t, "idle") /\ magic
  /\ \A u \in Threads : pc[u] \in {"idle", "exited"}
  /\ usem_waiters = << >>
  /\ magic' = FALSE
  /\ ltype' = "READ"
  /\ UNCHANGED <<usem_count, usem_waiters, owner, lcount, waiting, asleep, cancel, pc, op, reg, history>>

SemInit(t, v) ==
  /\ At(t, "idle") /\ ~magic
  /\ magic' = TRUE
  /\ usem_count' = v
  /\ usem_waiters' = << >>
  /\ initial' = v /\ posted' = 0 /\ taken' = 0
  /\ UNCHANGED <<interlock, asleep, cancel, pc, op, reg>>

Cancel(t) ==
  /\ t \in Cancellable /\ ~cancelpending[t] /\ pc[t] # "exited"
  /\ cancelpending' = [cancelpending EXCEPT ![t] = TRUE]
  /\ UNCHANGED <<sem, interlock, asleep, cancelstate, pc, op, reg, history>>

SetCancelState(t) ==
  /\ t \in Cancellable /\ At(t, "idle")
  /\ cancelstate' = [cancelstate EXCEPT ![t] = ~@]
  /\ UNCHANGED <<sem, interlock, asleep, cancelpending, pc, op, reg, history>>

-----------------------------------------------------------------------------
Init ==
  /\ magic = TRUE
  /\ usem_count \in Values
  /\ usem_waiters = << >>
  /\ owner = NULL /\ lcount = 0 /\ ltype = "READ" /\ waiting = << >>
  /\ asleep = {}
  /\ cancelpending = [t \in Threads |-> FALSE]
  /\ cancelstate = [t \in Threads |-> TRUE]
  /\ pc = [t \in Threads |-> "idle"]
  /\ op = [t \in Threads |-> None]
  /\ reg = [t \in Threads |-> 0]
  /\ initial = usem_count /\ posted = 0 /\ taken = 0

\* What a thread inside a call does next.
Continue(t) == \/ LockReturns(t) \/ LockBlocks(t) \/ LockWoken(t)
               \/ WaitTest(t) \/ Load(t) \/ Store(t) \/ PostWake(t) \/ Finish(t)

Next == \E t \in Threads :
          \/ Continue(t)
          \/ \E o \in Ops : Call(t, o)
          \/ Destroy(t)
          \/ \E v \in Values : SemInit(t, v)
          \/ Cancel(t)
          \/ SetCancelState(t)

Spec == Init /\ [][Next]_vars

\* The scheduler is fair to threads that can run (PthreadThread!RunnableRuns).
FairSpec == Spec /\ \A t \in Threads : WF_vars(Continue(t))

-----------------------------------------------------------------------------
(***************************************************************************)
(* Properties.                                                             *)
(***************************************************************************)

Inside == {t \in Threads : pc[t] \in {"test", "load", "store", "wake", "retry", "cancelled"}}

\* "Protects data below" (semaphore.h): who tests or changes the count or the
\* queue has the interlock, alone.
InterlockProtects == \A t \in Inside : owner = t /\ ltype = "WRITE" /\ lcount = 1

\* A free interlock with threads in its queue has woken one of them, who sleeps
\* is in the queue, once, and nobody sleeps anywhere else.
InterlockWakes ==
  /\ owner = NULL /\ waiting # << >> => \E i \in 1 .. Len(waiting) : waiting[i] \notin asleep
  /\ \A t \in Threads : pc[t] = "blocked" <=> \E i \in 1 .. Len(waiting) : waiting[i] = t
  /\ \A i, j \in 1 .. Len(waiting) : waiting[i] = waiting[j] => i = j
  /\ asleep \subseteq {t \in Threads : pc[t] = "blocked"}

\* No increment and no decrement of the count is lost, although each is a load
\* and a store, and none is made up.
CountIsTrue == usem_count = initial + posted - taken /\ usem_count >= 0

\* A semaphore that can be taken and that a thread is in sem_wait for is taken.
Waiters == {t \in Threads : op[t] = "wait" /\ pc[t] \notin {"idle", "exited"}}

\* While the semaphore is available, a waiting thread takes it, or somebody
\* else is quicker, or the thread is cancelled.
WaiterProceeds ==
  \A n \in 0 .. MaxTaken :
    (usem_count > 0 /\ Waiters # {} /\ taken = n)
       ~> (taken # n \/ usem_count = 0 \/ Waiters = {})

\* Seen from outside, the semaphore is a counter that is never taken at zero.
Abstract == INSTANCE SemSpec WITH value <- usem_count

ImplementsSem == Abstract!Spec

\* The count is only touched under the interlock, and no update of it is lost.
SemInv == TypeOK /\ InterlockProtects /\ CountIsTrue
=============================================================================
