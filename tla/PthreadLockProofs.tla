------------------------- MODULE PthreadLockProofs --------------------------
(***************************************************************************)
(* Proofs about PthreadLock, for any number of threads and of locks.       *)
(*                                                                         *)
(* The safety invariants are not inductive one by one: that no wakeup is   *)
(* lost needs the lists to be right (QueueInv), the lists need the calls   *)
(* in progress to be right (CallInv, RunInv), and a lock taken by a waiter *)
(* needs the holders to be right (OwnershipInv).  IInv is their            *)
(* conjunction; one lemma per action shows that the action preserves it.   *)
(* That the count of a read/write lock does not wrap needs RoomInv too: it *)
(* has room for the readers that hold the lock and those that ask for it.  *)
(***************************************************************************)
EXTENDS PthreadLock, TLAPS, SequenceTheorems, FiniteSetTheorems, WellFoundedInduction

\* Removing the i-th element of a sequence: what is left, and where.
LEMMA RemoveAtIndex ==
  ASSUME NEW S, NEW s \in Seq(S), NEW i \in 1 .. Len(s)
  PROVE  /\ RemoveAt(s, i) \in Seq(S)
         /\ Len(RemoveAt(s, i)) = Len(s) - 1
         /\ \A j \in 1 .. Len(s) - 1 :
              RemoveAt(s, i)[j] = IF j < i THEN s[j] ELSE s[j + 1]
<1> DEFINE a == SubSeq(s, 1, i - 1)
           b == SubSeq(s, i + 1, Len(s))
<1>1. a \in Seq(S) /\ Len(a) = i - 1 /\ \A j \in 1 .. i - 1 : a[j] = s[j]
  OBVIOUS
<1>2. b \in Seq(S) /\ Len(b) = Len(s) - i /\ \A j \in 1 .. Len(s) - i : b[j] = s[i + j]
  OBVIOUS
<1> HIDE DEF a, b
<1>3. /\ a \o b \in Seq(S)
      /\ Len(a \o b) = Len(a) + Len(b)
      /\ \A j \in 1 .. Len(a) + Len(b) :
           (a \o b)[j] = IF j <= Len(a) THEN a[j] ELSE b[j - Len(a)]
  BY <1>1, <1>2, ConcatProperties
<1>4. Len(s) \in Nat /\ Len(a) + Len(b) = Len(s) - 1
  BY <1>1, <1>2
<1>5. ASSUME NEW j \in 1 .. Len(s) - 1
      PROVE  (a \o b)[j] = IF j < i THEN s[j] ELSE s[j + 1]
  <2>1. (a \o b)[j] = IF j <= Len(a) THEN a[j] ELSE b[j - Len(a)]
    BY <1>3, <1>4
  <2> QED
    BY <2>1, <1>1, <1>2, <1>4
<1> QED
  BY <1>3, <1>4, <1>5 DEF RemoveAt, a, b

-----------------------------------------------------------------------------
\* The scheduler picks a thread, or reports a deadlock.
LEMMA ScheduleType ==
  ASSUME NEW st, TypeOK, Schedule(st)
  PROVE  /\ running' \in Threads
         /\ fatal' \in {fatal, "deadlocked"}
         /\ owed' \in [Threads -> SUBSET Threads]
  BY DEF TypeOK, Schedule

\* The history of error codes keeps its type, whatever a step returns.
LEMMA ReturnType ==
  /\ NoError => ret' \in Returns
  /\ \A t \in Threads, l \in Locks : \A f \in Calls, c \in Codes :
       Error(t, l, f, c) => ret' \in Returns
  BY DEF NoError, Error, NoRet, Returns, Calls, Codes

\* Type correctness: every field of every lock and of every thread keeps its
\* type in every step, and a thread has a lock to work on while it is in a call.
LEMMA TypeStep == TypeOK /\ [Next]_vars => TypeOK'
<1> SUFFICES ASSUME TypeOK, [Next]_vars PROVE TypeOK'
  OBVIOUS
<1> USE NullAssumption, BoundAssumption DEF Calls, Codes
<1>1. CASE UNCHANGED vars
  BY <1>1 DEF TypeOK, vars, fields, args
<1>2. CASE Tick
  BY <1>2, ScheduleType, ReturnType DEF Tick, TypeOK, fields, args
<1>3. CASE Aborted
  BY <1>3 DEF Aborted, TypeOK, vars, fields, args
<1>4. ASSUME NEW t \in Threads, LockGranted(t) PROVE TypeOK'
  BY <1>4, ReturnType DEF LockGranted, Acquire, Leave, Types, TypeOK
<1>5. ASSUME NEW t \in Threads, LockRefused(t) PROVE TypeOK'
  BY <1>5, ReturnType DEF LockRefused, Leave, Types, TypeOK, fields
<1>6. ASSUME NEW t \in Threads, LockBlocks(t) PROVE TypeOK'
  BY <1>6, ReturnType DEF LockBlocks, TypeOK, args
<1>7. ASSUME NEW t \in Threads, BlockYield(t) PROVE TypeOK'
  BY <1>7, ScheduleType, ReturnType DEF BlockYield, TypeOK, fields, args
<1>8. ASSUME NEW t \in Threads, RecheckFails(t) PROVE TypeOK'
  BY <1>8, ReturnType DEF RecheckFails, TypeOK, fields, args
<1>9. ASSUME NEW t \in Threads, RecheckTakes(t) PROVE TypeOK'
  <2>1. mutex[t] \in Locks
    BY <1>9 DEF RecheckTakes, TypeOK
  <2>2. CASE UNCHANGED <<fields, held, pc, args>>
    BY <1>9, <2>2, ReturnType DEF RecheckTakes, TypeOK, fields, args
  <2>3. ASSUME NEW i \in Positions(mutex[t]),
               waiting' = [waiting EXCEPT ![mutex[t]] = RemoveAt(@, i)],
               Acquire(t, mutex[t]), Leave(t), fatal' = fatal
        PROVE  TypeOK'
    <3>1. RemoveAt(waiting[mutex[t]], i) \in Seq(Threads)
      BY <2>1, RemoveAtIndex DEF TypeOK, Positions
    <3> QED
      BY <1>9, <2>1, <2>3, <3>1, ReturnType DEF RecheckTakes, Acquire, Leave, Types, TypeOK
  <2> QED
    BY <1>9, <2>2, <2>3 DEF RecheckTakes
<1>10. ASSUME NEW t \in Threads, UnlockYield(t) PROVE TypeOK'
  BY <1>10, ScheduleType, ReturnType DEF UnlockYield, Leave, Types, TypeOK, fields
<1>11. ASSUME NEW t \in Threads, NEW l \in Locks, NEW ty \in Types, NEW try \in BOOLEAN,
              LockCall(t, l, ty, try)
       PROVE  TypeOK'
  <2>1. CASE type[l] \notin TypesOf(l)
    BY <1>11, <2>1, ReturnType DEF LockCall, TypeOK, fields, args
  <2>2. CASE type[l] \in TypesOf(l)
    <3>1. mutextype' \in [Threads -> Types]
      <4>1. mutextype' = [mutextype EXCEPT ![t] = ty]
        BY <1>11, <2>2 DEF LockCall
      <4> QED
        BY <4>1 DEF TypeOK
    <3>2. trylock' \in [Threads -> BOOLEAN]
      <4>1. trylock' = [trylock EXCEPT ![t] = try]
        BY <1>11, <2>2 DEF LockCall
      <4> QED
        BY <4>1, Zenon DEF TypeOK
    <3>3. ret' \in Returns
      BY <1>11, ReturnType DEF LockCall
    <3>4. /\ pc' \in [Threads -> {"run", "enter", "block", "recheck", "unlock"}]
          /\ mutex' \in [Threads -> Locks \cup {NULL}]
          /\ \A u \in Threads : pc'[u] = "run" <=> mutex'[u] = NULL
      <4>1. pc' = [pc EXCEPT ![t] = "enter"] /\ mutex' = [mutex EXCEPT ![t] = l]
        BY <1>11, <2>2 DEF LockCall
      <4> QED
        BY <4>1 DEF TypeOK
    <3> QED
      BY <1>11, <3>1, <3>2, <3>3, <3>4 DEF LockCall, TypeOK, fields
  <2> QED
    BY <2>1, <2>2
<1>12. ASSUME NEW t \in Threads, NEW l \in Locks, Unlock(t, l) PROVE TypeOK'
  <2>1. \A i \in 1 .. Len(held[l]) : RemoveAt(held[l], i) \in Seq(Threads)
    BY RemoveAtIndex DEF TypeOK
  <2>2. held' \in [Locks -> Seq(Threads)]
    <3>1. GiveBack(t, l)
      BY <1>12 DEF Unlock
    <3>2. held \in [Locks -> Seq(Threads)]
      BY DEF TypeOK
    <3>3. CASE held' = held
      BY <3>2, <3>3
    <3>4. ASSUME NEW i \in 1 .. Len(held[l]),
                 held' = [held EXCEPT ![l] = RemoveAt(held[l], i)]
          PROVE  held' \in [Locks -> Seq(Threads)]
      BY <2>1, <3>2, <3>4
    <3> QED
      BY <3>1, <3>3, <3>4 DEF GiveBack
  <2>3. Woken(l) \subseteq Threads
    BY DEF Woken, Scanned, Writers, Positions, TypeOK
  <2>4. CASE UnlockInner(t, l)
    BY <1>12, <2>2, <2>4, ReturnType DEF Unlock, UnlockInner, TypeOK
  <2>5. CASE UnlockLast(t, l)
    <3>1. /\ count' \in [Locks -> 0 .. UINT_MAX]
          /\ owner' \in [Locks -> Threads \cup {NULL}]
      BY <2>5 DEF UnlockLast, TypeOK
    <3>2. fatal' \in {"none", "wrong_list"}
      BY <1>12, <2>5 DEF Unlock, UnlockLast
    <3>3. state' \in [Threads -> {"RUNNING", "MUTEX_WAIT"}]
      BY <2>5 DEF UnlockLast, TypeOK
    <3>4. owed' \in [Threads -> SUBSET Threads]
      <4>1. owed' = owed \/ owed' = [owed EXCEPT ![t] = Woken(l)]
        BY <2>5 DEF UnlockLast
      <4>2. owed \in [Threads -> SUBSET Threads]
        BY DEF TypeOK
      <4> QED
        BY <2>3, <4>1, <4>2
    <3> QED
      BY <1>12, <2>2, <3>1, <3>2, <3>3, <3>4, ReturnType DEF Unlock, TypeOK
  <2> QED
    BY <1>12, <2>4, <2>5 DEF Unlock
<1>13. ASSUME NEW t \in Threads, NEW l \in Locks, UnlockRefused(t, l) PROVE TypeOK'
  BY <1>13, ReturnType DEF UnlockRefused, TypeOK, fields, args
<1>14. ASSUME NEW t \in Threads, NEW l \in Locks, Destroy(t, l) PROVE TypeOK'
  <2>1. type' \in [Locks -> Types \cup {"INVALID"}]
    BY <1>14 DEF Destroy, TypeOK
  <2>2. ret' \in Returns
    BY <1>14, ReturnType DEF Destroy
  <2> QED
    BY <1>14, <2>1, <2>2 DEF Destroy, TypeOK, args
<1>15. ASSUME NEW t \in Threads, NEW l \in Locks, Reinit(t, l) PROVE TypeOK'
  <2>0. ret' \in Returns
    BY <1>15, ReturnType DEF Reinit
  <2>1. CASE UNCHANGED fields
    BY <1>15, <2>0, <2>1 DEF Reinit, TypeOK, fields, args
  <2>2. CASE /\ count' = [count EXCEPT ![l] = 0]
             /\ owner' = [owner EXCEPT ![l] = NULL]
             /\ type' = [type EXCEPT ![l] = IF l \in Mutexes THEN "MUTEX" ELSE "READ"]
             /\ waiting' = [waiting EXCEPT ![l] = << >>]
    BY <1>15, <2>0, <2>2 DEF Reinit, TypeOK, args, Types
  <2> QED
    BY <1>15, <2>1, <2>2 DEF Reinit
<1> QED
  BY <1>1, <1>2, <1>3, <1>4, <1>5, <1>6, <1>7, <1>8, <1>9, <1>10, <1>11, <1>12,
     <1>13, <1>14, <1>15 DEF Next, Continue

\* Every field keeps its type in every behaviour of the locks.
THEOREM TypeCorrect == Spec => []TypeOK
<1>1. Init => TypeOK
  BY NAssumption, BoundAssumption DEF Init, TypeOK, Threads, NoRet, Types, Returns, Codes
<1> QED
  BY <1>1, TypeStep, PTL DEF Spec

-----------------------------------------------------------------------------
(***************************************************************************)
(* The inductive invariant.  The safety properties of PthreadLock are      *)
(* inductive together, with what a thread on its way into the critical     *)
(* section knows: its lock is alive and asked for in a mode it has.        *)
(***************************************************************************)

CallInv ==
  /\ \A t \in Threads : pc[t] \in {"enter", "block", "recheck"} =>
       mutextype[t] \in TypesOf(mutex[t]) /\ type[mutex[t]] # "INVALID"
  /\ \A l \in Locks :
       /\ type[l] \in TypesOf(l) \cup {"INVALID"}
       /\ type[l] = "INVALID" => waiting[l] = << >>

\* While the program runs, the running thread is one the scheduler could have
\* picked, or one that is about to yield.
RunInv ==
  fatal = "none" => state[running] = "RUNNING" \/ pc[running] = "block"

\* The readers that ask for a lock, and room in its count for all of them.
Askers(l) == {t \in Threads : /\ pc[t] \in {"enter", "block", "recheck"}
                              /\ mutex[t] = l /\ mutextype[t] = "READ"}

RoomInv ==
  \A l \in RWLocks : Len(held[l]) + Cardinality(Askers(l)) <= MaxReads + N

IInv == /\ TypeOK /\ CallInv /\ RunInv /\ OwnershipInv /\ QueueInv
        /\ NoLostWakeup /\ ReadersStayBehindWriters /\ NoInternalError

-----------------------------------------------------------------------------
\* Which waiters of a lock are writers only depends on its list and on the
\* arguments of the threads that wait for it.
LEMMA WritersFrame ==
  ASSUME TypeOK, QueueInv, NEW l \in Locks, waiting'[l] = waiting[l],
         \A u \in Threads : WaitsFor(u) = l => mutextype'[u] = mutextype[u]
  PROVE  Positions(l)' = Positions(l) /\ Writers(l)' = Writers(l)
<1>1. \A i \in Positions(l) : /\ waiting[l][i] \in Threads
                              /\ WaitsFor(waiting[l][i]) = l
  BY DEF TypeOK, QueueInv, Positions
<1>2. Positions(l)' = Positions(l)
  BY DEF Positions
<1> QED
  BY <1>1, <1>2 DEF Writers

\* A step that changes neither a lock nor a state, and moves no thread into or
\* out of __pthread_lock_block, preserves the invariants about locks.
LEMMA LockFrame ==
  ASSUME IInv, UNCHANGED <<fields, state, held>>,
         \A u \in Threads : /\ WaitsFor(u)' = WaitsFor(u)
                            /\ WaitsFor(u) # NULL => mutextype'[u] = mutextype[u]
                            /\ state[u] = "MUTEX_WAIT" => pc'[u] \in {"block", "recheck"}
  PROVE  OwnershipInv' /\ QueueInv' /\ NoLostWakeup' /\ ReadersStayBehindWriters'
<1> USE NullAssumption
<1>1. /\ count' = count /\ owner' = owner /\ type' = type /\ waiting' = waiting
      /\ state' = state /\ held' = held
  BY DEF fields
<1>2. \A l \in Locks : Positions(l)' = Positions(l) /\ Writers(l)' = Writers(l)
  BY <1>1, WritersFrame DEF IInv
<1>3. OwnershipInv'
  BY <1>1 DEF IInv, OwnershipInv
<1>4. QueueInv'
  BY <1>1, <1>2 DEF IInv, QueueInv
<1>5. NoLostWakeup'
  BY <1>1, <1>2 DEF IInv, NoLostWakeup
<1>6. ReadersStayBehindWriters'
  BY <1>1, <1>2 DEF IInv, ReadersStayBehindWriters
<1> QED
  BY <1>3, <1>4, <1>5, <1>6

\* The steps that leave every lock as it is.
LEMMA QuietStep ==
  ASSUME IInv, TypeOK',
         \/ Tick
         \/ UNCHANGED vars
         \/ \E t \in Threads : LockRefused(t) \/ BlockYield(t) \/ UnlockYield(t)
         \/ \E t \in Threads, l \in Locks :
              \/ UnlockRefused(t, l)
              \/ \E ty \in Types, try \in BOOLEAN : LockCall(t, l, ty, try)
  PROVE  IInv'
<1> DEFINE Frame == /\ UNCHANGED <<fields, state, held>>
                    /\ \A u \in Threads :
                         /\ WaitsFor(u)' = WaitsFor(u)
                         /\ WaitsFor(u) # NULL => mutextype'[u] = mutextype[u]
                         /\ state[u] = "MUTEX_WAIT" => pc'[u] \in {"block", "recheck"}
<1> SUFFICES Frame /\ CallInv' /\ RunInv' /\ NoInternalError'
  BY LockFrame DEF IInv
<1>0. /\ TypeOK /\ CallInv /\ RunInv /\ NoInternalError
      /\ \A u \in Threads : state[u] = "MUTEX_WAIT" => pc[u] \in {"block", "recheck"}
  BY DEF IInv, QueueInv
<1>1. CASE UNCHANGED vars
  BY <1>0, <1>1 DEF vars, fields, args, CallInv, RunInv, NoInternalError, WaitsFor
<1>2. ASSUME Schedule(state), state' = state PROVE RunInv' /\ NoInternalError'
  BY <1>0, <1>2 DEF Schedule, NoInternalError, RunInv
<1>3. CASE Tick
  BY <1>0, <1>2, <1>3 DEF Tick, fields, args, CallInv, WaitsFor
<1>4. ASSUME NEW t \in Threads, LockRefused(t)
      PROVE  Frame /\ CallInv' /\ RunInv' /\ NoInternalError'
  BY <1>0, <1>4 DEF LockRefused, Leave, fields, CallInv, RunInv, NoInternalError, WaitsFor, TypeOK
<1>5. ASSUME NEW t \in Threads, BlockYield(t)
      PROVE  Frame /\ CallInv' /\ RunInv' /\ NoInternalError'
  BY <1>0, <1>2, <1>5 DEF BlockYield, fields, args, CallInv, WaitsFor, TypeOK
<1>6. ASSUME NEW t \in Threads, UnlockYield(t)
      PROVE  Frame /\ CallInv' /\ RunInv' /\ NoInternalError'
  <2>1. RunInv' /\ NoInternalError'
    <3>1. CASE Schedule(state)
      BY <1>2, <1>6, <3>1 DEF UnlockYield
    <3>2. CASE UNCHANGED <<running, fatal>>
      BY <1>0, <1>6, <3>2 DEF UnlockYield, NoInternalError, RunInv, TypeOK
    <3> QED
      BY <1>6, <3>1, <3>2 DEF UnlockYield
  <2> QED
    BY <1>0, <1>6, <2>1 DEF UnlockYield, Leave, fields, CallInv, WaitsFor, TypeOK
<1>7. ASSUME NEW t \in Threads, NEW l \in Locks, UnlockRefused(t, l)
      PROVE  Frame /\ CallInv' /\ RunInv' /\ NoInternalError'
  BY <1>0, <1>7 DEF UnlockRefused, fields, args, CallInv, RunInv, NoInternalError, WaitsFor
<1>8. ASSUME NEW t \in Threads, NEW l \in Locks, NEW ty \in Types, NEW try \in BOOLEAN,
             LockCall(t, l, ty, try)
      PROVE  Frame /\ CallInv' /\ RunInv' /\ NoInternalError'
  <2>1. CASE type[l] \notin TypesOf(l)
    BY <1>0, <1>8, <2>1 DEF LockCall, fields, args, CallInv, RunInv, NoInternalError, WaitsFor
  <2>2. CASE type[l] \in TypesOf(l)
    <3>1. /\ pc[t] = "run" /\ ty \in TypesOf(l)
          /\ pc' = [pc EXCEPT ![t] = "enter"]
          /\ mutex' = [mutex EXCEPT ![t] = l]
          /\ mutextype' = [mutextype EXCEPT ![t] = ty]
          /\ running = t /\ UNCHANGED <<fields, state, running, fatal, held>>
      BY <1>8, <2>2 DEF LockCall
    <3>2. type[l] # "INVALID"
      BY <2>2 DEF TypesOf
    <3>3. CallInv'
      BY <1>0, <3>1, <3>2 DEF CallInv, TypeOK, fields
    <3> QED
      BY <1>0, <3>1, <3>3 DEF NoInternalError, RunInv, WaitsFor, TypeOK
  <2> QED
    BY <2>1, <2>2
<1> QED
  BY <1>1, <1>3, <1>4, <1>5, <1>6, <1>7, <1>8

\* What it takes to be granted the lock at once.
LEMMA GrantedBecause ==
  ASSUME TypeOK, CallInv, NEW t \in Threads, pc[t] = "enter", Decision(t) = "acquire"
  PROVE  LET l == mutex[t] IN
         \/ owner[l] = NULL /\ (mutextype[t] = "READ" => Writers(l) = {})
         \/ type[l] = "READ" /\ mutextype[t] = "READ" /\ Writers(l) = {}
         \/ owner[l] = t /\ l \in RecursiveMutexes /\ type[l] = "MUTEX" /\ mutextype[t] = "MUTEX"
<1> DEFINE l == mutex[t]
<1>0. l \in Locks
  BY DEF TypeOK
<1>1. mutextype[t] \in TypesOf(l) /\ type[l] \in TypesOf(l)
  BY <1>0 DEF CallInv
<1>2. CASE owner[l] = NULL \/ (type[l] = "READ" /\ mutextype[t] = "READ")
  BY <1>2 DEF Decision
<1>3. CASE ~(owner[l] = NULL \/ (type[l] = "READ" /\ mutextype[t] = "READ"))
  <2>1. owner[l] = t /\ AttrType(l) # "NORMAL" /\ AttrType(l) # "ERRORCHECK"
    BY <1>3 DEF Decision
  <2>2. l \in RecursiveMutexes
    BY <2>1 DEF AttrType
  <2> QED
    BY <1>1, <2>1, <2>2 DEF TypesOf, Mutexes
<1> QED
  BY <1>2, <1>3

\* What it takes to be put to sleep.
LEMMA BlockedBecause ==
  ASSUME NEW t \in Threads, Decision(t) = "block"
  PROVE  LET l == mutex[t] IN
         \/ mutextype[t] = "READ" /\ Writers(l) # {}
         \/ owner[l] # NULL /\ ~(type[l] = "READ" /\ mutextype[t] = "READ")
  BY DEF Decision

\* A thread outside __pthread_lock_block is in no waiting list.
LEMMA NotWaiting ==
  ASSUME TypeOK, QueueInv, NEW t \in Threads, WaitsFor(t) = NULL
  PROVE  \A l \in Locks : \A i \in Positions(l) : waiting[l][i] # t
  BY NullAssumption DEF QueueInv

\* What TypeOK says of the list of one lock.
LEMMA WaitingType ==
  ASSUME TypeOK, NEW l \in Locks
  PROVE  /\ waiting[l] \in Seq(Threads) /\ Len(waiting[l]) \in Nat
         /\ \A i \in Positions(l) : waiting[l][i] \in Threads /\ i \in Nat
  BY DEF TypeOK, Positions

\* The count of a read/write lock has room for one who asks to read.
LEMMA ReaderHasRoom ==
  ASSUME TypeOK, OwnershipInv, RoomInv, NEW l \in RWLocks, NEW t \in Askers(l)
  PROVE  count[l] # UINT_MAX
<1>1. IsFiniteSet(Askers(l)) /\ Cardinality(Askers(l)) \in Nat /\ Cardinality(Askers(l)) # 0
  <2>1. IsFiniteSet(Threads)
    BY NAssumption, FS_Interval DEF Threads
  <2>2. IsFiniteSet(Askers(l))
    BY <2>1, FS_Subset DEF Askers
  <2> QED
    BY <2>2, FS_CardinalityType, FS_EmptySet
<1>2. Len(held[l]) = count[l] /\ count[l] \in Nat
  BY DEF OwnershipInv, TypeOK, Locks
<1>3. count[l] + Cardinality(Askers(l)) <= MaxReads + N
  BY <1>2 DEF RoomInv
<1> QED
  BY <1>1, <1>2, <1>3, NAssumption, BoundAssumption

\* A lock that is granted at once has room in its count.
LEMMA GrantedHasRoom ==
  ASSUME IInv, RoomInv, NEW t \in Threads, LockGranted(t)
  PROVE  count[mutex[t]] # UINT_MAX
<1> DEFINE l == mutex[t]
<1>0. /\ TypeOK /\ CallInv /\ OwnershipInv
      /\ l \in Locks /\ pc[t] = "enter" /\ Decision(t) = "acquire"
  BY NullAssumption DEF IInv, LockGranted, TypeOK
<1>1. owner[l] = NULL => count[l] = 0
  BY <1>0 DEF OwnershipInv
<1>2. CASE type[l] = "READ" /\ mutextype[t] = "READ"
  <2>1. l \in RWLocks
    BY <1>0, <1>2 DEF CallInv, TypesOf, Locks
  <2>2. t \in Askers(l)
    BY <1>0, <1>2 DEF Askers
  <2> QED
    BY <1>0, <2>1, <2>2, ReaderHasRoom
<1>3. CASE owner[l] # NULL /\ ~(type[l] = "READ" /\ mutextype[t] = "READ")
  BY <1>0, <1>3 DEF Decision
<1> QED
  BY <1>1, <1>2, <1>3, BoundAssumption

\* So has a lock that a waiter takes.
LEMMA TakenHasRoom ==
  ASSUME IInv, RoomInv, NEW t \in Threads, RecheckTakes(t)
  PROVE  count[mutex[t]] # UINT_MAX
<1> DEFINE l == mutex[t]
<1>0. /\ TypeOK /\ CallInv /\ OwnershipInv
      /\ l \in Locks /\ pc[t] = "recheck" /\ MayTake(t, l)
  BY NullAssumption DEF IInv, RecheckTakes, TypeOK
<1>1. owner[l] = NULL => count[l] = 0
  BY <1>0 DEF OwnershipInv
<1>2. CASE mutextype[t] = "READ" /\ type[l] = "READ"
  <2>1. l \in RWLocks
    BY <1>0, <1>2 DEF CallInv, TypesOf, Locks
  <2>2. t \in Askers(l)
    BY <1>0, <1>2 DEF Askers
  <2> QED
    BY <1>0, <2>1, <2>2, ReaderHasRoom
<1> QED
  BY <1>0, <1>1, <1>2, BoundAssumption DEF MayTake

\* A lock granted at once (LockGranted) preserves the invariant: the lock was
\* free, shared between readers with no writer waiting, or the caller's own.
LEMMA GrantedStep ==
  ASSUME IInv, RoomInv, TypeOK', NEW t \in Threads, LockGranted(t)
  PROVE  IInv'
<1> DEFINE l == mutex[t]
<1> USE NullAssumption
<1>0. TypeOK /\ CallInv /\ RunInv /\ OwnershipInv /\ QueueInv
  BY DEF IInv
<1>1. /\ l \in Locks /\ pc[t] = "enter" /\ WaitsFor(t) = NULL
  BY <1>0 DEF LockGranted, TypeOK, WaitsFor
<1>2. /\ owner' = [owner EXCEPT ![l] = t]
      /\ count' = [count EXCEPT ![l] = @ + 1]
      /\ type' = [type EXCEPT ![l] = mutextype[t]]
      /\ held' = [held EXCEPT ![l] = Append(@, t)]
      /\ pc' = [pc EXCEPT ![t] = "run"]
      /\ mutex' = [mutex EXCEPT ![t] = NULL]
      /\ mutextype' = [mutextype EXCEPT ![t] = "MUTEX"]
      /\ waiting' = waiting /\ state' = state /\ fatal' = fatal
  BY GrantedHasRoom DEF LockGranted, Acquire, Leave
<1>3. \/ owner[l] = NULL /\ (mutextype[t] = "READ" => Writers(l) = {})
      \/ type[l] = "READ" /\ mutextype[t] = "READ" /\ Writers(l) = {}
      \/ owner[l] = t /\ l \in RecursiveMutexes /\ type[l] = "MUTEX" /\ mutextype[t] = "MUTEX"
  BY <1>0, <1>1, GrantedBecause DEF LockGranted
<1>4. mutextype[t] \in TypesOf(l) /\ mutextype[t] # "INVALID"
  BY <1>0, <1>1 DEF CallInv, TypesOf
<1>5. \A u \in Threads : WaitsFor(u)' = WaitsFor(u) /\ (WaitsFor(u) # NULL => mutextype'[u] = mutextype[u])
  BY <1>0, <1>1, <1>2 DEF WaitsFor, TypeOK
<1>6. \A k \in Locks : Positions(k)' = Positions(k) /\ Writers(k)' = Writers(k)
  BY <1>0, <1>2, <1>5, WritersFrame
<1>7. CallInv'
  BY <1>0, <1>1, <1>2, <1>4 DEF CallInv, TypeOK
<1>8. OwnershipInv'
  <2> SUFFICES ASSUME NEW k \in Locks
      PROVE  /\ Len(held'[k]) = count'[k]
             /\ owner'[k] = NULL <=> count'[k] = 0
             /\ type'[k] # "READ" => \A i \in 1 .. Len(held'[k]) : held'[k][i] = owner'[k]
             /\ count'[k] > 1 => type'[k] = "READ" \/ k \in RecursiveMutexes
             /\ count'[k] > 0 => type'[k] \in TypesOf(k)
    BY DEF OwnershipInv
  <2>1. CASE k # l
    BY <1>0, <1>1, <1>2, <2>1 DEF OwnershipInv, TypeOK
  <2>2. CASE k = l
    <3>1. /\ held[l] \in Seq(Threads) /\ count[l] \in Nat /\ Len(held[l]) = count[l]
          /\ owner[l] = NULL <=> count[l] = 0
          /\ type[l] # "READ" => \A i \in 1 .. Len(held[l]) : held[l][i] = owner[l]
      BY <1>0, <1>1 DEF OwnershipInv, TypeOK
    <3>2. /\ held'[l] = Append(held[l], t) /\ count'[l] = count[l] + 1
          /\ owner'[l] = t /\ type'[l] = mutextype[t]
      BY <1>0, <1>1, <1>2 DEF TypeOK
    <3>3. /\ Len(held'[l]) = count'[l]
          /\ \A i \in 1 .. Len(held'[l]) : held'[l][i] = IF i = count'[l] THEN t ELSE held[l][i]
      BY <3>1, <3>2
    <3>4. type'[l] # "READ" => \A i \in 1 .. Len(held'[l]) : held'[l][i] = owner'[l]
      BY <1>3, <3>1, <3>2, <3>3
    <3>5. count'[l] > 1 => type'[l] = "READ" \/ l \in RecursiveMutexes
      BY <1>3, <3>1, <3>2
    <3> QED
      BY <1>4, <2>2, <3>1, <3>2, <3>3, <3>4, <3>5
  <2> QED
    BY <2>1, <2>2
<1>9. QueueInv'
  <2>1. \A u \in Threads : state'[u] = "MUTEX_WAIT" => pc'[u] \in {"block", "recheck"}
    BY <1>0, <1>1, <1>2 DEF QueueInv, TypeOK
  <2> QED
    BY <1>0, <1>2, <1>5, <1>6, <2>1 DEF QueueInv
<1>10. NoLostWakeup'
  <2> SUFFICES ASSUME NEW k \in Locks
      PROVE  /\ owner'[k] = NULL /\ Writers(k) # {}
                  => \E i \in Writers(k) : state[waiting[k][i]] = "RUNNING"
             /\ owner'[k] = NULL \/ type'[k] = "READ"
                  => \A i \in Positions(k) : state[waiting[k][i]] = "MUTEX_WAIT" => Writers(k) # {}
    BY <1>2, <1>6 DEF NoLostWakeup
  <2>1. CASE k # l
    <3>1. owner'[k] = owner[k] /\ type'[k] = type[k]
      BY <1>0, <1>1, <1>2, <2>1 DEF TypeOK
    <3> QED
      BY <3>1 DEF NoLostWakeup, IInv
  <2>2. CASE k = l
    <3>1. owner'[l] = t /\ type'[l] = mutextype[t]
      BY <1>0, <1>1, <1>2 DEF TypeOK
    <3> QED
      BY <1>1, <1>3, <2>2, <3>1 DEF NoLostWakeup, IInv
  <2> QED
    BY <2>1, <2>2
<1>11. ReadersStayBehindWriters'
  BY <1>2, <1>6 DEF ReadersStayBehindWriters, IInv
<1>r. RunInv'
  BY <1>0, <1>2 DEF RunInv, LockGranted, TypeOK
<1> QED
  BY <1>r, <1>2, <1>7, <1>8, <1>9, <1>10, <1>11 DEF IInv, NoInternalError

\* Going to sleep (LockBlocks) preserves the invariant: somebody holds the
\* lock or a writer waits for it, so there is somebody to wake the sleeper.
LEMMA BlocksStep ==
  ASSUME IInv, TypeOK', NEW t \in Threads, LockBlocks(t)
  PROVE  IInv'
<1> USE NullAssumption
<1>0. TypeOK /\ CallInv /\ RunInv /\ OwnershipInv /\ QueueInv
  BY DEF IInv
<1>l. PICK l \in Locks : l = mutex[t]
  BY <1>0 DEF LockBlocks, TypeOK
<1>n. PICK n \in Nat \ {0} : n = Len(waiting[l]) + 1
  BY <1>0, WaitingType
<1>1. l = mutex[t] /\ pc[t] = "enter" /\ WaitsFor(t) = NULL
  BY <1>0, <1>l DEF LockBlocks, TypeOK, WaitsFor
<1>2. /\ waiting' = [waiting EXCEPT ![l] = Append(@, t)]
      /\ state' = [state EXCEPT ![t] = "MUTEX_WAIT"]
      /\ pc' = [pc EXCEPT ![t] = "block"]
      /\ count' = count /\ owner' = owner /\ type' = type /\ held' = held
      /\ mutex' = mutex /\ mutextype' = mutextype /\ fatal' = fatal
  BY <1>l DEF LockBlocks, args
<1>3. \/ mutextype[t] = "READ" /\ Writers(l) # {}
      \/ owner[l] # NULL /\ ~(type[l] = "READ" /\ mutextype[t] = "READ")
  BY <1>l, BlockedBecause DEF LockBlocks
<1>4. \A k \in Locks : \A i \in Positions(k) : waiting[k][i] # t
  BY <1>0, <1>1, NotWaiting
<1>5. ASSUME NEW k \in Locks, k # l
      PROVE  waiting'[k] = waiting[k] /\ Positions(k)' = Positions(k) /\ Writers(k)' = Writers(k)
  <2>1. waiting'[k] = waiting[k]
    BY <1>0, <1>1, <1>2, <1>5 DEF TypeOK
  <2> QED
    BY <1>0, <1>2, <2>1, WritersFrame
<1>6. /\ n \in 1 .. n /\ Positions(l) = 1 .. n - 1 /\ Positions(l)' = 1 .. n
      /\ waiting'[l][n] = t
      /\ \A i \in 1 .. n - 1 : waiting'[l][i] = waiting[l][i]
  <2>1. waiting[l] \in Seq(Threads) /\ waiting'[l] = Append(waiting[l], t)
    BY <1>0, <1>1, <1>2 DEF TypeOK
  <2>2. Len(waiting'[l]) = n /\ Len(waiting[l]) = n - 1
    BY <1>n, <2>1
  <2>3. \A i \in 1 .. n : waiting'[l][i] = IF i = n THEN t ELSE waiting[l][i]
    BY <2>1, <2>2, AppendProperties
  <2> QED
    BY <2>2, <2>3 DEF Positions
<1>7. Writers(l)' = IF mutextype[t] = "READ" THEN Writers(l) ELSE Writers(l) \cup {n}
  <2>1. /\ Writers(l)' \subseteq 1 .. n
        /\ \A i \in 1 .. n : i \in Writers(l)' <=> mutextype[waiting'[l][i]] # "READ"
    BY <1>2, <1>6 DEF Writers
  <2>2. /\ Writers(l) \subseteq 1 .. n - 1
        /\ \A i \in 1 .. n - 1 : i \in Writers(l) <=> mutextype[waiting[l][i]] # "READ"
    BY <1>6 DEF Writers
  <2>3. \A i \in 1 .. n : i \in Writers(l)' <=> i \in Writers(l) \/ (i = n /\ mutextype[t] # "READ")
    BY <1>6, <2>1, <2>2
  <2>4. CASE mutextype[t] = "READ"
    <3>1. \A i : i \in Writers(l)' <=> i \in Writers(l)
      BY <1>n, <2>1, <2>2, <2>3, <2>4
    <3> QED
      BY <2>4, <3>1
  <2>5. CASE mutextype[t] # "READ"
    <3>1. \A i : i \in Writers(l)' <=> i \in Writers(l) \cup {n}
      BY <1>n, <1>6, <2>1, <2>2, <2>3, <2>5
    <3> QED
      BY <2>5, <3>1
  <2> QED
    BY <2>4, <2>5
<1>8. /\ \A u \in Threads \ {t} : WaitsFor(u)' = WaitsFor(u) /\ state'[u] = state[u]
      /\ WaitsFor(t)' = l /\ state'[t] = "MUTEX_WAIT"
  BY <1>0, <1>1, <1>2 DEF WaitsFor, TypeOK
<1>9. CallInv'
  <2>1. waiting[l] # << >> \/ type[l] # "INVALID"
    BY <1>0, <1>1 DEF CallInv
  <2>2. type[l] # "INVALID"
    BY <1>0, <1>1 DEF CallInv
  <2> QED
    BY <1>0, <1>1, <1>2, <1>5, <2>2 DEF CallInv, TypeOK
<1>10. OwnershipInv'
  BY <1>0, <1>2 DEF OwnershipInv
<1>11. QueueInv'
  <2>1. ASSUME NEW k \in Locks, NEW i \in Positions(k)', NEW j \in Positions(k)',
               waiting'[k][i] = waiting'[k][j]
        PROVE  i = j
    <3>1. CASE k # l
      BY <1>0, <1>5, <2>1, <3>1 DEF QueueInv
    <3>2. CASE k = l
      BY <1>0, <1>1, <1>4, <1>6, <2>1, <3>2 DEF QueueInv
    <3> QED
      BY <3>1, <3>2
  <2>2. ASSUME NEW k \in Locks, NEW u \in Threads
        PROVE  WaitsFor(u)' = k <=> \E i \in Positions(k)' : waiting'[k][i] = u
    <3>1. WaitsFor(u) = k <=> \E i \in Positions(k) : waiting[k][i] = u
      BY <1>0 DEF QueueInv
    <3>2. CASE k # l
      BY <1>1, <1>5, <1>8, <3>1, <3>2
    <3>3. CASE k = l /\ u = t
      BY <1>6, <1>8, <3>3
    <3>4. CASE k = l /\ u # t
      BY <1>6, <1>8, <3>1, <3>4
    <3> QED
      BY <3>2, <3>3, <3>4
  <2>3. \A u \in Threads : state'[u] = "MUTEX_WAIT" => pc'[u] \in {"block", "recheck"}
    BY <1>0, <1>2 DEF QueueInv, TypeOK
  <2> QED
    BY <2>1, <2>2, <2>3 DEF QueueInv
<1>12. ASSUME NEW k \in Locks, NEW i \in Positions(k)
       PROVE  state'[waiting[k][i]] = state[waiting[k][i]]
  BY <1>0, <1>4, <1>8, WaitingType
<1>13. NoLostWakeup'
  <2> SUFFICES ASSUME NEW k \in Locks
      PROVE  /\ owner[k] = NULL /\ Writers(k)' # {}
                  => \E i \in Writers(k)' : state'[waiting'[k][i]] = "RUNNING"
             /\ owner[k] = NULL \/ type[k] = "READ"
                  => \A i \in Positions(k)' : state'[waiting'[k][i]] = "MUTEX_WAIT" => Writers(k)' # {}
    BY <1>2 DEF NoLostWakeup
  <2>0. /\ Writers(k) \subseteq Positions(k)
        /\ owner[k] = NULL /\ Writers(k) # {}
             => \E i \in Writers(k) : state[waiting[k][i]] = "RUNNING"
        /\ owner[k] = NULL \/ type[k] = "READ"
             => \A i \in Positions(k) : state[waiting[k][i]] = "MUTEX_WAIT" => Writers(k) # {}
    BY DEF NoLostWakeup, IInv, Writers
  <2>1. CASE k # l
    BY <1>5, <1>12, <2>0, <2>1
  <2>2. CASE k = l
    BY <1>3, <1>6, <1>7, <1>12, <2>0, <2>2
  <2> QED
    BY <2>1, <2>2
<1>14. ReadersStayBehindWriters'
  <2> SUFFICES ASSUME NEW k \in Locks, NEW i \in Positions(k)', NEW j \in Writers(k)',
                      j < i, i \notin Writers(k)'
      PROVE  state'[waiting'[k][i]] = "MUTEX_WAIT"
    BY DEF ReadersStayBehindWriters
  <2>0. \A p \in Positions(k), q \in Writers(k) :
           q < p /\ p \notin Writers(k) => state[waiting[k][p]] = "MUTEX_WAIT"
    BY DEF ReadersStayBehindWriters, IInv
  <2>1. CASE k # l
    BY <1>5, <1>12, <2>0, <2>1
  <2>2. CASE k = l
    <3>1. CASE i = n
      BY <1>6, <1>8, <2>2, <3>1
    <3>2. CASE i # n
      BY <1>6, <1>7, <1>12, <2>0, <2>2, <3>2
    <3> QED
      BY <3>1, <3>2
  <2> QED
    BY <2>1, <2>2
<1>r. RunInv'
  BY <1>0, <1>2 DEF RunInv, LockBlocks, TypeOK
<1> QED
  BY <1>r, <1>2, <1>9, <1>10, <1>11, <1>13, <1>14 DEF IInv, NoInternalError

\* Going back to sleep (RecheckFails) preserves the invariant: the lock is held
\* again, so the wakeup that was used up will be repeated.
LEMMA FailsStep ==
  ASSUME IInv, TypeOK', NEW t \in Threads, RecheckFails(t)
  PROVE  IInv'
<1> USE NullAssumption
<1>0. TypeOK /\ CallInv /\ RunInv /\ OwnershipInv /\ QueueInv
  BY DEF IInv
<1>l. PICK l \in Locks : l = mutex[t]
  BY <1>0 DEF RecheckFails, TypeOK
<1>1. /\ pc[t] = "recheck" /\ owner[l] # NULL
      /\ ~(mutextype[t] = "READ" /\ type[l] = "READ")
  BY <1>l DEF RecheckFails, MayTake
<1>2. /\ state' = [state EXCEPT ![t] = "MUTEX_WAIT"]
      /\ pc' = [pc EXCEPT ![t] = "block"]
      /\ count' = count /\ owner' = owner /\ type' = type /\ waiting' = waiting
      /\ mutex' = mutex /\ mutextype' = mutextype /\ fatal' = fatal /\ held' = held
  BY DEF RecheckFails, fields, args
<1>3. \A u \in Threads : WaitsFor(u)' = WaitsFor(u)
  BY <1>0, <1>1, <1>2 DEF WaitsFor, TypeOK
<1>4. WaitsFor(t) = l
  BY <1>1, <1>l DEF WaitsFor
<1>5. \A k \in Locks : Positions(k)' = Positions(k) /\ Writers(k)' = Writers(k)
  BY <1>0, <1>2, WritersFrame
<1>6. CallInv'
  BY <1>0, <1>1, <1>2 DEF CallInv, TypeOK
<1>7. OwnershipInv'
  BY <1>0, <1>2 DEF OwnershipInv
<1>8. QueueInv'
  <2>1. \A u \in Threads : state'[u] = "MUTEX_WAIT" => pc'[u] \in {"block", "recheck"}
    BY <1>0, <1>2 DEF QueueInv, TypeOK
  <2> QED
    BY <1>0, <1>2, <1>3, <1>5, <2>1 DEF QueueInv
<1>9. \A u \in Threads : state'[u] = IF u = t THEN "MUTEX_WAIT" ELSE state[u]
  BY <1>0, <1>2 DEF TypeOK
<1>10. NoLostWakeup'
  <2> SUFFICES ASSUME NEW k \in Locks
      PROVE  /\ owner[k] = NULL /\ Writers(k) # {}
                  => \E i \in Writers(k) : state'[waiting[k][i]] = "RUNNING"
             /\ owner[k] = NULL \/ type[k] = "READ"
                  => \A i \in Positions(k) : state'[waiting[k][i]] = "MUTEX_WAIT" => Writers(k) # {}
    BY <1>2, <1>5 DEF NoLostWakeup
  <2>1. CASE k # l
    <3>1. \A i \in Positions(k) : state'[waiting[k][i]] = state[waiting[k][i]]
      BY <1>0, <1>4, <1>9, <2>1, WaitingType DEF QueueInv
    <3> QED
      BY <3>1 DEF NoLostWakeup, IInv, Writers
  <2>2. CASE k = l /\ mutextype[t] # "READ"
    <3>1. PICK i \in Positions(l) : waiting[l][i] = t
      BY <1>0, <1>4 DEF QueueInv
    <3>2. Writers(l) # {}
      BY <2>2, <3>1 DEF Writers
    <3> QED
      BY <1>1, <2>2, <3>2
  <2>3. CASE k = l /\ mutextype[t] = "READ"
    BY <1>1, <2>3
  <2> QED
    BY <2>1, <2>2, <2>3
<1>11. ReadersStayBehindWriters'
  <2>1. ASSUME NEW k \in Locks, NEW i \in Positions(k), state[waiting[k][i]] = "MUTEX_WAIT"
        PROVE  state'[waiting[k][i]] = "MUTEX_WAIT"
    BY <1>0, <1>9, <2>1, WaitingType
  <2> QED
    BY <1>2, <1>5, <2>1 DEF ReadersStayBehindWriters, IInv
<1>r. RunInv'
  BY <1>0, <1>2 DEF RunInv, RecheckFails, TypeOK
<1> QED
  BY <1>r, <1>2, <1>6, <1>7, <1>8, <1>10, <1>11 DEF IInv, NoInternalError

\* pthread_mutex_destroy and pthread_rwlock_destroy preserve the invariant:
\* only a lock that is neither held nor waited for is destroyed.
LEMMA DestroyStep ==
  ASSUME IInv, TypeOK', NEW t \in Threads, NEW l \in Locks, Destroy(t, l)
  PROVE  IInv'
<1>0. TypeOK /\ CallInv /\ RunInv /\ OwnershipInv /\ QueueInv
  BY DEF IInv
<1>1. /\ count' = count /\ owner' = owner /\ waiting' = waiting /\ state' = state
      /\ pc' = pc /\ mutex' = mutex /\ mutextype' = mutextype
      /\ fatal' = fatal /\ held' = held
      /\ \A u \in Threads : mutex[u] # l
  BY DEF Destroy, args, InUse
<1>2. \/ type' = type
      \/ type' = [type EXCEPT ![l] = "INVALID"] /\ count[l] = 0 /\ waiting[l] = << >>
  BY DEF Destroy
<1>3. /\ \A k \in Locks : Positions(k)' = Positions(k) /\ Writers(k)' = Writers(k)
      /\ \A u \in Threads : WaitsFor(u)' = WaitsFor(u)
  BY <1>1 DEF Positions, Writers, WaitsFor
<1>r. RunInv'
  BY <1>0, <1>1 DEF RunInv, Destroy
<1>4. CASE type' = type
  BY <1>0, <1>1, <1>3, <1>4, <1>r
     DEF IInv, CallInv, OwnershipInv, QueueInv, NoLostWakeup, ReadersStayBehindWriters, NoInternalError
<1>5. CASE type' = [type EXCEPT ![l] = "INVALID"] /\ count[l] = 0 /\ waiting[l] = << >>
  <2>1. /\ \A k \in Locks : k # l => type'[k] = type[k]
        /\ type'[l] = "INVALID"
    BY <1>0, <1>5 DEF TypeOK
  <2>2. CallInv'
    BY <1>0, <1>1, <1>5, <2>1 DEF CallInv, TypeOK
  <2>3. OwnershipInv'
    BY <1>0, <1>1, <1>5, <2>1 DEF OwnershipInv
  <2>4. QueueInv'
    BY <1>0, <1>1, <1>3 DEF QueueInv
  <2>5. Positions(l) = {}
    BY <1>5 DEF Positions
  <2>6. NoLostWakeup'
    BY <1>1, <1>3, <2>1, <2>5 DEF NoLostWakeup, IInv, Writers
  <2>7. ReadersStayBehindWriters'
    BY <1>1, <1>3 DEF ReadersStayBehindWriters, IInv
  <2> QED
    BY <1>1, <1>r, <2>2, <2>3, <2>4, <2>6, <2>7 DEF IInv, NoInternalError
<1> QED
  BY <1>2, <1>4, <1>5

\* pthread_mutex_init and pthread_rwlock_init of a destroyed lock preserve the
\* invariant.
LEMMA ReinitStep ==
  ASSUME IInv, TypeOK', NEW t \in Threads, NEW l \in Locks, Reinit(t, l)
  PROVE  IInv'
<1>0. TypeOK /\ CallInv /\ RunInv /\ OwnershipInv /\ QueueInv
  BY DEF IInv
<1>1. /\ state' = state /\ pc' = pc /\ mutex' = mutex /\ mutextype' = mutextype
      /\ fatal' = fatal /\ held' = held
  BY DEF Reinit, args
<1>r. RunInv'
  BY <1>0, <1>1 DEF RunInv, Reinit
<1>2. CASE UNCHANGED fields
  <2>1. count' = count /\ owner' = owner /\ waiting' = waiting /\ type' = type
    BY <1>2 DEF fields
  <2>2. /\ \A k \in Locks : Positions(k)' = Positions(k) /\ Writers(k)' = Writers(k)
        /\ \A u \in Threads : WaitsFor(u)' = WaitsFor(u)
    BY <1>1, <2>1 DEF Positions, Writers, WaitsFor
  <2> QED
    BY <1>0, <1>1, <1>r, <2>1, <2>2
     DEF IInv, CallInv, OwnershipInv, QueueInv, NoLostWakeup, ReadersStayBehindWriters, NoInternalError
<1>3. CASE /\ type[l] = "INVALID" /\ ~InUse(l)
           /\ count' = [count EXCEPT ![l] = 0]
           /\ owner' = [owner EXCEPT ![l] = NULL]
           /\ type' = [type EXCEPT ![l] = IF l \in Mutexes THEN "MUTEX" ELSE "READ"]
           /\ waiting' = [waiting EXCEPT ![l] = << >>]
  <2>1. count[l] = 0 /\ owner[l] = NULL /\ waiting[l] = << >>
    <3>1. "INVALID" \notin TypesOf(l) /\ count[l] \in Nat
      BY <1>0 DEF TypesOf, TypeOK
    <3> QED
      BY <1>0, <1>3, <3>1 DEF CallInv, OwnershipInv
  <2>2. count' = count /\ owner' = owner /\ waiting' = waiting
    BY <1>0, <1>3, <2>1 DEF TypeOK
  <2>3. /\ \A k \in Locks : Positions(k)' = Positions(k) /\ Writers(k)' = Writers(k)
        /\ \A u \in Threads : WaitsFor(u)' = WaitsFor(u)
    BY <1>1, <2>2 DEF Positions, Writers, WaitsFor
  <2>4. /\ \A k \in Locks : k # l => type'[k] = type[k]
        /\ type'[l] \in TypesOf(l)
    BY <1>0, <1>3 DEF TypeOK, TypesOf
  <2>5. CallInv'
    BY <1>0, <1>1, <1>3, <2>1, <2>2, <2>4 DEF CallInv, TypeOK, InUse
  <2>6. OwnershipInv'
    BY <1>0, <1>1, <2>1, <2>2, <2>4 DEF OwnershipInv
  <2>7. QueueInv'
    BY <1>0, <1>1, <2>2, <2>3 DEF QueueInv
  <2>8. Positions(l) = {}
    BY <2>1 DEF Positions
  <2>9. NoLostWakeup'
    BY <1>1, <2>2, <2>3, <2>4, <2>8 DEF NoLostWakeup, IInv, Writers
  <2>10. ReadersStayBehindWriters'
    BY <1>1, <2>2, <2>3 DEF ReadersStayBehindWriters, IInv
  <2> QED
    BY <1>1, <1>r, <2>5, <2>6, <2>7, <2>9, <2>10 DEF IInv, NoInternalError
<1> QED
  BY <1>2, <1>3 DEF Reinit

\* A waiter that takes the lock (RecheckTakes) preserves the invariant: it is in
\* the list, its own departure moves the others up without changing their
\* order, and whoever still sleeps has a holder or a writer to wait for.
LEMMA TakesStep ==
  ASSUME IInv, RoomInv, TypeOK', NEW t \in Threads, RecheckTakes(t)
  PROVE  IInv'
<1> USE NullAssumption
<1>0. TypeOK /\ CallInv /\ RunInv /\ OwnershipInv /\ QueueInv
  BY DEF IInv
<1>l. PICK l \in Locks : l = mutex[t]
  BY <1>0 DEF RecheckTakes, TypeOK
<1>1. /\ pc[t] = "recheck" /\ WaitsFor(t) = l
      /\ owner[l] = NULL \/ (mutextype[t] = "READ" /\ type[l] = "READ")
  BY <1>l DEF RecheckTakes, MayTake, WaitsFor
<1>2. \E i \in Positions(l) : waiting[l][i] = t
  BY <1>0, <1>1 DEF QueueInv
<1>3. PICK p \in Positions(l) :
        /\ waiting[l][p] = t
        /\ waiting' = [waiting EXCEPT ![l] = RemoveAt(@, p)]
        /\ Acquire(t, l) /\ Leave(t) /\ fatal' = fatal
  BY <1>2, <1>l DEF RecheckTakes
<1>4. /\ owner' = [owner EXCEPT ![l] = t]
      /\ count' = [count EXCEPT ![l] = @ + 1]
      /\ type' = [type EXCEPT ![l] = mutextype[t]]
      /\ held' = [held EXCEPT ![l] = Append(@, t)]
      /\ pc' = [pc EXCEPT ![t] = "run"]
      /\ mutex' = [mutex EXCEPT ![t] = NULL]
      /\ mutextype' = [mutextype EXCEPT ![t] = "MUTEX"]
      /\ state' = state
  BY <1>l, <1>3, TakenHasRoom DEF Acquire, Leave, RecheckTakes
<1>5. mutextype[t] \in TypesOf(l) /\ type[l] # "INVALID"
  BY <1>0, <1>1, <1>l DEF CallInv
<1>6. PICK n \in Nat : n = Len(waiting[l])
  BY <1>0, WaitingType
<1>7. /\ Positions(l) = 1 .. n /\ Positions(l)' = 1 .. n - 1 /\ p \in 1 .. n
      /\ \A i \in 1 .. n - 1 : waiting'[l][i] = IF i < p THEN waiting[l][i] ELSE waiting[l][i + 1]
  <2>1. waiting[l] \in Seq(Threads) /\ waiting'[l] = RemoveAt(waiting[l], p)
    BY <1>0, <1>3 DEF TypeOK
  <2>2. p \in 1 .. Len(waiting[l])
    BY DEF Positions
  <2>3. /\ Len(waiting'[l]) = n - 1
        /\ \A i \in 1 .. n - 1 : waiting'[l][i] = IF i < p THEN waiting[l][i] ELSE waiting[l][i + 1]
    <3>1. /\ Len(RemoveAt(waiting[l], p)) = Len(waiting[l]) - 1
          /\ \A i \in 1 .. Len(waiting[l]) - 1 :
               RemoveAt(waiting[l], p)[i] =
                 IF i < p THEN waiting[l][i] ELSE waiting[l][i + 1]
      BY <2>1, <2>2, RemoveAtIndex, Zenon
    <3> QED
      BY <1>6, <2>1, <3>1
  <2> QED
    BY <1>6, <2>2, <2>3 DEF Positions
<1>8. ASSUME NEW i \in 1 .. n, waiting[l][i] = t PROVE i = p
  BY <1>0, <1>3, <1>7, <1>8 DEF QueueInv
<1>9. \A i \in 1 .. n - 1 : waiting'[l][i] # t /\ waiting'[l][i] \in Threads
  <2>1. \A i \in 1 .. n : waiting[l][i] \in Threads
    BY <1>0, <1>7, WaitingType
  <2> QED
    BY <1>7, <1>8, <2>1
<1>10. \A u \in Threads : u # t => WaitsFor(u)' = WaitsFor(u) /\ mutextype'[u] = mutextype[u]
  BY <1>0, <1>4 DEF WaitsFor, TypeOK
<1>11. WaitsFor(t)' = NULL
  BY <1>0, <1>4 DEF WaitsFor, TypeOK
<1>12. ASSUME NEW k \in Locks, k # l
       PROVE  waiting'[k] = waiting[k] /\ Positions(k)' = Positions(k) /\ Writers(k)' = Writers(k)
  <2>1. waiting'[k] = waiting[k]
    BY <1>0, <1>3, <1>12 DEF TypeOK
  <2>2. \A u \in Threads : WaitsFor(u) = k => mutextype'[u] = mutextype[u]
    BY <1>1, <1>10, <1>12
  <2> QED
    BY <1>0, <2>1, <2>2, WritersFrame
<1>13. \A i \in 1 .. n - 1 : i \in Writers(l)' <=> (IF i < p THEN i ELSE i + 1) \in Writers(l)
  <2>1. \A i \in 1 .. n - 1 : i \in Writers(l)' <=> mutextype[waiting'[l][i]] # "READ"
    BY <1>7, <1>9, <1>10 DEF Writers
  <2>2. \A i \in 1 .. n : i \in Writers(l) <=> mutextype[waiting[l][i]] # "READ"
    BY <1>7 DEF Writers
  <2> QED
    BY <1>7, <2>1, <2>2
<1>14. CallInv'
  <2>1. \A k \in Locks : type'[k] = IF k = l THEN mutextype[t] ELSE type[k]
    BY <1>0, <1>4 DEF TypeOK
  <2>2. mutextype[t] # "INVALID"
    BY <1>5 DEF TypesOf
  <2>3. \A k \in Locks : /\ type'[k] \in TypesOf(k) \cup {"INVALID"}
                         /\ type'[k] = "INVALID" => waiting'[k] = << >>
    BY <1>0, <1>5, <1>12, <2>1, <2>2 DEF CallInv
  <2>4. \A u \in Threads : pc'[u] \in {"enter", "block", "recheck"} =>
           mutextype'[u] \in TypesOf(mutex'[u]) /\ type'[mutex'[u]] # "INVALID"
    BY <1>0, <1>4, <2>1, <2>2 DEF CallInv, TypeOK
  <2> QED
    BY <2>3, <2>4 DEF CallInv
<1>15. OwnershipInv'
  <2> SUFFICES ASSUME NEW k \in Locks
      PROVE  /\ Len(held'[k]) = count'[k]
             /\ owner'[k] = NULL <=> count'[k] = 0
             /\ type'[k] # "READ" => \A i \in 1 .. Len(held'[k]) : held'[k][i] = owner'[k]
             /\ count'[k] > 1 => type'[k] = "READ" \/ k \in RecursiveMutexes
             /\ count'[k] > 0 => type'[k] \in TypesOf(k)
    BY DEF OwnershipInv
  <2>1. CASE k # l
    BY <1>0, <1>4, <2>1 DEF OwnershipInv, TypeOK
  <2>2. CASE k = l
    <3>1. /\ held[l] \in Seq(Threads) /\ count[l] \in Nat /\ Len(held[l]) = count[l]
          /\ owner[l] = NULL <=> count[l] = 0
      BY <1>0 DEF OwnershipInv, TypeOK
    <3>2. /\ held'[l] = Append(held[l], t) /\ count'[l] = count[l] + 1
          /\ owner'[l] = t /\ type'[l] = mutextype[t]
      BY <1>0, <1>4 DEF TypeOK
    <3>3. /\ Len(held'[l]) = count'[l]
          /\ \A i \in 1 .. Len(held'[l]) : held'[l][i] = IF i = count'[l] THEN t ELSE held[l][i]
      BY <3>1, <3>2
    <3>4. type'[l] # "READ" => \A i \in 1 .. Len(held'[l]) : held'[l][i] = owner'[l]
      BY <1>1, <3>1, <3>2, <3>3
    <3>5. count'[l] > 1 => type'[l] = "READ"
      BY <1>1, <3>1, <3>2
    <3> QED
      BY <1>5, <2>2, <3>1, <3>2, <3>3, <3>4, <3>5
  <2> QED
    BY <2>1, <2>2
<1>16. QueueInv'
  <2>1. ASSUME NEW k \in Locks, NEW i \in Positions(k)', NEW j \in Positions(k)',
               waiting'[k][i] = waiting'[k][j]
        PROVE  i = j
    <3>1. CASE k # l
      BY <1>0, <1>12, <2>1, <3>1 DEF QueueInv
    <3>2. CASE k = l
      <4>1. i \in 1 .. n - 1 /\ j \in 1 .. n - 1
        BY <1>7, <3>2
      <4>2. \A a, b \in 1 .. n : waiting[l][a] = waiting[l][b] => a = b
        BY <1>0, <1>7 DEF QueueInv
      <4>3. /\ waiting'[l][i] = waiting[l][IF i < p THEN i ELSE i + 1]
            /\ waiting'[l][j] = waiting[l][IF j < p THEN j ELSE j + 1]
        BY <1>7, <4>1
      <4>4. (IF i < p THEN i ELSE i + 1) = (IF j < p THEN j ELSE j + 1)
        BY <1>7, <2>1, <3>2, <4>1, <4>2, <4>3
      <4> QED
        BY <1>7, <4>1, <4>4
    <3> QED
      BY <3>1, <3>2
  <2>2. ASSUME NEW k \in Locks, NEW u \in Threads
        PROVE  WaitsFor(u)' = k <=> \E i \in Positions(k)' : waiting'[k][i] = u
    <3>1. WaitsFor(u) = k <=> \E i \in Positions(k) : waiting[k][i] = u
      BY <1>0 DEF QueueInv
    <3>2. CASE k # l
      BY <1>1, <1>10, <1>11, <1>12, <3>1, <3>2
    <3>3. CASE k = l /\ u = t
      BY <1>7, <1>9, <1>11, <3>3
    <3>4. CASE k = l /\ u # t
      <4>1. \A i \in 1 .. n : i # p =>
              \E j \in 1 .. n - 1 : waiting'[l][j] = waiting[l][i]
        <5> SUFFICES ASSUME NEW i \in 1 .. n, i # p
                     PROVE  \E j \in 1 .. n - 1 : waiting'[l][j] = waiting[l][i]
          OBVIOUS
        <5>1. CASE i < p
          <6>1. i \in 1 .. n - 1 /\ waiting'[l][i] = waiting[l][i]
            BY <1>7, <5>1
          <6> QED
            BY <6>1
        <5>2. CASE i > p
          <6>1. i - 1 \in 1 .. n - 1 /\ waiting'[l][i - 1] = waiting[l][i]
            BY <1>7, <5>2
          <6> QED
            BY <6>1
        <5> QED
          BY <1>7, <5>1, <5>2
      <4>2. \A j \in 1 .. n - 1 : \E i \in 1 .. n : waiting'[l][j] = waiting[l][i]
        BY <1>7
      <4>3. (\E i \in 1 .. n : waiting[l][i] = u) => \E i \in 1 .. n : i # p /\ waiting[l][i] = u
        BY <1>3, <3>4
      <4>4. (\E i \in 1 .. n : waiting[l][i] = u) <=> \E j \in 1 .. n - 1 : waiting'[l][j] = u
        BY <4>1, <4>2, <4>3
      <4> QED
        BY <1>7, <1>10, <3>1, <3>4, <4>4
    <3> QED
      BY <3>2, <3>3, <3>4
  <2>3. \A u \in Threads : state'[u] = "MUTEX_WAIT" => pc'[u] \in {"block", "recheck"}
    <3>1. state[t] = "RUNNING"
      BY <1>0, <1>1 DEF RunInv, RecheckTakes
    <3> QED
      BY <1>0, <1>4, <3>1 DEF QueueInv, TypeOK
  <2> QED
    BY <2>1, <2>2, <2>3 DEF QueueInv
<1>17. \A i \in 1 .. n - 1 : state'[waiting'[l][i]] = state[waiting[l][IF i < p THEN i ELSE i + 1]]
  BY <1>4, <1>7
<1>18. NoLostWakeup'
  <2> SUFFICES ASSUME NEW k \in Locks
      PROVE  /\ owner'[k] = NULL /\ Writers(k)' # {}
                  => \E i \in Writers(k)' : state'[waiting'[k][i]] = "RUNNING"
             /\ owner'[k] = NULL \/ type'[k] = "READ"
                  => \A i \in Positions(k)' : state'[waiting'[k][i]] = "MUTEX_WAIT" => Writers(k)' # {}
    BY DEF NoLostWakeup
  <2>1. CASE k # l
    <3>1. owner'[k] = owner[k] /\ type'[k] = type[k]
      BY <1>0, <1>4, <2>1 DEF TypeOK
    <3> QED
      BY <1>4, <1>12, <2>1, <3>1 DEF NoLostWakeup, IInv
  <2>2. CASE k = l
    <3>1. owner'[l] = t /\ type'[l] = mutextype[t]
      BY <1>0, <1>4 DEF TypeOK
    <3> SUFFICES ASSUME mutextype[t] = "READ", NEW i \in 1 .. n - 1,
                        state'[waiting'[l][i]] = "MUTEX_WAIT"
                 PROVE  Writers(l)' # {}
      BY <1>7, <2>2, <3>1
    <3>2. (IF i < p THEN i ELSE i + 1) \in Positions(l)
      BY <1>7
    <3>3. Writers(l) # {}
      BY <1>1, <1>17, <3>2 DEF NoLostWakeup, IInv
    <3>4. PICK j \in Writers(l) : j \in 1 .. n /\ j # p
      BY <1>3, <1>7, <3>3 DEF Writers
    <3>5. CASE j < p
      BY <1>7, <1>13, <3>4, <3>5
    <3>6. CASE j > p
      <4>1. j - 1 \in 1 .. n - 1 /\ ~(j - 1 < p) /\ (j - 1) + 1 = j
        BY <1>7, <3>4, <3>6
      <4> QED
        BY <1>13, <3>4, <4>1
    <3> QED
      BY <1>7, <3>4, <3>5, <3>6
  <2> QED
    BY <2>1, <2>2
<1>19. ReadersStayBehindWriters'
  <2> SUFFICES ASSUME NEW k \in Locks, NEW i \in Positions(k)', NEW j \in Writers(k)',
                      j < i, i \notin Writers(k)'
      PROVE  state'[waiting'[k][i]] = "MUTEX_WAIT"
    BY DEF ReadersStayBehindWriters
  <2>0. \A a \in Positions(k), b \in Writers(k) :
           b < a /\ a \notin Writers(k) => state[waiting[k][a]] = "MUTEX_WAIT"
    BY DEF ReadersStayBehindWriters, IInv
  <2>1. CASE k # l
    BY <1>4, <1>12, <2>0, <2>1
  <2>2. CASE k = l
    <3>1. i \in 1 .. n - 1 /\ j \in 1 .. n - 1
      BY <1>7, <2>2 DEF Writers
    <3>2. /\ (IF j < p THEN j ELSE j + 1) \in Writers(l)
          /\ (IF i < p THEN i ELSE i + 1) \notin Writers(l)
          /\ (IF i < p THEN i ELSE i + 1) \in Positions(l)
          /\ (IF j < p THEN j ELSE j + 1) < (IF i < p THEN i ELSE i + 1)
      BY <1>7, <1>13, <2>2, <3>1
    <3> QED
      BY <1>17, <2>0, <2>2, <3>1, <3>2
  <2> QED
    BY <2>1, <2>2
<1>20. RunInv'
  BY <1>0, <1>4 DEF RunInv, RecheckTakes, TypeOK
<1> QED
  BY <1>3, <1>14, <1>15, <1>16, <1>18, <1>19, <1>20 DEF IInv, NoInternalError

\* A nonempty set of list positions has a first element.
LEMMA FirstPosition ==
  ASSUME NEW S \in SUBSET Nat, S # {}
  PROVE  \E i \in S : \A j \in S : i <= j
<1>1. \E i \in S : \A j \in S : ~(<<j, i>> \in OpToRel(<, Nat))
  BY NatLessThanWellFounded, WFMin
<1>2. ASSUME NEW i \in Nat, NEW j \in Nat, j < i PROVE <<j, i>> \in OpToRel(<, Nat)
  BY <1>2 DEF OpToRel
<1>3. PICK i \in S : \A j \in S : ~(<<j, i>> \in OpToRel(<, Nat))
  BY <1>1
<1>4. \A j \in S : ~(j < i)
  BY <1>2, <1>3
<1> QED
  BY <1>4

\* Giving back one acquisition leaves the history one shorter, with the same
\* holders otherwise.
LEMMA GiveBackEffect ==
  ASSUME TypeOK, NEW t \in Threads, NEW l \in Locks, Holds(t, l), GiveBack(t, l)
  PROVE  /\ \A k \in Locks : k # l => held'[k] = held[k]
         /\ held'[l] \in Seq(Threads) /\ Len(held'[l]) = Len(held[l]) - 1
         /\ \A i \in 1 .. Len(held'[l]) : \E j \in 1 .. Len(held[l]) : held'[l][i] = held[l][j]
<1>1. PICK p \in 1 .. Len(held[l]) : held' = [held EXCEPT ![l] = RemoveAt(@, p)]
  BY DEF GiveBack
<1>2. held[l] \in Seq(Threads) /\ held'[l] = RemoveAt(held[l], p) /\ Len(held[l]) \in Nat
  BY <1>1 DEF TypeOK
<1>3. /\ held'[l] \in Seq(Threads) /\ Len(held'[l]) = Len(held[l]) - 1
      /\ \A j \in 1 .. Len(held[l]) - 1 :
           held'[l][j] = IF j < p THEN held[l][j] ELSE held[l][j + 1]
  BY <1>2, RemoveAtIndex
<1>4. \A i \in 1 .. Len(held'[l]) : \E j \in 1 .. Len(held[l]) : held'[l][i] = held[l][j]
  BY <1>2, <1>3
<1> QED
  BY <1>1, <1>3, <1>4 DEF TypeOK

\* Unlock preserves the invariant: either somebody still holds the lock, or the
\* first writer, or every reader, is awake afterwards.
LEMMA UnlockStep ==
  ASSUME IInv, TypeOK', NEW t \in Threads, NEW l \in Locks, Unlock(t, l)
  PROVE  IInv'
<1> USE NullAssumption
<1>0. TypeOK /\ CallInv /\ RunInv /\ OwnershipInv /\ QueueInv
  BY DEF IInv
<1>1. /\ fatal = "none" /\ running = t /\ pc[t] = "run" /\ WaitsFor(t) = NULL
      /\ count[l] # 0 /\ (type[l] # "READ" => owner[l] = t)
      /\ (type[l] = "READ" => Holds(t, l))
  BY <1>0 DEF Unlock, NotOwner, MayUnlock, WaitsFor, TypeOK
<1>2. /\ pc' = [pc EXCEPT ![t] = "unlock"]
      /\ mutex' = [mutex EXCEPT ![t] = l]
      /\ mutextype' = mutextype /\ type' = type /\ waiting' = waiting /\ running' = running
      /\ GiveBack(t, l)
  BY DEF Unlock
<1>3. /\ held[l] \in Seq(Threads) /\ count[l] \in Nat /\ Len(held[l]) = count[l]
      /\ owner[l] = NULL <=> count[l] = 0
      /\ type[l] # "READ" => \A i \in 1 .. Len(held[l]) : held[l][i] = owner[l]
  BY <1>0 DEF OwnershipInv, TypeOK
<1>4. Holds(t, l)
  BY <1>1, <1>3 DEF Holds
<1>5. /\ \A k \in Locks : k # l => held'[k] = held[k]
      /\ held'[l] \in Seq(Threads) /\ Len(held'[l]) = count[l] - 1
      /\ \A i \in 1 .. Len(held'[l]) : \E j \in 1 .. Len(held[l]) : held'[l][i] = held[l][j]
  BY <1>0, <1>2, <1>3, <1>4, GiveBackEffect
<1>6. \A u \in Threads : WaitsFor(u)' = WaitsFor(u)
  BY <1>0, <1>1, <1>2 DEF WaitsFor, TypeOK
<1>7. \A k \in Locks : Positions(k)' = Positions(k) /\ Writers(k)' = Writers(k)
  BY <1>0, <1>2, WritersFrame
<1>8. CallInv'
  BY <1>0, <1>1, <1>2 DEF CallInv, TypeOK
<1>9. ASSUME count' = [count EXCEPT ![l] = count[l] - 1],
             \A k \in Locks : k # l => owner'[k] = owner[k],
             owner'[l] = IF count[l] = 1 THEN NULL ELSE owner[l]
      PROVE  OwnershipInv'
  <2> SUFFICES ASSUME NEW k \in Locks
      PROVE  /\ Len(held'[k]) = count'[k]
             /\ owner'[k] = NULL <=> count'[k] = 0
             /\ type[k] # "READ" => \A i \in 1 .. Len(held'[k]) : held'[k][i] = owner'[k]
             /\ count'[k] > 1 => type[k] = "READ" \/ k \in RecursiveMutexes
             /\ count'[k] > 0 => type[k] \in TypesOf(k)
    BY <1>2 DEF OwnershipInv
  <2>1. CASE k # l
    <3>1. held'[k] = held[k] /\ count'[k] = count[k] /\ owner'[k] = owner[k]
      BY <1>0, <1>5, <1>9, <2>1 DEF TypeOK
    <3> QED
      BY <1>0, <3>1 DEF OwnershipInv
  <2>2. CASE k = l
    <3>1. count'[l] = count[l] - 1
      BY <1>0, <1>9 DEF TypeOK
    <3>2. owner'[l] = NULL <=> count'[l] = 0
      BY <1>1, <1>3, <1>9, <3>1
    <3>3. type[l] # "READ" => \A i \in 1 .. Len(held'[l]) : held'[l][i] = owner'[l]
      BY <1>3, <1>5, <1>9
    <3>4. count[l] > 1 => type[l] = "READ" \/ l \in RecursiveMutexes
      BY <1>0 DEF OwnershipInv
    <3>5. count[l] > 0 => type[l] \in TypesOf(l)
      BY <1>0 DEF OwnershipInv
    <3> QED
      BY <1>1, <1>3, <1>5, <2>2, <3>1, <3>2, <3>3, <3>4, <3>5
  <2> QED
    BY <2>1, <2>2
<1>10. CASE UnlockInner(t, l)
  <2>1. /\ count[l] > 1 /\ count' = [count EXCEPT ![l] = count[l] - 1]
        /\ owner' = owner /\ state' = state /\ fatal' = fatal
    BY <1>10 DEF UnlockInner
  <2>2. OwnershipInv'
    BY <1>3, <1>9, <2>1
  <2>3. QueueInv'
    <3>1. \A u \in Threads : state'[u] = "MUTEX_WAIT" => pc'[u] \in {"block", "recheck"}
      BY <1>0, <1>1, <1>2, <2>1 DEF QueueInv, TypeOK
    <3> QED
      BY <1>0, <1>2, <1>6, <1>7, <3>1 DEF QueueInv
  <2>4. NoLostWakeup'
    BY <1>2, <1>7, <2>1 DEF NoLostWakeup, IInv
  <2>5. ReadersStayBehindWriters'
    BY <1>2, <1>7, <2>1 DEF ReadersStayBehindWriters, IInv
  <2>6. RunInv'
    BY <1>0, <1>1, <1>2, <2>1 DEF RunInv, TypeOK
  <2> QED
    BY <1>8, <2>1, <2>2, <2>3, <2>4, <2>5, <2>6 DEF IInv, NoInternalError
<1>11. CASE UnlockLast(t, l)
  <2>1. \A i \in Positions(l) : /\ waiting[l][i] \in Threads /\ waiting[l][i] # t
                                /\ WaitsFor(waiting[l][i]) = l
    BY <1>0, <1>1, NotWaiting, WaitingType DEF QueueInv
  <2>2. /\ count[l] = 1 /\ count' = [count EXCEPT ![l] = 0]
        /\ owner' = [owner EXCEPT ![l] = NULL]
        /\ fatal' = fatal
        /\ state' = [u \in Threads |-> IF u \in Woken(l) THEN "RUNNING" ELSE state[u]]
    BY <1>11, <2>1 DEF UnlockLast, Scanned
  <2>3. OwnershipInv'
    BY <1>0, <1>3, <1>9, <2>2 DEF TypeOK
  <2>4. QueueInv'
    <3>1. \A u \in Threads : state'[u] = "MUTEX_WAIT" => pc'[u] \in {"block", "recheck"}
      BY <1>0, <1>1, <1>2, <2>2 DEF QueueInv, TypeOK
    <3> QED
      BY <1>0, <1>2, <1>6, <1>7, <3>1 DEF QueueInv
  <2>5. ASSUME NEW k \in Locks, k # l, NEW i \in Positions(k)
        PROVE  state'[waiting[k][i]] = state[waiting[k][i]]
    <3>1. waiting[k][i] \in Threads /\ WaitsFor(waiting[k][i]) = k
      BY <1>0, WaitingType DEF QueueInv
    <3>2. waiting[k][i] \notin Woken(l)
      BY <2>1, <2>5, <3>1 DEF Woken, Scanned
    <3> QED
      BY <2>2, <3>1, <3>2
  <2>6. ASSUME Writers(l) # {} PROVE NoLostWakeup' /\ ReadersStayBehindWriters'
    <3>1. Writers(l) \in SUBSET Nat
      BY <1>0, WaitingType DEF Writers
    <3>2. PICK f \in Writers(l) : \A j \in Writers(l) : f <= j
      BY <2>6, <3>1, FirstPosition
    <3>3. f \in Positions(l) /\ waiting[l][f] \in Woken(l)
      BY <2>6, <3>2 DEF Woken, Scanned, Writers
    <3>4. state'[waiting[l][f]] = "RUNNING"
      BY <2>1, <2>2, <3>3
    <3>5. NoLostWakeup'
      <4> SUFFICES ASSUME NEW k \in Locks
          PROVE  /\ owner'[k] = NULL /\ Writers(k) # {}
                      => \E i \in Writers(k) : state'[waiting[k][i]] = "RUNNING"
                 /\ owner'[k] = NULL \/ type[k] = "READ"
                      => \A i \in Positions(k) : state'[waiting[k][i]] = "MUTEX_WAIT" => Writers(k) # {}
        BY <1>2, <1>7 DEF NoLostWakeup
      <4>1. CASE k = l
        BY <2>6, <3>2, <3>4, <4>1
      <4>2. CASE k # l
        <5>1. owner'[k] = owner[k]
          BY <1>0, <2>2, <4>2 DEF TypeOK
        <5> QED
          BY <2>5, <4>2, <5>1 DEF NoLostWakeup, IInv, Writers
      <4> QED
        BY <4>1, <4>2
    <3>6. ASSUME NEW i \in Positions(l), i \notin Writers(l)
          PROVE  state'[waiting[l][i]] = state[waiting[l][i]]
      <4>1. waiting[l][i] \notin Woken(l)
        BY <2>6, <3>6 DEF Woken, Writers
      <4> QED
        BY <2>1, <2>2, <4>1
    <3>7. ReadersStayBehindWriters'
      <4> SUFFICES ASSUME NEW k \in Locks, NEW i \in Positions(k), NEW j \in Writers(k),
                          j < i, i \notin Writers(k)
                   PROVE  state'[waiting[k][i]] = "MUTEX_WAIT"
        BY <1>2, <1>7 DEF ReadersStayBehindWriters
      <4>1. state'[waiting[k][i]] = state[waiting[k][i]]
        BY <2>5, <3>6
      <4> QED
        BY <4>1 DEF ReadersStayBehindWriters, IInv
    <3> QED
      BY <3>5, <3>7
  <2>7. ASSUME Writers(l) = {} PROVE NoLostWakeup' /\ ReadersStayBehindWriters'
    <3>1. \A i \in Positions(l) : state'[waiting[l][i]] = "RUNNING"
      BY <2>1, <2>2, <2>7 DEF Woken
    <3>2. NoLostWakeup'
      <4> SUFFICES ASSUME NEW k \in Locks
          PROVE  /\ owner'[k] = NULL /\ Writers(k) # {}
                      => \E i \in Writers(k) : state'[waiting[k][i]] = "RUNNING"
                 /\ owner'[k] = NULL \/ type[k] = "READ"
                      => \A i \in Positions(k) : state'[waiting[k][i]] = "MUTEX_WAIT" => Writers(k) # {}
        BY <1>2, <1>7 DEF NoLostWakeup
      <4>1. CASE k = l
        BY <2>7, <3>1, <4>1
      <4>2. CASE k # l
        <5>1. owner'[k] = owner[k]
          BY <1>0, <2>2, <4>2 DEF TypeOK
        <5> QED
          BY <2>5, <4>2, <5>1 DEF NoLostWakeup, IInv, Writers
      <4> QED
        BY <4>1, <4>2
    <3>3. ReadersStayBehindWriters'
      <4> SUFFICES ASSUME NEW k \in Locks, NEW i \in Positions(k), NEW j \in Writers(k),
                          j < i, i \notin Writers(k)
                   PROVE  state'[waiting[k][i]] = "MUTEX_WAIT"
        BY <1>2, <1>7 DEF ReadersStayBehindWriters
      <4>1. k # l
        BY <2>7
      <4> QED
        BY <2>5, <4>1 DEF ReadersStayBehindWriters, IInv
    <3> QED
      BY <3>2, <3>3
  <2>8. RunInv'
    <3>1. state'[t] = "RUNNING" \/ state'[t] = state[t]
      BY <2>2
    <3> QED
      BY <1>0, <1>1, <1>2, <3>1 DEF RunInv
  <2> QED
    BY <1>8, <2>2, <2>3, <2>4, <2>6, <2>7, <2>8 DEF IInv, NoInternalError
<1> QED
  BY <1>10, <1>11 DEF Unlock

-----------------------------------------------------------------------------
\* The invariant holds when every lock is free and nobody waits.
LEMMA InitIInv == Init => IInv
<1> SUFFICES ASSUME Init PROVE IInv
  OBVIOUS
<1> USE NullAssumption
<1>1. TypeOK
  BY NAssumption, BoundAssumption DEF Init, TypeOK, Threads, NoRet, Types, Returns, Codes
<1>2. CallInv /\ RunInv /\ NoInternalError
  BY NAssumption DEF Init, CallInv, RunInv, NoInternalError, TypesOf, Threads
<1>3. OwnershipInv
  BY DEF Init, OwnershipInv
<1>4. /\ \A l \in Locks : Positions(l) = {} /\ Writers(l) = {}
      /\ \A t \in Threads : WaitsFor(t) = NULL /\ state[t] = "RUNNING"
  BY DEF Init, Positions, Writers, WaitsFor
<1>5. QueueInv /\ NoLostWakeup /\ ReadersStayBehindWriters
  BY <1>4 DEF QueueInv, NoLostWakeup, ReadersStayBehindWriters
<1> QED
  BY <1>1, <1>2, <1>3, <1>5 DEF IInv

\* Every step of the locks preserves the invariant.
LEMMA StepIInv == IInv /\ RoomInv /\ [Next]_vars => IInv'
<1> SUFFICES ASSUME IInv, RoomInv, [Next]_vars PROVE IInv'
  OBVIOUS
<1>1. TypeOK'
  BY TypeStep DEF IInv
<1>2. CASE UNCHANGED vars \/ Tick \/ Aborted
  BY <1>1, <1>2, QuietStep DEF Aborted
<1>3. ASSUME NEW t \in Threads, Continue(t) PROVE IInv'
  BY <1>1, <1>3, QuietStep, GrantedStep, BlocksStep, FailsStep, TakesStep DEF Continue
<1>4. ASSUME NEW t \in Threads, NEW l \in Locks,
             \/ UnlockRefused(t, l)
             \/ \E ty \in Types, try \in BOOLEAN : LockCall(t, l, ty, try)
      PROVE  IInv'
  BY <1>1, <1>4, QuietStep
<1>5. ASSUME NEW t \in Threads, NEW l \in Locks,
             Unlock(t, l) \/ Destroy(t, l) \/ Reinit(t, l)
      PROVE  IInv'
  BY <1>1, <1>5, UnlockStep, DestroyStep, ReinitStep
<1> QED
  BY <1>2, <1>3, <1>4, <1>5 DEF Next

\* Where nobody new holds a lock or asks to read, the room is enough still.
LEMMA RoomFrame ==
  ASSUME TypeOK, TypeOK', RoomInv, NEW l \in RWLocks,
         Len(held'[l]) <= Len(held[l]), Askers(l)' \subseteq Askers(l)
  PROVE  Len(held'[l]) + Cardinality(Askers(l)') <= MaxReads + N
<1>1. IsFiniteSet(Threads)
  BY NAssumption, FS_Interval DEF Threads
<1>2. IsFiniteSet(Askers(l))
  BY <1>1, FS_Subset DEF Askers
<1>3. /\ IsFiniteSet(Askers(l)') /\ Cardinality(Askers(l)') <= Cardinality(Askers(l))
  BY <1>2, FS_Subset
<1>4. /\ Cardinality(Askers(l)) \in Nat /\ Cardinality(Askers(l)') \in Nat
      /\ Len(held[l]) \in Nat /\ Len(held'[l]) \in Nat
  BY <1>2, <1>3, FS_CardinalityType DEF TypeOK, Locks
<1> QED
  BY <1>3, <1>4, NAssumption, BoundAssumption DEF RoomInv

\* A thread that acquires a lock stops asking for it.
LEMMA RoomAcquire ==
  ASSUME TypeOK, TypeOK', OwnershipInv, RoomInv, NEW t \in Threads, NEW l \in RWLocks,
         mutex[t] = l, pc[t] \in {"enter", "recheck"}, Acquire(t, l), Leave(t),
         owner[l] = NULL \/ mutextype[t] = "READ"
  PROVE  RoomInv'
<1> SUFFICES ASSUME NEW k \in RWLocks
             PROVE  Len(held'[k]) + Cardinality(Askers(k)') <= MaxReads + N
  BY DEF RoomInv
<1>0. /\ \A u \in Threads : u # t => pc'[u] = pc[u] /\ mutex'[u] = mutex[u] /\ mutextype'[u] = mutextype[u]
      /\ pc'[t] = "run" /\ held' = [held EXCEPT ![l] = Append(@, t)]
      /\ l \in Locks /\ k \in Locks /\ held[l] \in Seq(Threads)
  BY DEF Leave, Acquire, TypeOK, Locks
<1>1. Askers(k)' = Askers(k) \ {t}
  BY <1>0 DEF Askers
<1>2. CASE k # l
  <2>1. Len(held'[k]) <= Len(held[k])
    <3>1. held'[k] = held[k] /\ Len(held[k]) \in Nat
      BY <1>0, <1>2 DEF TypeOK
    <3> QED
      BY <3>1
  <2>2. Askers(k)' \subseteq Askers(k)
    BY <1>1
  <2> QED
    BY <2>1, <2>2, RoomFrame
<1>3. CASE k = l
  <2>1. IsFiniteSet(Threads) /\ Cardinality(Threads) = N
    <3>1. IsFiniteSet(0 .. N - 1) /\ Cardinality(0 .. N - 1) = IF 0 > N - 1 THEN 0 ELSE N - 1 - 0 + 1
      BY NAssumption, FS_Interval
    <3> QED
      BY <3>1, NAssumption DEF Threads
  <2>2. IsFiniteSet(Askers(l)) /\ Cardinality(Askers(l)) \in Nat
    BY <2>1, FS_Subset, FS_CardinalityType DEF Askers
  <2>3. Len(held'[l]) = Len(held[l]) + 1 /\ Len(held[l]) \in Nat
    BY <1>0 DEF TypeOK
  <2>4. CASE mutextype[t] = "READ"
    <3>1. t \in Askers(l)
      BY <2>4 DEF Askers
    <3>2. Cardinality(Askers(l) \ {t}) = Cardinality(Askers(l)) - 1
      BY <2>2, <3>1, FS_RemoveElement
    <3> QED
      BY <1>1, <1>3, <2>2, <2>3, <3>2, NAssumption, BoundAssumption DEF RoomInv
  <2>5. CASE owner[l] = NULL
    <3>1. Len(held[l]) = 0
      BY <1>0, <2>5 DEF OwnershipInv
    <3>2. IsFiniteSet(Threads \ {t}) /\ Cardinality(Threads \ {t}) = N - 1
      BY <2>1, FS_RemoveElement
    <3>3. Askers(l)' \subseteq Threads \ {t}
      BY <1>1, <1>3 DEF Askers
    <3>4. Cardinality(Askers(l)') <= N - 1 /\ Cardinality(Askers(l)') \in Nat
      BY <3>2, <3>3, FS_Subset, FS_CardinalityType
    <3> QED
      BY <1>3, <2>3, <3>1, <3>4, NAssumption, BoundAssumption
  <2> QED
    BY <2>4, <2>5
<1> QED
  BY <1>2, <1>3

\* A lock that is not a read/write lock has nothing to do with the room.
LEMMA RoomElsewhere ==
  ASSUME TypeOK, TypeOK', RoomInv, NEW t \in Threads, mutex[t] \notin RWLocks,
         Acquire(t, mutex[t]), Leave(t)
  PROVE  RoomInv'
<1> SUFFICES ASSUME NEW k \in RWLocks
             PROVE  Len(held'[k]) + Cardinality(Askers(k)') <= MaxReads + N
  BY DEF RoomInv
<1>1. held'[k] = held[k] /\ Len(held[k]) \in Nat
  BY DEF Acquire, TypeOK, Locks
<1>2. Askers(k)' \subseteq Askers(k)
  BY DEF Askers, Leave, TypeOK
<1> QED
  BY <1>1, <1>2, RoomFrame

\* A reader that begins to ask finds room for every thread.
LEMMA RoomCall ==
  ASSUME TypeOK, TypeOK', RoomInv, NEW t \in Threads, NEW l \in Locks, NEW ty \in Types,
         NEW try \in BOOLEAN, LockCall(t, l, ty, try)
  PROVE  RoomInv'
<1> SUFFICES ASSUME NEW k \in RWLocks
             PROVE  Len(held'[k]) + Cardinality(Askers(k)') <= MaxReads + N
  BY DEF RoomInv
<1>0. held' = held /\ Len(held[k]) \in Nat
  BY DEF LockCall, TypeOK, Locks
<1>1. CASE Askers(k)' \subseteq Askers(k)
  BY <1>0, <1>1, RoomFrame
<1>2. CASE ~(Askers(k)' \subseteq Askers(k))
  <2>1. /\ pc' = [pc EXCEPT ![t] = "enter"] /\ mutex' = [mutex EXCEPT ![t] = l]
        /\ mutextype' = [mutextype EXCEPT ![t] = ty]
    BY <1>2 DEF LockCall, Askers, args
  <2>2. l = k /\ ty = "READ"
    BY <1>2, <2>1 DEF Askers, TypeOK
  <2>3. Len(held[k]) < MaxReads
    BY <2>2 DEF LockCall
  <2>4. IsFiniteSet(Threads) /\ Cardinality(Threads) = N
    BY NAssumption, FS_Interval DEF Threads
  <2>5. Cardinality(Askers(k)') <= N /\ Cardinality(Askers(k)') \in Nat
    <3>1. Askers(k)' \subseteq Threads
      BY DEF Askers
    <3> QED
      BY <2>4, <3>1, FS_Subset, FS_CardinalityType
  <2> QED
    BY <1>0, <2>3, <2>5, NAssumption, BoundAssumption
<1> QED
  BY <1>1, <1>2

\* Every step leaves room for the readers.
LEMMA StepRoom == IInv /\ RoomInv /\ [Next]_vars => RoomInv'
<1> SUFFICES ASSUME IInv, RoomInv, [Next]_vars PROVE RoomInv'
  OBVIOUS
<1>0. TypeOK /\ TypeOK' /\ CallInv /\ OwnershipInv
  BY TypeStep DEF IInv
<1>f. ASSUME held' = held, \A k \in RWLocks : Askers(k)' \subseteq Askers(k) PROVE RoomInv'
  <2>1. \A k \in RWLocks : Len(held[k]) \in Nat
    BY <1>0 DEF TypeOK, Locks
  <2> QED
    BY <1>0, <1>f, <2>1, RoomFrame DEF RoomInv
<1>1. CASE UNCHANGED vars \/ Tick \/ Aborted
  BY <1>1, <1>f DEF vars, Tick, Aborted, args, Askers
<1>2. ASSUME NEW t \in Threads,
             LockRefused(t) \/ LockBlocks(t) \/ BlockYield(t) \/ RecheckFails(t) \/ UnlockYield(t)
      PROVE  RoomInv'
  <2>1. held' = held
    BY <1>2 DEF LockRefused, LockBlocks, BlockYield, RecheckFails, UnlockYield
  <2>2. \A k \in RWLocks : Askers(k)' \subseteq Askers(k)
    <3>1. CASE LockRefused(t) \/ UnlockYield(t)
      BY <1>0, <3>1 DEF LockRefused, UnlockYield, Leave, Askers, TypeOK
    <3>2. CASE LockBlocks(t) \/ BlockYield(t) \/ RecheckFails(t)
      <4>1. /\ pc[t] \in {"enter", "block", "recheck"} /\ mutex' = mutex /\ mutextype' = mutextype
            /\ \A u \in Threads : u # t => pc'[u] = pc[u]
        BY <1>0, <3>2 DEF LockBlocks, BlockYield, RecheckFails, args, TypeOK
      <4> QED
        BY <4>1 DEF Askers
    <3> QED
      BY <1>2, <3>1, <3>2
  <2> QED
    BY <1>f, <2>1, <2>2
<1>3. ASSUME NEW t \in Threads, LockGranted(t) PROVE RoomInv'
  <2>1. /\ Acquire(t, mutex[t]) /\ Leave(t) /\ pc[t] = "enter" /\ Decision(t) = "acquire"
    BY <1>3 DEF LockGranted
  <2>2. CASE mutex[t] \in RWLocks
    <3>1. mutex[t] \notin RecursiveMutexes
      BY <2>2, KindAssumption
    <3>2. owner[mutex[t]] = NULL \/ mutextype[t] = "READ"
      BY <1>0, <2>1, <3>1, GrantedBecause
    <3> QED
      BY <1>0, <2>1, <2>2, <3>2, RoomAcquire
  <2> QED
    BY <1>0, <2>1, <2>2, RoomElsewhere
<1>4. ASSUME NEW t \in Threads, RecheckTakes(t) PROVE RoomInv'
  <2>1. CASE UNCHANGED <<fields, held, pc, args>>
    BY <1>f, <2>1 DEF args, Askers
  <2>2. CASE Acquire(t, mutex[t]) /\ Leave(t)
    BY <1>0, <1>4, <2>2, RoomAcquire, RoomElsewhere DEF RecheckTakes, MayTake
  <2> QED
    BY <1>4, <2>1, <2>2 DEF RecheckTakes
<1>5. ASSUME NEW t \in Threads, NEW l \in Locks, NEW ty \in Types, NEW try \in BOOLEAN,
             LockCall(t, l, ty, try)
      PROVE  RoomInv'
  BY <1>0, <1>5, RoomCall
<1>6. ASSUME NEW t \in Threads, NEW l \in Locks, Unlock(t, l) PROVE RoomInv'
  <2>1. \A k \in RWLocks : Askers(k)' \subseteq Askers(k)
    BY <1>0, <1>6 DEF Unlock, Askers, TypeOK
  <2>2. \A k \in RWLocks : Len(held'[k]) <= Len(held[k])
    <3>1. \A k \in RWLocks : held[k] \in Seq(Threads) /\ Len(held[k]) \in Nat
      BY <1>0 DEF TypeOK, Locks
    <3>2. CASE held' = held
      BY <3>1, <3>2
    <3>3. ASSUME NEW i \in 1 .. Len(held[l]), held' = [held EXCEPT ![l] = RemoveAt(@, i)]
          PROVE  \A k \in RWLocks : Len(held'[k]) <= Len(held[k])
      <4>1. Len(RemoveAt(held[l], i)) = Len(held[l]) - 1 /\ Len(held[l]) \in Nat
        BY <1>0, RemoveAtIndex DEF TypeOK
      <4>2. \A k \in RWLocks : Len(held'[k]) = IF k = l THEN Len(held[l]) - 1 ELSE Len(held[k])
        BY <1>0, <3>3, <4>1 DEF TypeOK, Locks
      <4> QED
        BY <3>1, <4>2
    <3> QED
      BY <1>6, <3>2, <3>3 DEF Unlock, GiveBack
  <2> QED
    BY <1>0, <2>1, <2>2, RoomFrame DEF RoomInv
<1>7. ASSUME NEW t \in Threads, NEW l \in Locks,
             UnlockRefused(t, l) \/ Destroy(t, l) \/ Reinit(t, l)
      PROVE  RoomInv'
  BY <1>f, <1>7 DEF UnlockRefused, Destroy, Reinit, args, Askers
<1> QED
  BY <1>1, <1>2, <1>3, <1>4, <1>5, <1>6, <1>7 DEF Next, Continue

\* There is room for everybody when nobody asks.
LEMMA InitRoom == Init => RoomInv
<1> SUFFICES ASSUME Init, NEW l \in RWLocks
             PROVE  Len(held[l]) + Cardinality(Askers(l)) <= MaxReads + N
  BY DEF RoomInv
<1>1. Len(held[l]) = 0 /\ Askers(l) = {}
  BY DEF Init, Askers, Locks
<1> QED
  BY <1>1, FS_EmptySet, NAssumption, BoundAssumption

\* IInv is an invariant of the locks, inductive together with RoomInv.
LEMMA Invariance == Spec => []IInv /\ []RoomInv
  BY InitIInv, InitRoom, StepIInv, StepRoom, PTL DEF Spec

\* The count, owner and type fields of a lock agree with who holds it, however
\* many threads, mutexes and read/write locks there are.
THEOREM OwnershipCorrect == Spec => []OwnershipInv
<1>1. IInv => OwnershipInv
  BY DEF IInv
<1> QED
  BY <1>1, Invariance, PTL

\* A thread is in exactly the list of the lock it is blocked on.
THEOREM QueueCorrect == Spec => []QueueInv
<1>1. IInv => QueueInv
  BY DEF IInv
<1> QED
  BY <1>1, Invariance, PTL

\* No unlock leaves a thread asleep that should have been woken.
THEOREM NoWakeupIsLost == Spec => []NoLostWakeup
<1>1. IInv => NoLostWakeup
  BY DEF IInv
<1> QED
  BY <1>1, Invariance, PTL

\* A reader that queued up behind a writer sleeps while that writer waits.
THEOREM WritersComeFirst == Spec => []ReadersStayBehindWriters
<1>1. IInv => ReadersStayBehindWriters
  BY DEF IInv
<1> QED
  BY <1>1, Invariance, PTL

\* The consistency checks of lock.c never abort the program.
THEOREM ChecksNeverFail == Spec => []NoInternalError
<1>1. IInv => NoInternalError
  BY DEF IInv
<1> QED
  BY <1>1, Invariance, PTL

-----------------------------------------------------------------------------
\* When the scheduler gives up, no thread is runnable.
DeadInv == fatal = "deadlocked" => \A t \in Threads : state[t] # "RUNNING"

\* "Deadlocked (no runnable threads to schedule)" is only reported when every
\* thread waits for a lock that is held.
THEOREM DeadlocksAreReal == Spec => []DeadlockIsReal
<1>1. Init => DeadInv
  BY DEF Init, DeadInv
<1>2. IInv /\ DeadInv /\ [Next]_vars => DeadInv'
  <2> SUFFICES ASSUME IInv, DeadInv, [Next]_vars PROVE DeadInv'
    OBVIOUS
  <2>1. CASE UNCHANGED vars \/ Aborted
    BY <2>1 DEF Aborted, vars, DeadInv
  <2>2. ASSUME Schedule(state), state' = state, fatal = "none" PROVE DeadInv'
    BY <2>2 DEF Schedule, DeadInv
  <2>3. CASE Tick
    BY <2>2, <2>3 DEF Tick
  <2>4. ASSUME NEW t \in Threads, Continue(t) PROVE DeadInv'
    <3>1. CASE BlockYield(t)
      BY <2>2, <3>1 DEF BlockYield
    <3>2. CASE UnlockYield(t)
      BY <2>2, <3>2 DEF UnlockYield, DeadInv
    <3>3. CASE LockGranted(t) \/ LockRefused(t) \/ LockBlocks(t) \/ RecheckFails(t) \/ RecheckTakes(t)
      BY <3>3 DEF LockGranted, LockRefused, LockBlocks, RecheckFails, RecheckTakes, DeadInv
    <3> QED
      BY <2>4, <3>1, <3>2, <3>3 DEF Continue
  <2>5. ASSUME NEW t \in Threads, NEW l \in Locks, Unlock(t, l) PROVE DeadInv'
    BY <2>5 DEF Unlock, UnlockInner, UnlockLast, DeadInv
  <2>6. ASSUME NEW t \in Threads, NEW l \in Locks,
               \/ UnlockRefused(t, l) \/ Destroy(t, l) \/ Reinit(t, l)
               \/ \E ty \in Types, try \in BOOLEAN : LockCall(t, l, ty, try)
        PROVE  DeadInv'
    BY <2>6 DEF UnlockRefused, Destroy, Reinit, LockCall, DeadInv
  <2> QED
    BY <2>1, <2>3, <2>4, <2>5, <2>6 DEF Next
<1>3. IInv /\ DeadInv => DeadlockIsReal
  <2> SUFFICES ASSUME IInv, DeadInv, fatal = "deadlocked", NEW t \in Threads
               PROVE  WaitsFor(t) # NULL /\ held[WaitsFor(t)] # << >>
    BY DEF DeadlockIsReal
  <2> USE NullAssumption
  <2>1. \A u \in Threads : state[u] = "MUTEX_WAIT"
    BY DEF IInv, TypeOK, DeadInv
  <2>2. pc[t] \in {"block", "recheck"}
    BY <2>1 DEF IInv, QueueInv
  <2>3. PICK l \in Locks : WaitsFor(t) = l
    BY <2>2 DEF IInv, TypeOK, WaitsFor
  <2>4. PICK i \in Positions(l) : waiting[l][i] = t
    BY <2>3 DEF IInv, QueueInv
  <2>5. \A j \in Positions(l) : state[waiting[l][j]] = "MUTEX_WAIT"
    BY <2>1, WaitingType DEF IInv
  <2>6. owner[l] # NULL
    <3>1. CASE Writers(l) # {}
      BY <2>5, <3>1 DEF IInv, NoLostWakeup, Writers
    <3>2. CASE Writers(l) = {}
      BY <2>4, <2>5, <3>2 DEF IInv, NoLostWakeup
    <3> QED
      BY <3>1, <3>2
  <2>7. Len(held[l]) # 0
    BY <2>6 DEF IInv, OwnershipInv
  <2> QED
    BY <2>3, <2>7
<1> QED
  BY <1>1, <1>2, <1>3, Invariance, PTL DEF Spec

-----------------------------------------------------------------------------
\* Every step of lock.c is a step of the abstract lock, or leaves it alone.
THEOREM Refinement == Spec => ImplementsRWLock
<1> DEFINE bar == [l \in Locks |-> IF count[l] = 0 THEN "FREE" ELSE type[l]]
<1>1. Init => Abstract!Init
  BY DEF Init, Abstract!Init
<1>2. ASSUME IInv, IInv', RoomInv, [Next]_vars
      PROVE  [Abstract!Next]_<<bar, held>>
  <2> USE NullAssumption
  <2>0. TypeOK /\ CallInv /\ OwnershipInv
    BY <1>2 DEF IInv
  <2>1. ASSUME UNCHANGED <<count, type, held>> PROVE UNCHANGED <<bar, held>>
    BY <2>1
  <2>2. ASSUME NEW t \in Threads, NEW l \in Locks, Acquire(t, l), mutextype[t] \in Types,
               count[l] # UINT_MAX,
               \/ count[l] = 0
               \/ type[l] = "READ" /\ mutextype[t] = "READ"
               \/ owner[l] = t /\ l \in RecursiveMutexes /\ type[l] = "MUTEX" /\ mutextype[t] = "MUTEX"
        PROVE  Abstract!Next
    <3>1. /\ \A k \in Locks : count'[k] = (IF k = l THEN count[l] + 1 ELSE count[k])
          /\ \A k \in Locks : type'[k] = (IF k = l THEN mutextype[t] ELSE type[k])
          /\ count[l] \in Nat
      BY <2>0, <2>2 DEF Acquire, TypeOK
    <3>2. bar' = [bar EXCEPT ![l] = mutextype[t]]
      <4>1. \A k \in Locks : (IF count'[k] = 0 THEN "FREE" ELSE type'[k])
              = IF k = l THEN mutextype[t] ELSE IF count[k] = 0 THEN "FREE" ELSE type[k]
        BY <3>1
      <4> QED
        BY <4>1
    <3>3. type[l] # "READ" => \A i \in 1 .. Len(held[l]) : held[l][i] = owner[l]
      BY <2>0 DEF OwnershipInv
    <3>4. PICK m \in Abstract!Modes : m = mutextype[t]
      BY <2>2 DEF Types, Abstract!Modes
    <3>5. Abstract!Acquire(t, l, m)
      BY <2>2, <3>2, <3>3, <3>4 DEF Acquire, Abstract!Acquire, Abstract!HeldOnlyBy
    <3> QED
      BY <3>5 DEF Abstract!Next
  <2>3. ASSUME NEW t \in Threads, NEW l \in Locks, Unlock(t, l) PROVE Abstract!Next
    <3>1. /\ type' = type /\ GiveBack(t, l) /\ count[l] # 0
          /\ type[l] # "READ" => owner[l] = t
          /\ type[l] = "READ" => Holds(t, l)
      BY <2>0, <2>3 DEF Unlock, NotOwner, MayUnlock, TypeOK
    <3>2. count' = [count EXCEPT ![l] = count[l] - 1]
      <4>1. CASE UnlockInner(t, l)
        BY <4>1 DEF UnlockInner
      <4>2. CASE UnlockLast(t, l)
        BY <2>0, <4>2 DEF UnlockLast, TypeOK
      <4> QED
        BY <2>3, <4>1, <4>2 DEF Unlock
    <3>3. /\ count[l] \in Nat /\ Len(held[l]) = count[l]
          /\ type[l] # "READ" => \A i \in 1 .. Len(held[l]) : held[l][i] = owner[l]
      BY <2>0 DEF TypeOK, OwnershipInv
    <3>4. Holds(t, l)
      BY <3>1, <3>3 DEF Holds
    <3>5. PICK i \in 1 .. Len(held[l]) : held[l][i] = t /\ held' = [held EXCEPT ![l] = RemoveAt(@, i)]
      BY <3>1, <3>4 DEF GiveBack
    <3>6. bar' = [bar EXCEPT ![l] = IF Len(held[l]) = 1 THEN "FREE" ELSE @]
      <4>1. \A k \in Locks : count'[k] = IF k = l THEN count[l] - 1 ELSE count[k]
        BY <2>0, <3>2 DEF TypeOK
      <4>2. \A k \in Locks : (IF count'[k] = 0 THEN "FREE" ELSE type'[k])
              = IF k = l THEN (IF count[l] = 1 THEN "FREE" ELSE type[l])
                ELSE IF count[k] = 0 THEN "FREE" ELSE type[k]
        BY <3>1, <3>3, <4>1
      <4> QED
        BY <3>1, <3>3, <4>2
    <3>7. Abstract!Release(t, l)
      BY <3>5, <3>6 DEF Abstract!Release, Abstract!RemoveAt, RemoveAt
    <3> QED
      BY <3>7 DEF Abstract!Next
  <2>4. ASSUME NEW t \in Threads, LockGranted(t) PROVE Abstract!Next
    <3>1. PICK l \in Locks : l = mutex[t]
      BY <2>0, <2>4 DEF LockGranted, TypeOK
    <3>2. Acquire(t, l) /\ pc[t] = "enter" /\ Decision(t) = "acquire" /\ mutextype[t] \in Types
      BY <2>0, <2>4, <3>1 DEF LockGranted, TypeOK
    <3>3. owner[l] = NULL <=> count[l] = 0
      BY <2>0 DEF OwnershipInv
    <3> QED
      BY <1>2, <2>0, <2>2, <2>4, <3>1, <3>2, <3>3, GrantedBecause, GrantedHasRoom
  <2>5. ASSUME NEW t \in Threads, RecheckTakes(t)
        PROVE  Abstract!Next \/ UNCHANGED <<count, type, held>>
    <3>1. PICK l \in Locks : l = mutex[t]
      BY <2>0, <2>5 DEF RecheckTakes, TypeOK
    <3>2. CASE Acquire(t, l)
      <4>1. mutextype[t] \in Types /\ (owner[l] = NULL <=> count[l] = 0)
        BY <2>0 DEF TypeOK, OwnershipInv
      <4> QED
        BY <1>2, <2>2, <2>5, <3>1, <3>2, <4>1, TakenHasRoom DEF RecheckTakes, MayTake
    <3>3. CASE UNCHANGED fields /\ UNCHANGED held
      BY <3>3 DEF fields
    <3> QED
      BY <2>5, <3>1, <3>2, <3>3 DEF RecheckTakes
  <2>6. ASSUME NEW t \in Threads, Continue(t)
        PROVE  Abstract!Next \/ UNCHANGED <<count, type, held>>
    BY <2>4, <2>5, <2>6 DEF Continue, LockRefused, LockBlocks, BlockYield, RecheckFails, UnlockYield, fields
  <2>7. ASSUME NEW t \in Threads, NEW l \in Locks, Destroy(t, l) \/ Reinit(t, l)
        PROVE  UNCHANGED <<bar, held>>
    <3>1. held' = held
      BY <2>7 DEF Destroy, Reinit
    <3>2. \A k \in Locks : (IF count'[k] = 0 THEN "FREE" ELSE type'[k])
                          = IF count[k] = 0 THEN "FREE" ELSE type[k]
      <4>1. CASE Destroy(t, l)
        BY <2>0, <4>1 DEF Destroy, TypeOK
      <4>2. CASE Reinit(t, l)
        <5>1. "INVALID" \notin TypesOf(l) /\ count[l] \in Nat
          BY <2>0 DEF TypesOf, TypeOK
        <5>2. type[l] = "INVALID" => count[l] = 0
          BY <2>0, <5>1 DEF OwnershipInv
        <5> QED
          BY <2>0, <4>2, <5>2 DEF Reinit, TypeOK, fields
      <4> QED
        BY <2>7, <4>1, <4>2
    <3> QED
      BY <3>1, <3>2
  <2>8. CASE UNCHANGED vars \/ Tick \/ Aborted
    BY <2>1, <2>8 DEF vars, fields, Tick, Aborted
  <2>9. ASSUME NEW t \in Threads, NEW l \in Locks,
               \/ UnlockRefused(t, l)
               \/ \E ty \in Types, try \in BOOLEAN : LockCall(t, l, ty, try)
        PROVE  UNCHANGED <<count, type, held>>
    BY <2>9 DEF UnlockRefused, LockCall, fields
  <2> QED
    BY <1>2, <2>1, <2>3, <2>6, <2>7, <2>8, <2>9 DEF Next
<1> QED
  BY <1>1, <1>2, Invariance, PTL DEF Spec, ImplementsRWLock, Abstract!Spec

\* Lock structures, holders and waiting lists agree, and the consistency checks
\* of lock.c never fail.
THEOREM LockCorrect == Spec => []LockInv
  BY TypeCorrect, OwnershipCorrect, QueueCorrect, ChecksNeverFail, PTL DEF LockInv

-----------------------------------------------------------------------------
(***************************************************************************)
(* "Yield once the lock has been given up, to prevent possible             *)
(* starvation": whoever an unlock woke runs before the unlocker goes on.   *)
(* What keeps this true is the order of the scheduler's list: a woken      *)
(* thread that has not run yet stays nearer to the running thread than the *)
(* unlocker is, so the scheduler comes to it first.                        *)
(***************************************************************************)

OwedAhead ==
  \A t \in Threads : \A u \in owed[t] :
    state[u] = "RUNNING" /\ Distance(running, u) < Distance(running, t)

\* Until the unlocker has yielded, those it woke are in its lock's list.
OwedWaits ==
  \A t \in Threads : pc[t] = "unlock" => \A u \in owed[t] : WaitsFor(u) = mutex[t]

OwedPaid == \A t \in Threads : running = t /\ pc[t] # "unlock" => owed[t] = {}

OwedInv == OwedAhead /\ OwedWaits /\ OwedPaid

\* Going round the list from the running thread, one comes to every other
\* thread before one comes to the running thread again; and a thread on the way
\* divides the way.
LEMMA DistanceFacts ==
  ASSUME NEW r \in Threads, NEW w \in Threads, NEW v \in Threads
  PROVE  /\ Distance(r, v) \in 1 .. N
         /\ Distance(r, v) = N <=> v = r
         /\ Distance(r, v) = Distance(r, w) => v = w
         /\ Distance(r, w) < Distance(r, v) => Distance(w, v) = Distance(r, v) - Distance(r, w)
  BY NAssumption DEF Distance, Threads

\* The running thread is owed to nobody.
LEMMA RunningNotOwed ==
  ASSUME TypeOK, OwedAhead, NEW t \in Threads
  PROVE  running \notin owed[t]
<1> SUFFICES ASSUME running \in owed[t] PROVE FALSE
  OBVIOUS
<1>1. running \in Threads
  BY DEF TypeOK
<1>2. Distance(running, running) < Distance(running, t)
  BY DEF OwedAhead
<1>3. /\ Distance(running, running) \in 1 .. N /\ Distance(running, t) \in 1 .. N
      /\ Distance(running, running) = N
  BY <1>1, DistanceFacts
<1> QED
  BY <1>2, <1>3, NAssumption

\* The scheduler takes the owed threads in turn: the thread it picks is owed
\* nothing, and who is owed to another thread stays ahead of that thread.
LEMMA ScheduleOwed ==
  ASSUME TypeOK, OwedAhead, Schedule(state), state' = state
  PROVE  /\ OwedAhead'
         /\ \A t \in Threads : owed'[t] \subseteq owed[t]
         /\ owed'[running'] = {}
<1>0. running \in Threads /\ owed \in [Threads -> SUBSET Threads]
  BY DEF TypeOK
<1>1. CASE /\ \A u \in Threads : state[u] # "RUNNING"
           /\ UNCHANGED <<running, owed>>
  <2>1. \A t \in Threads : owed[t] = {}
    BY <1>0, <1>1 DEF OwedAhead
  <2> QED
    BY <1>0, <1>1, <2>1 DEF OwedAhead
<1>2. ASSUME NEW w \in Threads, state[w] = "RUNNING",
             \A v \in Threads : state[v] = "RUNNING" => Distance(running, w) <= Distance(running, v),
             running' = w, owed' = [v \in Threads |-> owed[v] \ {w}]
      PROVE  /\ OwedAhead'
             /\ \A t \in Threads : owed'[t] \subseteq owed[t]
             /\ owed'[running'] = {}
  <2>1. \A t \in Threads : owed'[t] = owed[t] \ {w}
    BY <1>2
  <2>2. ASSUME NEW t \in Threads, NEW u \in owed[t], u # w
        PROVE  state[u] = "RUNNING" /\ Distance(w, u) < Distance(w, t)
    <3>1. u \in Threads /\ state[u] = "RUNNING" /\ Distance(running, u) < Distance(running, t)
      BY <1>0 DEF OwedAhead
    <3>2. Distance(running, w) <= Distance(running, u) /\ Distance(running, w) # Distance(running, u)
      BY <1>0, <1>2, <2>2, <3>1, DistanceFacts
    <3>3. /\ Distance(running, w) \in 1 .. N /\ Distance(running, u) \in 1 .. N
          /\ Distance(running, t) \in 1 .. N
      BY <1>0, <3>1, DistanceFacts
    <3>4. Distance(running, w) < Distance(running, u) /\ Distance(running, w) < Distance(running, t)
      BY <3>1, <3>2, <3>3, NAssumption
    <3>5. /\ Distance(w, u) = Distance(running, u) - Distance(running, w)
          /\ Distance(w, t) = Distance(running, t) - Distance(running, w)
      BY <1>0, <3>1, <3>4, DistanceFacts
    <3> QED
      BY <3>1, <3>3, <3>5, NAssumption
  <2>3. OwedAhead'
    BY <1>2, <2>1, <2>2 DEF OwedAhead
  <2>4. owed[w] = {}
    <3> SUFFICES ASSUME NEW u \in owed[w] PROVE FALSE
      OBVIOUS
    <3>1. u \in Threads /\ state[u] = "RUNNING" /\ Distance(running, u) < Distance(running, w)
      BY <1>0 DEF OwedAhead
    <3>2. Distance(running, w) <= Distance(running, u)
      BY <1>2, <3>1
    <3>3. Distance(running, w) \in 1 .. N /\ Distance(running, u) \in 1 .. N
      BY <1>0, <3>1, DistanceFacts
    <3> QED
      BY <3>1, <3>2, <3>3, NAssumption
  <2> QED
    BY <1>2, <2>1, <2>3, <2>4
<1> QED
  BY <1>1, <1>2 DEF Schedule

\* A step that owes nobody anything new, takes the processor from no thread and
\* changes no thread but the running one preserves the invariant.
LEMMA OwedFrame ==
  ASSUME TypeOK, OwedInv, NEW t \in Threads, running = t, pc[t] # "unlock",
         running' = running, owed' = owed,
         \A u \in Threads : u # t => /\ state'[u] = state[u]
                                     /\ pc'[u] = pc[u] /\ mutex'[u] = mutex[u]
  PROVE  OwedInv'
<1>0. owed \in [Threads -> SUBSET Threads]
  BY DEF TypeOK
<1>1. owed[t] = {} /\ \A v \in Threads : t \notin owed[v]
  BY RunningNotOwed DEF OwedInv, OwedPaid
<1>2. \A v \in Threads : \A u \in owed[v] : u \in Threads /\ u # t /\ v # t
  BY <1>0, <1>1
<1>3. OwedAhead'
  BY <1>2 DEF OwedInv, OwedAhead
<1>4. \A v \in Threads : \A u \in owed[v] : WaitsFor(u)' = WaitsFor(u)
  BY <1>2 DEF WaitsFor
<1>5. OwedWaits'
  BY <1>2, <1>4 DEF OwedInv, OwedWaits
<1>6. OwedPaid'
  BY <1>1 DEF OwedPaid
<1> QED
  BY <1>3, <1>5, <1>6 DEF OwedInv

\* A call of the scheduler by the running thread, or by the ticker, preserves
\* the invariant if the running thread does not stay in an unlock or has not
\* moved.
LEMMA OwedSchedule ==
  ASSUME TypeOK, OwedInv, Schedule(state), state' = state,
         \A u \in Threads : WaitsFor(u)' = WaitsFor(u),
         \A u \in Threads : pc'[u] = "unlock" => pc[u] = "unlock" /\ mutex'[u] = mutex[u]
  PROVE  OwedInv'
<1>1. /\ OwedAhead'
      /\ \A t \in Threads : owed'[t] \subseteq owed[t]
      /\ owed'[running'] = {}
  BY ScheduleOwed DEF OwedInv
<1>2. OwedWaits'
  <2> SUFFICES ASSUME NEW t \in Threads, pc'[t] = "unlock", NEW u \in owed'[t]
               PROVE  WaitsFor(u)' = mutex'[t]
    BY DEF OwedWaits
  <2>1. u \in owed[t] /\ u \in Threads
    BY <1>1 DEF TypeOK
  <2> QED
    BY <2>1 DEF OwedInv, OwedWaits
<1>3. OwedPaid'
  BY <1>1 DEF OwedPaid
<1> QED
  BY <1>1, <1>2, <1>3 DEF OwedInv

\* The unlock that frees the lock: it owes the processor to those it wakes, who
\* are waiters of the lock and so not the unlocker.
LEMMA OwedUnlock ==
  ASSUME IInv, IInv', OwedInv, NEW t \in Threads, NEW l \in Locks, Unlock(t, l)
  PROVE  OwedInv'
<1> USE NullAssumption
<1>0. TypeOK /\ QueueInv /\ NoInternalError' /\ OwedAhead /\ OwedWaits /\ OwedPaid
  BY DEF IInv, OwedInv
<1>1. /\ running = t /\ pc[t] = "run" /\ running' = running
      /\ pc' = [pc EXCEPT ![t] = "unlock"] /\ mutex' = [mutex EXCEPT ![t] = l]
      /\ owed \in [Threads -> SUBSET Threads]
  BY <1>0 DEF Unlock, TypeOK
<1>2. owed[t] = {} /\ \A v \in Threads : t \notin owed[v]
  BY <1>0, <1>1, RunningNotOwed DEF OwedPaid
<1>3. \A u \in Threads : u # t => pc'[u] = pc[u] /\ mutex'[u] = mutex[u] /\ WaitsFor(u)' = WaitsFor(u)
  BY <1>0, <1>1 DEF TypeOK, WaitsFor
<1>4. pc'[t] = "unlock" /\ mutex'[t] = l
  BY <1>0, <1>1 DEF TypeOK
<1>5. CASE UnlockInner(t, l)
  <2>1. owed' = owed /\ state' = state
    BY <1>5 DEF UnlockInner
  <2>2. \A v \in Threads : \A u \in owed[v] : u \in Threads /\ u # t /\ v # t
    BY <1>1, <1>2
  <2>3. OwedAhead'
    BY <1>0, <1>1, <2>1 DEF OwedAhead
  <2>4. OwedWaits'
    BY <1>0, <1>3, <2>1, <2>2 DEF OwedWaits
  <2> QED
    BY <1>1, <1>2, <2>1, <2>3, <2>4 DEF OwedInv, OwedPaid
<1>6. CASE UnlockLast(t, l)
  <2>1. /\ owed' = [owed EXCEPT ![t] = Woken(l)]
        /\ state' = [u \in Threads |-> IF u \in Woken(l) THEN "RUNNING" ELSE state[u]]
    BY <1>0, <1>6 DEF UnlockLast, NoInternalError
  <2>2. \A u \in Woken(l) : u \in Threads /\ WaitsFor(u) = l
    <3> SUFFICES ASSUME NEW u \in Woken(l) PROVE u \in Threads /\ WaitsFor(u) = l
      OBVIOUS
    <3>1. PICK i \in Positions(l) : u = waiting[l][i]
      BY DEF Woken, Scanned
    <3>2. u \in Threads
      BY <1>0, <3>1, WaitingType
    <3> QED
      BY <1>0, <3>1, <3>2 DEF QueueInv
  <2>3. \A u \in Woken(l) : u # t
    BY <1>1, <2>2 DEF WaitsFor
  <2>4. \A v \in Threads : owed'[v] = IF v = t THEN Woken(l) ELSE owed[v]
    BY <1>1, <2>1
  <2>5. OwedAhead'
    <3> SUFFICES ASSUME NEW v \in Threads, NEW u \in owed'[v]
                 PROVE  state'[u] = "RUNNING" /\ Distance(running', u) < Distance(running', v)
      BY DEF OwedAhead
    <3>1. CASE v = t
      <4>1. u \in Woken(l) /\ u \in Threads /\ u # t
        BY <2>2, <2>3, <2>4, <3>1
      <4>2. state'[u] = "RUNNING"
        BY <2>1, <4>1
      <4>3. Distance(t, u) \in 1 .. N /\ Distance(t, u) # N /\ Distance(t, t) = N
        BY <4>1, DistanceFacts
      <4> QED
        BY <1>1, <3>1, <4>2, <4>3, NAssumption
    <3>2. CASE v # t
      <4>1. u \in owed[v] /\ u \in Threads
        BY <1>1, <2>4, <3>2
      <4>2. state[u] = "RUNNING" /\ Distance(running, u) < Distance(running, v)
        BY <1>0, <4>1 DEF OwedAhead
      <4> QED
        BY <1>1, <2>1, <4>1, <4>2
    <3> QED
      BY <3>1, <3>2
  <2>6. OwedWaits'
    <3> SUFFICES ASSUME NEW v \in Threads, pc'[v] = "unlock", NEW u \in owed'[v]
                 PROVE  WaitsFor(u)' = mutex'[v]
      BY DEF OwedWaits
    <3>1. CASE v = t
      <4>1. u \in Woken(l) /\ u \in Threads /\ u # t
        BY <2>2, <2>3, <2>4, <3>1
      <4> QED
        BY <1>3, <1>4, <2>2, <3>1, <4>1
    <3>2. CASE v # t
      <4>1. u \in owed[v] /\ u \in Threads /\ u # t
        BY <1>1, <1>2, <2>4, <3>2
      <4> QED
        BY <1>0, <1>3, <3>2, <4>1 DEF OwedWaits
    <3> QED
      BY <3>1, <3>2
  <2>7. OwedPaid'
    BY <1>1, <1>4 DEF OwedPaid
  <2> QED
    BY <2>5, <2>6, <2>7 DEF OwedInv
<1> QED
  BY <1>5, <1>6 DEF Unlock

\* The end of an unlock: it yields while anybody it woke is in the list.
LEMMA OwedYield ==
  ASSUME IInv, OwedInv, NEW t \in Threads, UnlockYield(t)
  PROVE  OwedInv'
<1> USE NullAssumption
<1>0. TypeOK /\ QueueInv /\ OwedAhead /\ OwedWaits /\ OwedPaid
  BY DEF IInv, OwedInv
<1>1. /\ running = t /\ pc[t] = "unlock" /\ mutex[t] \in Locks
      /\ pc' = [pc EXCEPT ![t] = "run"] /\ mutex' = [mutex EXCEPT ![t] = NULL]
      /\ state' = state
  BY <1>0 DEF UnlockYield, Leave, TypeOK
<1>2. /\ \A u \in Threads : WaitsFor(u)' = WaitsFor(u)
      /\ \A u \in Threads : pc'[u] = "unlock" => pc[u] = "unlock" /\ mutex'[u] = mutex[u]
  BY <1>0, <1>1 DEF WaitsFor, TypeOK
<1>3. CASE Schedule(state)
  BY <1>0, <1>1, <1>2, <1>3, OwedSchedule DEF OwedInv
<1>4. CASE waiting[mutex[t]] = << >> /\ UNCHANGED <<running, fatal, owed>>
  <2>1. owed[t] = {}
    <3> SUFFICES ASSUME NEW u \in owed[t] PROVE FALSE
      OBVIOUS
    <3>1. u \in Threads /\ WaitsFor(u) = mutex[t]
      BY <1>0, <1>1 DEF OwedWaits, TypeOK
    <3>2. \E i \in Positions(mutex[t]) : waiting[mutex[t]][i] = u
      BY <1>0, <1>1, <3>1 DEF QueueInv
    <3> QED
      BY <1>4, <3>2 DEF Positions
  <2>2. OwedAhead'
    BY <1>0, <1>1, <1>4 DEF OwedAhead
  <2>3. OwedWaits'
    <3> SUFFICES ASSUME NEW v \in Threads, pc'[v] = "unlock", NEW u \in owed'[v]
                 PROVE  WaitsFor(u)' = mutex'[v]
      BY DEF OwedWaits
    <3>1. u \in owed[v] /\ u \in Threads
      BY <1>0, <1>4 DEF TypeOK
    <3> QED
      BY <1>0, <1>2, <3>1 DEF OwedWaits
  <2>4. OwedPaid'
    BY <1>1, <1>4, <2>1 DEF OwedPaid
  <2> QED
    BY <2>2, <2>3, <2>4 DEF OwedInv
<1> QED
  BY <1>3, <1>4 DEF UnlockYield

\* Every step of the locks preserves what is owed.
LEMMA StepOwed == IInv /\ IInv' /\ OwedInv /\ [Next]_vars => OwedInv'
<1> SUFFICES ASSUME IInv, IInv', OwedInv, [Next]_vars PROVE OwedInv'
  OBVIOUS
<1>0. TypeOK /\ NoInternalError'
  BY DEF IInv
<1>1. CASE UNCHANGED vars \/ Aborted
  BY <1>1 DEF Aborted, vars, args, OwedInv, OwedAhead, OwedWaits, OwedPaid, WaitsFor
<1>2. CASE Tick
  <2>1. Schedule(state) /\ state' = state /\ pc' = pc /\ mutex' = mutex
    BY <1>2 DEF Tick, args
  <2>2. \A u \in Threads : WaitsFor(u)' = WaitsFor(u)
    BY <2>1 DEF WaitsFor
  <2> QED
    BY <1>0, <2>1, <2>2, OwedSchedule
<1>3. ASSUME NEW t \in Threads, Continue(t) PROVE OwedInv'
  <2>1. CASE BlockYield(t)
    <3>1. Schedule(state) /\ state' = state /\ pc' = [pc EXCEPT ![t] = "recheck"] /\ mutex' = mutex /\ pc[t] = "block"
      BY <2>1 DEF BlockYield, args
    <3>2. /\ \A u \in Threads : WaitsFor(u)' = WaitsFor(u)
          /\ \A u \in Threads : pc'[u] = "unlock" => pc[u] = "unlock" /\ mutex'[u] = mutex[u]
      BY <1>0, <3>1 DEF WaitsFor, TypeOK
    <3> QED
      BY <1>0, <3>1, <3>2, OwedSchedule
  <2>2. CASE UnlockYield(t)
    BY <2>2, OwedYield
  <2>3. CASE LockGranted(t) \/ LockRefused(t) \/ LockBlocks(t) \/ RecheckFails(t) \/ RecheckTakes(t)
    <3>1. /\ running = t /\ pc[t] # "unlock" /\ running' = running /\ owed' = owed
          /\ \A u \in Threads : u # t => state'[u] = state[u] /\ pc'[u] = pc[u] /\ mutex'[u] = mutex[u]
      BY <1>0, <2>3 DEF LockGranted, LockRefused, LockBlocks, RecheckFails, RecheckTakes, Leave, args, TypeOK
    <3> QED
      BY <1>0, <3>1, OwedFrame
  <2> QED
    BY <1>3, <2>1, <2>2, <2>3 DEF Continue
<1>4. ASSUME NEW t \in Threads, NEW l \in Locks, Unlock(t, l) PROVE OwedInv'
  BY <1>4, OwedUnlock
<1>5. ASSUME NEW t \in Threads, NEW l \in Locks,
             \/ UnlockRefused(t, l) \/ Destroy(t, l) \/ Reinit(t, l)
             \/ \E ty \in Types, try \in BOOLEAN : LockCall(t, l, ty, try)
      PROVE  OwedInv'
  <2>1. /\ running = t /\ pc[t] # "unlock" /\ running' = running /\ owed' = owed
        /\ \A u \in Threads : u # t => state'[u] = state[u] /\ pc'[u] = pc[u] /\ mutex'[u] = mutex[u]
    BY <1>0, <1>5 DEF UnlockRefused, Destroy, Reinit, LockCall, args, TypeOK
  <2> QED
    BY <1>0, <2>1, OwedFrame
<1> QED
  BY <1>1, <1>2, <1>3, <1>4, <1>5 DEF Next

\* Only the two steps that take a lock add a holder; one looks at the list of
\* writers itself, the other comes from a reader that was woken, which no writer
\* precedes.
LEMMA OvertakesStep ==
  ASSUME IInv, [Next]_vars PROVE NoReaderOvertakes
<1> SUFFICES ASSUME NEW l \in Locks, held'[l] = Append(held[l], running), type'[l] = "READ",
                    NEW j \in Writers(l)
             PROVE  \E i \in 1 .. j - 1 : waiting[l][i] = running
  BY DEF NoReaderOvertakes
<1>0. /\ TypeOK /\ CallInv /\ RunInv /\ ReadersStayBehindWriters
      /\ held[l] \in Seq(Threads) /\ running \in Threads
  BY DEF IInv, TypeOK
<1>1. held'[l] # held[l] /\ Len(held'[l]) = Len(held[l]) + 1 /\ Len(held[l]) \in Nat
  BY <1>0
<1>2. ASSUME NEW t \in Threads, NEW k \in Locks, Acquire(t, k)
      PROVE  k = l /\ mutextype[t] = "READ"
  BY <1>0, <1>1, <1>2 DEF Acquire, TypeOK
<1>3. ASSUME NEW t \in Threads, LockGranted(t) PROVE FALSE
  <2>1. /\ mutex[t] \in Locks /\ pc[t] = "enter" /\ Decision(t) = "acquire" /\ Acquire(t, mutex[t])
    BY <1>0, <1>3 DEF LockGranted, TypeOK
  <2>2. mutex[t] = l /\ mutextype[t] = "READ"
    BY <1>2, <2>1
  <2> QED
    BY <1>0, <2>1, <2>2, GrantedBecause
<1>4. ASSUME NEW t \in Threads, RecheckTakes(t)
      PROVE  \E i \in 1 .. j - 1 : waiting[l][i] = running
  <2>1. mutex[t] \in Locks /\ pc[t] = "recheck" /\ running = t /\ fatal = "none"
    BY <1>0, <1>4, NullAssumption DEF RecheckTakes, TypeOK
  <2>2. PICK p \in Positions(mutex[t]) : waiting[mutex[t]][p] = t /\ Acquire(t, mutex[t])
    BY <1>1, <1>4 DEF RecheckTakes
  <2>3. mutex[t] = l /\ mutextype[t] = "READ"
    BY <1>2, <2>1, <2>2
  <2>4. p \notin Writers(l) /\ p # j /\ p \in Nat /\ p >= 1 /\ j \in Positions(l) /\ j \in Nat
    BY <1>0, <2>2, <2>3, WaitingType DEF Writers, Positions
  <2>5. state[t] = "RUNNING"
    BY <1>0, <2>1 DEF RunInv
  <2>6. ~(j < p)
    BY <1>0, <2>2, <2>3, <2>4, <2>5 DEF ReadersStayBehindWriters
  <2>7. p \in 1 .. j - 1
    BY <2>4, <2>6
  <2> QED
    BY <2>1, <2>2, <2>3, <2>7
<1>5. ASSUME NEW t \in Threads, NEW k \in Locks, Unlock(t, k) PROVE FALSE
  <2>1. held[k] \in Seq(Threads)
    BY <1>0 DEF TypeOK
  <2>2. PICK i \in 1 .. Len(held[k]) : held' = [held EXCEPT ![k] = RemoveAt(@, i)]
    BY <1>1, <1>5 DEF Unlock, GiveBack
  <2>3. k = l
    BY <1>0, <1>1, <2>2 DEF TypeOK
  <2>4. Len(RemoveAt(held[l], i)) = Len(held[l]) - 1
    BY <2>1, <2>2, <2>3, RemoveAtIndex
  <2> QED
    BY <1>0, <1>1, <2>2, <2>3, <2>4 DEF TypeOK
<1>6. CASE held' = held
  BY <1>1, <1>6
<1> QED
  BY <1>3, <1>4, <1>5, <1>6
   DEF Next, Continue, vars, Tick, Aborted, LockRefused, LockBlocks, BlockYield, RecheckFails,
       UnlockYield, LockCall, UnlockRefused, Destroy, Reinit

\* Nobody who waits is forgotten, woken too early or overtaken, and whoever an
\* unlock woke has the processor before the unlocker runs program code again,
\* for any number of threads and locks.
THEOREM WaitersCorrect == Spec => WaitersServed
<1>1. Init => OwedInv
  BY DEF Init, OwedInv, OwedAhead, OwedWaits, OwedPaid
<1>2. IInv /\ OwedInv => WaitersInv
  BY DEF IInv, OwedInv, OwedPaid, WaitersInv, WokenRunBeforeUnlocker
<1>3. IInv /\ [Next]_vars => [NoReaderOvertakes]_vars
  BY OvertakesStep
<1> QED
  BY <1>1, <1>2, <1>3, StepOwed, Invariance, PTL DEF Spec, WaitersServed

-----------------------------------------------------------------------------
\* What the fields of a lock say of its holders.
LEMMA FieldsTellHolders ==
  ASSUME TypeOK, CallInv, OwnershipInv, NEW l \in Locks, NEW t \in Threads
  PROVE  /\ owner[l] # NULL => held[l] # << >>
         /\ count[l] = 0 => held[l] = << >> /\ ~Holds(t, l)
         /\ type[l] # "READ" => (Holds(t, l) <=> owner[l] = t)
         /\ type[l] \notin TypesOf(l) => type[l] = "INVALID" /\ held[l] = << >>
<1>1. /\ Len(held[l]) = count[l] /\ held[l] \in Seq(Threads) /\ count[l] \in Nat
      /\ owner[l] = NULL <=> count[l] = 0
      /\ type[l] # "READ" => \A i \in 1 .. Len(held[l]) : held[l][i] = owner[l]
      /\ count[l] > 0 => type[l] \in TypesOf(l)
      /\ type[l] \in TypesOf(l) \cup {"INVALID"}
  BY DEF TypeOK, OwnershipInv, CallInv
<1>2. t # NULL
  BY NullAssumption
<1>3. count[l] = 0 => held[l] = << >> /\ ~Holds(t, l)
  BY <1>1 DEF Holds
<1>4. owner[l] = t => 1 \in 1 .. Len(held[l])
  BY <1>1, <1>2
<1>5. type[l] # "READ" => (Holds(t, l) <=> owner[l] = t)
  BY <1>1, <1>4 DEF Holds
<1> QED
  BY <1>1, <1>3, <1>5

\* An error of __pthread_lock_lock is what the lock deserves.
LEMMA RefusalIsHonest ==
  ASSUME IInv, NEW t \in Threads, pc[t] = "enter"
  PROVE  LET l == mutex[t] IN
         /\ Decision(t) = "EDEADLK" /\ type[l] # "READ" => Holds(t, l)
         /\ Decision(t) = "EAGAIN" => Holds(t, l) /\ Len(held[l]) = UINT_MAX
         /\ Decision(t) = "EBUSY" => held[l] # << >> \/ waiting[l] # << >>
<1> DEFINE l == mutex[t]
<1>0. TypeOK /\ CallInv /\ OwnershipInv /\ l \in Locks
  BY DEF IInv, TypeOK
<1>1. /\ owner[l] # NULL => held[l] # << >>
      /\ type[l] # "READ" => (Holds(t, l) <=> owner[l] = t)
  BY <1>0, FieldsTellHolders
<1>2. Decision(t) = "EDEADLK" => owner[l] = t
  BY DEF Decision
<1>3. ASSUME Decision(t) = "EAGAIN" PROVE Holds(t, l) /\ Len(held[l]) = UINT_MAX
  <2>1. owner[l] = t /\ AttrType(l) \notin {"NORMAL", "ERRORCHECK"} /\ count[l] = UINT_MAX
    BY <1>3 DEF Decision
  <2>2. l \in RecursiveMutexes
    BY <2>1 DEF AttrType
  <2>3. type[l] # "READ"
    BY <1>0, <2>2 DEF CallInv, TypesOf, Mutexes
  <2> QED
    BY <1>0, <1>1, <2>1, <2>3 DEF OwnershipInv
<1>4. ASSUME Decision(t) = "EBUSY" PROVE held[l] # << >> \/ waiting[l] # << >>
  <2>1. owner[l] # NULL \/ Writers(l) # {}
    BY <1>4 DEF Decision
  <2>2. Writers(l) # {} => waiting[l] # << >>
    BY DEF Writers, Positions
  <2> QED
    BY <1>1, <2>1, <2>2
<1> QED
  BY <1>1, <1>2, <1>3, <1>4

\* Every error code a lock function returns tells the truth about the lock,
\* however many threads and locks there are.
THEOREM ErrorsCorrect == Spec => []ErrorsAreHonest
<1>1. Init => ErrorsAreHonest
  BY DEF Init, NoRet, ErrorsAreHonest
<1>2. IInv /\ ErrorsAreHonest /\ [Next]_vars => ErrorsAreHonest'
  <2> SUFFICES ASSUME IInv, ErrorsAreHonest, [Next]_vars PROVE ErrorsAreHonest'
    OBVIOUS
  <2>0. TypeOK /\ CallInv /\ OwnershipInv
    BY DEF IInv
  <2>1. ASSUME NoError PROVE ErrorsAreHonest'
    BY <2>1 DEF NoError, NoRet, ErrorsAreHonest
  <2>2. CASE UNCHANGED vars \/ Aborted
    BY <2>2 DEF Aborted, vars, fields, ErrorsAreHonest, Holds
  <2>3. ASSUME NEW t \in Threads, NEW l \in Locks, NEW f, NEW c, Error(t, l, f, c)
        PROVE  ret'.thread = t /\ ret'.lock = l /\ ret'.call = f /\ ret'.code = c
    BY <2>3 DEF Error
  <2>4. ASSUME NEW t \in Threads, LockRefused(t) PROVE ErrorsAreHonest'
    <3> DEFINE l == mutex[t]
    <3>1. /\ l \in Locks /\ pc[t] = "enter" /\ Error(t, l, "lock", Decision(t))
          /\ Decision(t) \in {"EBUSY", "EDEADLK", "EAGAIN"}
          /\ type' = type /\ held' = held /\ waiting' = waiting
      BY <2>0, <2>4 DEF LockRefused, TypeOK, fields
    <3>2. ret'.thread = t /\ ret'.lock = l /\ ret'.call = "lock" /\ ret'.code = Decision(t)
      BY <2>3, <3>1
    <3>3. /\ Decision(t) = "EDEADLK" /\ type[l] # "READ" => Holds(t, l)
          /\ Decision(t) = "EAGAIN" => Holds(t, l) /\ Len(held[l]) = UINT_MAX
          /\ Decision(t) = "EBUSY" => held[l] # << >> \/ waiting[l] # << >>
      BY <3>1, RefusalIsHonest
    <3>4. Holds(t, l) => \E i \in 1 .. Len(held'[l]) : held'[l][i] = t
      BY <3>1 DEF Holds
    <3> HIDE DEF l
    <3> QED
      BY <3>1, <3>2, <3>3, <3>4 DEF ErrorsAreHonest, Holds
  <2>5. ASSUME NEW t \in Threads, NEW l \in Locks, UnlockRefused(t, l) PROVE ErrorsAreHonest'
    <3>1. NotOwner(t, l) /\ Error(t, l, "unlock", "EPERM") /\ held' = held
      BY <2>5 DEF UnlockRefused
    <3>2. ret'.thread = t /\ ret'.lock = l /\ ret'.code = "EPERM"
      BY <2>3, <3>1
    <3>3. ~Holds(t, l)
      BY <2>0, <3>1, FieldsTellHolders DEF NotOwner
    <3> QED
      BY <3>1, <3>2, <3>3 DEF ErrorsAreHonest, Holds
  <2>6. ASSUME NEW t \in Threads, NEW l \in Locks, NEW f, Error(t, l, f, "EINVAL"), type[l] \notin TypesOf(l),
               type' = type, held' = held
        PROVE  ErrorsAreHonest'
    <3>1. ret'.thread = t /\ ret'.lock = l /\ ret'.code = "EINVAL"
      BY <2>3, <2>6
    <3>2. type[l] = "INVALID" /\ held[l] = << >>
      BY <2>0, <2>6, FieldsTellHolders
    <3> QED
      BY <2>6, <3>1, <3>2 DEF ErrorsAreHonest
  <2>7. ASSUME NEW t \in Threads, NEW l \in Locks, NEW ty \in Types, NEW try \in BOOLEAN,
               LockCall(t, l, ty, try)
        PROVE  ErrorsAreHonest'
    BY <2>1, <2>6, <2>7 DEF LockCall, fields
  <2>8. ASSUME NEW t \in Threads, NEW l \in Locks, Destroy(t, l) PROVE ErrorsAreHonest'
    <3>1. held' = held /\ waiting' = waiting /\ count' = count
      BY <2>8 DEF Destroy
    <3>2. CASE Error(t, l, "destroy", "EBUSY") /\ (count[l] # 0 \/ waiting[l] # << >>)
      <4>1. ret'.thread = t /\ ret'.lock = l /\ ret'.call = "destroy" /\ ret'.code = "EBUSY"
        BY <2>3, <3>2
      <4>2. held[l] # << >> \/ waiting[l] # << >>
        BY <2>0, <3>2, FieldsTellHolders DEF OwnershipInv
      <4> QED
        BY <3>1, <4>1, <4>2 DEF ErrorsAreHonest
    <3> QED
      BY <2>1, <2>6, <2>8, <3>1, <3>2 DEF Destroy
  <2>9. ASSUME NEW t \in Threads, Continue(t) PROVE ErrorsAreHonest'
    BY <2>1, <2>4, <2>9 DEF Continue, LockGranted, LockBlocks, BlockYield, RecheckFails, RecheckTakes, UnlockYield
  <2>10. ASSUME NEW t \in Threads, NEW l \in Locks, Unlock(t, l) \/ Reinit(t, l) PROVE ErrorsAreHonest'
    <3>1. CASE NoError
      BY <2>1, <3>1
    <3>2. CASE /\ l \in RWLocks /\ type[l] \in {"READ", "WRITE"} /\ type' = type
               /\ Error(t, l, "init", "EBUSY")
      <4>1. ret'.lock = l /\ ret'.call = "init" /\ ret'.code = "EBUSY"
        BY <2>3, <3>2
      <4>2. type'[l] \in TypesOf(l)
        BY <3>2, KindAssumption DEF TypesOf, Mutexes
      <4> QED
        BY <4>1, <4>2 DEF ErrorsAreHonest
    <3> QED
      BY <2>10, <3>1, <3>2 DEF Unlock, Reinit, fields
  <2>11. CASE Tick
    BY <2>1, <2>11 DEF Tick
  <2> QED
    BY <2>2, <2>5, <2>7, <2>8, <2>9, <2>10, <2>11 DEF Next
<1> QED
  BY <1>1, <1>2, Invariance, PTL DEF Spec
=============================================================================
