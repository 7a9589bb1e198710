-------------------------- MODULE PthreadSemProofs --------------------------
(***************************************************************************)
(* Proofs about PthreadSem, for any number of threads and any bounds.      *)
(*                                                                         *)
(* That the interlock wakes its waiters holds of every program.  That it   *)
(* protects the count needs that no two threads are in sem_getvalue: two   *)
(* locks for reading at once are the only way to leave a stale owner       *)
(* behind.  The invariant says who has the interlock and what the register *)
(* of its holder is worth.                                                 *)
(***************************************************************************)
EXTENDS PthreadSem, TLAPS, SequenceTheorems, WellFoundedInduction

\* Removing an element of a sequence leaves a sequence.
LEMMA RemoveAtType ==
  ASSUME NEW S, NEW s \in Seq(S), NEW i \in 1 .. Len(s)
  PROVE  RemoveAt(s, i) \in Seq(S)
<1>1. SubSeq(s, 1, i - 1) \in Seq(S) /\ SubSeq(s, i + 1, Len(s)) \in Seq(S)
  OBVIOUS
<1> QED
  BY <1>1, ConcatProperties DEF RemoveAt

LEMMA AfterLockType ==
  ASSUME NEW t \in Threads, TypeOK, pc[t] \in {"lock", "blocked"}
  PROVE  /\ op[t] \in Ops /\ Want(op[t]) \in {"READ", "WRITE"}
         /\ AfterLock(t) \in {"test", "load", "unlock"}
         /\ AfterLock(t) = "load" => op[t] # "wait"
<1>1. op[t] \in Ops
  BY DEF TypeOK
<1> QED
  BY <1>1 DEF Ops, AfterLock, Want

LEMMA UnlockType ==
  ASSUME NEW t \in Threads, TypeOK, Unlock(t)
  PROVE  /\ owner' \in Threads \cup {NULL} /\ lcount' \in Nat
         /\ ltype' \in {"READ", "WRITE"} /\ waiting' \in Seq(Threads)
         /\ asleep' \in SUBSET Threads
<1>1. CASE (ltype # "READ" /\ owner # t) \/ lcount = 0
  BY <1>1 DEF Unlock, TypeOK, interlock
<1>2. CASE ~((ltype # "READ" /\ owner # t) \/ lcount = 0)
  BY <1>2 DEF Unlock, TypeOK
<1> QED
  BY <1>1, <1>2

LEMMA TypeStep == TypeOK /\ [Next]_vars => TypeOK'
<1> SUFFICES ASSUME TypeOK, [Next]_vars PROVE TypeOK'
  OBVIOUS
<1> USE ValuesAssumption, NullAssumption DEF Ops, Pcs, None
<1>1. CASE UNCHANGED vars
  BY <1>1 DEF TypeOK, vars, sem, interlock, cancel, history
<1>2. ASSUME NEW t \in Threads, LockReturns(t) PROVE TypeOK'
  <2>1. pc[t] = "lock"
    BY <1>2 DEF LockReturns, At
  <2>2. AfterLock(t) \in {"test", "load", "unlock"} /\ Want(op[t]) \in {"READ", "WRITE"}
    BY <2>1, AfterLockType
  <2>3. pc' = [pc EXCEPT ![t] = AfterLock(t)]
    BY <1>2 DEF LockReturns, Goto
  <2>4. owner' \in Threads \cup {NULL} /\ lcount' \in Nat /\ ltype' \in {"READ", "WRITE"}
    BY <1>2, <2>2 DEF LockReturns, Acquire, TypeOK
  <2> QED
    BY <1>2, <2>1, <2>2, <2>3, <2>4 DEF LockReturns, TypeOK, sem, cancel, history
<1>4. ASSUME NEW t \in Threads, LockBlocks(t) PROVE TypeOK'
  BY <1>4 DEF LockBlocks, At, Goto, TypeOK, sem, cancel, history
<1>5. ASSUME NEW t \in Threads, LockWoken(t) PROVE TypeOK'
  <2>1. CASE Available(t)
    <3>1. waiting' \in Seq(Threads)
      BY <1>5, <2>1, RemoveAtType DEF LockWoken, TypeOK
    <3>2. pc[t] = "blocked"
      BY <1>5 DEF LockWoken, At
    <3>3. AfterLock(t) \in {"test", "load", "unlock"} /\ Want(op[t]) \in {"READ", "WRITE"}
      BY <3>2, AfterLockType
    <3>4. /\ pc' = [pc EXCEPT ![t] = AfterLock(t)]
          /\ owner' = t /\ lcount' = lcount + 1 /\ ltype' = Want(op[t])
      BY <1>5, <2>1 DEF LockWoken, Acquire, Goto
    <3> QED
      BY <1>5, <2>1, <3>1, <3>2, <3>3, <3>4 DEF LockWoken, TypeOK, sem, cancel, history
  <2>2. CASE ~Available(t)
    BY <1>5, <2>2 DEF LockWoken, TypeOK, sem, interlock, cancel, history
  <2> QED
    BY <2>1, <2>2
<1>6. ASSUME NEW t \in Threads, WaitTest(t) PROVE TypeOK'
  <2>1. Append(usem_waiters, t) \in Seq(Threads)
    BY DEF TypeOK
  <2>2. usem_waiters' \in Seq(Threads) /\ asleep' \in SUBSET Threads
    <3>1. usem_waiters' \in {usem_waiters, Append(usem_waiters, t)}
          /\ asleep' \in {asleep, asleep \cup {t}}
      BY <1>6 DEF WaitTest
    <3> QED
      BY <2>1, <3>1 DEF TypeOK
  <2>3. pc[t] = "test" /\ \E l \in {"cancelled", "load", "retry"} : pc' = [pc EXCEPT ![t] = l]
    BY <1>6 DEF WaitTest, At, Goto
  <2> QED
    BY <1>6, <2>2, <2>3 DEF WaitTest, TypeOK, interlock, cancel, history
<1>7. ASSUME NEW t \in Threads, Load(t) PROVE TypeOK'
  BY <1>7 DEF Load, At, Goto, TypeOK, sem, interlock, cancel, history
<1>8. ASSUME NEW t \in Threads, Store(t) PROVE TypeOK'
  <2>1. pc[t] = "store" /\ \E l \in {"wake", "unlock"} : pc' = [pc EXCEPT ![t] = l]
    BY <1>8 DEF Store, At, Goto
  <2>2. usem_count' \in Int /\ posted' \in Nat /\ taken' \in Nat /\ reg' \in [Threads -> Int]
    BY <1>8 DEF Store, TypeOK
  <2> QED
    BY <1>8, <2>1, <2>2 DEF Store, TypeOK, interlock, cancel
<1>9. ASSUME NEW t \in Threads, PostWake(t) PROVE TypeOK'
  <2>1. usem_waiters' \in Seq(Threads) /\ asleep' \in SUBSET Threads
    <3>1. CASE usem_waiters = << >>
      BY <1>9, <3>1 DEF PostWake, TypeOK
    <3>2. CASE usem_waiters # << >>
      <4>1. Tail(usem_waiters) \in Seq(Threads)
        BY <3>2, HeadTailProperties DEF TypeOK
      <4> QED
        BY <1>9, <3>2, <4>1 DEF PostWake, TypeOK
    <3> QED
      BY <3>1, <3>2
  <2> QED
    BY <1>9, <2>1 DEF PostWake, At, Goto, TypeOK, interlock, cancel, history
<1>10. ASSUME NEW t \in Threads, Finish(t) PROVE TypeOK'
  <2>1. /\ pc' \in [Threads -> Pcs] /\ op' \in [Threads -> Ops \cup {None}]
        /\ \A u \in Threads : pc'[u] \notin {"idle", "exited"} => op'[u] \in Ops
    BY <1>10 DEF Finish, Goto, TypeOK
  <2> QED
    BY <1>10, <2>1, UnlockType DEF Finish, TypeOK, sem, cancel, history
<1>11. ASSUME NEW t \in Threads, NEW o \in Ops, Call(t, o) PROVE TypeOK'
  <2>1. /\ pc' \in [Threads -> Pcs] /\ op' \in [Threads -> Ops \cup {None}]
        /\ \A u \in Threads : pc'[u] \notin {"idle", "exited"} => op'[u] \in Ops
    <3>1. CASE pc' = [pc EXCEPT ![t] = "exited"] /\ op' = op
      BY <3>1 DEF TypeOK
    <3>2. CASE pc' = [pc EXCEPT ![t] = "lock"] /\ op' = [op EXCEPT ![t] = o]
      BY <3>2 DEF TypeOK
    <3> QED
      BY <1>11, <3>1, <3>2 DEF Call, Goto
  <2> QED
    BY <1>11, <2>1 DEF Call, TypeOK, sem, interlock, cancel, history
<1>12. ASSUME NEW t \in Threads, Destroy(t) PROVE TypeOK'
  BY <1>12 DEF Destroy, TypeOK, cancel, history
<1>13. ASSUME NEW t \in Threads, NEW v \in Values, SemInit(t, v) PROVE TypeOK'
  <2>1. usem_waiters' \in Seq(Threads)
    BY <1>13 DEF SemInit
  <2> QED
    BY <1>13, <2>1 DEF SemInit, TypeOK, interlock, cancel
<1>14. ASSUME NEW t \in Threads, Cancel(t) PROVE TypeOK'
  <2>1. cancelpending' \in [Threads -> BOOLEAN]
    BY <1>14, Zenon DEF Cancel, TypeOK
  <2> QED
    BY <1>14, <2>1 DEF Cancel, TypeOK, sem, interlock, history
<1>15. ASSUME NEW t \in Threads, SetCancelState(t) PROVE TypeOK'
  <2>1. cancelstate' \in [Threads -> BOOLEAN]
    BY <1>15, Zenon DEF SetCancelState, TypeOK
  <2> QED
    BY <1>15, <2>1 DEF SetCancelState, TypeOK, sem, interlock, history
<1> QED
  BY <1>1, <1>2, <1>4, <1>5, <1>6, <1>7, <1>8, <1>9, <1>10, <1>11, <1>12, <1>13,
     <1>14, <1>15 DEF Next, Continue

\* The fields of the semaphore, of its interlock and of the threads that use it
\* keep their types through every function of sem.c, sem_getvalue included.
THEOREM TypeCorrect == Spec => []TypeOK
<1>1. Init => TypeOK
  BY ValuesAssumption DEF Init, TypeOK, Pcs, None
<1> QED
  BY <1>1, TypeStep, PTL DEF Spec

-----------------------------------------------------------------------------
(***************************************************************************)
(* With at most one thread that calls sem_getvalue.                        *)
(***************************************************************************)

\* The places inside a call where the interlock is held.
Holding == {t \in Threads : pc[t] \in {"test", "load", "store", "wake", "retry",
                                       "cancelled", "unlock"}}

OneGetter == \A t, u \in Getters : t = u

IInv ==
  /\ TypeOK
  /\ \A t \in Threads : op[t] = "getvalue" =>
       t \in Getters /\ pc[t] \in {"lock", "blocked", "unlock"}
  /\ \A t \in Holding : owner = t /\ ltype = Want(op[t]) /\ lcount = 1
  /\ owner # NULL => owner \in Holding
  /\ owner = NULL => lcount = 0
  /\ magic \/ \A t \in Threads : pc[t] \in {"idle", "exited"}
  /\ usem_waiters = << >>
  /\ \A t \in Threads : pc[t] = "load" /\ op[t] = "wait" => usem_count # 0
  /\ \A t \in Threads : pc[t] = "store" =>
       reg[t] = usem_count /\ (op[t] # "post" => usem_count # 0)
  /\ CountIsTrue

\* A free interlock is given to a thread that asked for it.
LEMMA Acquires ==
  ASSUME OneGetter, NEW t \in Threads, IInv, TypeOK', pc[t] \in {"lock", "blocked"},
         Available(t), Acquire(t), Goto(t, AfterLock(t)), UNCHANGED <<sem, op, reg, history>>
  PROVE  IInv'
<1>1. owner = NULL /\ lcount = 0
  <2>1. CASE owner # NULL
    <3>1. owner \in Holding /\ owner \in Threads /\ ltype = Want(op[owner])
      BY <2>1 DEF IInv, Holding
    <3>2. op[owner] = "getvalue" /\ op[t] = "getvalue"
      BY <2>1, <3>1 DEF Available, Want
    <3>3. owner = t
      BY <3>1, <3>2 DEF IInv, OneGetter
    <3> QED
      BY <3>1, <3>3 DEF Holding
  <2> QED
    BY <2>1 DEF IInv
<1>2. /\ AfterLock(t) \in {"test", "load", "unlock"}
      /\ AfterLock(t) = "load" => op[t] # "wait"
      /\ op[t] = "getvalue" => AfterLock(t) = "unlock"
  <2>1. op[t] = "getvalue" => AfterLock(t) = "unlock"
    BY DEF AfterLock
  <2> QED
    BY <2>1, AfterLockType DEF IInv
<1>3. owner' = t /\ lcount' = 1 /\ ltype' = Want(op[t])
  BY <1>1 DEF Acquire
<1>4. \A u \in Threads : pc'[u] = IF u = t THEN AfterLock(t) ELSE pc[u]
  BY DEF Goto, IInv, TypeOK
<1>5. \A u \in Threads : u \notin Holding
  BY <1>1, NullAssumption DEF IInv
<1>7. magic
  BY DEF IInv
<1>6. \A u \in Threads : u \in Holding' <=> u = t
  BY <1>2, <1>4, <1>5 DEF Holding
<1>8. \A u \in Threads : pc'[u] # "store" /\ (pc'[u] = "load" => op[u] # "wait")
  BY <1>2, <1>4, <1>5 DEF Holding
<1>9. /\ UNCHANGED <<magic, usem_count, usem_waiters, op>>
      /\ CountIsTrue'
  BY DEF sem, history, CountIsTrue, IInv
<1>10. \A u \in Holding' : u = t
  BY <1>6 DEF Holding
<1> QED
  BY <1>2, <1>3, <1>4, <1>6, <1>7, <1>8, <1>9, <1>10, NullAssumption DEF IInv

LEMMA StepIInv ==
  ASSUME OneGetter, IInv, [Next]_vars
  PROVE  IInv'
<1> USE NullAssumption, ValuesAssumption DEF Ops, None
<1>1. TypeOK'
  BY TypeStep DEF IInv
<1>2. CASE UNCHANGED vars
  BY <1>1, <1>2 DEF IInv, vars, sem, interlock, cancel, history, Holding, CountIsTrue
<1>3. ASSUME NEW t \in Threads, LockReturns(t) PROVE IInv'
  <2>1. pc[t] = "lock"
    BY <1>3 DEF LockReturns, At
  <2>2. CASE Available(t)
    BY <1>1, <1>3, <2>1, <2>2, Acquires DEF LockReturns, IInv
  <2>3. CASE ~Available(t)
    <3>1. owner = t
      BY <1>3, <2>3 DEF LockReturns, Queues
    <3> QED
      BY <1>3, <2>1, <3>1 DEF IInv, Holding
  <2> QED
    BY <2>2, <2>3
<1>5. ASSUME NEW t \in Threads, LockBlocks(t) PROVE IInv'
  BY <1>1, <1>5 DEF LockBlocks, At, Goto, IInv, TypeOK, Holding, CountIsTrue, sem, history
<1>6. ASSUME NEW t \in Threads, LockWoken(t) PROVE IInv'
  <2>1. CASE Available(t)
    <3>1. pc[t] = "blocked"
      BY <1>6 DEF LockWoken, At
    <3> QED
      BY <1>1, <1>6, <2>1, <3>1, Acquires DEF LockWoken, IInv
  <2>2. CASE ~Available(t)
    BY <1>1, <1>6, <2>2 DEF LockWoken, IInv, Holding, CountIsTrue, sem, interlock, history
  <2> QED
    BY <2>1, <2>2
<1>7. ASSUME NEW t \in Threads, WaitTest(t) PROVE IInv'
  <2>1. pc[t] = "test" /\ usem_waiters' = usem_waiters
    BY <1>7 DEF WaitTest, At, IInv
  <2>2. PICK l \in {"cancelled", "load", "retry"} :
          /\ pc' = [pc EXCEPT ![t] = l]
          /\ l = "load" => usem_count # 0
    BY <1>7 DEF WaitTest, Goto
  <2>3. \A u \in Threads : pc'[u] = IF u = t THEN l ELSE pc[u]
    BY <2>2 DEF IInv, TypeOK
  <2>4. \A u \in Threads : u \in Holding' <=> u \in Holding
    BY <2>1, <2>2, <2>3 DEF Holding
  <2>5. UNCHANGED <<owner, lcount, ltype, magic, usem_count, usem_waiters, op, reg, history>>
    BY <1>7, <2>1 DEF WaitTest, interlock
  <2> QED
    BY <1>1, <2>1, <2>2, <2>3, <2>4, <2>5 DEF IInv, CountIsTrue, Holding, history
<1>8. ASSUME NEW t \in Threads, Load(t) PROVE IInv'
  <2>1. /\ pc[t] = "load" /\ reg' = [reg EXCEPT ![t] = usem_count]
        /\ pc' = [pc EXCEPT ![t] = IF op[t] = "trywait" /\ usem_count = 0 THEN "unlock" ELSE "store"]
        /\ UNCHANGED <<owner, lcount, ltype, magic, usem_count, usem_waiters, op, history>>
    BY <1>8 DEF Load, At, Goto, sem, interlock
  <2>2. \A u \in Threads : u \in Holding' <=> u \in Holding
    BY <2>1 DEF Holding, IInv, TypeOK
  <2>3. \A u \in Threads : pc'[u] = "store" => reg'[u] = usem_count /\ (op[u] # "post" => usem_count # 0)
    BY <2>1 DEF IInv, TypeOK
  <2>4. \A u \in Threads : op[u] = "getvalue" => u \in Getters /\ pc'[u] \in {"lock", "blocked", "unlock"}
    BY <2>1 DEF IInv, TypeOK
  <2> QED
    BY <1>1, <2>1, <2>2, <2>3, <2>4 DEF IInv, TypeOK, Holding, CountIsTrue, history
<1>9. ASSUME NEW t \in Threads, Store(t) PROVE IInv'
  <2>1. owner = t /\ \A u \in Threads \ {t} : u \notin Holding
    BY <1>9 DEF Store, At, IInv, Holding
  <2>2. pc' = [pc EXCEPT ![t] = IF op[t] = "post" THEN "wake" ELSE "unlock"]
    BY <1>9 DEF Store, Goto
  <2>3. /\ \A u \in Threads : u \in Holding' <=> u \in Holding
        /\ \A u \in Threads : pc'[u] \notin {"load", "store"}
    BY <1>9, <2>1, <2>2 DEF Store, At, Holding, IInv, TypeOK
  <2>4. CountIsTrue'
    BY <1>9 DEF Store, At, CountIsTrue, IInv, TypeOK
  <2> QED
    BY <1>1, <1>9, <2>2, <2>3, <2>4 DEF Store, At, IInv, TypeOK, Holding, interlock
<1>10. ASSUME NEW t \in Threads, PostWake(t) PROVE IInv'
  BY <1>1, <1>10 DEF PostWake, At, Goto, IInv, TypeOK, Holding, CountIsTrue, interlock, history
<1>11. ASSUME NEW t \in Threads, Finish(t) PROVE IInv'
  <2>1. t \in Holding /\ owner = t /\ lcount = 1
    BY <1>11 DEF Finish, IInv, Holding
  <2>2. owner' = NULL /\ lcount' = 0
    BY <1>11, <2>1 DEF Finish, Unlock
  <2>3. \A u \in Threads \ {t} : u \notin Holding
    BY <2>1 DEF IInv
  <2>4. /\ \A u \in Threads \ {t} : pc'[u] = pc[u]
        /\ pc'[t] \in {"idle", "lock", "exited"}
    BY <1>11, <2>1 DEF Finish, Goto, Holding, IInv, TypeOK
  <2>5. op' = op \/ op' = [op EXCEPT ![t] = None]
    BY <1>11 DEF Finish
  <2>6. \A u \in Threads : u \notin Holding'
    BY <2>3, <2>4 DEF Holding
  <2> QED
    BY <1>1, <1>11, <2>1, <2>2, <2>3, <2>4, <2>5, <2>6
    DEF Finish, IInv, TypeOK, Holding, CountIsTrue, sem, history
<1>12. ASSUME NEW t \in Threads, NEW o \in Ops, Call(t, o) PROVE IInv'
  <2>1. o = "getvalue" => t \in Getters
    BY <1>12 DEF Call
  <2>2. /\ pc[t] = "idle"
        /\ \E l \in {"exited", "lock"} : pc' = [pc EXCEPT ![t] = l]
        /\ op' \in {op, [op EXCEPT ![t] = o]}
    BY <1>12 DEF Call, At, Goto
  <2>3. \A u \in Threads : u \in Holding' <=> u \in Holding
    BY <2>2 DEF Holding, IInv, TypeOK
  <2> QED
    <3>1. UNCHANGED <<owner, lcount, ltype, magic, usem_count, usem_waiters, reg, history>> /\ magic
      BY <1>12 DEF Call, sem, interlock
    <3>2. \A u \in Threads : /\ u # t => op'[u] = op[u] /\ pc'[u] = pc[u]
                             /\ u \in Holding => u # t
      BY <2>2 DEF IInv, TypeOK, Holding
    <3>3. /\ pc'[t] \in {"exited", "lock"}
          /\ op'[t] = "getvalue" => t \in Getters /\ pc'[t] = "lock"
      BY <1>12, <2>1, <2>2 DEF Call, Goto, IInv, TypeOK
    <3>4. \A u \in Threads : op'[u] = "getvalue" =>
            u \in Getters /\ pc'[u] \in {"lock", "blocked", "unlock"}
      BY <3>2, <3>3 DEF IInv
    <3>5. \A u \in Holding' : owner' = u /\ ltype' = Want(op'[u]) /\ lcount' = 1
      <4>1. \A u \in Holding' : u \in Threads /\ u \in Holding
        BY <2>3 DEF Holding
      <4> QED
        BY <3>1, <3>2, <4>1 DEF IInv
    <3>6. /\ \A u \in Threads : pc'[u] = "load" /\ op'[u] = "wait" => usem_count' # 0
          /\ \A u \in Threads : pc'[u] = "store" =>
               reg'[u] = usem_count' /\ (op'[u] # "post" => usem_count' # 0)
      BY <3>1, <3>2, <3>3 DEF IInv
    <3>7. CountIsTrue'
      BY <3>1 DEF IInv, CountIsTrue, history
    <3>8. owner' # NULL => owner' \in Holding'
      BY <2>3, <3>1 DEF IInv, Holding
    <3> QED
      BY <1>1, <3>1, <3>4, <3>5, <3>6, <3>7, <3>8 DEF IInv
<1>13. ASSUME NEW t \in Threads, Destroy(t) PROVE IInv'
  BY <1>1, <1>13 DEF Destroy, At, IInv, TypeOK, Holding, CountIsTrue, history
<1>14. ASSUME NEW t \in Threads, NEW v \in Values, SemInit(t, v) PROVE IInv'
  <2>1. \A u \in Threads : pc[u] \in {"idle", "exited"}
    BY <1>14 DEF SemInit, IInv
  <2>2. \A u \in Threads : u \notin Holding /\ u \notin Holding'
    BY <1>14, <2>1 DEF SemInit, Holding
  <2>3. CountIsTrue'
    BY <1>14 DEF SemInit, CountIsTrue
  <2> QED
    BY <1>1, <1>14, <2>1, <2>2, <2>3 DEF SemInit, IInv, interlock, Holding
<1>15. ASSUME NEW t \in Threads, Cancel(t) PROVE IInv'
  BY <1>1, <1>15 DEF Cancel, IInv, Holding, CountIsTrue, sem, interlock, history
<1>16. ASSUME NEW t \in Threads, SetCancelState(t) PROVE IInv'
  BY <1>1, <1>16 DEF SetCancelState, IInv, Holding, CountIsTrue, sem, interlock, history
<1> QED
  BY <1>2, <1>3, <1>5, <1>6, <1>7, <1>8, <1>9, <1>10, <1>11, <1>12, <1>13, <1>14,
     <1>15, <1>16 DEF Next, Continue

LEMMA Invariance == ASSUME OneGetter PROVE Spec => []IInv
<1>1. Init => IInv
  BY ValuesAssumption, NullAssumption
  DEF Init, IInv, TypeOK, Holding, CountIsTrue, Ops, Pcs, None
<1>2. IInv /\ [Next]_vars => IInv'
  BY StepIInv
<1> QED
  BY <1>1, <1>2, PTL DEF Spec

\* As long as at most one thread calls sem_getvalue, the thread that tests or changes the
\* count or the queue of a semaphore has its interlock, alone, although no
\* function looks at what the locking returned.
THEOREM InterlockHolds == ASSUME OneGetter PROVE Spec => []InterlockProtects
<1>1. ASSUME IInv, NEW t \in Inside PROVE owner = t /\ ltype = "WRITE" /\ lcount = 1
  <2>1. t \in Holding /\ t \in Threads
    BY DEF Inside, Holding
  <2>2. op[t] # "getvalue"
    BY <1>1, <2>1 DEF IInv, Inside
  <2> QED
    BY <1>1, <2>1, <2>2 DEF IInv, Want
<1>2. IInv => InterlockProtects
  BY <1>1 DEF InterlockProtects
<1> QED
  BY <1>2, Invariance, PTL

\* As long as at most one thread calls sem_getvalue, no sem_post, sem_wait or sem_trywait is
\* lost between the load and the store of the count, and it never goes below 0.
THEOREM NoUpdateIsLost == ASSUME OneGetter PROVE Spec => []CountIsTrue
<1>1. IInv => CountIsTrue
  BY DEF IInv
<1> QED
  BY <1>1, Invariance, PTL

\* As long as at most one thread calls sem_getvalue, sem.c implements a counting semaphore:
\* each store of the count is one post or one take of the abstract counter, and
\* every other step is invisible, or initialises it.
THEOREM Refinement == ASSUME OneGetter PROVE Spec => ImplementsSem
<1>1. Init => Abstract!Init
  BY ValuesAssumption DEF Init, Abstract!Init
<1>2. ASSUME IInv, [Next]_vars PROVE [Abstract!Next]_(Abstract!svars)
  <2> USE DEF Abstract!svars, history
  <2>1. ASSUME NEW t \in Threads, Store(t) PROVE Abstract!Next
    <3>1. reg[t] = usem_count /\ (op[t] # "post" => usem_count > 0)
      BY <1>2, <2>1 DEF Store, At, IInv, CountIsTrue, TypeOK
    <3> QED
      BY <2>1, <3>1 DEF Store, Abstract!Next, Abstract!Post, Abstract!Take
  <2>2. ASSUME NEW t \in Threads, NEW v \in Values, SemInit(t, v) PROVE Abstract!Next
    BY <2>2, ValuesAssumption DEF SemInit, Abstract!Next, Abstract!Restart
  <2>3. CASE UNCHANGED <<usem_count, posted, taken>>
    BY <2>3
  <2>4. \/ UNCHANGED <<usem_count, posted, taken>>
        \/ \E t \in Threads : Store(t) \/ \E v \in Values : SemInit(t, v)
    BY <1>2 DEF Next, Continue, vars, sem, LockReturns, LockBlocks, LockWoken, WaitTest,
                Load, PostWake, Finish, Call, Destroy, Cancel, SetCancelState
  <2> QED
    BY <2>1, <2>2, <2>3, <2>4
<1> QED
  BY <1>1, <1>2, Invariance, PTL DEF Spec, ImplementsSem, Abstract!Spec

\* As long as at most one thread calls sem_getvalue, the interlock is exclusive and no update
\* of usem_count is lost.
THEOREM SemCorrect == ASSUME OneGetter PROVE Spec => []SemInv
  BY TypeCorrect, InterlockHolds, NoUpdateIsLost, PTL DEF SemInv

-----------------------------------------------------------------------------
(***************************************************************************)
(* The interlock wakes its waiters, whatever calls sem_getvalue.           *)
(***************************************************************************)

\* Nothing is ever put into the semaphore's own queue.
WakeInv == TypeOK /\ usem_waiters = << >> /\ InterlockWakes

\* Who may still run, who is where and who is in the interlock's queue decide
\* InterlockWakes: a step that leaves all this alone preserves it.
LEMMA WakeFrame ==
  ASSUME WakeInv, TypeOK', usem_waiters' = usem_waiters, waiting' = waiting, asleep' = asleep,
         owner' = NULL => owner = NULL,
         \A u \in Threads : pc'[u] = "blocked" <=> pc[u] = "blocked"
  PROVE  WakeInv'
  BY DEF WakeInv, InterlockWakes

\* Removing the i-th element of a sequence: what is left, and where.
LEMMA RemoveAtIndex ==
  ASSUME NEW S, NEW s \in Seq(S), NEW i \in 1 .. Len(s)
  PROVE  /\ RemoveAt(s, i) \in Seq(S)
         /\ Len(RemoveAt(s, i)) = Len(s) - 1
         /\ \A j \in 1 .. Len(s) - 1 :
              RemoveAt(s, i)[j] = IF j < i THEN s[j] ELSE s[j + 1]
<1> DEFINE a == SubSeq(s, 1, i - 1)
           b == SubSeq(s, i + 1, Len(s))
<1>1. a \in Seq(S) /\ Len(a) = i - 1 /\ \A j \in 1 .. i - 1 : a[j] = s[j]
  OBVIOUS
<1>2. b \in Seq(S) /\ Len(b) = Len(s) - i /\ \A j \in 1 .. Len(s) - i : b[j] = s[i + j]
  OBVIOUS
<1> HIDE DEF a, b
<1>3. /\ a \o b \in Seq(S)
      /\ Len(a \o b) = Len(a) + Len(b)
      /\ \A j \in 1 .. Len(a) + Len(b) :
           (a \o b)[j] = IF j <= Len(a) THEN a[j] ELSE b[j - Len(a)]
  BY <1>1, <1>2, ConcatProperties
<1>4. Len(s) \in Nat /\ Len(a) + Len(b) = Len(s) - 1
  BY <1>1, <1>2
<1>5. ASSUME NEW j \in 1 .. Len(s) - 1
      PROVE  (a \o b)[j] = IF j < i THEN s[j] ELSE s[j + 1]
  <2>1. (a \o b)[j] = IF j <= Len(a) THEN a[j] ELSE b[j - Len(a)]
    BY <1>3, <1>4
  <2> QED
    BY <2>1, <1>1, <1>2, <1>4
<1> QED
  BY <1>3, <1>4, <1>5 DEF RemoveAt, a, b

Distinct(s) == \A i, j \in 1 .. Len(s) : s[i] = s[j] => i = j
Among(x, s) == \E i \in 1 .. Len(s) : s[i] = x

\* A sequence without repetitions that loses its i-th element loses exactly
\* that element.
LEMMA RemoveOne ==
  ASSUME NEW S, NEW s \in Seq(S), NEW i \in 1 .. Len(s),
         Distinct(s)
  PROVE  /\ Distinct(RemoveAt(s, i))
         /\ \A x \in S : Among(x, RemoveAt(s, i)) <=> x # s[i] /\ Among(x, s)
<1> DEFINE r == RemoveAt(s, i)
<1>1. /\ Len(r) = Len(s) - 1
      /\ \A j \in 1 .. Len(s) - 1 : r[j] = IF j < i THEN s[j] ELSE s[j + 1]
  BY RemoveAtIndex
<1> HIDE DEF r
<1>2. Len(s) \in Nat /\ Len(r) = Len(s) - 1
  BY <1>1
<1>3. ASSUME NEW j \in 1 .. Len(r) PROVE r[j] = IF j < i THEN s[j] ELSE s[j + 1]
  BY <1>1, <1>2
<1>4. \A j, k \in 1 .. Len(r) : r[j] = r[k] => j = k
  BY <1>2, <1>3 DEF Distinct
<1>5. ASSUME NEW x \in S, NEW j \in 1 .. Len(r), r[j] = x
      PROVE  x # s[i] /\ \E k \in 1 .. Len(s) : s[k] = x
  BY <1>2, <1>3, <1>5 DEF Distinct
<1>6. ASSUME NEW x \in S, x # s[i], NEW j \in 1 .. Len(s), s[j] = x
      PROVE  \E k \in 1 .. Len(r) : r[k] = x
  <2>1. CASE j < i
    <3>1. j \in 1 .. Len(r) /\ r[j] = s[j]
      BY <1>2, <1>3, <2>1
    <3> QED
      BY <1>6, <3>1
  <2>2. CASE j > i
    <3>1. j - 1 \in 1 .. Len(r) /\ r[j - 1] = s[j]
      BY <1>2, <1>3, <2>2
    <3> QED
      BY <1>6, <3>1
  <2> QED
    BY <1>6, <2>1, <2>2
<1> QED
  BY <1>4, <1>5, <1>6 DEF r, Distinct, Among

\* Among the waiting threads that ask for the lock alone there is a first one.
LEMMA FirstWriter ==
  ASSUME TypeOK, waiting # << >>
  PROVE  Woken # {} /\ \A u \in Woken : \E i \in 1 .. Len(waiting) : waiting[i] = u
<1>0. waiting \in Seq(Threads) /\ Len(waiting) \in Nat /\ 1 \in 1 .. Len(waiting)
  BY DEF TypeOK
<1> DEFINE W == {i \in 1 .. Len(waiting) : Want(op[waiting[i]]) = "WRITE"}
<1>1. CASE WriterWaits
  <2>1. W # {} /\ W \subseteq Nat
    BY <1>0, <1>1 DEF WriterWaits
  <2>2. PICK f \in W : \A j \in W : ~(<<j, f>> \in OpToRel(<, Nat))
    BY <2>1, NatLessThanWellFounded, WFMin
  <2>3. \A j \in 1 .. f - 1 : Want(op[waiting[j]]) = "READ"
    <3> SUFFICES ASSUME NEW j \in 1 .. f - 1, Want(op[waiting[j]]) # "READ" PROVE FALSE
      OBVIOUS
    <3>0. f \in 1 .. Len(waiting)
      BY <2>2
    <3>1. f \in 1 .. Len(waiting) /\ j \in 1 .. Len(waiting) /\ j \in Nat /\ f \in Nat /\ j < f
      BY <1>0, <3>0
    <3>2. j \in W
      BY <3>1 DEF Want
    <3> QED
      BY <2>2, <3>1, <3>2 DEF OpToRel
  <2> QED
    BY <1>1, <2>2, <2>3 DEF Woken
<1>2. CASE ~WriterWaits
  BY <1>0, <1>2 DEF Woken
<1> QED
  BY <1>1, <1>2 DEF Woken

LEMMA StepWakes == WakeInv /\ [Next]_vars => WakeInv'
<1> SUFFICES ASSUME WakeInv, [Next]_vars PROVE WakeInv'
  OBVIOUS
<1> USE NullAssumption
<1>0. TypeOK /\ TypeOK' /\ InterlockWakes /\ usem_waiters = << >>
  BY TypeStep DEF WakeInv
<1>1. CASE UNCHANGED vars
  BY <1>0, <1>1, WakeFrame DEF vars, sem, interlock
<1>2. ASSUME NEW t \in Threads, LockReturns(t) PROVE WakeInv'
  <2>1. pc[t] = "lock" /\ pc' = [pc EXCEPT ![t] = AfterLock(t)]
    BY <1>2 DEF LockReturns, At, Goto
  <2>2. AfterLock(t) # "blocked"
    BY <1>0, <2>1, AfterLockType
  <2>3. \A u \in Threads : pc'[u] = "blocked" <=> pc[u] = "blocked"
    BY <1>0, <2>1, <2>2 DEF TypeOK
  <2>4. owner' = NULL => owner = NULL
    BY <1>2 DEF LockReturns, Acquire
  <2> QED
    BY <1>0, <1>2, <2>3, <2>4, WakeFrame DEF LockReturns, sem
<1>3. ASSUME NEW t \in Threads, LockBlocks(t) PROVE WakeInv'
  <2>1. /\ pc[t] = "lock" /\ pc' = [pc EXCEPT ![t] = "blocked"] /\ owner' = owner
        /\ waiting' = Append(waiting, t) /\ asleep' = asleep \cup {t} /\ Queues(t)
        /\ usem_waiters' = usem_waiters
    BY <1>3 DEF LockBlocks, At, Goto, sem
  <2>2. /\ Len(waiting') = Len(waiting) + 1 /\ Len(waiting) \in Nat
        /\ \A i \in 1 .. Len(waiting) : waiting'[i] = waiting[i]
        /\ waiting'[Len(waiting) + 1] = t
    BY <1>0, <2>1 DEF TypeOK
  <2>3. \A i \in 1 .. Len(waiting) : waiting[i] # t
    BY <1>0, <2>1 DEF InterlockWakes
  <2>4. owner = NULL => \E i \in 1 .. Len(waiting) : waiting[i] \notin asleep
    <3>1. owner = NULL => waiting # << >>
      BY <1>0, <2>1 DEF Queues, Available, WriterWaits, TypeOK
    <3> QED
      BY <1>0, <3>1 DEF InterlockWakes
  <2>5. owner' = NULL => \E i \in 1 .. Len(waiting') : waiting'[i] \notin asleep'
    BY <2>1, <2>2, <2>3, <2>4
  <2>6. \A u \in Threads : pc'[u] = "blocked" <=> \E i \in 1 .. Len(waiting') : waiting'[i] = u
    <3>1. \A u \in Threads : pc'[u] = IF u = t THEN "blocked" ELSE pc[u]
      BY <1>0, <2>1 DEF TypeOK
    <3> QED
      BY <1>0, <2>2, <2>3, <3>1 DEF InterlockWakes
  <2>7. \A i, j \in 1 .. Len(waiting') : waiting'[i] = waiting'[j] => i = j
    BY <1>0, <2>2, <2>3 DEF InterlockWakes
  <2>8. asleep' \subseteq {u \in Threads : pc'[u] = "blocked"}
    BY <1>0, <2>1 DEF InterlockWakes, TypeOK
  <2> QED
    BY <1>0, <2>1, <2>5, <2>6, <2>7, <2>8 DEF WakeInv, InterlockWakes
<1>4. ASSUME NEW t \in Threads, LockWoken(t) PROVE WakeInv'
  <2>1. pc[t] = "blocked" /\ t \notin asleep /\ usem_waiters' = usem_waiters
    BY <1>4 DEF LockWoken, At, sem
  <2>2. CASE Available(t)
    <3>1. /\ owner' = t /\ asleep' = asleep /\ pc' = [pc EXCEPT ![t] = AfterLock(t)]
          /\ \E i \in 1 .. Len(waiting) : waiting[i] = t /\ waiting' = RemoveAt(waiting, i)
      BY <1>4, <2>2 DEF LockWoken, Acquire, Goto
    <3>2. /\ \A i, j \in 1 .. Len(waiting') : waiting'[i] = waiting'[j] => i = j
          /\ \A u \in Threads : (\E j \in 1 .. Len(waiting') : waiting'[j] = u)
                                 <=> u # t /\ \E j \in 1 .. Len(waiting) : waiting[j] = u
      <4>1. waiting \in Seq(Threads) /\ Distinct(waiting)
        BY <1>0 DEF InterlockWakes, TypeOK, Distinct
      <4>2. PICK i \in 1 .. Len(waiting) : waiting[i] = t /\ waiting' = RemoveAt(waiting, i)
        BY <3>1
      <4>3. /\ Distinct(RemoveAt(waiting, i))
            /\ \A u \in Threads : Among(u, RemoveAt(waiting, i)) <=> u # waiting[i] /\ Among(u, waiting)
        BY <4>1, RemoveOne
      <4> QED
        BY <4>2, <4>3 DEF Distinct, Among
    <3>3. AfterLock(t) # "blocked"
      BY <1>0, <2>1, AfterLockType
    <3>4. \A u \in Threads : pc'[u] = IF u = t THEN AfterLock(t) ELSE pc[u]
      BY <1>0, <3>1 DEF TypeOK
    <3>5. asleep' \subseteq {u \in Threads : pc'[u] = "blocked"}
      BY <1>0, <2>1, <3>1, <3>4 DEF InterlockWakes
    <3> QED
      BY <1>0, <2>1, <3>1, <3>2, <3>3, <3>4, <3>5 DEF WakeInv, InterlockWakes
  <2>3. CASE ~Available(t)
    <3>1. owner # NULL /\ asleep' = asleep \cup {t} /\ UNCHANGED <<owner, waiting, pc>>
      BY <1>4, <2>3 DEF LockWoken, Available, interlock
    <3> QED
      BY <1>0, <2>1, <3>1 DEF WakeInv, InterlockWakes
  <2> QED
    BY <2>2, <2>3
<1>5. ASSUME NEW t \in Threads, WaitTest(t) \/ Load(t) \/ Store(t) \/ PostWake(t) PROVE WakeInv'
  <2>1. /\ pc[t] # "blocked" /\ UNCHANGED <<usem_waiters, asleep, waiting, owner>>
        /\ \E l \in Pcs \ {"blocked"} : pc' = [pc EXCEPT ![t] = l]
    BY <1>0, <1>5 DEF WaitTest, Load, Store, PostWake, At, Goto, sem, interlock, Pcs
  <2>2. \A u \in Threads : pc'[u] = "blocked" <=> pc[u] = "blocked"
    BY <1>0, <2>1 DEF TypeOK
  <2> QED
    BY <1>0, <2>1, <2>2, WakeFrame
<1>6. ASSUME NEW t \in Threads, Finish(t) PROVE WakeInv'
  <2>1. /\ pc[t] \in {"unlock", "retry", "cancelled"} /\ usem_waiters' = usem_waiters /\ Unlock(t)
        /\ \E l \in {"idle", "lock", "exited"} : pc' = [pc EXCEPT ![t] = l]
    BY <1>6 DEF Finish, Goto, sem
  <2>2. \A u \in Threads : pc'[u] = "blocked" <=> pc[u] = "blocked"
    BY <1>0, <2>1 DEF TypeOK
  <2>3. CASE UNCHANGED <<owner, waiting, asleep>>
    BY <1>0, <2>1, <2>2, <2>3, WakeFrame
  <2>4. CASE owner' = NULL /\ asleep' = asleep \ Woken /\ waiting' = waiting
    <3>1. waiting # << >> => \E i \in 1 .. Len(waiting) : waiting[i] \notin asleep'
      BY <1>0, <2>4, FirstWriter
    <3> QED
      BY <1>0, <2>1, <2>2, <2>4, <3>1 DEF WakeInv, InterlockWakes
  <2> QED
    BY <2>1, <2>3, <2>4 DEF Unlock, interlock
<1>7. ASSUME NEW t \in Threads, NEW o \in Ops, Call(t, o) PROVE WakeInv'
  <2>1. /\ pc[t] = "idle" /\ UNCHANGED <<usem_waiters, asleep, waiting, owner>>
        /\ \E l \in {"exited", "lock"} : pc' = [pc EXCEPT ![t] = l]
    BY <1>7 DEF Call, At, Goto, sem, interlock
  <2>2. \A u \in Threads : pc'[u] = "blocked" <=> pc[u] = "blocked"
    BY <1>0, <2>1 DEF TypeOK
  <2> QED
    BY <1>0, <2>1, <2>2, WakeFrame
<1>8. ASSUME NEW t \in Threads, \/ Destroy(t) \/ Cancel(t) \/ SetCancelState(t)
                                \/ \E v \in Values : SemInit(t, v)
      PROVE  WakeInv'
  <2>1. UNCHANGED <<usem_waiters, asleep, waiting, owner, pc>>
    BY <1>0, <1>8 DEF Destroy, Cancel, SetCancelState, SemInit, sem, interlock
  <2> QED
    BY <1>0, <2>1, WakeFrame
<1> QED
  BY <1>1, <1>2, <1>3, <1>4, <1>5, <1>6, <1>7, <1>8 DEF Next, Continue

\* A free interlock that threads wait for has woken one of them, its queue holds
\* exactly the threads that are blocked in it, and nobody sleeps elsewhere:
\* whoever calls sem_getvalue, and whatever the ignored error codes were.
THEOREM WakesCorrect == Spec => []InterlockWakes
<1>1. Init => WakeInv
  BY ValuesAssumption DEF Init, WakeInv, InterlockWakes, TypeOK, Pcs, None
<1>2. WakeInv => InterlockWakes
  BY DEF WakeInv
<1> QED
  BY <1>1, <1>2, StepWakes, PTL DEF Spec
=============================================================================
