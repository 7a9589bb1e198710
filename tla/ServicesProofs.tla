---------------------------- MODULE ServicesProofs ----------------------------
(***************************************************************************)
(* Proofs about what the library builds on its locks, its threads and the  *)
(* kernel's ticker: pthread_once (PthreadOnce), signals for a thread       *)
(* (PthreadSigwait), thread specific data (PthreadKeys), for any number of *)
(* threads, and interval timers and sleep (Alarm), for any programs.       *)
(***************************************************************************)
EXTENDS PthreadOnce, PthreadSigwait, PthreadKeys, Alarm, FiniteSetTheorems, TLAPS

-----------------------------------------------------------------------------
(***************************************************************************)
(* pthread_once, for any controls, as long as no init routine calls        *)
(* pthread_once itself (MaxDepth = 1).                                     *)
(*                                                                         *)
(* OnceIInv says who has the mutex at every point of a call, in the cleanup*)
(* handler of a cancelled one too, and what is known of a control there.   *)
(***************************************************************************)

HoldsOnceMutex(t) ==
  \/ once_pc[t] \in {"test", "push", "init", "set", "unlock"}
  \/ once_pc[t] = "cleanup" /\ handlers[t] = 1

ControlInv ==
  /\ \A t \in Threads : once_pc[t] \in {"push", "init"} =>
       ~once[Control(t)] /\ completed[Control(t)] = 0
  /\ \A t \in Threads : once_pc[t] = "set" => ~once[Control(t)] /\ completed[Control(t)] = 1
  /\ \A t \in Threads : once_pc[t] = "unlock" => once[Control(t)]
  /\ \A o \in Controls : once[o] => completed[o] = 1
  /\ \A o \in Controls : ~once[o] /\ completed[o] # 0 =>
       \E t \in Threads : once_pc[t] = "set" /\ Control(t) = o
  /\ \A o \in Controls : completed[o] \in {0, 1}

OnceIInv ==
  /\ OnceTypeOK
  /\ \A t \in Threads : once_pc[t] # "run" => Len(calls[t]) = 1 /\ Control(t) \in Controls
  /\ \A t \in Threads : once_mutex = t <=> HoldsOnceMutex(t)
  /\ \A t \in Threads : /\ once_pc[t] = "init" => handlers[t] = 1
                        /\ once_pc[t] \notin {"init", "cleanup"} => handlers[t] = 0
                        /\ handlers[t] \in {0, 1}
  /\ ControlInv

LEMMA OnceTypeStep ==
  ASSUME MaxDepth = 1, OnceIInv, [OnceNext]_onceVars
  PROVE  OnceTypeOK'
<1> USE DEF OnceGoto, OncePcs
<1>1. CASE UNCHANGED onceVars
  BY <1>1 DEF onceVars, OnceIInv, OnceTypeOK
<1>2. ASSUME NEW t \in Threads, Lock(t) PROVE OnceTypeOK'
  BY <1>2 DEF Lock, OnceIInv, OnceTypeOK
<1>3. ASSUME NEW t \in Threads, Test(t) PROVE OnceTypeOK'
  BY <1>3 DEF Test, OnceIInv, OnceTypeOK
<1>4. ASSUME NEW t \in Threads, Push(t) PROVE OnceTypeOK'
  <2>1. handlers[t] = 0 /\ 0 + 1 \in 0 .. MaxDepth
    BY <1>4 DEF Push, OnceIInv
  <2>2. handlers' = [handlers EXCEPT ![t] = 0 + 1]
    BY <1>4, <2>1 DEF Push
  <2> QED
    BY <1>4, <2>1, <2>2 DEF Push, OnceIInv, OnceTypeOK
<1>5. ASSUME NEW t \in Threads, InitReturns(t) PROVE OnceTypeOK'
  BY <1>5 DEF InitReturns, OnceIInv, OnceTypeOK
<1>6. ASSUME NEW t \in Threads, Set(t) PROVE OnceTypeOK'
  <2>1. once' \in [Controls -> BOOLEAN]
    BY <1>6, Zenon DEF Set, OnceIInv, OnceTypeOK
  <2> QED
    BY <1>6, <2>1 DEF Set, OnceIInv, OnceTypeOK
<1>7. ASSUME NEW t \in Threads, Unlock(t) PROVE OnceTypeOK'
  <2>1. Tail(calls[t]) = << >> /\ Len(calls[t]) = 1
    BY <1>7 DEF Unlock, OnceIInv, OnceTypeOK
  <2> QED
    BY <1>7, <2>1 DEF Unlock, OwnerAfterUnlock, OnceIInv, OnceTypeOK
<1>8. ASSUME NEW t \in Threads, Cleanup(t) PROVE OnceTypeOK'
  <2>1. CASE handlers[t] > 0
    <3>1. handlers[t] - 1 \in 0 .. MaxDepth
      BY <2>1 DEF OnceIInv, OnceTypeOK
    <3>2. handlers' = [handlers EXCEPT ![t] = handlers[t] - 1] /\ UNCHANGED <<once, calls, once_pc, completed>>
          /\ once_mutex' \in Threads \cup {NULL}
      BY <1>8, <2>1 DEF Cleanup, OwnerAfterUnlock, OnceIInv, OnceTypeOK
    <3> QED
      BY <3>1, <3>2 DEF OnceIInv, OnceTypeOK
  <2>2. CASE ~(handlers[t] > 0)
    BY <1>8, <2>2 DEF Cleanup, OnceIInv, OnceTypeOK
  <2> QED
    BY <2>1, <2>2
<1>9. ASSUME NEW t \in Threads, Cancelled(t) PROVE OnceTypeOK'
  BY <1>9 DEF Cancelled, OnceIInv, OnceTypeOK
<1>10. ASSUME NEW t \in Threads, NEW o \in Controls, Call(t, o) PROVE OnceTypeOK'
  <2>1. calls[t] = << >>
    BY <1>10 DEF Call, OnceIInv, OnceTypeOK
  <2>2. <<o>> \o << >> = <<o>> /\ <<o>> \in Seq(Controls) /\ Len(<<o>>) = 1 /\ <<o>> # << >>
    OBVIOUS
  <2>3. calls' = [calls EXCEPT ![t] = <<o>>]
    BY <1>10, <2>1, <2>2 DEF Call
  <2> QED
    BY <1>10, <2>2, <2>3 DEF Call, OnceIInv, OnceTypeOK
<1> QED
  BY <1>1, <1>2, <1>3, <1>4, <1>5, <1>6, <1>7, <1>8, <1>9, <1>10 DEF OnceNext, OnceContinue

LEMMA OnceStep ==
  ASSUME MaxDepth = 1, OnceIInv, [OnceNext]_onceVars
  PROVE  OnceIInv'
<1> USE NullAssumption DEF OnceGoto
<1>0. OnceTypeOK'
  BY OnceTypeStep
<1>1. CASE UNCHANGED onceVars
  BY <1>0, <1>1 DEF onceVars, OnceIInv, HoldsOnceMutex, ControlInv, Control
<1>2. ASSUME NEW t \in Threads, Lock(t) PROVE OnceIInv'
  BY <1>0, <1>2 DEF Lock, OnceIInv, OnceTypeOK, HoldsOnceMutex, ControlInv, Control
<1>3. ASSUME NEW t \in Threads, Test(t) PROVE OnceIInv'
  <2>1. once_pc[t] = "test" /\ once_mutex = t /\ Control(t) \in Controls
    BY <1>3 DEF Test, OnceIInv, HoldsOnceMutex
  <2>2. ~once[Control(t)] => completed[Control(t)] = 0
    BY <2>1 DEF OnceIInv, ControlInv, HoldsOnceMutex
  <2> QED
    BY <1>0, <1>3, <2>1, <2>2 DEF Test, OnceIInv, OnceTypeOK, HoldsOnceMutex, ControlInv, Control
<1>4. ASSUME NEW t \in Threads, Push(t) PROVE OnceIInv'
  BY <1>0, <1>4 DEF Push, OnceIInv, OnceTypeOK, HoldsOnceMutex, ControlInv, Control
<1>5. ASSUME NEW t \in Threads, InitReturns(t) PROVE OnceIInv'
  <2>1. once_pc[t] = "init" /\ once_mutex = t /\ Control(t) \in Controls
    BY <1>5 DEF InitReturns, OnceIInv, HoldsOnceMutex
  <2>2. \A u \in Threads \ {t} : ~HoldsOnceMutex(u)
    BY <2>1 DEF OnceIInv
  <2>a. completed[Control(t)] = 0 /\ ~once[Control(t)]
    BY <2>1 DEF OnceIInv, ControlInv
  <2>b. \A o \in Controls : completed'[o] = IF o = Control(t) THEN 1 ELSE completed[o]
    BY <1>5, <2>1, <2>a DEF InitReturns, OnceIInv, OnceTypeOK
  <2>c. once_pc'[t] = "set" /\ (\A u \in Threads \ {t} : once_pc'[u] = once_pc[u])
        /\ UNCHANGED <<once, once_mutex, calls>>
    BY <1>5 DEF InitReturns, OnceIInv, OnceTypeOK
  <2>d. \A u \in Threads : Control(u)' = Control(u)
    BY <2>c DEF Control
  <2>e. \A u \in Threads \ {t} : once_pc[u] \notin {"push", "init", "set", "unlock"}
    BY <2>2 DEF HoldsOnceMutex
  <2>3. ControlInv'
    BY <2>1, <2>a, <2>b, <2>c, <2>d, <2>e DEF OnceIInv, ControlInv
  <2> QED
    BY <1>0, <1>5, <2>1, <2>2, <2>3 DEF InitReturns, OnceIInv, OnceTypeOK, HoldsOnceMutex, Control
<1>6. ASSUME NEW t \in Threads, Set(t) PROVE OnceIInv'
  <2>1. once_pc[t] = "set" /\ once_mutex = t /\ Control(t) \in Controls
    BY <1>6 DEF Set, OnceIInv, HoldsOnceMutex
  <2>2. \A u \in Threads \ {t} : ~HoldsOnceMutex(u)
    BY <2>1 DEF OnceIInv
  <2>3. \A o \in Controls : once'[o] = IF o = Control(t) THEN TRUE ELSE once[o]
    BY <1>6, <2>1 DEF Set, OnceIInv, OnceTypeOK
  <2>4. ControlInv'
    BY <1>6, <2>1, <2>2, <2>3 DEF Set, OnceIInv, OnceTypeOK, HoldsOnceMutex, ControlInv, Control
  <2> QED
    BY <1>0, <1>6, <2>1, <2>2, <2>4 DEF Set, OnceIInv, OnceTypeOK, HoldsOnceMutex, Control
<1>7. ASSUME NEW t \in Threads, Unlock(t) PROVE OnceIInv'
  <2>1. once_mutex = t /\ once_mutex' = NULL /\ Len(calls[t]) = 1
    BY <1>7 DEF Unlock, OwnerAfterUnlock, OnceIInv, HoldsOnceMutex
  <2>2. once_pc' = [once_pc EXCEPT ![t] = "run"] /\ UNCHANGED <<once, handlers, completed>>
        /\ \A u \in Threads \ {t} : calls'[u] = calls[u]
    BY <1>7, <2>1 DEF Unlock, OnceIInv, OnceTypeOK
  <2>3. once_pc[t] = "unlock"
    BY <1>7 DEF Unlock
  <2> QED
    BY <1>0, <2>1, <2>2, <2>3 DEF OnceIInv, OnceTypeOK, HoldsOnceMutex, ControlInv, Control
<1>8. ASSUME NEW t \in Threads, Cleanup(t) PROVE OnceIInv'
  <2>0. once_pc[t] = "cleanup" /\ handlers[t] \in {0, 1} /\ UNCHANGED <<once, calls, completed>>
    BY <1>8 DEF Cleanup, OnceIInv
  <2>1. CASE handlers[t] = 1
    <3>1. once_mutex = t
      BY <2>0, <2>1 DEF OnceIInv, HoldsOnceMutex
    <3>2. once_mutex' = NULL /\ once_pc' = once_pc
      BY <1>8, <2>1, <3>1 DEF Cleanup, OwnerAfterUnlock
    <3>3. handlers'[t] = 0 /\ \A u \in Threads \ {t} : handlers'[u] = handlers[u]
      BY <1>8, <2>1 DEF Cleanup, OnceIInv, OnceTypeOK
    <3>4. ControlInv'
      BY <2>0, <3>2 DEF OnceIInv, ControlInv, Control
    <3>5. \A u \in Threads : once_mutex' = u <=> HoldsOnceMutex(u)'
      BY <2>0, <3>1, <3>2, <3>3 DEF OnceIInv, HoldsOnceMutex
    <3> QED
      BY <1>0, <2>0, <3>2, <3>3, <3>4, <3>5 DEF OnceIInv, Control
  <2>2. CASE handlers[t] = 0
    <3>1. UNCHANGED <<once_mutex, handlers>> /\ once_pc'[t] = "exited"
          /\ \A u \in Threads \ {t} : once_pc'[u] = once_pc[u]
      BY <1>8, <2>2 DEF Cleanup, OnceIInv, OnceTypeOK
    <3> QED
      BY <1>0, <2>0, <2>2, <3>1 DEF OnceIInv, OnceTypeOK, HoldsOnceMutex, ControlInv, Control
  <2> QED
    BY <2>0, <2>1, <2>2
<1>9. ASSUME NEW t \in Threads, Cancelled(t) PROVE OnceIInv'
  BY <1>0, <1>9 DEF Cancelled, OnceIInv, OnceTypeOK, HoldsOnceMutex, ControlInv, Control
<1>10. ASSUME NEW t \in Threads, NEW o \in Controls, Call(t, o) PROVE OnceIInv'
  <2>1. calls[t] = << >> /\ once_pc[t] = "run"
    BY <1>10 DEF Call, OnceIInv, OnceTypeOK
  <2>2. calls' = [calls EXCEPT ![t] = <<o>>] /\ once_pc' = [once_pc EXCEPT ![t] = "lock"]
    BY <1>10, <2>1 DEF Call, OnceIInv, OnceTypeOK
  <2>3. Len(calls'[t]) = 1 /\ Control(t)' = o
    BY <2>2 DEF Control, OnceIInv, OnceTypeOK
  <2>4. \A u \in Threads \ {t} : Control(u)' = Control(u) /\ calls'[u] = calls[u] /\ once_pc'[u] = once_pc[u]
    BY <2>2 DEF Control, OnceIInv, OnceTypeOK
  <2>5. once_pc'[t] = "lock" /\ UNCHANGED <<once, once_mutex, handlers, completed>>
    BY <1>10, <2>2 DEF Call, OnceIInv, OnceTypeOK
  <2> QED
    BY <1>0, <2>1, <2>3, <2>4, <2>5 DEF OnceIInv, HoldsOnceMutex, ControlInv
<1> QED
  BY <1>1, <1>2, <1>3, <1>4, <1>5, <1>6, <1>7, <1>8, <1>9, <1>10 DEF OnceNext, OnceContinue

LEMMA OnceInvariance == ASSUME MaxDepth = 1 PROVE OnceSpec => []OnceIInv
<1>1. OnceInit => OnceIInv
  BY NullAssumption DEF OnceInit, OnceIInv, OnceTypeOK, OncePcs, HoldsOnceMutex, ControlInv
<1>2. OnceIInv /\ [OnceNext]_onceVars => OnceIInv'
  BY OnceStep
<1> QED
  BY <1>1, <1>2, PTL DEF OnceSpec

\* Controls, mutex, cleanup handlers and calls keep their types.
THEOREM OnceTypeCorrect == ASSUME MaxDepth = 1 PROVE OnceSpec => []OnceTypeOK
<1>1. OnceIInv => OnceTypeOK
  BY DEF OnceIInv
<1> QED
  BY <1>1, OnceInvariance, PTL

\* An init routine that does not call pthread_once itself runs to its end at
\* most once, whatever other callers and cancelled init routines do.
THEOREM CalledOnce == ASSUME MaxDepth = 1 PROVE OnceSpec => []OnceOnly
<1>1. OnceIInv => OnceOnly
  BY DEF OnceIInv, ControlInv, OnceOnly
<1> QED
  BY <1>1, OnceInvariance, PTL

\* OnceInit routines of one control do not overlap.
THEOREM NeverTwoInInit == ASSUME MaxDepth = 1 PROVE OnceSpec => []InitAlone
<1>1. OnceIInv => InitAlone
  BY DEF OnceIInv, ControlInv, InitAlone, InInit, HoldsOnceMutex
<1> QED
  BY <1>1, OnceInvariance, PTL

\* pthread_once returns after the init routine has run.
THEOREM ReturnsWhenDone == ASSUME MaxDepth = 1 PROVE OnceSpec => []ReturnsAfterInit
<1>1. OnceIInv => ReturnsAfterInit
  BY DEF OnceIInv, ControlInv, ReturnsAfterInit
<1> QED
  BY <1>1, OnceInvariance, PTL

\* The init routine of a control runs alone, to its end once, and before any call
\* of pthread_once for that control returns.
THEOREM OnceCorrect == ASSUME MaxDepth = 1 PROVE OnceSpec => []OnceInv
  BY OnceTypeCorrect, CalledOnce, NeverTwoInInit, ReturnsWhenDone, PTL DEF OnceInv

-----------------------------------------------------------------------------
(***************************************************************************)
(* pthread_kill and sigwait, for any signals.                              *)
(*                                                                         *)
(* NoSignalMissed is inductive together with who has the mutex and who is  *)
(* asleep: a thread goes to sleep with the mutex and nothing pending, and  *)
(* what is added later is added by a thread that will signal it.           *)
(***************************************************************************)

SigwaitIInv ==
  /\ SigwaitTypeOK
  /\ \A t \in asleep : sig_pc[t] = "wait_cond"
  /\ MutexHeld
  /\ NoSignalMissed
  /\ TakenOnce

LEMMA SigwaitTypeStep == SigwaitTypeOK /\ [SigwaitNext]_sigwaitVars => SigwaitTypeOK'
<1> SUFFICES ASSUME SigwaitTypeOK, [SigwaitNext]_sigwaitVars PROVE SigwaitTypeOK'
  OBVIOUS
<1> USE DEF SigwaitGoto, Return, SigwaitPcs, args, history
<1>1. CASE UNCHANGED sigwaitVars
  BY <1>1 DEF sigwaitVars, SigwaitTypeOK
<1>2. ASSUME NEW t \in Threads, KillLock(t) PROVE SigwaitTypeOK'
  BY <1>2 DEF KillLock, SigwaitTypeOK
<1>3. ASSUME NEW t \in Threads, KillAdd(t) PROVE SigwaitTypeOK'
  <2>1. thread[t] \in Threads /\ sig[t] \in Signals
    BY <1>3 DEF KillAdd, SigwaitTypeOK
  <2>2. pending' \in [Threads -> SUBSET Signals] /\ sent' \in Counts
    BY <1>3, <2>1 DEF KillAdd, SigwaitTypeOK, Counts
  <2> QED
    BY <1>3, <2>2 DEF KillAdd, SigwaitTypeOK
<1>4. ASSUME NEW t \in Threads, KillUnlock(t) PROVE SigwaitTypeOK'
  BY <1>4 DEF KillUnlock, SigwaitTypeOK
<1>5. ASSUME NEW t \in Threads, KillSignal(t) PROVE SigwaitTypeOK'
  BY <1>5 DEF KillSignal, SigwaitTypeOK
<1>6. ASSUME NEW t \in Threads, WaitLock(t) PROVE SigwaitTypeOK'
  BY <1>6 DEF WaitLock, SigwaitTypeOK
<1>7. ASSUME NEW t \in Threads, WaitTake(t) PROVE SigwaitTypeOK'
  <2>1. PICK s \in Found(t) : /\ pending' = [pending EXCEPT ![t] = @ \ {s}]
                              /\ taken' = [taken EXCEPT ![t][s] = @ + 1]
    BY <1>7 DEF WaitTake
  <2>2. s \in Signals
    BY DEF Found, SigwaitTypeOK
  <2>3. pending' \in [Threads -> SUBSET Signals] /\ taken' \in Counts
    BY <2>1, <2>2 DEF SigwaitTypeOK, Counts
  <2> QED
    BY <1>7, <2>3 DEF WaitTake, SigwaitTypeOK
<1>8. ASSUME NEW t \in Threads, WaitSleep(t) PROVE SigwaitTypeOK'
  BY <1>8 DEF WaitSleep, SigwaitTypeOK
<1>9. ASSUME NEW t \in Threads, WaitUnlock(t) PROVE SigwaitTypeOK'
  BY <1>9 DEF WaitUnlock, SigwaitTypeOK
<1>10. ASSUME NEW t \in Threads, NEW u \in Threads, NEW s \in Signals, KillCall(t, u, s)
       PROVE  SigwaitTypeOK'
  BY <1>10 DEF KillCall, SigwaitTypeOK
<1>11. ASSUME NEW t \in Threads, NEW S \in SUBSET Signals, WaitCall(t, S) PROVE SigwaitTypeOK'
  BY <1>11 DEF WaitCall, SigwaitTypeOK
<1>12. ASSUME NEW t \in Threads, Cancel(t) PROVE SigwaitTypeOK'
  BY <1>12, SubsetAssumption DEF Cancel, SigwaitTypeOK
<1> QED
  BY <1>1, <1>2, <1>3, <1>4, <1>5, <1>6, <1>7, <1>8, <1>9, <1>10, <1>11, <1>12
  DEF SigwaitNext, SigwaitContinue

LEMMA SigwaitStep == SigwaitIInv /\ [SigwaitNext]_sigwaitVars => SigwaitIInv'
<1> SUFFICES ASSUME SigwaitIInv, [SigwaitNext]_sigwaitVars PROVE SigwaitIInv'
  OBVIOUS
<1> USE NullAssumption, SignalsAssumption DEF SigwaitGoto, Return, args, history
<1>0. SigwaitTypeOK'
  BY SigwaitTypeStep DEF SigwaitIInv
<1>1. CASE UNCHANGED sigwaitVars
  BY <1>0, <1>1 DEF sigwaitVars, SigwaitIInv, MutexHeld, NoSignalMissed, TakenOnce, Found
<1>2. ASSUME NEW t \in Threads, KillLock(t) PROVE SigwaitIInv'
  BY <1>0, <1>2 DEF KillLock, SigwaitIInv, SigwaitTypeOK, MutexHeld, NoSignalMissed, TakenOnce, Found
<1>3. ASSUME NEW t \in Threads, KillAdd(t) PROVE SigwaitIInv'
  <2>1. thread[t] \in Threads /\ sig[t] \in Signals
    BY <1>3 DEF KillAdd, SigwaitIInv, SigwaitTypeOK
  <2>2. \A u \in Threads, s \in Signals :
          /\ sent'[u][s] = IF u = thread[t] /\ s = sig[t] THEN sent[u][s] + 1 ELSE sent[u][s]
          /\ s \in pending'[u] <=> s \in pending[u] \/ (u = thread[t] /\ s = sig[t])
    BY <1>3, <2>1 DEF KillAdd, SigwaitIInv, SigwaitTypeOK, Counts
  <2>3. TakenOnce'
    BY <1>3, <2>2 DEF KillAdd, SigwaitIInv, SigwaitTypeOK, Counts, TakenOnce
  <2>4. NoSignalMissed'
    <3> SUFFICES ASSUME NEW u \in asleep, Found(u)' # {}
                 PROVE  \E v \in Threads : /\ sig_pc'[v] \in {"kill_unlock", "kill_signal"}
                                           /\ thread'[v] = u
      BY <1>3 DEF NoSignalMissed, KillAdd
    <3>1. sig_pc' = [sig_pc EXCEPT ![t] = "kill_unlock"] /\ thread' = thread /\ set' = set
      BY <1>3 DEF KillAdd
    <3>2. CASE u = thread[t]
      BY <3>1, <3>2 DEF SigwaitIInv, SigwaitTypeOK
    <3>3. CASE u # thread[t]
      <4>1. Found(u)' = Found(u)
        BY <1>3, <3>1, <3>3, <2>1 DEF KillAdd, Found, SigwaitIInv, SigwaitTypeOK
      <4>2. PICK v \in Threads : sig_pc[v] \in {"kill_unlock", "kill_signal"} /\ thread[v] = u
        BY <4>1 DEF SigwaitIInv, NoSignalMissed
      <4> QED
        BY <1>3, <3>1, <4>2 DEF KillAdd, SigwaitIInv, SigwaitTypeOK
    <3> QED
      BY <3>2, <3>3
  <2> QED
    BY <1>0, <1>3, <2>3, <2>4 DEF KillAdd, SigwaitIInv, SigwaitTypeOK, MutexHeld
<1>4. ASSUME NEW t \in Threads, KillUnlock(t) PROVE SigwaitIInv'
  BY <1>0, <1>4 DEF KillUnlock, SigwaitIInv, SigwaitTypeOK, MutexHeld, NoSignalMissed, TakenOnce, Found
<1>5. ASSUME NEW t \in Threads, KillSignal(t) PROVE SigwaitIInv'
  <2>1. NoSignalMissed'
    <3> SUFFICES ASSUME NEW u \in asleep', Found(u)' # {}
                 PROVE  \E v \in Threads : /\ sig_pc'[v] \in {"kill_unlock", "kill_signal"}
                                           /\ thread'[v] = u
      BY DEF NoSignalMissed
    <3>1. u \in asleep /\ u # thread[t] /\ u # t /\ u \in Threads
      BY <1>5 DEF KillSignal, SigwaitIInv, SigwaitTypeOK
    <3>2. Found(u)' = Found(u)
      BY <1>5, <3>1 DEF KillSignal, Found, SigwaitIInv, SigwaitTypeOK
    <3>3. PICK v \in Threads : sig_pc[v] \in {"kill_unlock", "kill_signal"} /\ thread[v] = u
      BY <3>1, <3>2 DEF SigwaitIInv, NoSignalMissed
    <3>4. v # t
      BY <3>1, <3>3
    <3> QED
      BY <1>5, <3>3, <3>4 DEF KillSignal, SigwaitIInv, SigwaitTypeOK
  <2> QED
    BY <1>0, <1>5, <2>1 DEF KillSignal, SigwaitIInv, SigwaitTypeOK, MutexHeld, TakenOnce
<1>6. ASSUME NEW t \in Threads, WaitLock(t) PROVE SigwaitIInv'
  BY <1>0, <1>6 DEF WaitLock, SigwaitIInv, SigwaitTypeOK, MutexHeld, NoSignalMissed, TakenOnce, Found
<1>7. ASSUME NEW t \in Threads, WaitTake(t) PROVE SigwaitIInv'
  <2>1. PICK s \in Found(t) : /\ pending' = [pending EXCEPT ![t] = @ \ {s}]
                              /\ taken' = [taken EXCEPT ![t][s] = @ + 1]
    BY <1>7 DEF WaitTake
  <2>2. s \in Signals /\ s \in pending[t]
    BY DEF Found, SigwaitIInv, SigwaitTypeOK
  <2>3. \A u \in Threads, r \in Signals :
          /\ taken'[u][r] = IF u = t /\ r = s THEN taken[u][r] + 1 ELSE taken[u][r]
          /\ r \in pending'[u] <=> r \in pending[u] /\ ~(u = t /\ r = s)
    BY <2>1, <2>2 DEF SigwaitIInv, SigwaitTypeOK, Counts
  <2>4. TakenOnce'
    BY <1>7, <2>2, <2>3 DEF WaitTake, SigwaitIInv, SigwaitTypeOK, Counts, TakenOnce
  <2>5. NoSignalMissed'
    <3>1. t \notin asleep
      BY <1>7 DEF WaitTake, SigwaitIInv
    <3> QED
      BY <1>7, <2>1, <3>1 DEF WaitTake, SigwaitIInv, SigwaitTypeOK, NoSignalMissed, Found
  <2> QED
    BY <1>0, <1>7, <2>4, <2>5 DEF WaitTake, SigwaitIInv, SigwaitTypeOK, MutexHeld
<1>8. ASSUME NEW t \in Threads, WaitSleep(t) PROVE SigwaitIInv'
  BY <1>0, <1>8 DEF WaitSleep, SigwaitIInv, SigwaitTypeOK, MutexHeld, NoSignalMissed, TakenOnce, Found
<1>9. ASSUME NEW t \in Threads, WaitUnlock(t) PROVE SigwaitIInv'
  BY <1>0, <1>9 DEF WaitUnlock, SigwaitIInv, SigwaitTypeOK, MutexHeld, NoSignalMissed, TakenOnce, Found
<1>10. ASSUME NEW t \in Threads, NEW u \in Threads, NEW s \in Signals, KillCall(t, u, s)
       PROVE  SigwaitIInv'
  BY <1>0, <1>10 DEF KillCall, SigwaitIInv, SigwaitTypeOK, MutexHeld, NoSignalMissed, TakenOnce, Found
<1>11. ASSUME NEW t \in Threads, NEW S \in SUBSET Signals, WaitCall(t, S) PROVE SigwaitIInv'
  BY <1>0, <1>11 DEF WaitCall, SigwaitIInv, SigwaitTypeOK, MutexHeld, NoSignalMissed, TakenOnce, Found
<1>12. ASSUME NEW t \in Threads, Cancel(t) PROVE SigwaitIInv'
  BY <1>0, <1>12 DEF Cancel, SigwaitIInv, MutexHeld, NoSignalMissed, TakenOnce, Found
<1> QED
  BY <1>1, <1>2, <1>3, <1>4, <1>5, <1>6, <1>7, <1>8, <1>9, <1>10, <1>11, <1>12
  DEF SigwaitNext, SigwaitContinue

LEMMA SigwaitInvariance == SigwaitSpec => []SigwaitIInv
<1>1. SigwaitInit => SigwaitIInv
  BY NullAssumption, SignalsAssumption
  DEF SigwaitInit, SigwaitIInv, SigwaitTypeOK, Counts, SigwaitPcs, MutexHeld, NoSignalMissed, TakenOnce, Found
<1> QED
  BY <1>1, SigwaitStep, PTL DEF SigwaitSpec

\* The mutex, the pending signals and the arguments of the calls in progress
\* keep their types through every step of pthread_kill and sigwait.
THEOREM SigwaitTypeCorrect == SigwaitSpec => []SigwaitTypeOK
  BY SigwaitInvariance, PTL DEF SigwaitIInv

\* pending is only read and changed by the thread that has sigwait_mutex.
THEOREM MutexCorrect == SigwaitSpec => []MutexHeld
  BY SigwaitInvariance, PTL DEF SigwaitIInv

\* No wakeup of sigwait is lost, although pthread_kill signals the condition
\* variable after it has given the mutex back.
THEOREM NoSignalIsMissed == SigwaitSpec => []NoSignalMissed
  BY SigwaitInvariance, PTL DEF SigwaitIInv

\* sigwait takes a signal no more often than pthread_kill sent it.
THEOREM SignalsTakenOnce == SigwaitSpec => []TakenOnce
  BY SigwaitInvariance, PTL DEF SigwaitIInv

\* Pending signals are guarded by sigwait_mutex, none is slept through and none
\* is taken twice.
THEOREM SigwaitCorrect == SigwaitSpec => []SigwaitInv
  BY SigwaitTypeCorrect, MutexCorrect, NoSignalIsMissed, SignalsTakenOnce, PTL DEF SigwaitInv

-----------------------------------------------------------------------------
(***************************************************************************)
(* Thread specific data, for any threads, values, keys and destructors,    *)
(* which may call pthread_setspecific and pthread_key_create themselves.   *)
(*                                                                         *)
(* A thread's list is a sequence, and StoredIs and TailIs say what setting *)
(* a key and taking off the head do to the keys in it and to the value of  *)
(* each key.  KeysIInv has the histories and the lists agree for every key *)
(* there has been, and keeps every key of a list below the next new one.   *)
(* It counts the nodes: Linked is the set of places in the lists, Taking   *)
(* the set of threads that have a node in hand, and every step changes     *)
(* their sizes as it changes the number of allocated nodes.                *)
(*                                                                         *)
(* That pthread_key_delete follows no null pointer needs OneDeleter: two   *)
(* threads that delete the last key at once do follow one.                 *)
(***************************************************************************)

\* The nodes of a list are of different keys.
Distinct(s) == \A i, j \in DOMAIN s : s[i].id = s[j].id => i = j

\* What a list has for key k.
ValueIn(s, k) == IF k \in IdsOf(s) THEN s[Min({i \in DOMAIN s : s[i].id = k})].value ELSE NULL

LEMMA GetIs == \A t \in Threads : \A k : GetSpecific(t, k) = ValueIn(mine[t], k)
  BY DEF GetSpecific, ValueIn

LEMMA GetNext == (\A t \in Threads : \A k : GetSpecific(t, k) = ValueIn(mine[t], k))'
  BY GetIs, PTL

LEMMA ValueAt ==
  ASSUME NEW s \in Seq(Node), Distinct(s), NEW i \in DOMAIN s
  PROVE  ValueIn(s, s[i].id) = s[i].value
<1> DEFINE S == {j \in DOMAIN s : s[j].id = s[i].id}
<1>1. S = {i}
  BY DEF Distinct
<1>2. i \in Nat
  OBVIOUS
<1>3. Min(S) = i
  BY <1>1, <1>2 DEF Min
<1>4. s[i].id \in IdsOf(s)
  BY DEF IdsOf
<1> QED
  BY <1>3, <1>4 DEF ValueIn

LEMMA NoValue == ASSUME NEW s, NEW k, k \notin IdsOf(s) PROVE ValueIn(s, k) = NULL
  BY DEF ValueIn

\* Setting a key: one node for it, with the new value, and the others as before.
LEMMA StoredIs ==
  ASSUME NEW s \in Seq(Node), Distinct(s), NEW n \in Node
  PROVE  /\ Stored(s, n) \in Seq(Node) /\ Distinct(Stored(s, n))
         /\ IdsOf(Stored(s, n)) = IdsOf(s) \cup {n.id}
         /\ \A k : ValueIn(Stored(s, n), k) = IF k = n.id THEN n.value ELSE ValueIn(s, k)
         /\ Len(Stored(s, n)) = IF n.id \in IdsOf(s) THEN Len(s) ELSE Len(s) + 1
<1> DEFINE r == Stored(s, n)
<1>a. Len(s) \in Nat /\ DOMAIN s = 1 .. Len(s)
  OBVIOUS
<1>1. CASE n.id \in IdsOf(s)
  <2>1. r = [i \in 1 .. Len(s) |-> IF s[i].id = n.id THEN n ELSE s[i]]
    BY <1>1, <1>a DEF Stored
  <2>2. r \in Seq(Node) /\ Len(r) = Len(s) /\ DOMAIN r = DOMAIN s
    BY <2>1, <1>a
  <2>3. \A i \in DOMAIN s : r[i].id = s[i].id /\ r[i] = IF s[i].id = n.id THEN n ELSE s[i]
    BY <2>1, <1>a
  <2>4. Distinct(r)
    BY <2>2, <2>3 DEF Distinct
  <2>5. IdsOf(r) = IdsOf(s) /\ IdsOf(s) = IdsOf(s) \cup {n.id}
    BY <1>1, <2>2, <2>3 DEF IdsOf
  <2>6. ASSUME NEW k PROVE ValueIn(r, k) = IF k = n.id THEN n.value ELSE ValueIn(s, k)
    <3>1. CASE k \in IdsOf(s)
      <4>1. PICK i \in DOMAIN s : s[i].id = k
        BY <3>1 DEF IdsOf
      <4>2. ValueIn(s, k) = s[i].value
        BY <4>1, ValueAt
      <4>3. ValueIn(r, r[i].id) = r[i].value
        BY <2>2, <2>4, ValueAt
      <4> QED
        BY <4>1, <4>2, <4>3, <2>3
    <3>2. CASE k \notin IdsOf(s)
      BY <3>2, <2>5, NoValue
    <3> QED
      BY <3>1, <3>2
  <2> QED
    BY <1>1, <2>2, <2>4, <2>5, <2>6
<1>2. CASE n.id \notin IdsOf(s)
  <2>1. r = <<n>> \o s
    BY <1>2 DEF Stored
  <2>2. r \in Seq(Node) /\ Len(r) = Len(s) + 1 /\ DOMAIN r = 1 .. Len(s) + 1
    BY <2>1
  <2>3. r[1] = n /\ \A i \in DOMAIN s : r[i + 1] = s[i]
    BY <2>1
  <2>4. \A j \in DOMAIN r : j = 1 \/ (j - 1 \in DOMAIN s /\ r[j] = s[j - 1])
    BY <2>2, <2>3, <1>a
  <2>b. \A i \in DOMAIN s : s[i].id # n.id
    BY <1>2 DEF IdsOf
  <2>5. Distinct(r)
    <3> SUFFICES ASSUME NEW i \in DOMAIN r, NEW j \in DOMAIN r, r[i].id = r[j].id PROVE i = j
      BY DEF Distinct
    <3>1. i \in Int /\ j \in Int
      BY <2>2
    <3>2. CASE i = 1
      BY <3>2, <2>3, <2>4, <2>b
    <3>3. CASE j = 1
      BY <3>3, <2>3, <2>4, <2>b
    <3>4. CASE i # 1 /\ j # 1
      <4>1. i - 1 \in DOMAIN s /\ j - 1 \in DOMAIN s /\ s[i - 1].id = s[j - 1].id
        BY <3>4, <2>4
      <4>2. i - 1 = j - 1
        BY <4>1 DEF Distinct
      <4> QED
        BY <3>1, <4>2
    <3> QED
      BY <3>2, <3>3, <3>4
  <2>6. IdsOf(r) = IdsOf(s) \cup {n.id}
    <3>1. \A i \in DOMAIN s : i + 1 \in DOMAIN r
      BY <2>2, <1>a
    <3>2. 1 \in DOMAIN r
      BY <2>2, <1>a
    <3>3. IdsOf(r) \subseteq IdsOf(s) \cup {n.id}
      BY <2>3, <2>4 DEF IdsOf
    <3>4. IdsOf(s) \cup {n.id} \subseteq IdsOf(r)
      BY <2>3, <3>1, <3>2 DEF IdsOf
    <3> QED
      BY <3>3, <3>4
  <2>7. ASSUME NEW k PROVE ValueIn(r, k) = IF k = n.id THEN n.value ELSE ValueIn(s, k)
    <3>1. CASE k = n.id
      BY <3>1, <2>2, <2>3, <2>5, <1>a, ValueAt
    <3>2. CASE k # n.id /\ k \in IdsOf(s)
      <4>1. PICK i \in DOMAIN s : s[i].id = k
        BY <3>2 DEF IdsOf
      <4>2. ValueIn(s, k) = s[i].value
        BY <4>1, ValueAt
      <4>3. i + 1 \in DOMAIN r /\ r[i + 1] = s[i]
        BY <2>2, <2>3, <1>a
      <4>4. ValueIn(r, r[i + 1].id) = r[i + 1].value
        BY <4>3, <2>2, <2>5, ValueAt
      <4> QED
        BY <3>2, <4>1, <4>2, <4>3, <4>4
    <3>3. CASE k # n.id /\ k \notin IdsOf(s)
      BY <3>3, <2>6, NoValue
    <3> QED
      BY <3>1, <3>2, <3>3
  <2> QED
    BY <1>2, <2>2, <2>5, <2>6, <2>7
<1> QED
  BY <1>1, <1>2

\* Taking the head off a list takes its key away, and the other nodes stay.
LEMMA TailIs ==
  ASSUME NEW s \in Seq(Node), Distinct(s), s # << >>
  PROVE  /\ Head(s) \in Node /\ Tail(s) \in Seq(Node) /\ Distinct(Tail(s))
         /\ Head(s).id \in IdsOf(s) /\ IdsOf(Tail(s)) = IdsOf(s) \ {Head(s).id}
         /\ \A k : ValueIn(Tail(s), k) = IF k = Head(s).id THEN NULL ELSE ValueIn(s, k)
         /\ Len(s) # 0 /\ Len(Tail(s)) = Len(s) - 1
<1> DEFINE r == Tail(s)
<1>1. Len(s) \in Nat \ {0} /\ DOMAIN s = 1 .. Len(s) /\ Head(s) = s[1] /\ 1 \in DOMAIN s /\ s[1] \in Node
  OBVIOUS
<1>2. r \in Seq(Node) /\ Len(r) = Len(s) - 1 /\ DOMAIN r = 1 .. Len(s) - 1
  BY <1>1
<1>3. \A i \in DOMAIN r : i + 1 \in DOMAIN s /\ i + 1 # 1 /\ r[i] = s[i + 1]
  BY <1>1, <1>2
<1>4. \A j \in DOMAIN s : j = 1 \/ (j - 1 \in DOMAIN r /\ s[j] = r[j - 1])
  BY <1>1, <1>2
<1>5. Distinct(r)
  <2> SUFFICES ASSUME NEW i \in DOMAIN r, NEW j \in DOMAIN r, r[i].id = r[j].id PROVE i = j
    BY DEF Distinct
  <2>1. i + 1 = j + 1
    BY <1>3 DEF Distinct
  <2>2. i \in Int /\ j \in Int
    BY <1>2
  <2> QED
    BY <2>1, <2>2
<1>6. \A i \in DOMAIN r : r[i].id # s[1].id
  BY <1>1, <1>3 DEF Distinct
<1>7. IdsOf(r) = IdsOf(s) \ {s[1].id}
  <2>1. IdsOf(r) \subseteq IdsOf(s) \ {s[1].id}
    BY <1>3, <1>6 DEF IdsOf
  <2>2. IdsOf(s) \ {s[1].id} \subseteq IdsOf(r)
    BY <1>4 DEF IdsOf
  <2> QED
    BY <2>1, <2>2
<1>8. ASSUME NEW k PROVE ValueIn(r, k) = IF k = s[1].id THEN NULL ELSE ValueIn(s, k)
  <2>1. CASE k \in IdsOf(r)
    <3>1. PICK i \in DOMAIN r : r[i].id = k
      BY <2>1 DEF IdsOf
    <3>2. ValueIn(r, k) = r[i].value
      BY <3>1, <1>2, <1>5, ValueAt
    <3>3. ValueIn(s, s[i + 1].id) = s[i + 1].value
      BY <3>1, <1>3, ValueAt
    <3> QED
      BY <3>1, <3>2, <3>3, <1>3, <1>6
  <2>2. CASE k \notin IdsOf(r)
    BY <2>2, <1>7, NoValue
  <2> QED
    BY <2>1, <2>2
<1>9. s[1].id \in IdsOf(s)
  BY <1>1 DEF IdsOf
<1> QED
  BY <1>1, <1>2, <1>5, <1>7, <1>8, <1>9

-----------------------------------------------------------------------------
\* Everything of KeysTypeOK but the number of nodes.
KeysShape ==
  /\ nextkey \in 0 .. KeysMax
  /\ keys \subseteq Key
  /\ mine \in [Threads -> Seq(Node)]
  /\ deleting \in [Threads -> Ids \cup {NULL}]
  /\ current \in [Threads -> Node \cup {NULL}]
  /\ \A t \in Threads : current[t] # NULL <=> key_pc[t] \in {"dtor", "free"}
  /\ key_pc \in [Threads -> {"run", "loop", "dtor", "free", "idle"}]
  /\ tries \in [Threads -> 0 .. Iterations]
  /\ failures \in 0 .. MaxFailures
  /\ wild \in BOOLEAN
  /\ last \in [Threads -> [Ids -> Values \cup {NULL}]]

\* Every key there is, or of which a thread has a value, was created.
Created ==
  /\ \A x \in keys : x.id < nextkey
  /\ \A t \in Threads : \A k \in IdsOf(mine[t]) : k < nextkey

OneKeyEach == \A x, y \in keys : x.id = y.id => x = y
OneNodeEach == \A t \in Threads : Distinct(mine[t])

GetsRight == \A t \in Threads, k \in Ids : k < nextkey => ValueIn(mine[t], k) = last[t][k]
Finite == IsFiniteSet(keys) /\ IsFiniteSet(Linked)

KeysIInv ==
  KeysShape /\ Created /\ OneKeyEach /\ OneNodeEach /\ GetsRight /\ NodesAccounted /\ Finite

LEMMA ShapeStep == ASSUME KeysShape, [KeysNext]_keysVars PROVE KeysShape'
<1> USE LimitsAssumption, ValuesAssumption, NodeAssumption
<1>1. CASE UNCHANGED keysVars
  BY <1>1 DEF keysVars, KeysShape
<1>2. ASSUME NEW t \in Threads, KeyDeleteRest(t) PROVE KeysShape'
  <2>1. wild' \in BOOLEAN
    BY <1>2, Zenon DEF KeyDeleteRest, KeysShape
  <2>2. keys' \subseteq keys
    BY <1>2, Zenon DEF KeyDeleteRest
  <2> QED
    BY <1>2, <2>1, <2>2 DEF KeyDeleteRest, KeysShape
<1>3. ASSUME NEW t \in Threads, TakeAndCall(t) PROVE KeysShape'
  <2>0. mine[t] \in Seq(Node) /\ Head(mine[t]) \in Node /\ Tail(mine[t]) \in Seq(Node)
    BY <1>3 DEF TakeAndCall, KeysShape
  <2>1. Head(mine[t]).id \in Ids
    BY <2>0 DEF Node
  <2>2. tries[t] + 1 \in 0 .. Iterations
    BY <1>3 DEF TakeAndCall, KeysShape
  <2>3. last' \in [Threads -> [Ids -> Values \cup {NULL}]]
    <3> DEFINE k == Head(mine[t]).id
    <3>1. last' = [last EXCEPT ![t][k] = NULL] /\ k \in Ids
      BY <1>3, <2>1 DEF TakeAndCall
    <3> HIDE DEF k
    <3> QED
      BY <3>1 DEF KeysShape
  <2> QED
    BY <1>3, <2>0, <2>2, <2>3 DEF TakeAndCall, KeysShape
<1>4. ASSUME NEW t \in Threads, TakeAndFree(t) PROVE KeysShape'
  <2>0. mine[t] \in Seq(Node) /\ Head(mine[t]) \in Node /\ Tail(mine[t]) \in Seq(Node)
    BY <1>4 DEF TakeAndFree, KeysShape
  <2>1. Head(mine[t]).id \in Ids
    BY <2>0 DEF Node
  <2>3. last' \in [Threads -> [Ids -> Values \cup {NULL}]]
    <3> DEFINE k == Head(mine[t]).id
    <3>1. last' = [last EXCEPT ![t][k] = NULL] /\ k \in Ids
      BY <1>4, <2>1 DEF TakeAndFree
    <3> HIDE DEF k
    <3> QED
      BY <3>1 DEF KeysShape
  <2> QED
    BY <1>4, <2>0, <2>3 DEF TakeAndFree, KeysShape
<1>5. ASSUME NEW t \in Threads, DestructorReturns(t) PROVE KeysShape'
  BY <1>5 DEF DestructorReturns, KeysShape
<1>6. ASSUME NEW t \in Threads, Freed(t) PROVE KeysShape'
  BY <1>6 DEF Freed, KeysShape
<1>7. ASSUME NEW t \in Threads, ExitRest(t) PROVE KeysShape'
  BY <1>7 DEF ExitRest, KeysShape
<1>8. ASSUME NEW t \in Threads, Exit(t) PROVE KeysShape'
  BY <1>8 DEF Exit, KeysShape
<1>9. ASSUME NEW t \in Threads, KeyCreateFails(t) PROVE KeysShape'
  BY <1>9 DEF KeyCreateFails, KeysShape
<1>10. ASSUME NEW t \in Threads, NEW d \in BOOLEAN, KeyCreate(t, d) PROVE KeysShape'
  <2>1. nextkey \in Ids /\ nextkey + 1 \in 0 .. KeysMax
    BY <1>10 DEF KeyCreate, KeysLeft, KeysShape, Ids
  <2>2. last' \in [Threads -> [Ids -> Values \cup {NULL}]]
    BY <1>10, <2>1 DEF KeyCreate, KeysShape, NewKey
  <2>3. [id |-> nextkey, dtor |-> d] \in Key
    BY <2>1 DEF Key
  <2> QED
    BY <1>10, <2>1, <2>2, <2>3 DEF KeyCreate, KeysShape, NewKey
<1>11. ASSUME NEW t \in Threads, NEW k \in Ids, KeyDelete(t, k) PROVE KeysShape'
  BY <1>11 DEF KeyDelete, KeysShape
<1>12. ASSUME NEW t \in Threads, NEW k \in Ids, NEW v \in Values \cup {NULL}, SetSpecific(t, k, v)
       PROVE  KeysShape'
  <2>1. PICK x \in keys : x.id = k /\ mine' = [mine EXCEPT ![t] = Stored(@, [id |-> k, dtor |-> x.dtor, value |-> v])]
    BY <1>12 DEF SetSpecific
  <2>2. [id |-> k, dtor |-> x.dtor, value |-> v] \in Node
    BY <2>1 DEF KeysShape, Key, Node
  <2>3. Stored(mine[t], [id |-> k, dtor |-> x.dtor, value |-> v]) \in Seq(Node)
    <3> DEFINE n == [id |-> k, dtor |-> x.dtor, value |-> v]
    <3>1. mine[t] \in Seq(Node) /\ n \in Node
      BY <2>2 DEF KeysShape
    <3> HIDE DEF n
    <3>2. [i \in DOMAIN mine[t] |-> IF mine[t][i].id = n.id THEN n ELSE mine[t][i]] \in Seq(Node)
      BY <3>1
    <3>3. <<n>> \o mine[t] \in Seq(Node)
      BY <3>1
    <3>4. Stored(mine[t], n) \in Seq(Node)
      BY <3>2, <3>3, Zenon DEF Stored
    <3> QED
      BY <3>4 DEF n
  <2>4. last' \in [Threads -> [Ids -> Values \cup {NULL}]]
    BY <1>12 DEF SetSpecific, KeysShape
  <2> QED
    BY <1>12, <2>1, <2>3, <2>4 DEF SetSpecific, KeysShape
<1> QED
  BY <1>1, <1>2, <1>3, <1>4, <1>5, <1>6, <1>7, <1>8, <1>9, <1>10, <1>11, <1>12 DEF KeysNext, KeysContinue

LEMMA LinkedIs == \A p : p \in Linked <=> \E u \in Threads : \E i \in DOMAIN mine[u] : p = <<u, i>>
<1> SUFFICES ASSUME NEW p
             PROVE  p \in Linked <=> \E u \in Threads : \E i \in DOMAIN mine[u] : p = <<u, i>>
  OBVIOUS
<1>1. p \in Linked <=> \E u \in Threads : p \in {u} \X DOMAIN mine[u]
  BY DEF Linked
<1>2. \A u \in Threads : p \in {u} \X DOMAIN mine[u] <=> \E i \in DOMAIN mine[u] : p = <<u, i>>
  OBVIOUS
<1> QED
  BY <1>1, <1>2

LEMMA LinkedNext ==
  (\A p : p \in Linked <=> \E u \in Threads : \E i \in DOMAIN mine[u] : p = <<u, i>>)'
  BY LinkedIs, PTL

\* The places of the lists change with the length of the one list that does.
LEMMA LinkedStep ==
  ASSUME KeysShape, IsFiniteSet(Linked), NEW t \in Threads, NEW r \in Seq(Node),
         mine' = [mine EXCEPT ![t] = r],
         Len(r) \in {Len(mine[t]), Len(mine[t]) + 1} \/ (Len(mine[t]) # 0 /\ Len(r) = Len(mine[t]) - 1)
  PROVE  /\ IsFiniteSet(Linked')
         /\ Cardinality(Linked) \in Nat /\ Len(r) \in Nat /\ Len(mine[t]) \in Nat
         /\ Cardinality(Linked') = Cardinality(Linked) + Len(r) - Len(mine[t])
<1> DEFINE n == Len(mine[t])
<1>1. n \in Nat /\ DOMAIN mine[t] = 1 .. n /\ Len(r) \in Nat /\ DOMAIN r = 1 .. Len(r)
  BY DEF KeysShape
<1>2. Cardinality(Linked) \in Nat
  BY FS_CardinalityType
<1>3. \A u \in Threads : mine'[u] = IF u = t THEN r ELSE mine[u]
  BY DEF KeysShape
<1>4. \A p : p \in Linked <=> \E u \in Threads : \E i \in DOMAIN mine[u] : p = <<u, i>>
  BY LinkedIs
<1>5. \A p : p \in Linked' <=> \E u \in Threads : \E i \in DOMAIN mine'[u] : p = <<u, i>>
  BY LinkedNext
<1>6. CASE Len(r) = n
  <2>1. Linked' = Linked
    BY <1>1, <1>3, <1>4, <1>5, <1>6
  <2> QED
    BY <1>1, <1>2, <1>6, <2>1
<1>7. CASE Len(r) = n + 1
  <2>1. DOMAIN r = DOMAIN mine[t] \cup {n + 1} /\ n + 1 \notin DOMAIN mine[t]
    BY <1>1, <1>7
  <2>2. Linked' = Linked \cup {<<t, n + 1>>}
    BY <1>3, <1>4, <1>5, <2>1
  <2>3. <<t, n + 1>> \notin Linked
    BY <1>4, <2>1
  <2>4. IsFiniteSet(Linked') /\ Cardinality(Linked') = Cardinality(Linked) + 1
    BY <2>2, <2>3, FS_AddElement
  <2> QED
    BY <1>1, <1>2, <1>7, <2>4
<1>8. CASE n # 0 /\ Len(r) = n - 1
  <2>1. DOMAIN r = DOMAIN mine[t] \ {n} /\ n \in DOMAIN mine[t]
    BY <1>1, <1>8
  <2>2. Linked' = Linked \ {<<t, n>>}
    BY <1>3, <1>4, <1>5, <2>1
  <2>3. <<t, n>> \in Linked
    BY <1>4, <2>1
  <2>4. IsFiniteSet(Linked') /\ Cardinality(Linked') = Cardinality(Linked) - 1
    BY <2>2, <2>3, FS_RemoveElement
  <2> QED
    BY <1>1, <1>2, <1>8, <2>4
<1> QED
  BY <1>6, <1>7, <1>8

LEMMA TakingFinite == IsFiniteSet(Taking) /\ Cardinality(Taking) \in Nat
  BY ThreadsAssumption, FS_Subset, FS_CardinalityType DEF Taking

LEMMA SizesAreNumbers ==
  ASSUME KeysShape, Finite
  PROVE  Cardinality(keys) \in Nat /\ Cardinality(Linked) \in Nat /\ Cardinality(Taking) \in Nat
         /\ failures \in Nat
  BY TakingFinite, FS_CardinalityType, LimitsAssumption DEF Finite, KeysShape

\* A node is taken off the head of a list.
LEMMA TakeStep ==
  ASSUME KeysIInv, KeysShape', NEW t \in Threads, key_pc[t] = "loop", mine[t] # << >>,
         mine' = [mine EXCEPT ![t] = Tail(@)],
         current' = [current EXCEPT ![t] = Head(mine[t])],
         last' = [last EXCEPT ![t][Head(mine[t]).id] = NULL],
         UNCHANGED <<nextkey, keys, allocated, failures>>
  PROVE  KeysIInv'
<1> DEFINE h == Head(mine[t])
           r == Tail(mine[t])
<1>1. mine[t] \in Seq(Node) /\ Distinct(mine[t])
  BY DEF KeysIInv, KeysShape, OneNodeEach
<1>2. /\ h \in Node /\ r \in Seq(Node) /\ Distinct(r) /\ h.id \in IdsOf(mine[t])
      /\ IdsOf(r) = IdsOf(mine[t]) \ {h.id}
      /\ \A k : ValueIn(r, k) = IF k = h.id THEN NULL ELSE ValueIn(mine[t], k)
      /\ Len(mine[t]) # 0 /\ Len(r) = Len(mine[t]) - 1
  BY <1>1, TailIs
<1>3. mine' = [mine EXCEPT ![t] = r] /\ last' = [last EXCEPT ![t][h.id] = NULL]
      /\ current' = [current EXCEPT ![t] = h]
  OBVIOUS
<1>4. h.id \in Ids
  BY <1>2 DEF Node
<1>5. h # NULL
  BY <1>2, NodeAssumption
<1>6. Len(mine[t]) \in Nat
  BY <1>1
<1> HIDE DEF h, r
<1>7. Created' /\ OneKeyEach' /\ OneNodeEach'
  BY <1>2, <1>3 DEF KeysIInv, KeysShape, Created, OneKeyEach, OneNodeEach
<1>8. GetsRight'
  <2>1. \A u \in Threads : mine'[u] = IF u = t THEN r ELSE mine[u]
    BY <1>3 DEF KeysIInv, KeysShape
  <2>2. \A u \in Threads, k \in Ids : last'[u][k] = IF u = t /\ k = h.id THEN NULL ELSE last[u][k]
    BY <1>3, <1>4 DEF KeysIInv, KeysShape
  <2> QED
    BY <1>2, <2>1, <2>2 DEF KeysIInv, GetsRight
<1>9. IsFiniteSet(Linked') /\ Cardinality(Linked') = Cardinality(Linked) - 1
  <2>1. IsFiniteSet(Linked') /\ Cardinality(Linked) \in Nat
        /\ Cardinality(Linked') = Cardinality(Linked) + Len(r) - Len(mine[t])
    BY <1>2, <1>3, LinkedStep DEF KeysIInv, Finite
  <2> QED
    BY <2>1, <1>2, <1>6
<1>10. Cardinality(Taking') = Cardinality(Taking) + 1
  <2>1. current[t] = NULL
    BY DEF KeysIInv, KeysShape
  <2>2. Taking' = Taking \cup {t} /\ t \notin Taking
    BY <1>3, <1>5, <2>1 DEF Taking, KeysIInv, KeysShape
  <2> QED
    BY <2>2, TakingFinite, FS_AddElement
<1>11. NodesAccounted'
  BY <1>9, <1>10, SizesAreNumbers DEF KeysIInv, NodesAccounted
<1> QED
  BY <1>7, <1>8, <1>9, <1>11 DEF KeysIInv, Finite

LEMMA SetStep ==
  ASSUME KeysIInv, KeysShape', NEW t \in Threads, NEW k \in Ids, NEW v \in Values \cup {NULL},
         SetSpecific(t, k, v)
  PROVE  KeysIInv'
<1>1. PICK x \in keys : x.id = k /\ mine' = [mine EXCEPT ![t] = Stored(@, [id |-> k, dtor |-> x.dtor, value |-> v])]
  BY DEF SetSpecific
<1> DEFINE n == [id |-> k, dtor |-> x.dtor, value |-> v]
           r == Stored(mine[t], n)
<1>2. n \in Node /\ n.id = k /\ n.value = v
  BY <1>1 DEF KeysIInv, KeysShape, Key, Node
<1>3. mine[t] \in Seq(Node) /\ Distinct(mine[t])
  BY DEF KeysIInv, KeysShape, OneNodeEach
<1>4. mine' = [mine EXCEPT ![t] = r]
  BY <1>1
<1> HIDE DEF n
<1>a. n \in Node
  BY <1>2
<1>b. /\ r \in Seq(Node) /\ Distinct(r) /\ IdsOf(r) = IdsOf(mine[t]) \cup {n.id}
      /\ \A j : ValueIn(r, j) = IF j = n.id THEN n.value ELSE ValueIn(mine[t], j)
      /\ Len(r) = IF n.id \in IdsOf(mine[t]) THEN Len(mine[t]) ELSE Len(mine[t]) + 1
  BY <1>3, <1>a, StoredIs, Zenon
<1>5. /\ r \in Seq(Node) /\ Distinct(r) /\ IdsOf(r) = IdsOf(mine[t]) \cup {k}
      /\ \A j : ValueIn(r, j) = IF j = k THEN v ELSE ValueIn(mine[t], j)
      /\ Len(r) = Len(mine[t]) \/ Len(r) = Len(mine[t]) + 1
  <2>1. n.id = k /\ n.value = v
    BY <1>2
  <2> HIDE DEF r
  <2> QED
    BY <1>b, <2>1
<1> HIDE DEF r
<1>6. \A u \in Threads : mine'[u] = IF u = t THEN r ELSE mine[u]
  BY <1>4 DEF KeysIInv, KeysShape
<1>7. UNCHANGED <<nextkey, keys, current, failures>>
      /\ allocated' = allocated + Len(mine'[t]) - Len(mine[t])
      /\ last' = [last EXCEPT ![t][k] = v]
  BY DEF SetSpecific
<1>8. k < nextkey
  BY <1>1 DEF KeysIInv, Created
<1>9. Created' /\ OneKeyEach' /\ OneNodeEach'
  BY <1>5, <1>6, <1>7, <1>8 DEF KeysIInv, Created, OneKeyEach, OneNodeEach
<1>10. GetsRight'
  <2>1. \A u \in Threads, j \in Ids : last'[u][j] = IF u = t /\ j = k THEN v ELSE last[u][j]
    BY <1>7 DEF KeysIInv, KeysShape
  <2> QED
    BY <1>5, <1>6, <1>7, <2>1 DEF KeysIInv, GetsRight
<1>11. IsFiniteSet(Linked') /\ Cardinality(Linked) \in Nat /\ Len(r) \in Nat /\ Len(mine[t]) \in Nat
       /\ Cardinality(Linked') = Cardinality(Linked) + Len(r) - Len(mine[t])
  <2>1. KeysShape /\ IsFiniteSet(Linked)
    BY DEF KeysIInv, Finite
  <2>a. Len(r) = Len(mine[t]) \/ Len(r) = Len(mine[t]) + 1
    BY <1>5, Zenon
  <2>2. Len(r) \in {Len(mine[t]), Len(mine[t]) + 1} \/ (Len(mine[t]) # 0 /\ Len(r) = Len(mine[t]) - 1)
    BY <2>a, Zenon
  <2>3. r \in Seq(Node)
    BY <1>5, Zenon
  <2> QED
    BY <1>4, <2>1, <2>2, <2>3, LinkedStep, Zenon
<1>12. Taking' = Taking
  BY <1>7 DEF Taking
<1>13. NodesAccounted'
  <2>1. allocated' = allocated + Len(r) - Len(mine[t])
    BY <1>6, <1>7
  <2>2. allocated = Cardinality(keys) + failures + Cardinality(Linked) + Cardinality(Taking)
    BY DEF KeysIInv, NodesAccounted
  <2>3. Cardinality(keys) \in Nat /\ Cardinality(Taking) \in Nat /\ failures \in Nat
    BY SizesAreNumbers DEF KeysIInv
  <2>4. Cardinality(keys') = Cardinality(keys) /\ failures' = failures /\ Cardinality(Taking') = Cardinality(Taking)
    BY <1>7, <1>12
  <2> QED
    BY <1>11, <2>1, <2>2, <2>3, <2>4, SMTT(30) DEF NodesAccounted
<1> QED
  BY <1>7, <1>9, <1>10, <1>11, <1>13 DEF KeysIInv, Finite

\* A new key is not in any list, and so has no value anywhere.
LEMMA CreateStep ==
  ASSUME KeysIInv, KeysShape', NEW t \in Threads, NEW d \in BOOLEAN, KeyCreate(t, d)
  PROVE  KeysIInv'
<1> DEFINE x == [id |-> nextkey, dtor |-> d]
<1>1. keys' = keys \cup {x} /\ nextkey' = nextkey + 1 /\ allocated' = allocated + 1
      /\ UNCHANGED <<mine, current, failures>>
      /\ last' = [u \in Threads |-> [last[u] EXCEPT ![nextkey] = NULL]]
  BY DEF KeyCreate, NewKey
<1>2. nextkey \in Nat /\ x.id = nextkey
  BY LimitsAssumption DEF KeysIInv, KeysShape
<1> HIDE DEF x
<1>3. x \notin keys
  BY <1>2 DEF KeysIInv, Created
<1>a. \A y \in keys : y.id \in Nat
  BY LimitsAssumption DEF KeysIInv, KeysShape, Key, Ids
<1>b. \A u \in Threads : \A k \in IdsOf(mine[u]) : k \in Nat
  <2>1. \A u \in Threads : mine[u] \in Seq(Node)
    BY DEF KeysIInv, KeysShape
  <2>2. \A u \in Threads : \A i \in DOMAIN mine[u] : mine[u][i] \in Node
    BY <2>1
  <2>3. \A n \in Node : n.id \in Nat
    BY LimitsAssumption DEF Node, Ids
  <2> QED
    BY <2>2, <2>3 DEF IdsOf
<1>4. Created'
  <2>1. \A y \in keys' : y.id < nextkey + 1
    BY <1>1, <1>2, <1>a DEF KeysIInv, Created
  <2>2. \A u \in Threads : \A k \in IdsOf(mine[u]) : k < nextkey + 1
    BY <1>2, <1>b DEF KeysIInv, Created
  <2>3. \A u \in Threads : IdsOf(mine'[u]) = IdsOf(mine[u])
    BY <1>1
  <2> QED
    BY <1>1, <2>1, <2>2, <2>3 DEF Created
<1>5. OneKeyEach'
  BY <1>1, <1>2 DEF KeysIInv, Created, OneKeyEach
<1>6. OneNodeEach'
  BY <1>1 DEF KeysIInv, OneNodeEach
<1>7. GetsRight'
  <2> SUFFICES ASSUME NEW u \in Threads, NEW k \in Ids, k < nextkey + 1
               PROVE  ValueIn(mine[u], k) = last'[u][k]
    BY <1>1 DEF GetsRight
  <2>1. k \in Int
    BY LimitsAssumption DEF Ids
  <2>2. CASE k = nextkey
    <3>1. last'[u][k] = NULL
      BY <1>1, <2>2 DEF KeysIInv, KeysShape
    <3>2. k \notin IdsOf(mine[u])
      BY <1>2, <2>2 DEF KeysIInv, Created
    <3> QED
      BY <3>1, <3>2, NoValue
  <2>3. CASE k < nextkey
    <3>1. last'[u][k] = last[u][k]
      BY <1>1, <1>2, <2>1, <2>3 DEF KeysIInv, KeysShape
    <3> QED
      BY <2>3, <3>1 DEF KeysIInv, GetsRight
  <2> QED
    BY <1>2, <2>1, <2>2, <2>3
<1>8. IsFiniteSet(keys') /\ Cardinality(keys') = Cardinality(keys) + 1
  BY <1>1, <1>3, FS_AddElement DEF KeysIInv, Finite
<1>9. Linked' = Linked /\ Taking' = Taking
  BY <1>1 DEF Linked, Taking
<1>10. NodesAccounted'
  BY <1>1, <1>8, <1>9, SizesAreNumbers DEF KeysIInv, NodesAccounted
<1> QED
  BY <1>4, <1>5, <1>6, <1>7, <1>8, <1>9, <1>10 DEF KeysIInv, Finite

LEMMA DeleteStep ==
  ASSUME KeysIInv, KeysShape', NEW t \in Threads, KeyDeleteRest(t)
  PROVE  KeysIInv'
<1> DEFINE gone == {x \in keys : x.id = deleting[t]}
<1>1. keys' = keys \ gone /\ allocated' = allocated - Cardinality(gone)
      /\ UNCHANGED <<nextkey, mine, current, failures, last>>
  BY DEF KeyDeleteRest
<1>2. IsFiniteSet(gone) /\ IsFiniteSet(keys') /\ Cardinality(gone) \in Nat
      /\ Cardinality(keys') = Cardinality(keys) - Cardinality(gone)
  <2>1. gone \subseteq keys /\ keys \cap gone = gone
    OBVIOUS
  <2>2. IsFiniteSet(keys)
    BY DEF KeysIInv, Finite
  <2> HIDE DEF gone
  <2>3. IsFiniteSet(keys \ gone) /\ Cardinality(keys \ gone) = Cardinality(keys) - Cardinality(keys \cap gone)
    BY <2>2, FS_Difference
  <2>4. IsFiniteSet(gone) /\ Cardinality(gone) \in Nat
    BY <2>1, <2>2, FS_Subset, FS_CardinalityType
  <2> QED
    BY <1>1, <2>1, <2>3, <2>4
<1>3. Created' /\ OneKeyEach' /\ OneNodeEach' /\ GetsRight'
  BY <1>1 DEF KeysIInv, Created, OneKeyEach, OneNodeEach, GetsRight
<1>4. Linked' = Linked /\ Taking' = Taking
  BY <1>1 DEF Linked, Taking
<1> HIDE DEF gone
<1>5. NodesAccounted'
  BY <1>1, <1>2, <1>4, SizesAreNumbers DEF KeysIInv, NodesAccounted
<1> QED
  BY <1>2, <1>3, <1>4, <1>5 DEF KeysIInv, Finite

\* Steps that change neither keys nor lists.
LEMMA QuietStep ==
  ASSUME KeysIInv, KeysShape', UNCHANGED <<nextkey, keys, mine, last>>, NodesAccounted'
  PROVE  KeysIInv'
<1>1. Linked' = Linked
  BY DEF Linked
<1> QED
  BY <1>1 DEF KeysIInv, Created, OneKeyEach, OneNodeEach, GetsRight, Finite

LEMMA KeysStep == ASSUME KeysIInv, [KeysNext]_keysVars PROVE KeysIInv'
<1>0. KeysShape'
  BY ShapeStep DEF KeysIInv
<1>1. CASE UNCHANGED keysVars
  BY <1>0, <1>1, QuietStep DEF keysVars, KeysIInv, NodesAccounted, Linked, Taking
<1>2. ASSUME NEW t \in Threads, KeyDeleteRest(t) PROVE KeysIInv'
  BY <1>0, <1>2, DeleteStep
<1>3. ASSUME NEW t \in Threads, TakeAndCall(t) PROVE KeysIInv'
  BY <1>0, <1>3, TakeStep DEF TakeAndCall
<1>4. ASSUME NEW t \in Threads, TakeAndFree(t) PROVE KeysIInv'
  BY <1>0, <1>4, TakeStep DEF TakeAndFree
<1>5. ASSUME NEW t \in Threads, DestructorReturns(t) PROVE KeysIInv'
  BY <1>0, <1>5, QuietStep DEF DestructorReturns, KeysIInv, NodesAccounted, Linked, Taking
<1>6. ASSUME NEW t \in Threads, Freed(t) PROVE KeysIInv'
  <2>1. current' = [current EXCEPT ![t] = NULL] /\ current[t] # NULL /\ allocated' = allocated - 1
        /\ UNCHANGED <<nextkey, keys, mine, failures, last>>
    BY <1>6 DEF Freed, KeysIInv, KeysShape
  <2>2. Taking' = Taking \ {t} /\ t \in Taking
    BY <2>1 DEF Taking, KeysIInv, KeysShape
  <2>3. Cardinality(Taking') = Cardinality(Taking) - 1
    BY <2>2, TakingFinite, FS_RemoveElement
  <2>4. Linked' = Linked
    BY <2>1 DEF Linked
  <2>5. NodesAccounted'
    BY <2>1, <2>3, <2>4, SizesAreNumbers DEF KeysIInv, NodesAccounted
  <2> QED
    BY <1>0, <2>1, <2>5, QuietStep
<1>7. ASSUME NEW t \in Threads, ExitRest(t) PROVE KeysIInv'
  BY <1>0, <1>7, QuietStep DEF ExitRest, KeysIInv, NodesAccounted, Linked, Taking
<1>8. ASSUME NEW t \in Threads, Exit(t) PROVE KeysIInv'
  BY <1>0, <1>8, QuietStep DEF Exit, KeysIInv, NodesAccounted, Linked, Taking
<1>9. ASSUME NEW t \in Threads, KeyCreateFails(t) PROVE KeysIInv'
  <2>1. Linked' = Linked /\ Taking' = Taking
    BY <1>9 DEF KeyCreateFails, Linked, Taking
  <2>2. NodesAccounted'
    BY <1>9, <2>1, SizesAreNumbers DEF KeyCreateFails, KeysIInv, NodesAccounted
  <2> QED
    BY <1>0, <1>9, <2>2, QuietStep DEF KeyCreateFails
<1>10. ASSUME NEW t \in Threads, NEW d \in BOOLEAN, KeyCreate(t, d) PROVE KeysIInv'
  BY <1>0, <1>10, CreateStep
<1>11. ASSUME NEW t \in Threads, NEW k \in Ids, KeyDelete(t, k) PROVE KeysIInv'
  BY <1>0, <1>11, QuietStep DEF KeyDelete, KeysIInv, NodesAccounted, Linked, Taking
<1>12. ASSUME NEW t \in Threads, NEW k \in Ids, NEW v \in Values \cup {NULL}, SetSpecific(t, k, v)
       PROVE  KeysIInv'
  BY <1>0, <1>12, SetStep
<1> QED
  BY <1>1, <1>2, <1>3, <1>4, <1>5, <1>6, <1>7, <1>8, <1>9, <1>10, <1>11, <1>12 DEF KeysNext, KeysContinue

LEMMA KeysInitial == KeysInit => KeysIInv
<1> SUFFICES ASSUME KeysInit PROVE KeysIInv
  OBVIOUS
<1>1. KeysShape
  <2>1. 0 \in 0 .. KeysMax /\ 0 \in 0 .. Iterations /\ 0 \in 0 .. MaxFailures
    BY LimitsAssumption
  <2>2. mine \in [Threads -> Seq(Node)]
    BY DEF KeysInit
  <2>3. last \in [Threads -> [Ids -> Values \cup {NULL}]]
    BY DEF KeysInit
  <2>4. \A t \in Threads : current[t] # NULL <=> key_pc[t] \in {"dtor", "free"}
    BY DEF KeysInit
  <2> HIDE DEF Node, Ids
  <2> QED
    BY <2>1, <2>2, <2>3, <2>4 DEF KeysInit, KeysShape
<1>2. \A t \in Threads : mine[t] = << >> /\ DOMAIN mine[t] = {}
  BY DEF KeysInit
<1>3. \A t \in Threads : IdsOf(mine[t]) = {}
  BY <1>2 DEF IdsOf
<1>4. Linked = {}
  BY <1>2, LinkedIs
<1>5. Taking = {}
  BY DEF KeysInit, Taking
<1>6. Created /\ OneKeyEach /\ OneNodeEach
  BY <1>2, <1>3 DEF KeysInit, Created, OneKeyEach, OneNodeEach, Distinct
<1>7. GetsRight
  BY <1>3, NoValue DEF KeysInit, GetsRight
<1>8. NodesAccounted /\ Finite
  BY <1>4, <1>5, FS_EmptySet DEF KeysInit, NodesAccounted, Finite
<1> QED
  BY <1>1, <1>6, <1>7, <1>8 DEF KeysIInv

LEMMA KeysInvariance == KeysSpec => []KeysIInv
  BY KeysInitial, KeysStep, PTL DEF KeysSpec

\* With a single thread that deletes keys, the list is not empty when that
\* thread comes to follow its head.
OneDeleter == \A t, u \in Deleters : t = u

ListKept ==
  /\ \A t \in Threads : deleting[t] # NULL => t \in Deleters /\ keys # {}
  /\ NoWildRead

LEMMA KeptStep == ASSUME OneDeleter, KeysShape, ListKept, [KeysNext]_keysVars PROVE ListKept'
<1> USE DEF ListKept, NoWildRead
<1>1. CASE UNCHANGED keysVars
  BY <1>1 DEF keysVars
<1>2. ASSUME NEW t \in Threads, KeyDeleteRest(t) PROVE ListKept'
  <2>1. ~wild' /\ deleting' = [deleting EXCEPT ![t] = NULL] /\ t \in Deleters
    BY <1>2, Zenon DEF KeyDeleteRest
  <2>2. \A u \in Threads : deleting'[u] = NULL
    BY <2>1 DEF OneDeleter, KeysShape
  <2> QED
    BY <2>1, <2>2
<1>3. ASSUME NEW t \in Threads, TakeAndCall(t) PROVE ListKept'
  BY <1>3 DEF TakeAndCall
<1>4. ASSUME NEW t \in Threads, TakeAndFree(t) PROVE ListKept'
  BY <1>4 DEF TakeAndFree
<1>5. ASSUME NEW t \in Threads, DestructorReturns(t) PROVE ListKept'
  BY <1>5 DEF DestructorReturns
<1>6. ASSUME NEW t \in Threads, Freed(t) PROVE ListKept'
  BY <1>6 DEF Freed
<1>7. ASSUME NEW t \in Threads, ExitRest(t) PROVE ListKept'
  BY <1>7 DEF ExitRest
<1>8. ASSUME NEW t \in Threads, Exit(t) PROVE ListKept'
  BY <1>8 DEF Exit
<1>9. ASSUME NEW t \in Threads, KeyCreateFails(t) PROVE ListKept'
  BY <1>9 DEF KeyCreateFails
<1>10. ASSUME NEW t \in Threads, NEW d \in BOOLEAN, KeyCreate(t, d) PROVE ListKept'
  BY <1>10 DEF KeyCreate
<1>11. ASSUME NEW t \in Threads, NEW k \in Ids, KeyDelete(t, k) PROVE ListKept'
  BY <1>11 DEF KeyDelete, KeysShape
<1>12. ASSUME NEW t \in Threads, NEW k \in Ids, NEW v \in Values \cup {NULL}, SetSpecific(t, k, v)
       PROVE  ListKept'
  BY <1>12 DEF SetSpecific
<1> QED
  BY <1>1, <1>2, <1>3, <1>4, <1>5, <1>6, <1>7, <1>8, <1>9, <1>10, <1>11, <1>12 DEF KeysNext, KeysContinue

\* Keys, lists, counters and histories keep their types: no node is freed that
\* was not allocated.
THEOREM KeysTypeCorrect == KeysSpec => []KeysTypeOK
<1>1. KeysIInv => KeysTypeOK
  <2> SUFFICES ASSUME KeysIInv PROVE KeysTypeOK
    OBVIOUS
  <2>1. allocated \in Nat
    BY SizesAreNumbers DEF KeysIInv, NodesAccounted
  <2> QED
    BY <2>1 DEF KeysIInv, KeysShape, KeysTypeOK
<1> QED
  BY <1>1, KeysInvariance, PTL

\* Every node is freed once at most, whatever destructors do, and in a program
\* with one thread that deletes keys pthread_key_delete follows no null pointer.
THEOREM NodesCorrect == ASSUME OneDeleter PROVE KeysSpec => []NodesInv
<1>1. KeysInit => ListKept
  BY DEF KeysInit, ListKept, NoWildRead
<1>2. KeysIInv /\ ListKept /\ [KeysNext]_keysVars => ListKept'
  BY KeptStep DEF KeysIInv
<1>3. KeysIInv /\ ListKept /\ KeysTypeOK => NodesInv
  BY DEF KeysIInv, ListKept, NodesInv
<1> QED
  BY <1>1, <1>2, <1>3, KeysInvariance, KeysTypeCorrect, PTL DEF KeysSpec

\* pthread_getspecific returns what its thread has set last, and NULL for a key
\* that is new, although lists still have values of deleted keys.
THEOREM ValuesCorrect == KeysSpec => []ValuesInv
<1>1. KeysIInv => ValuesInv
  <2> SUFFICES ASSUME KeysIInv PROVE ValuesInv
    OBVIOUS
  <2>1. nextkey \in Nat
    BY LimitsAssumption DEF KeysIInv, KeysShape
  <2>2. KeysAreFresh
    BY <2>1 DEF KeysIInv, OneKeyEach, OneNodeEach, Distinct, Created, KeysAreFresh, NewKey
  <2>3. GetsWhatWasSet
    BY GetIs DEF KeysIInv, GetsRight, GetsWhatWasSet
  <2> QED
    BY <2>2, <2>3 DEF ValuesInv
<1> QED
  BY <1>1, KeysInvariance, PTL

-----------------------------------------------------------------------------
(***************************************************************************)
(* Interval timers and sleep, for any programs and any resolution of the   *)
(* clock.                                                                  *)
(*                                                                         *)
(* AlarmIInv, at the end, is the conjunction of what the parts below find: *)
(* where a program is on its way to (PlaceInv), what keeps an interval     *)
(* timer going (IntervalInv), which ticker a timer that goes off once has  *)
(* (MatchInv), and, in a program that sets no alarm, what sleep gives to   *)
(* setitimer and finds there (NapInv), when its alarm goes off (FlightInv) *)
(* and which action it finds and gives back (KeptInv, RestoredInv).        *)
(***************************************************************************)

\* Division with a remainder.
LEMMA Division ==
  ASSUME NEW a \in Nat, NEW b \in Nat \ {0}
  PROVE  /\ a \div b \in Nat /\ a % b \in 0 .. b - 1
         /\ a = b * (a \div b) + (a % b)
  BY SMT

LEMMA DivisionIs ==
  ASSUME NEW b \in Nat \ {0}, NEW q \in Nat, NEW r \in 0 .. b - 1, NEW a \in Nat, a = b * q + r
  PROVE  a \div b = q /\ a % b = r
<1>1. /\ a \div b \in Nat /\ a % b \in 0 .. b - 1
      /\ a = b * (a \div b) + (a % b)
  BY Division
<1> DEFINE d == a \div b
           e == a % b
<1> HIDE DEF d, e
<1>2. d \in Nat /\ e \in 0 .. b - 1 /\ b * q + r = b * d + e
  BY <1>1 DEF d, e
<1>3. ~(d > q)
  <2>1. SUFFICES ASSUME d > q PROVE FALSE
    OBVIOUS
  <2>2. b * d >= b * (q + 1)
    BY <1>2, <2>1
  <2> QED
    BY <1>2, <2>2
<1>4. ~(d < q)
  <2>1. SUFFICES ASSUME d < q PROVE FALSE
    OBVIOUS
  <2>2. b * q >= b * (d + 1)
    BY <1>2, <2>1
  <2> QED
    BY <1>2, <2>2
<1>5. d = q
  BY <1>2, <1>3, <1>4
<1>6. e = r
  BY <1>2, <1>5
<1> QED
  BY <1>5, <1>6 DEF d, e

LEMMA Seconds == SECOND \in Nat \ {0}
  BY ClockAssumption DEF SECOND

\* The delay for a time in microseconds is a number of ticks, and 0 for 0 only.
LEMMA DelayType ==
  ASSUME NEW v \in Nat
  PROVE  Delay(v) \in Nat /\ (Delay(v) = 0 <=> v = 0)
<1> DEFINE q == v \div SECOND
           r == v % SECOND
           u == r + USECS - 1
<1>1. q \in Nat /\ r \in Nat /\ v = SECOND * q + r
  BY Division, Seconds
<1>2. u \in Nat /\ u \div USECS \in Nat /\ u % USECS \in 0 .. USECS - 1
      /\ u = USECS * (u \div USECS) + (u % USECS)
  <2>1. u \in Nat
    BY <1>1, ClockAssumption
  <2> HIDE DEF u
  <2> QED
    BY <2>1, Division, ClockAssumption
<1>3. Delay(v) = TICKS * q + (u \div USECS)
  BY DEF Delay
<1>4. TICKS * q \in Nat /\ (TICKS * q = 0 <=> q = 0)
  BY <1>1, ClockAssumption
<1>5. u \div USECS = 0 <=> r = 0
  <2>1. CASE r = 0
    <3>1. u \in 0 .. USECS - 1 /\ u = USECS * 0 + u
      BY <2>1, <1>2, ClockAssumption
    <3> HIDE DEF u
    <3>2. u \div USECS = 0
      BY <3>1, <1>2, DivisionIs, ClockAssumption
    <3> QED
      BY <3>2, <2>1
  <2>2. CASE r # 0
    <3>1. u >= USECS
      BY <2>2, <1>1, ClockAssumption
    <3>2. u \div USECS # 0
      BY <3>1, <1>2, ClockAssumption
    <3> QED
      BY <3>2, <2>2
  <2> QED
    BY <2>1, <2>2
<1>6. v = 0 <=> q = 0 /\ r = 0
  <2>1. SECOND * q \in Nat /\ (SECOND * q = 0 <=> q = 0)
    BY <1>1, Seconds
  <2> HIDE DEF q, r
  <2> QED
    BY <1>1, <2>1
<1> HIDE DEF q, r, u
<1> QED
  BY <1>1, <1>2, <1>3, <1>4, <1>5, <1>6

\* A number of ticks in microseconds: its whole seconds and the rest.
LEMMA NapDivided ==
  ASSUME NEW n \in Nat
  PROVE  /\ n * USECS \in Nat
         /\ (n * USECS) \div SECOND = n \div TICKS
         /\ (n * USECS) % SECOND = (n % TICKS) * USECS
<1> DEFINE q == n \div TICKS
           r == n % TICKS
<1>1. q \in Nat /\ r \in 0 .. TICKS - 1 /\ n = TICKS * q + r
  BY Division, ClockAssumption
<1> HIDE DEF q, r
<1>2. r * USECS \in Nat /\ n * USECS \in Nat /\ SECOND * q \in Nat
  BY <1>1, Seconds, ClockAssumption
<1>3. r * USECS <= (TICKS - 1) * USECS /\ (TICKS - 1) * USECS = SECOND - USECS
  BY <1>1, ClockAssumption DEF SECOND
<1>4. r * USECS \in 0 .. SECOND - 1
  BY <1>2, <1>3, Seconds, ClockAssumption
<1>5. n * USECS = SECOND * q + r * USECS
  BY <1>1, ClockAssumption DEF SECOND
<1>6. (n * USECS) \div SECOND = q /\ (n * USECS) % SECOND = r * USECS
  BY <1>1, <1>2, <1>4, <1>5, Seconds, DivisionIs
<1> QED
  BY <1>2, <1>6 DEF q, r

\* The delay for a sleep is its number of ticks.
LEMMA NapDelay ==
  ASSUME NEW n \in Nat
  PROVE  Delay(n * USECS) = n
<1> DEFINE q == n \div TICKS
           r == n % TICKS
<1>1. q \in Nat /\ r \in 0 .. TICKS - 1 /\ n = TICKS * q + r
  BY Division, ClockAssumption
<1>2. Delay(n * USECS) = TICKS * q + (r * USECS + USECS - 1) \div USECS
  BY NapDivided DEF Delay
<1> HIDE DEF q, r
<1>3. r * USECS + USECS - 1 \in Nat /\ r * USECS + USECS - 1 = USECS * r + (USECS - 1)
  BY <1>1, ClockAssumption
<1>4. (r * USECS + USECS - 1) \div USECS = r
  <2> DEFINE a == r * USECS + USECS - 1
  <2>1. a \in Nat /\ a = USECS * r + (USECS - 1) /\ USECS - 1 \in 0 .. USECS - 1
    BY <1>3, ClockAssumption
  <2> HIDE DEF a
  <2>2. a \div USECS = r
    BY <2>1, <1>1, DivisionIs, ClockAssumption
  <2> QED
    BY <2>2 DEF a
<1> QED
  BY <1>1, <1>2, <1>4

\* A sleep's whole seconds, in ticks: what ualarm makes up of it.
Whole(n) == (n \div TICKS) * TICKS

LEMMA WholeIs ==
  ASSUME NEW n \in Nat
  PROVE  /\ Whole(n) \in 0 .. n
         /\ n < TICKS => Whole(n) = 0
         /\ n % TICKS = 0 => Whole(n) = n
<1> DEFINE q == n \div TICKS
           r == n % TICKS
<1>1. q \in Nat /\ r \in 0 .. TICKS - 1 /\ n = TICKS * q + r
  BY Division, ClockAssumption
<1> HIDE DEF q, r
<1>2. q * TICKS \in Nat /\ q * TICKS = TICKS * q
  BY <1>1, ClockAssumption
<1>3. n < TICKS => q = 0
  <2>1. SUFFICES ASSUME q >= 1, n < TICKS PROVE FALSE
    BY <1>1
  <2>2. TICKS * q >= TICKS
    BY <1>1, <2>1, ClockAssumption
  <2> QED
    BY <1>1, <1>2, <2>1, <2>2, ClockAssumption
<1>4. q * TICKS \in 0 .. n /\ (r = 0 => q * TICKS = n)
  <2> DEFINE a == q * TICKS
  <2>1. a \in Nat /\ r \in Nat /\ n = a + r
    BY <1>1, <1>2
  <2> HIDE DEF a
  <2>2. a \in 0 .. n /\ (r = 0 => a = n)
    BY <2>1
  <2> QED
    BY <2>2 DEF a
<1>5. n < TICKS => q * TICKS = 0
  BY <1>3, ClockAssumption
<1> QED
  BY <1>4, <1>5 DEF Whole, q, r

LEMMA MadeUp ==
  ASSUME NEW n \in Nat
  PROVE  ((0 % SECOND) + ((n * USECS) \div SECOND) * SECOND) \div USECS = Whole(n)
<1>1. 0 % SECOND = 0
  <2>1. 0 = SECOND * 0 + 0 /\ 0 \in 0 .. SECOND - 1
    BY Seconds
  <2> QED
    BY <2>1, Seconds, DivisionIs
<1>2. (n * USECS) \div SECOND = n \div TICKS
  BY NapDivided
<1> DEFINE q == n \div TICKS
<1>3. q \in Nat
  BY Division, ClockAssumption
<1> HIDE DEF q
<1>4. q * SECOND = USECS * (q * TICKS) + 0 /\ q * TICKS \in Nat /\ q * SECOND \in Nat
  BY <1>3, ClockAssumption DEF SECOND
<1>5. (q * SECOND) \div USECS = q * TICKS
  <2> DEFINE a == q * SECOND
             b == q * TICKS
  <2>1. a \in Nat /\ b \in Nat /\ a = USECS * b + 0 /\ 0 \in 0 .. USECS - 1
    BY <1>4, ClockAssumption
  <2> HIDE DEF a, b
  <2>2. a \div USECS = b
    BY <2>1, DivisionIs, ClockAssumption
  <2> QED
    BY <2>2 DEF a, b
<1> QED
  BY <1>1, <1>2, <1>4, <1>5 DEF q, Whole

LEMMA PeriodType ==
  ASSUME interval \in Nat
  PROVE  Period \in Nat \ {0}
<1> DEFINE q == interval \div SECOND
           r == interval % SECOND
<1>1. q \in Nat /\ r \in Nat
  BY Division, Seconds
<1> HIDE DEF q, r
<1>2. TICKS * q \in Nat
  BY <1>1, ClockAssumption
<1>3. TICKS * q + r + 1 \in Nat \ {0}
  BY <1>1, <1>2
<1> QED
  BY <1>3 DEF Period, q, r

LEMMA RemainingType ==
  ASSUME NEW o \in Nat, NEW v \in Nat
  PROVE  ((o % SECOND) + (v \div SECOND) * SECOND) \div USECS \in Nat
<1> DEFINE q == v \div SECOND
           r == o % SECOND
           a == r + q * SECOND
<1>1. q \in Nat /\ r \in Nat
  BY Division, Seconds
<1>2. a \in Nat
  <2> HIDE DEF q, r
  <2> QED
    BY <1>1, Seconds
<1> HIDE DEF a
<1>3. a \div USECS \in Nat
  BY <1>2, Division, ClockAssumption
<1> QED
  BY <1>3 DEF a

\* A tick keeps the ticker events well-formed, and finitely many.
Over == {t \in tickers : t.left = 1}
Ticked == {[t EXCEPT !.left = @ - 1] : t \in tickers \ Over}
          \cup {[t EXCEPT !.left = t.every] : t \in {u \in Over : u.every > 0}}
Event == [left : Nat \ {0}, every : Nat, no : Nat]

\* A number is left for a new ticker event, so that it is none of the others.
LEMMA NewTickerIs ==
  ASSUME tickers \subseteq Event, IsFiniteSet(tickers), NEW l, NEW e
  PROVE  /\ NewTicker(l, e).left = l /\ NewTicker(l, e).every = e
         /\ NewTicker(l, e) \notin tickers
         /\ l \in Nat \ {0} /\ e \in Nat => NewTicker(l, e) \in Event
         /\ tickers = {} => NewTicker(l, e) = [left |-> l, every |-> e, no |-> 0]
<1> DEFINE c == Cardinality(tickers)
           used == {t.no : t \in tickers}
           free == CHOOSE n \in 0 .. c : \A t \in tickers : t.no # n
<1>1. c \in Nat /\ (tickers = {} => c = 0)
  BY FS_CardinalityType, FS_EmptySet
<1>2. IsFiniteSet(used) /\ Cardinality(used) <= c
  <2> DEFINE f == [t \in tickers |-> t.no]
  <2>1. f \in Surjection(tickers, used)
    BY DEF Surjection
  <2> QED
    BY <2>1, FS_Surjection
<1>3. \E n \in 0 .. c : n \notin used
  <2>1. SUFFICES ASSUME 0 .. c \subseteq used PROVE FALSE
    OBVIOUS
  <2> HIDE DEF c, used
  <2>2. Cardinality(0 .. c) <= Cardinality(used)
    BY <1>2, <2>1, FS_Subset
  <2>3. Cardinality(0 .. c) = c + 1
    BY <1>1, FS_Interval
  <2>4. Cardinality(used) \in Nat
    BY <1>2, FS_CardinalityType
  <2> QED
    BY <1>1, <1>2, <2>2, <2>3, <2>4
<1>4. free \in 0 .. c /\ \A t \in tickers : t.no # free
  <2>1. \E n \in 0 .. c : \A t \in tickers : t.no # n
    BY <1>3
  <2> HIDE DEF c
  <2> QED
    BY <2>1
<1>5. NewTicker(l, e) = [left |-> l, every |-> e, no |-> free]
  BY DEF NewTicker
<1> HIDE DEF free, c
<1>6. free \in Nat /\ (tickers = {} => free = 0)
  BY <1>1, <1>4
<1> QED
  BY <1>4, <1>5, <1>6 DEF Event

LEMMA FirstTickerIs ==
  ASSUME tickers = {}, NEW l, NEW e
  PROVE  /\ NewTicker(l, e) = [left |-> l, every |-> e, no |-> 0]
         /\ NewTicker(l, e).left = l /\ NewTicker(l, e).every = e
  BY NewTickerIs, FS_EmptySet

LEMMA TickedType ==
  ASSUME tickers \subseteq Event, IsFiniteSet(tickers)
  PROVE  /\ Ticked \subseteq Event /\ IsFiniteSet(Ticked)
         /\ Cardinality(Over) \in Nat /\ (Cardinality(Over) = 0 => Over = {})
<1> DEFINE S1 == tickers \ Over
           S2 == {u \in Over : u.every > 0}
           F1 == {[t EXCEPT !.left = @ - 1] : t \in S1}
           F2 == {[t EXCEPT !.left = t.every] : t \in S2}
<1>1. IsFiniteSet(Over) /\ IsFiniteSet(S1) /\ IsFiniteSet(S2)
  BY FS_Subset DEF Over
<1>2. F1 \subseteq Event
  BY DEF Over, Event
<1>3. F2 \subseteq Event
  BY DEF Over, Event
<1>4. IsFiniteSet(F1)
  <2> DEFINE f == [t \in S1 |-> [t EXCEPT !.left = @ - 1]]
  <2>1. f \in Surjection(S1, F1)
    BY DEF Surjection
  <2> QED
    BY <1>1, <2>1, FS_Surjection
<1>5. IsFiniteSet(F2)
  <2> DEFINE f == [t \in S2 |-> [t EXCEPT !.left = t.every]]
  <2>1. f \in Surjection(S2, F2)
    BY DEF Surjection
  <2> QED
    BY <1>1, <2>1, FS_Surjection
<1>6. Ticked = F1 \cup F2
  BY DEF Ticked
<1> HIDE DEF F1, F2, S1, S2
<1>7. IsFiniteSet(Ticked)
  BY <1>4, <1>5, <1>6, FS_Union
<1>8. Cardinality(Over) \in Nat /\ (Cardinality(Over) = 0 => Over = {})
  BY <1>1, FS_CardinalityType, FS_EmptySet
<1> QED
  BY <1>2, <1>3, <1>6, <1>7, <1>8

-----------------------------------------------------------------------------
MainPcs == SetitimerSteps \cup SleepSteps \cup {"run", "dead"}
HandlerPcs == SetitimerSteps \cup {"none", "run"}

\* Where the program is on its way to: in setitimer, to where that returns.
Place == IF pc["main"] \in SetitimerSteps THEN then["main"] ELSE pc["main"]

PlaceInv ==
  /\ then["handler"] = "run" /\ then["main"] \in {"run", "armed", "suspend", "unmask"}
  /\ pc["main"] # "dead" => (blocked <=> Place \in {"armed", "suspend", "woken", "unmask"})
  /\ act = "nap" => \/ Place = "armed"
                    \/ Place \in {"suspend", "sleep", "wait", "woken"} /\ ~Sooner(remaining)
  /\ (pc["main"] = "dead" \/ blocked \/ sleeping) => pc["handler"] = "none"
  /\ IsFiniteSet(tickers)

LEMMA ProgramTypes ==
  ASSUME prog \in Programs
  PROVE  /\ prog.times \subseteq Nat /\ prog.intervals \subseteq Nat
         /\ prog.naps \subseteq Nat \ {0} /\ prog.setters \subseteq Callers
         /\ prog.maxcalls \in Nat /\ prog.maxslept \in Nat
         /\ prog.others \in BOOLEAN /\ prog.switicks \in BOOLEAN
         /\ \A n \in prog.naps : n <= prog.maxslept
  BY ProgramsAssumption, NapsAssumption DEF ProgramType, Callers

LEMMA AlarmProgramStays ==
  ASSUME [Next]_vars
  PROVE  prog' = prog
BY DEF Next, vars, Tick, CallBack, HandlerReturns, OtherSignal, InSetitimer, RemoveTicker, Assign,
       AddTicker, Sigaction, SetTimer, SleepBegin, Sleep, SleepArmed, Suspend, SuspendSleeps,
       SuspendReturns, SleepWoken, SleepReturns

\* The delivery of SIGALRM.
LEMMA PostIs ==
  ASSUME TypeOK, NEW next \in MainPcs, Post(next)
  PROVE  /\ act' = "default" /\ sleeping' = FALSE
         /\ pc' \in [main : MainPcs, handler : HandlerPcs]
         /\ pc'["main"] = IF act = "default" THEN "dead" ELSE next
         /\ pc'["handler"] = IF act = "user" THEN "run" ELSE "none"
<1>1. act \in {"default", "user", "nap"}
  BY DEF TypeOK
<1>2. next \in MainPcs /\ "dead" \in MainPcs /\ "run" \in HandlerPcs /\ "none" \in HandlerPcs
  BY DEF MainPcs, HandlerPcs
<1>3. CASE act = "default"
  BY <1>2, <1>3 DEF Post
<1>4. CASE act = "nap"
  BY <1>2, <1>4 DEF Post
<1>5. CASE act = "user"
  BY <1>2, <1>5 DEF Post
<1> QED
  BY <1>1, <1>3, <1>4, <1>5

LEMMA SetMaskIs ==
  ASSUME TypeOK, NEW b \in BOOLEAN, NEW next \in MainPcs \ {"dead"}, SetMask(b, next)
  PROVE  /\ blocked' = b
         /\ pc' \in [main : MainPcs, handler : HandlerPcs]
         /\ \/ /\ pended /\ ~b /\ pended' = FALSE /\ act' = "default" /\ sleeping' = FALSE
               /\ pc'["main"] = IF act = "default" THEN "dead" ELSE next
               /\ pc'["handler"] = IF act = "user" THEN "run" ELSE "none"
            \/ /\ ~pended \/ b
               /\ pended' = pended /\ act' = act /\ sleeping' = sleeping
               /\ pc'["main"] = next /\ pc'["handler"] = pc["handler"]
<1>1. pc \in [main : MainPcs, handler : HandlerPcs]
  BY DEF TypeOK, MainPcs, HandlerPcs
<1>2. CASE pended /\ ~b
  <2>1. Post(next) /\ blocked' = b /\ pended' = FALSE
    BY <1>2 DEF SetMask
  <2> QED
    BY <1>2, <2>1, PostIs
<1>3. CASE ~(pended /\ ~b)
  BY <1>1, <1>3 DEF SetMask
<1> QED
  BY <1>2, <1>3

\* A step of setitimer takes its caller on.
LEMMA PcExcept ==
  ASSUME TypeOK, NEW c \in Callers, NEW x \in MainPcs \cap HandlerPcs, pc' = [pc EXCEPT ![c] = x]
  PROVE  /\ pc' \in [main : MainPcs, handler : HandlerPcs]
         /\ pc'[c] = x /\ \A d \in Callers : d # c => pc'[d] = pc[d]
<1>1. pc \in [main : MainPcs, handler : HandlerPcs]
  BY DEF TypeOK, MainPcs, HandlerPcs
<1>2. c = "main" \/ c = "handler"
  BY DEF Callers
<1> QED
  BY <1>1, <1>2 DEF Callers

LEMMA MainExcept ==
  ASSUME TypeOK, NEW x \in MainPcs, pc' = [pc EXCEPT !["main"] = x]
  PROVE  /\ pc' \in [main : MainPcs, handler : HandlerPcs]
         /\ pc'["main"] = x /\ pc'["handler"] = pc["handler"]
<1>1. pc \in [main : MainPcs, handler : HandlerPcs]
  BY DEF TypeOK, MainPcs, HandlerPcs
<1> QED
  BY <1>1

LEMMA CallEveryIs ==
  ASSUME TypeOK, PlaceInv, CallEvery
  PROVE  /\ tickers' \subseteq Event /\ IsFiniteSet(tickers') /\ sema' \in BOOLEAN
         /\ tickers \subseteq tickers'
         /\ \/ (sema \/ interval = 0) /\ tickers' = tickers /\ sema' = sema
            \/ /\ ~sema /\ interval > 0 /\ sema' = TRUE
               /\ \E t \in tickers' : t.every > 0
<1>1. tickers \subseteq Event /\ IsFiniteSet(tickers) /\ interval \in Nat /\ sema \in BOOLEAN
  BY DEF TypeOK, PlaceInv, Event
<1>2. CASE sema \/ interval = 0
  BY <1>1, <1>2 DEF CallEvery
<1>3. CASE ~(sema \/ interval = 0)
  <2> DEFINE e == NewTicker(Period, Period)
  <2>1. e \in Event /\ e.every > 0
    BY <1>1, PeriodType, NewTickerIs
  <2> HIDE DEF e
  <2>2. tickers' = tickers \cup {e} /\ sema' = TRUE
    BY <1>3 DEF CallEvery, e
  <2>3. IsFiniteSet(tickers')
    BY <1>1, <2>2, FS_AddElement
  <2>4. tickers' \subseteq Event /\ tickers \subseteq tickers' /\ \E t \in tickers' : t.every > 0
    BY <1>1, <2>1, <2>2
  <2>5. ~sema /\ interval > 0
    BY <1>1, <1>3
  <2> QED
    BY <2>2, <2>3, <2>4, <2>5
<1> QED
  BY <1>2, <1>3

LEMMA TickIs ==
  ASSUME Tick
  PROVE  /\ callbacks = 0 /\ pc["main"] # "dead"
         /\ callbacks' = Cardinality(Over) /\ tickers' = Ticked
         /\ slept' = (IF slept < prog.maxslept THEN slept + 1 ELSE slept)
         /\ due' = (IF due > 0 THEN due - 1 ELSE 0)
         /\ UNCHANGED <<prog, value, interval, sema, signal, pc, call, unfinished, nap, oact,
                        remaining, started>>
  BY DEF Tick, Over, Ticked

\* What stays well-formed when the timer's callback goes on, and when it has to.
LEMMA TypeOfRest ==
  ASSUME TypeOK, PlaceInv, UNCHANGED <<tickers, sema>> \/ CallEvery
  PROVE  tickers' \subseteq Event /\ IsFiniteSet(tickers') /\ sema' \in BOOLEAN
<1>1. tickers \subseteq Event /\ IsFiniteSet(tickers) /\ sema \in BOOLEAN
  BY DEF TypeOK, PlaceInv, Event
<1> QED
  BY <1>1, CallEveryIs

LEMMA AlarmTypeStep ==
  ASSUME TypeOK, PlaceInv, [Next]_vars
  PROVE  TypeOK' /\ IsFiniteSet(tickers')
<1>0. /\ prog' = prog /\ prog \in Programs /\ prog.maxslept \in Nat /\ prog.maxcalls \in Nat
      /\ prog.times \subseteq Nat /\ prog.intervals \subseteq Nat /\ prog.naps \subseteq Nat \ {0}
      /\ prog.setters \subseteq Callers
  BY AlarmProgramStays, ProgramTypes DEF TypeOK
<1>t. /\ TypeOK /\ tickers \subseteq Event /\ IsFiniteSet(tickers)
      /\ pc \in [main : MainPcs, handler : HandlerPcs]
      /\ then["handler"] = "run" /\ then["main"] \in {"run", "armed", "suspend", "unmask"}
  BY DEF TypeOK, PlaceInv, MainPcs, HandlerPcs, Event
<1>pc. pc["main"] \in MainPcs /\ pc["handler"] \in HandlerPcs
  BY <1>t
<1>m. /\ {"remove", "assign", "add", "run"} \subseteq MainPcs \cap HandlerPcs
      /\ SleepSteps \subseteq MainPcs /\ "dead" \notin SleepSteps \cup SetitimerSteps
  BY DEF MainPcs, HandlerPcs, SetitimerSteps, SleepSteps
<1>u. SleepSteps = {"armed", "suspend", "sleep", "wait", "woken", "unmask"}
  BY DEF SleepSteps
<1>a. ASSUME NEW p \in [main : MainPcs, handler : HandlerPcs]
      PROVE  p \in [main : SetitimerSteps \cup SleepSteps \cup {"run", "dead"},
                    handler : SetitimerSteps \cup {"none", "run"}]
  BY DEF MainPcs, HandlerPcs
<1>1. CASE UNCHANGED vars
  BY <1>1, <1>t DEF vars, timer, signal, call, sleep, TypeOK
<1>2. CASE Tick
  <2>1. /\ callbacks' \in Nat /\ tickers' \subseteq [left : Nat \ {0}, every : Nat, no : Nat] /\ IsFiniteSet(tickers')
    BY <1>2, <1>t, TickIs, TickedType DEF Event
  <2>2. slept' \in 0 .. prog.maxslept /\ due' \in Nat
    BY <1>2, <1>0, TickIs DEF TypeOK
  <2> QED
    BY <1>2, <2>1, <2>2, <1>0, TickIs DEF TypeOK, signal, call
<1>3. CASE CallBack
  <2>1. callbacks' \in Nat
    BY <1>3 DEF CallBack, TypeOK
  <2>2. CASE blocked \/ pc["handler"] # "none"
    <3>1. /\ pended' = TRUE /\ sleeping' = (sleeping /\ pc["handler"] # "none")
          /\ UNCHANGED <<act, pc, unfinished>> /\ CallEvery
      BY <1>3, <2>2 DEF CallBack
    <3>2. sleeping' \in BOOLEAN /\ (sleeping' => pc'["main"] = "wait")
      BY <3>1 DEF TypeOK
    <3>3. tickers' \subseteq [left : Nat \ {0}, every : Nat, no : Nat] /\ IsFiniteSet(tickers') /\ sema' \in BOOLEAN
      BY <3>1, TypeOfRest DEF Event
    <3> QED
      BY <1>3, <1>0, <2>1, <3>1, <3>2, <3>3 DEF CallBack, TypeOK, call, sleep
  <2>3. CASE ~(blocked \/ pc["handler"] # "none")
    <3>1. /\ Post(pc["main"]) /\ pended' = pended /\ unfinished' = (act = "user")
          /\ (UNCHANGED <<tickers, sema>> \/ CallEvery)
      BY <1>3, <2>3 DEF CallBack
    <3>2. /\ act' = "default" /\ sleeping' = FALSE
          /\ pc' \in [main : MainPcs, handler : HandlerPcs]
          /\ pc'["handler"] = IF act = "user" THEN "run" ELSE "none"
      BY <3>1, <1>pc, PostIs
    <3>3. tickers' \subseteq [left : Nat \ {0}, every : Nat, no : Nat] /\ IsFiniteSet(tickers') /\ sema' \in BOOLEAN
      BY <3>1, TypeOfRest DEF Event
    <3>4. unfinished' \in BOOLEAN /\ (unfinished' => pc'["handler"] # "none")
      BY <3>1, <3>2
    <3> QED
      BY <1>3, <1>0, <1>a, <2>1, <3>1, <3>2, <3>3, <3>4 DEF CallBack, TypeOK, call, sleep
  <2> QED
    BY <2>2, <2>3
<1>4. CASE HandlerReturns
  <2>1. /\ pc' \in [main : MainPcs, handler : HandlerPcs] /\ sleeping' = FALSE
        /\ pended' \in BOOLEAN /\ act' \in {"default", "user", "nap"}
    <3>1. CASE pended /\ ~blocked
      <4>1. pended' = FALSE /\ Post(pc["main"])
        BY <1>4, <3>1 DEF HandlerReturns
      <4> QED
        BY <4>1, <1>pc, PostIs
    <3>2. CASE ~(pended /\ ~blocked)
      <4>1. pc' = [pc EXCEPT !["handler"] = "none"] /\ sleeping' = FALSE /\ UNCHANGED <<pended, act>>
        BY <1>4, <3>2 DEF HandlerReturns
      <4>2. pc' \in [main : MainPcs, handler : HandlerPcs]
        BY <4>1, <1>t DEF HandlerPcs
      <4> QED
        BY <4>1, <4>2 DEF TypeOK
    <3> QED
      BY <3>1, <3>2
  <2>2. /\ UNCHANGED <<tickers, sema>> \/ CallEvery
        /\ unfinished' \in BOOLEAN /\ (unfinished' => pc'["handler"] # "none")
    <3>1. CASE unfinished /\ pc'["handler"] = "none"
      BY <1>4, <3>1 DEF HandlerReturns
    <3>2. CASE ~(unfinished /\ pc'["handler"] = "none")
      BY <1>4, <3>2 DEF HandlerReturns, TypeOK
    <3> QED
      BY <3>1, <3>2
  <2>3. tickers' \subseteq [left : Nat \ {0}, every : Nat, no : Nat] /\ IsFiniteSet(tickers') /\ sema' \in BOOLEAN
    BY <2>2, TypeOfRest DEF Event
  <2> QED
    BY <1>4, <1>0, <1>a, <2>1, <2>2, <2>3 DEF HandlerReturns, TypeOK, call, sleep
<1>5. CASE OtherSignal
  BY <1>5, <1>0, <1>t DEF OtherSignal, TypeOK, timer, call, sleep
<1>6. ASSUME NEW c \in Callers, RemoveTicker(c) PROVE TypeOK' /\ IsFiniteSet(tickers')
  <2>1. tickers' \subseteq tickers /\ IsFiniteSet(tickers')
    <3>1. tickers' \subseteq tickers
      BY <1>6 DEF RemoveTicker
    <3> QED
      BY <3>1, <1>t, FS_Subset
  <2>2. /\ pc' \in [main : MainPcs, handler : HandlerPcs]
        /\ pc'[c] = "assign" /\ \A d \in Callers : d # c => pc'[d] = pc[d]
    BY <1>6, <1>m, PcExcept DEF RemoveTicker
  <2>3. old' \in [Callers -> Nat] /\ due' \in Nat
    BY <1>6 DEF RemoveTicker, TypeOK
  <2>4. (sleeping' => pc'["main"] = "wait") /\ (unfinished' => pc'["handler"] # "none")
    BY <1>6, <2>2 DEF RemoveTicker, TypeOK, signal, Callers
  <2> QED
    BY <1>6, <1>0, <1>a, <2>1, <2>2, <2>3, <2>4 DEF RemoveTicker, TypeOK, signal, sleep
<1>7. ASSUME NEW c \in Callers, Assign(c) PROVE TypeOK' /\ IsFiniteSet(tickers')
  <2>1. /\ pc' \in [main : MainPcs, handler : HandlerPcs]
        /\ pc'[c] = "add" /\ \A d \in Callers : d # c => pc'[d] = pc[d]
    BY <1>7, <1>m, PcExcept DEF Assign
  <2>2. (sleeping' => pc'["main"] = "wait") /\ (unfinished' => pc'["handler"] # "none")
    BY <1>7, <2>1 DEF Assign, TypeOK, signal, Callers
  <2>3. value' \in Nat /\ interval' \in Nat
    BY <1>7 DEF Assign, TypeOK
  <2> QED
    BY <1>7, <1>0, <1>a, <1>t, <2>1, <2>2, <2>3 DEF Assign, TypeOK, signal, sleep, call
<1>8. ASSUME NEW c \in Callers, AddTicker(c) PROVE TypeOK' /\ IsFiniteSet(tickers')
  <2>1. new[c].value \in Nat /\ then[c] \in {"run", "armed", "suspend", "unmask"}
        /\ (c = "handler" => then[c] = "run")
    BY <1>t DEF TypeOK, Callers
  <2>2. tickers' \subseteq Event /\ IsFiniteSet(tickers')
    <3>1. CASE new[c].value = 0
      BY <1>8, <3>1, <1>t DEF AddTicker
    <3>2. CASE new[c].value # 0
      <4> DEFINE e == NewTicker(Delay(new[c].value), 0)
      <4>1. e \in Event
        BY <3>2, <2>1, <1>t, DelayType, NewTickerIs
      <4>2. tickers' = tickers \cup {e}
        BY <1>8, <3>2 DEF AddTicker
      <4> HIDE DEF e
      <4> QED
        BY <4>1, <4>2, <1>t, FS_AddElement
    <3> QED
      BY <3>1, <3>2
  <2>3. /\ pc' \in [main : MainPcs, handler : HandlerPcs]
        /\ (sleeping => pc'["main"] = "wait") /\ (unfinished => pc'["handler"] # "none")
    <3>1. pc[c] = "add" /\ pc' = [pc EXCEPT ![c] = then[c]]
      BY <1>8 DEF AddTicker
    <3>2. CASE c = "main"
      <4>1. then["main"] \in MainPcs
        BY <1>t, <1>m, <1>u
      <4> QED
        BY <3>1, <3>2, <4>1, MainExcept DEF TypeOK
    <3>3. CASE c = "handler"
      <4>1. pc' = [pc EXCEPT ![c] = "run"] /\ "run" \in MainPcs \cap HandlerPcs
        BY <3>1, <3>3, <2>1, <1>m
      <4> QED
        BY <3>3, <4>1, PcExcept DEF TypeOK, Callers
    <3> QED
      BY <3>2, <3>3 DEF Callers
  <2>4. due' \in Nat
    BY <1>8, <2>1, DelayType DEF AddTicker, TypeOK
  <2> QED
    BY <1>8, <1>0, <1>a, <2>2, <2>3, <2>4 DEF AddTicker, TypeOK, signal, sleep, call, Event
<1>9. ASSUME NEW c \in Callers, Sigaction(c) PROVE TypeOK' /\ IsFiniteSet(tickers')
  BY <1>9, <1>0, <1>t DEF Sigaction, TypeOK, timer, call, sleep
<1>10. ASSUME NEW c \in Callers, NEW v \in Nat, NEW i \in Nat, SetTimer(c, v, i)
       PROVE  TypeOK' /\ IsFiniteSet(tickers')
  <2>1. /\ pc' \in [main : MainPcs, handler : HandlerPcs]
        /\ pc'[c] = "remove" /\ \A d \in Callers : d # c => pc'[d] = pc[d]
    BY <1>10, <1>m, PcExcept DEF SetTimer, Setitimer
  <2>2. (sleeping' => pc'["main"] = "wait") /\ (unfinished' => pc'["handler"] # "none")
    BY <1>10, <2>1 DEF SetTimer, Starts, TypeOK, signal, Callers
  <2>3. new' \in [Callers -> [value : Nat, interval : Nat]] /\ then' \in [Callers -> SleepSteps \cup {"run"}]
    BY <1>10 DEF SetTimer, Setitimer, TypeOK
  <2>4. started' \in 0 .. prog.maxcalls
    BY <1>10, <1>0 DEF SetTimer, Starts, TypeOK
  <2> QED
    BY <1>10, <1>0, <1>a, <1>t, <2>1, <2>2, <2>3, <2>4 DEF SetTimer, Setitimer, TypeOK, timer, signal, sleep
<1>11. ASSUME NEW n \in Nat, SleepBegin(n) PROVE TypeOK' /\ IsFiniteSet(tickers')
  <2>1. /\ pc' \in [main : MainPcs, handler : HandlerPcs]
        /\ pc'["main"] = "remove" /\ pc'["handler"] = pc["handler"]
    BY <1>11, <1>m, MainExcept DEF SleepBegin, Setitimer
  <2>2. (sleeping' => pc'["main"] = "wait") /\ (unfinished' => pc'["handler"] # "none")
    BY <1>11, <2>1 DEF SleepBegin, Starts, TypeOK
  <2>3. new' \in [Callers -> [value : Nat, interval : Nat]] /\ then' \in [Callers -> SleepSteps \cup {"run"}]
    BY <1>11, <1>u, NapDivided DEF SleepBegin, Setitimer, TypeOK
  <2>4. started' \in 0 .. prog.maxcalls
    BY <1>11, <1>0 DEF SleepBegin, Starts, TypeOK
  <2>5. oact' \in {"default", "user"}
    <3>1. Place = "run"
      BY <1>11 DEF Place, SleepBegin, Starts, SetitimerSteps
    <3>2. act # "nap"
      BY <3>1 DEF PlaceInv
    <3> QED
      BY <3>2, <1>11 DEF SleepBegin, TypeOK
  <2> QED
    <3>1. pc' \in [main : SetitimerSteps \cup SleepSteps \cup {"run", "dead"},
                   handler : SetitimerSteps \cup {"none", "run"}]
      BY <2>1, <1>a
    <3>2. nap' \in Nat /\ slept' \in 0 .. prog.maxslept /\ blocked' = TRUE /\ act' = "nap"
          /\ UNCHANGED <<prog, timer, pended, sleeping, unfinished, remaining, due, old>>
      BY <1>11, <1>0 DEF SleepBegin, Setitimer
    <3> QED
      BY <1>0, <1>t, <2>2, <2>3, <2>4, <2>5, <3>1, <3>2 DEF TypeOK, timer
<1>12. CASE SleepArmed
  <2>1. remaining' \in Nat
    <3>1. old["main"] \in Nat /\ new["main"].value \in Nat
      BY DEF TypeOK, Callers
    <3> QED
      BY <1>12, <3>1, RemainingType DEF SleepArmed, UalarmResult
  <2>2. CASE Sooner(UalarmResult \div USECS)
    <3>1. act' = oact /\ Setitimer("main", nap * USECS, 0, "suspend")
      BY <1>12, <2>2 DEF SleepArmed
    <3>2. /\ pc' \in [main : MainPcs, handler : HandlerPcs]
          /\ pc'["main"] = "remove" /\ pc'["handler"] = pc["handler"]
      BY <3>1, <1>m, MainExcept DEF Setitimer
    <3>3. (sleeping' => pc'["main"] = "wait") /\ (unfinished' => pc'["handler"] # "none")
      BY <1>12, <3>2 DEF SleepArmed, TypeOK
    <3>4. new' \in [Callers -> [value : Nat, interval : Nat]] /\ then' \in [Callers -> SleepSteps \cup {"run"}]
      BY <3>1, <1>u, NapDivided DEF Setitimer, TypeOK
    <3> QED
      BY <1>12, <1>0, <1>a, <1>t, <2>1, <3>1, <3>2, <3>3, <3>4 DEF SleepArmed, Setitimer, TypeOK, timer
  <2>3. CASE ~Sooner(UalarmResult \div USECS)
    <3>1. pc' = [pc EXCEPT !["main"] = "suspend"] /\ UNCHANGED <<act, call>>
      BY <1>12, <2>3 DEF SleepArmed
    <3>2. /\ pc' \in [main : MainPcs, handler : HandlerPcs]
          /\ pc'["main"] = "suspend" /\ pc'["handler"] = pc["handler"]
      BY <3>1, <1>m, <1>u, MainExcept
    <3>3. (sleeping' => pc'["main"] = "wait") /\ (unfinished' => pc'["handler"] # "none")
      BY <1>12, <3>2 DEF SleepArmed, TypeOK
    <3> QED
      BY <1>12, <1>0, <1>a, <1>t, <2>1, <3>1, <3>2, <3>3 DEF SleepArmed, TypeOK, timer, call
  <2> QED
    BY <2>2, <2>3
<1>13. ASSUME NEW b \in BOOLEAN, NEW next \in {"sleep", "woken", "run"}, pc["main"] # "wait" \/ ~sleeping,
              SetMask(b, next), pc["handler"] = "none",
              UNCHANGED <<prog, timer, call, unfinished, sleep, started, due>>
       PROVE  TypeOK' /\ IsFiniteSet(tickers')
  <2>1. next \in MainPcs \ {"dead"}
    BY <1>13, <1>m, <1>u
  <2>2. sleeping = FALSE /\ act \in {"default", "user", "nap"} /\ pended \in BOOLEAN
    BY <1>13 DEF TypeOK
  <2>3. /\ pc' \in [main : MainPcs, handler : HandlerPcs] /\ blocked' = b
        /\ \/ pended' = FALSE /\ act' = "default" /\ sleeping' = FALSE
           \/ pended' = pended /\ act' = act /\ sleeping' = sleeping
    BY <1>13, <2>1, SetMaskIs
  <2>4. /\ pc' \in [main : MainPcs, handler : HandlerPcs] /\ blocked' \in BOOLEAN
        /\ act' \in {"default", "user", "nap"} /\ pended' \in BOOLEAN /\ sleeping' = FALSE
    BY <1>13, <2>2, <2>3
  <2>5. unfinished' = FALSE
    BY <1>13 DEF TypeOK
  <2> QED
    <3>1. pc' \in [main : SetitimerSteps \cup SleepSteps \cup {"run", "dead"},
                   handler : SetitimerSteps \cup {"none", "run"}]
      BY <2>4, <1>a
    <3>2. UNCHANGED <<value, interval, tickers, sema, callbacks, new, old, then, nap, oact,
                      remaining, slept, started, due>>
      BY <1>13 DEF timer, call, sleep
    <3> QED
      BY <1>0, <1>t, <2>4, <2>5, <3>1, <3>2 DEF TypeOK
<1>14. CASE Suspend
  <2>1. SetMask(FALSE, "sleep") /\ pc["handler"] = "none" /\ pc["main"] # "wait"
        /\ UNCHANGED <<prog, timer, call, unfinished, sleep, started, due>>
    BY <1>14 DEF Suspend, Goes
  <2> QED
    BY <2>1, <1>13
<1>15. CASE SuspendSleeps
  <2>1. /\ pc' \in [main : MainPcs, handler : HandlerPcs]
        /\ pc'["main"] = "wait" /\ pc'["handler"] = pc["handler"]
    BY <1>15, <1>m, <1>u, MainExcept DEF SuspendSleeps
  <2>2. (sleeping' => pc'["main"] = "wait") /\ (unfinished' => pc'["handler"] # "none")
    BY <1>15, <2>1 DEF SuspendSleeps, TypeOK
  <2> QED
    BY <1>15, <1>0, <1>a, <1>t, <2>1, <2>2 DEF SuspendSleeps, TypeOK, timer, call, sleep
<1>16. CASE SuspendReturns
  <2>1. SetMask(TRUE, "woken") /\ pc["handler"] = "none" /\ ~sleeping
        /\ UNCHANGED <<prog, timer, call, unfinished, sleep, started, due>>
    BY <1>16 DEF SuspendReturns, Goes
  <2> QED
    BY <2>1, <1>13
<1>17. CASE SleepWoken
  <2> DEFINE rest == IF remaining > slept THEN (remaining - slept) * USECS ELSE 0
  <2>1. rest \in Nat
    BY <1>0, NapDivided DEF TypeOK
  <2> HIDE DEF rest
  <2>2. Setitimer("main", rest, 0, "unmask") /\ pc["main"] = "woken"
    BY <1>17 DEF SleepWoken, rest
  <2>3. /\ pc' \in [main : MainPcs, handler : HandlerPcs]
        /\ pc'["main"] = "remove" /\ pc'["handler"] = pc["handler"]
    BY <2>2, <1>m, MainExcept DEF Setitimer
  <2>4. (sleeping' => pc'["main"] = "wait") /\ (unfinished' => pc'["handler"] # "none")
    BY <1>17, <2>3 DEF SleepWoken, TypeOK
  <2>5. new' \in [Callers -> [value : Nat, interval : Nat]] /\ then' \in [Callers -> SleepSteps \cup {"run"}]
    BY <2>1, <2>2, <1>u DEF Setitimer, TypeOK
  <2>6. act' \in {"default", "user", "nap"} /\ old' = old
    BY <1>17, <2>2 DEF SleepWoken, Setitimer, TypeOK
  <2> QED
    BY <1>17, <1>0, <1>a, <1>t, <2>3, <2>4, <2>5, <2>6 DEF SleepWoken, TypeOK, timer, sleep
<1>18. CASE SleepReturns
  <2>1. SetMask(FALSE, "run") /\ pc["handler"] = "none" /\ pc["main"] # "wait"
        /\ UNCHANGED <<prog, timer, call, unfinished, sleep, started, due>>
    BY <1>18 DEF SleepReturns, Goes
  <2> QED
    BY <2>1, <1>13
<1> QED
  BY <1>0, <1>1, <1>2, <1>3, <1>4, <1>5, <1>6, <1>7, <1>8, <1>9, <1>10, <1>11, <1>12, <1>14, <1>15,
     <1>16, <1>17, <1>18 DEF Next, InSetitimer, Sleep

\* How the program gets from place to place.
LEMMA PlaceKept ==
  ASSUME pc'["main"] = pc["main"], then'["main"] = then["main"]
  PROVE  Place' = Place
  BY DEF Place

LEMMA PlaceOfPost ==
  ASSUME TypeOK, pc["main"] # "dead", Post(pc["main"]), then' = then
  PROVE  /\ act' = "default" /\ sleeping' = FALSE
         /\ \/ act = "default" /\ pc'["main"] = "dead" /\ pc'["handler"] = "none"
            \/ /\ act # "default" /\ pc'["main"] = pc["main"] /\ Place' = Place
               /\ pc'["handler"] = IF act = "user" THEN "run" ELSE "none"
<1>1. pc["main"] \in MainPcs
  BY DEF TypeOK, MainPcs
<1>2. /\ act' = "default" /\ sleeping' = FALSE
      /\ pc'["main"] = IF act = "default" THEN "dead" ELSE pc["main"]
      /\ pc'["handler"] = IF act = "user" THEN "run" ELSE "none"
  BY <1>1, PostIs
<1> QED
  BY <1>2, PlaceKept

\* A step of setitimer in which c goes on to x.
LEMMA PlaceOfSetitimer ==
  ASSUME TypeOK, PlaceInv, NEW c \in Callers, pc[c] \in SetitimerSteps, then' = then,
         \/ \E x \in SetitimerSteps : pc' = [pc EXCEPT ![c] = x]
         \/ pc' = [pc EXCEPT ![c] = then[c]]
  PROVE  /\ Place' = Place /\ (pc'["main"] # "dead" \/ pc'["main"] = pc["main"])
         /\ \A d \in Callers : d # c => pc'[d] = pc[d]
         /\ pc[c] # "none"
<1>1. /\ then["handler"] = "run" /\ then["main"] \in {"run", "armed", "suspend", "unmask"}
      /\ SetitimerSteps = {"remove", "assign", "add"}
      /\ SetitimerSteps \cup {"run"} \subseteq MainPcs \cap HandlerPcs
      /\ {"run", "armed", "suspend", "unmask"} \subseteq MainPcs
  BY DEF PlaceInv, SetitimerSteps, MainPcs, HandlerPcs, SleepSteps
<1>2. CASE c = "main"
  <2>1. \E x \in SetitimerSteps \cup {then["main"]} : pc' = [pc EXCEPT !["main"] = x]
    BY <1>2
  <2>2. /\ pc'["main"] \in SetitimerSteps \cup {then["main"]} /\ pc'["handler"] = pc["handler"]
    BY <1>1, <2>1, MainExcept
  <2> QED
    BY <1>1, <1>2, <2>2 DEF Place, Callers
<1>3. CASE c = "handler"
  <2>1. \E x \in SetitimerSteps \cup {"run"} : pc' = [pc EXCEPT ![c] = x]
    BY <1>1, <1>3
  <2>2. \A d \in Callers : d # c => pc'[d] = pc[d]
    BY <1>1, <2>1, PcExcept
  <2> QED
    BY <1>1, <1>3, <2>2, PlaceKept DEF Callers
<1> QED
  BY <1>2, <1>3 DEF Callers

LEMMA PlaceStep ==
  ASSUME TypeOK, PlaceInv, [Next]_vars
  PROVE  PlaceInv'
<1>0. TypeOK' /\ IsFiniteSet(tickers') /\ prog.setters \subseteq Callers
  BY AlarmTypeStep, ProgramTypes DEF TypeOK
<1>t. /\ then["handler"] = "run" /\ then["main"] \in {"run", "armed", "suspend", "unmask"}
      /\ pc["main"] # "dead" => (blocked <=> Place \in {"armed", "suspend", "woken", "unmask"})
      /\ act = "nap" => \/ Place = "armed"
                        \/ Place \in {"suspend", "sleep", "wait", "woken"} /\ ~Sooner(remaining)
      /\ (pc["main"] = "dead" \/ blocked \/ sleeping) => pc["handler"] = "none"
  BY DEF PlaceInv
<1>u. /\ SetitimerSteps = {"remove", "assign", "add"}
      /\ pc["main"] \in MainPcs /\ pc["handler"] \in HandlerPcs
      /\ SetitimerSteps \cup {"run"} \subseteq MainPcs \cap HandlerPcs
      /\ {"armed", "suspend", "sleep", "wait", "woken", "unmask"} \subseteq MainPcs
      /\ then \in [Callers -> SleepSteps \cup {"run"}] /\ act \in {"default", "user", "nap"}
      /\ oact \in {"default", "user"}
      /\ Callers = {"main", "handler"}
  BY DEF TypeOK, MainPcs, HandlerPcs, SetitimerSteps, SleepSteps, Callers
\* Steps that leave the program where it is, but for the delivery of a signal.
<1>a. ASSUME then' = then, blocked' = blocked, UNCHANGED <<remaining, nap>>,
             \/ pc'["main"] = "dead" /\ pc'["handler"] = "none" /\ act' = "default"
             \/ /\ act' = act \/ act' # "nap"
                /\ Place' = Place
                /\ (pc'["main"] = "dead" <=> pc["main"] = "dead")
                /\ (pc'["main"] = "dead" \/ blocked \/ sleeping') => pc'["handler"] = "none"
      PROVE  PlaceInv'
  <2>1. CASE pc'["main"] = "dead" /\ pc'["handler"] = "none" /\ act' = "default"
    BY <1>a, <1>0, <1>t, <2>1 DEF PlaceInv
  <2>2. CASE /\ act' = act \/ act' # "nap"
             /\ Place' = Place
             /\ (pc'["main"] = "dead" <=> pc["main"] = "dead")
             /\ (pc'["main"] = "dead" \/ blocked \/ sleeping') => pc'["handler"] = "none"
    <3>1. Sooner(remaining)' = Sooner(remaining)
      BY <1>a DEF Sooner
    <3> QED
      BY <1>a, <1>0, <1>t, <2>2, <3>1 DEF PlaceInv
  <2> QED
    BY <1>a, <2>1, <2>2
\* Steps that take the program on.
<1>b. ASSUME then' = [then EXCEPT !["main"] = then'["main"]],
             then'["main"] \in {"run", "armed", "suspend", "unmask"},
             pc'["main"] # "dead",
             blocked' <=> Place' \in {"armed", "suspend", "woken", "unmask"},
             act' = "nap" => \/ Place' = "armed"
                             \/ Place' \in {"suspend", "sleep", "wait", "woken"} /\ ~Sooner(remaining)',
             (blocked' \/ sleeping') => pc'["handler"] = "none"
      PROVE  PlaceInv'
  <2>1. then'["handler"] = "run"
    BY <1>b, <1>t, <1>u
  <2> QED
    BY <1>b, <1>0, <2>1 DEF PlaceInv
<1>1. CASE UNCHANGED vars
  <2>1. Place' = Place
    BY <1>1 DEF Place, vars, call
  <2> QED
    BY <1>a, <1>1, <1>t, <2>1 DEF vars, signal, sleep, call
<1>2. CASE Tick
  <2>1. Place' = Place /\ then' = then /\ UNCHANGED <<signal, pc, remaining, nap>>
    BY <1>2, TickIs, PlaceKept DEF call
  <2> QED
    BY <1>a, <1>t, <2>1 DEF signal
<1>3. CASE CallBack
  <2>1. then' = then /\ blocked' = blocked /\ UNCHANGED <<remaining, nap>> /\ pc["main"] # "dead"
    BY <1>3 DEF CallBack, call, sleep
  <2>2. CASE blocked \/ pc["handler"] # "none"
    <3>1. /\ sleeping' = (sleeping /\ pc["handler"] # "none") /\ UNCHANGED <<act, pc>>
      BY <1>3, <2>2 DEF CallBack
    <3>2. Place' = Place
      BY <2>1, <3>1, PlaceKept
    <3> QED
      BY <1>a, <1>t, <2>1, <3>1, <3>2
  <2>3. CASE ~(blocked \/ pc["handler"] # "none")
    <3>1. Post(pc["main"])
      BY <1>3, <2>3 DEF CallBack
    <3> QED
      BY <1>a, <2>1, <2>3, <3>1, PlaceOfPost
  <2> QED
    BY <2>2, <2>3
<1>4. CASE HandlerReturns
  <2>1. then' = then /\ blocked' = blocked /\ UNCHANGED <<remaining, nap>> /\ pc["handler"] = "run"
    BY <1>4 DEF HandlerReturns, call, sleep
  <2>2. pc["main"] # "dead" /\ ~blocked
    BY <2>1, <1>t
  <2>3. CASE pended
    <3>1. Post(pc["main"])
      BY <1>4, <2>2, <2>3 DEF HandlerReturns
    <3> QED
      BY <1>a, <2>1, <2>2, <3>1, PlaceOfPost
  <2>4. CASE ~pended
    <3>1. pc' = [pc EXCEPT !["handler"] = "none"] /\ sleeping' = FALSE /\ act' = act
      BY <1>4, <2>4 DEF HandlerReturns
    <3>2. pc'["main"] = pc["main"] /\ pc'["handler"] = "none"
      BY <3>1 DEF TypeOK
    <3>3. Place' = Place
      BY <2>1, <3>2, PlaceKept
    <3> QED
      BY <1>a, <2>1, <2>2, <3>1, <3>2, <3>3
  <2> QED
    BY <2>3, <2>4
<1>5. CASE OtherSignal
  <2>1. Place' = Place /\ then' = then /\ UNCHANGED <<blocked, act, pc, remaining, nap>> /\ sleeping' = FALSE
    BY <1>5, PlaceKept DEF OtherSignal, call, sleep
  <2> QED
    BY <1>a, <1>t, <2>1
<1>6. ASSUME NEW c \in Callers, RemoveTicker(c) \/ Assign(c) \/ AddTicker(c) PROVE PlaceInv'
  <2>1. /\ pc[c] \in SetitimerSteps /\ then' = then /\ UNCHANGED <<signal, remaining, nap>>
        /\ \/ \E x \in SetitimerSteps : pc' = [pc EXCEPT ![c] = x]
           \/ pc' = [pc EXCEPT ![c] = then[c]]
    BY <1>6, <1>u DEF RemoveTicker, Assign, AddTicker, call, sleep
  <2>2. /\ Place' = Place /\ (pc'["main"] # "dead" \/ pc'["main"] = pc["main"])
        /\ \A d \in Callers : d # c => pc'[d] = pc[d]
        /\ pc[c] # "none"
    BY <2>1, <1>u, PlaceOfSetitimer
  <2>3. pc["main"] # "dead"
    BY <2>1, <2>2, <1>t, <1>u
  <2>4. (blocked \/ sleeping) => pc'["handler"] = "none"
    BY <2>2, <1>t, <1>u
  <2>5. pc'["main"] # "dead"
    BY <2>2, <2>3
  <2> QED
    BY <1>a, <2>1, <2>2, <2>3, <2>4, <2>5 DEF signal
<1>7. ASSUME NEW c \in Callers, Sigaction(c) PROVE PlaceInv'
  <2>1. Place' = Place /\ then' = then /\ UNCHANGED <<blocked, sleeping, pc, remaining, nap>> /\ act' = "user"
    BY <1>7, PlaceKept DEF Sigaction, call, sleep
  <2> QED
    BY <1>a, <1>t, <2>1
<1>8. ASSUME NEW c \in Callers, NEW v, NEW i, SetTimer(c, v, i) PROVE PlaceInv'
  <2>1. /\ pc[c] = "run" /\ pc' = [pc EXCEPT ![c] = "remove"] /\ then' = [then EXCEPT ![c] = "run"]
        /\ UNCHANGED <<signal, remaining, nap>>
    BY <1>8 DEF SetTimer, Setitimer, Starts, sleep
  <2>2. pc'[c] = "remove" /\ \A d \in Callers : d # c => pc'[d] = pc[d]
    BY <2>1, <1>u, PcExcept
  <2>3. CASE c = "handler"
    <3>1. then' = then /\ pc'["main"] = pc["main"]
      BY <2>1, <2>2, <2>3, <1>t, <1>u
    <3>2. Place' = Place
      BY <3>1, PlaceKept
    <3> QED
      BY <1>a, <1>t, <2>1, <2>3, <3>1, <3>2 DEF signal
  <2>4. CASE c = "main"
    <3>1. pc'["main"] = "remove" /\ pc'["handler"] = pc["handler"] /\ then'["main"] = "run"
          /\ then' = [then EXCEPT !["main"] = then'["main"]]
      BY <2>1, <2>2, <2>4, <1>u
    <3>2. Place' = "run" /\ Place = "run"
      BY <2>1, <2>4, <3>1, <1>u DEF Place
    <3>3. Sooner(remaining)' = Sooner(remaining)
      BY <2>1 DEF Sooner
    <3> QED
      BY <1>b, <1>t, <2>1, <2>4, <3>1, <3>2, <3>3 DEF signal
  <2> QED
    BY <2>3, <2>4, <1>u
<1>9. ASSUME NEW n, SleepBegin(n) PROVE PlaceInv'
  <2>1. /\ pc' = [pc EXCEPT !["main"] = "remove"] /\ then' = [then EXCEPT !["main"] = "armed"]
        /\ blocked' = TRUE /\ act' = "nap" /\ pc["handler"] = "none"
    BY <1>9 DEF SleepBegin, Setitimer, Starts, Goes
  <2>2. pc'["main"] = "remove" /\ pc'["handler"] = "none" /\ then'["main"] = "armed"
        /\ then' = [then EXCEPT !["main"] = then'["main"]]
    BY <2>1, <1>u, MainExcept
  <2>3. Place' = "armed"
    BY <2>2, <1>u DEF Place
  <2> QED
    BY <1>b, <2>1, <2>2, <2>3
<1>10. CASE SleepArmed
  <2> DEFINE rem == UalarmResult \div USECS
  <2>1. pc["main"] = "armed" /\ pc["handler"] = "none" /\ remaining' = rem /\ UNCHANGED <<blocked, sleeping, nap>>
    BY <1>10 DEF SleepArmed, Goes
  <2>2. Place = "armed" /\ blocked
    BY <2>1, <1>t, <1>u DEF Place
  <2>3. Sooner(remaining)' = Sooner(rem)
    BY <2>1 DEF Sooner
  <2>4. CASE Sooner(rem)
    <3>1. act' = oact /\ pc' = [pc EXCEPT !["main"] = "remove"] /\ then' = [then EXCEPT !["main"] = "suspend"]
      BY <1>10, <2>4 DEF SleepArmed, Setitimer
    <3>2. pc'["main"] = "remove" /\ pc'["handler"] = "none" /\ then'["main"] = "suspend"
          /\ then' = [then EXCEPT !["main"] = then'["main"]]
      BY <2>1, <3>1, <1>u, MainExcept
    <3>3. Place' = "suspend" /\ act' # "nap"
      BY <3>1, <3>2, <1>u DEF Place
    <3> QED
      BY <1>b, <2>1, <2>2, <3>2, <3>3
  <2>5. CASE ~Sooner(rem)
    <3>1. pc' = [pc EXCEPT !["main"] = "suspend"] /\ then' = then
      BY <1>10, <2>5 DEF SleepArmed, call
    <3>2. pc'["main"] = "suspend" /\ pc'["handler"] = "none"
          /\ then' = [then EXCEPT !["main"] = then'["main"]]
      BY <2>1, <3>1, <1>u, MainExcept
    <3>3. Place' = "suspend"
      BY <3>2, <1>u DEF Place
    <3> HIDE DEF rem
    <3> QED
      BY <1>b, <1>t, <2>1, <2>2, <2>3, <2>5, <3>1, <3>2, <3>3
  <2> QED
    BY <2>4, <2>5
\* The three changes of the mask.
<1>11. ASSUME NEW b \in BOOLEAN, NEW next \in {"sleep", "woken", "run"}, b <=> next = "woken",
              SetMask(b, next), pc["handler"] = "none",
              pc["main"] \in {"suspend", "wait", "unmask"}, ~sleeping,
              next = "run" <=> pc["main"] = "unmask",
              UNCHANGED <<call, sleep>>
       PROVE  PlaceInv'
  <2>1. /\ blocked' = b /\ then' = then /\ UNCHANGED <<remaining, nap>>
        /\ then' = [then EXCEPT !["main"] = then'["main"]]
        /\ Sooner(remaining)' = Sooner(remaining)
    <3>1. blocked' = b /\ then' = then /\ UNCHANGED <<remaining, nap>>
      BY <1>11 DEF call, sleep, SetMask
    <3>2. then' = [then EXCEPT !["main"] = then'["main"]]
      BY <3>1, <1>u
    <3> QED
      BY <3>1, <3>2 DEF Sooner
  <2>2. next \in MainPcs \ {"dead"}
    BY <1>11, <1>u
  <2>3. \/ /\ act' = "default" /\ sleeping' = FALSE /\ ~b
           /\ pc'["main"] = IF act = "default" THEN "dead" ELSE next
           /\ pc'["handler"] = IF act = "user" THEN "run" ELSE "none"
        \/ act' = act /\ sleeping' = sleeping /\ pc'["main"] = next /\ pc'["handler"] = "none"
    BY <1>11, <2>2, SetMaskIs
  <2>4. CASE act = "default" /\ act' = "default" /\ sleeping' = FALSE /\ pc'["main"] = "dead" /\ pc'["handler"] = "none"
    BY <1>0, <1>t, <2>1, <2>4 DEF PlaceInv
  <2>5. CASE /\ act' = "default" /\ sleeping' = FALSE /\ ~b /\ pc'["main"] = next
    <3>1. Place' = next
      BY <1>11, <1>u, <2>5 DEF Place
    <3> QED
      BY <1>11, <1>b, <1>t, <2>1, <2>5, <3>1
  <2>6. CASE act' = act /\ sleeping' = sleeping /\ pc'["main"] = next /\ pc'["handler"] = "none"
    <3>1. Place' = next /\ Place = pc["main"]
      BY <1>11, <1>u, <2>6 DEF Place
    <3>2. act' = "nap" => Place' \in {"suspend", "sleep", "wait", "woken"} /\ ~Sooner(remaining)'
      BY <1>11, <1>t, <2>1, <2>6, <3>1
    <3> QED
      BY <1>11, <1>b, <1>t, <2>1, <2>6, <3>1, <3>2
  <2> QED
    BY <2>3, <2>4, <2>5, <2>6
<1>12. CASE Suspend
  <2>1. ~sleeping
    BY <1>12 DEF Suspend, TypeOK
  <2> QED
    BY <1>11, <1>12, <2>1 DEF Suspend, Goes
<1>13. CASE SuspendSleeps
  <2>1. pc' = [pc EXCEPT !["main"] = "wait"] /\ then' = then /\ pc["handler"] = "none"
        /\ pc["main"] = "sleep" /\ UNCHANGED <<blocked, act, remaining, nap>>
    BY <1>13 DEF SuspendSleeps, Goes, call, sleep
  <2>2. pc'["main"] = "wait" /\ pc'["handler"] = "none" /\ then' = [then EXCEPT !["main"] = then'["main"]]
    BY <2>1, <1>u, MainExcept
  <2>3. Place' = "wait" /\ Place = "sleep"
    BY <2>1, <2>2, <1>u DEF Place
  <2>4. Sooner(remaining)' = Sooner(remaining)
    BY <2>1 DEF Sooner
  <2> QED
    BY <1>b, <1>t, <2>1, <2>2, <2>3, <2>4
<1>14. CASE SuspendReturns
  BY <1>11, <1>14 DEF SuspendReturns, Goes
<1>15. CASE SleepWoken
  <2>1. /\ pc' = [pc EXCEPT !["main"] = "remove"] /\ then' = [then EXCEPT !["main"] = "unmask"]
        /\ pc["handler"] = "none" /\ pc["main"] = "woken" /\ UNCHANGED <<blocked, sleeping, remaining, nap>>
        /\ act' = (IF Sooner(remaining) THEN act ELSE oact)
    BY <1>15 DEF SleepWoken, Setitimer, Goes, sleep
  <2>2. pc'["main"] = "remove" /\ pc'["handler"] = "none" /\ then'["main"] = "unmask"
        /\ then' = [then EXCEPT !["main"] = then'["main"]]
    BY <2>1, <1>u, MainExcept
  <2>3. Place' = "unmask" /\ Place = "woken"
    BY <2>1, <2>2, <1>u DEF Place
  <2>4. act' # "nap"
    BY <1>t, <1>u, <2>1, <2>3
  <2> QED
    BY <1>b, <1>t, <2>1, <2>2, <2>3, <2>4
<1>16. CASE SleepReturns
  <2>1. ~sleeping
    BY <1>16 DEF SleepReturns, TypeOK
  <2> QED
    BY <1>11, <1>16, <2>1 DEF SleepReturns, Goes
<1> QED
  BY <1>0, <1>1, <1>2, <1>3, <1>4, <1>5, <1>6, <1>7, <1>8, <1>9, <1>10, <1>12, <1>13, <1>14, <1>15, <1>16
     DEF Next, InSetitimer, Sleep

-----------------------------------------------------------------------------
(***************************************************************************)
(* An interval timer goes on.                                              *)
(***************************************************************************)

\* No caller of setitimer is between removing the ticker and setting the timer.
Settled == pc["main"] \notin {"assign", "dead"} /\ pc["handler"] # "assign"

\* The semaphore says that OS_CallEvery has been called; a timer that is set has
\* a ticker, or one that has just gone off, or setitimer is about to add one.
IntervalInv ==
  Settled =>
    /\ sema => \E t \in tickers : t.every > 0
    /\ value > 0 /\ interval > 0 =>
         \/ tickers # {} \/ callbacks > 0 \/ unfinished
         \/ \E c \in Callers : pc[c] = "add" /\ new[c].value = value

LEMMA TickedKeeps ==
  ASSUME tickers \subseteq Event
  PROVE  /\ (\E t \in tickers : t.every > 0) => \E t \in Ticked : t.every > 0
         /\ tickers # {} => Over # {} \/ Ticked # {}
<1>1. ASSUME NEW t \in tickers, t.every > 0 PROVE \E u \in Ticked : u.every > 0
  <2>1. CASE t \in Over
    <3> DEFINE u == [t EXCEPT !.left = t.every]
    <3>1. u \in Ticked
      BY <1>1, <2>1 DEF Ticked
    <3>2. u.every > 0
      BY <1>1 DEF Event
    <3> QED
      BY <3>1, <3>2
  <2>2. CASE t \notin Over
    <3> DEFINE u == [t EXCEPT !.left = @ - 1]
    <3>1. u \in Ticked
      BY <2>2 DEF Ticked
    <3>2. u.every > 0
      BY <1>1 DEF Event
    <3> QED
      BY <3>1, <3>2
  <2> QED
    BY <2>1, <2>2
<1>2. ASSUME tickers # {}, Over = {} PROVE Ticked # {}
  BY <1>2 DEF Ticked
<1> QED
  BY <1>1, <1>2

LEMMA IntervalStep ==
  ASSUME TypeOK, PlaceInv, IntervalInv, [Next]_vars
  PROVE  IntervalInv'
<1>0. TypeOK' /\ prog.setters \subseteq Callers
  BY AlarmTypeStep, ProgramTypes DEF TypeOK
<1>u. /\ SetitimerSteps = {"remove", "assign", "add"} /\ Callers = {"main", "handler"}
      /\ pc["main"] \in MainPcs /\ pc["handler"] \in HandlerPcs
      /\ SetitimerSteps \cup {"run"} \subseteq MainPcs \cap HandlerPcs
      /\ {"armed", "suspend", "sleep", "wait", "woken", "unmask"} \subseteq MainPcs
      /\ value \in Nat /\ interval \in Nat /\ callbacks \in Nat /\ tickers \subseteq Event
      /\ new \in [Callers -> [value : Nat, interval : Nat]]
      /\ then \in [Callers -> SleepSteps \cup {"run"}] /\ sema \in BOOLEAN
  BY DEF TypeOK, MainPcs, HandlerPcs, SetitimerSteps, SleepSteps, Callers, Event
\* Steps that leave the timer alone.
<1>a. ASSUME UNCHANGED <<value, interval, tickers, sema, callbacks, unfinished>>, Settled' => Settled,
             \A c \in Callers : pc[c] = "add" => pc'[c] = "add" /\ new'[c] = new[c]
      PROVE  IntervalInv'
  BY <1>a DEF IntervalInv
\* What the timer's callback does after the signal has been raised.
<1>b. ASSUME CallEvery, UNCHANGED <<value, interval>>, Settled' => Settled PROVE IntervalInv'
  <2>1. \/ (sema \/ interval = 0) /\ tickers' = tickers /\ sema' = sema
        \/ \E t \in tickers' : t.every > 0
    BY <1>b, CallEveryIs
  <2>2. Settled' => /\ sema' => \E t \in tickers' : t.every > 0
                    /\ interval > 0 => tickers' # {}
    BY <1>b, <1>u, <2>1 DEF IntervalInv
  <2> QED
    BY <1>b, <2>2 DEF IntervalInv
\* The callback stops to let a handler run.
<1>c. ASSUME UNCHANGED <<tickers, sema>>, unfinished' = TRUE, Settled' => Settled PROVE IntervalInv'
  BY <1>c DEF IntervalInv
<1>1. CASE UNCHANGED vars
  <2>1. Settled' = Settled
    BY <1>1 DEF vars, Settled
  <2> QED
    BY <1>1, <1>a, <2>1 DEF vars, timer, call
<1>2. CASE Tick
  <2>1. callbacks' = Cardinality(Over) /\ tickers' = Ticked /\ UNCHANGED <<value, interval, sema, pc, unfinished, new>>
    BY <1>2, TickIs DEF call
  <2>2. IsFiniteSet(tickers)
    BY DEF PlaceInv
  <2>3. tickers # {} => callbacks' > 0 \/ tickers' # {}
    BY <2>1, <2>2, <1>u, TickedKeeps, TickedType
  <2>4. (\E t \in tickers : t.every > 0) => \E t \in tickers' : t.every > 0
    BY <2>1, <1>u, TickedKeeps
  <2>5. callbacks = 0 /\ Settled' = Settled
    BY <1>2, <2>1, TickIs DEF Settled
  <2> QED
    BY <2>1, <2>3, <2>4, <2>5 DEF IntervalInv
<1>3. CASE CallBack
  <2>1. UNCHANGED <<value, interval, call>> /\ pc["main"] # "dead"
    BY <1>3 DEF CallBack
  <2>2. CASE blocked \/ pc["handler"] # "none"
    <3>1. pc' = pc /\ CallEvery
      BY <1>3, <2>2 DEF CallBack
    <3>2. Settled' = Settled
      BY <3>1 DEF Settled
    <3> QED
      BY <1>b, <2>1, <3>1, <3>2
  <2>3. CASE ~(blocked \/ pc["handler"] # "none")
    <3>1. /\ Post(pc["main"]) /\ unfinished' = (act = "user")
          /\ IF act = "user" THEN UNCHANGED <<tickers, sema>> ELSE CallEvery
      BY <1>3, <2>3 DEF CallBack
    <3>2. Settled' => Settled
      BY <2>1, <2>3, <3>1, PlaceOfPost DEF Settled, call
    <3>3. CASE act = "user"
      BY <1>c, <3>1, <3>2, <3>3
    <3>4. CASE act # "user"
      BY <1>b, <2>1, <3>1, <3>2, <3>4
    <3> QED
      BY <3>3, <3>4
  <2> QED
    BY <2>2, <2>3
<1>4. CASE HandlerReturns
  <2>1. UNCHANGED <<value, interval, callbacks, call>> /\ pc["handler"] = "run" /\ pc["main"] # "dead" /\ ~blocked
    BY <1>4 DEF HandlerReturns, PlaceInv
  <2>2. Settled' => Settled /\ pc'["main"] = pc["main"]
    <3>1. CASE pended
      <4>1. Post(pc["main"])
        BY <1>4, <2>1, <3>1 DEF HandlerReturns
      <4> QED
        BY <2>1, <4>1, PlaceOfPost DEF Settled, call
    <3>2. CASE ~pended
      <4>1. pc' = [pc EXCEPT !["handler"] = "none"]
        BY <1>4, <3>2 DEF HandlerReturns
      <4>2. pc'["main"] = pc["main"]
        BY <4>1 DEF TypeOK
      <4> QED
        BY <2>1, <4>2 DEF Settled
    <3> QED
      BY <3>1, <3>2
  <2>3. CASE unfinished /\ pc'["handler"] = "none"
    <3>1. CallEvery
      BY <1>4, <2>3 DEF HandlerReturns
    <3> QED
      BY <1>b, <2>1, <2>2, <3>1
  <2>4. CASE ~(unfinished /\ pc'["handler"] = "none")
    <3>1. UNCHANGED <<tickers, sema, unfinished>>
      BY <1>4, <2>4 DEF HandlerReturns
    <3>2. Settled' => \A c \in Callers : pc[c] = "add" => pc'[c] = "add" /\ new'[c] = new[c]
      BY <1>u, <2>1, <2>2 DEF call
    <3> QED
      BY <1>a, <2>1, <2>2, <3>1, <3>2 DEF IntervalInv
  <2> QED
    BY <2>3, <2>4
<1>5. CASE OtherSignal
  <2>1. Settled' = Settled
    BY <1>5 DEF OtherSignal, Settled
  <2> QED
    BY <1>5, <1>a, <2>1 DEF OtherSignal, timer, call
<1>6. ASSUME NEW c \in Callers, RemoveTicker(c) PROVE IntervalInv'
  <2>1. pc'[c] = "assign"
    BY <1>6, <1>u, PcExcept DEF RemoveTicker
  <2> QED
    BY <2>1, <1>u DEF IntervalInv, Settled
<1>7. ASSUME NEW c \in Callers, Assign(c) PROVE IntervalInv'
  <2>1. pc'[c] = "add" /\ sema' = FALSE /\ value' = new[c].value /\ new' = new
    BY <1>7, <1>u, PcExcept DEF Assign, call
  <2> QED
    BY <2>1 DEF IntervalInv
<1>8. ASSUME NEW c \in Callers, AddTicker(c) PROVE IntervalInv'
  <2>1. /\ pc[c] = "add" /\ pc' = [pc EXCEPT ![c] = then[c]] /\ UNCHANGED <<value, interval, sema, callbacks, unfinished, call>>
        /\ tickers' = (IF new[c].value = 0 THEN tickers
                       ELSE tickers \cup {NewTicker(Delay(new[c].value), 0)})
    BY <1>8 DEF AddTicker
  <2>2. \A d \in Callers : d # c => pc'[d] = pc[d]
    BY <2>1, <1>u, PlaceOfSetitimer DEF call
  <2>3. Settled' => Settled
    BY <2>1, <2>2, <1>u DEF Settled
  <2>4. tickers \subseteq tickers' /\ (new[c].value # 0 => tickers' # {})
    BY <2>1
  <2> QED
    BY <2>1, <2>2, <2>3, <2>4, <1>u DEF IntervalInv, call
<1>9. ASSUME NEW c \in Callers, Sigaction(c) PROVE IntervalInv'
  <2>1. Settled' = Settled
    BY <1>9 DEF Sigaction, Settled
  <2> QED
    BY <1>9, <1>a, <2>1 DEF Sigaction, timer, call
<1>10. ASSUME NEW c \in Callers, NEW x \in {"remove", "suspend", "wait", "sleep"},
              pc[c] \notin {"add", "assign", "dead"}, pc' = [pc EXCEPT ![c] = x], x = "remove" \/ c = "main",
              \A d \in Callers : d # c => new'[d] = new[d],
              UNCHANGED <<timer, unfinished>>
       PROVE  IntervalInv'
  <2>1. pc'[c] = x /\ \A d \in Callers : d # c => pc'[d] = pc[d]
    <3>1. CASE c = "main"
      BY <1>10, <1>u, <3>1, MainExcept
    <3>2. CASE c # "main"
      BY <1>10, <1>u, <3>2, PcExcept
    <3> QED
      BY <3>1, <3>2
  <2>2. Settled' => Settled
    BY <1>10, <1>u, <2>1 DEF Settled
  <2> QED
    BY <1>10, <1>a, <1>u, <2>1, <2>2 DEF timer
<1>11. ASSUME NEW c \in Callers, NEW v, NEW i, SetTimer(c, v, i) PROVE IntervalInv'
  <2>1. /\ pc[c] = "run" /\ pc' = [pc EXCEPT ![c] = "remove"] /\ UNCHANGED <<timer, unfinished>>
        /\ new' = [new EXCEPT ![c] = [value |-> v, interval |-> i]]
    BY <1>11 DEF SetTimer, Setitimer, Starts
  <2>2. \A d \in Callers : d # c => new'[d] = new[d]
    BY <2>1, <1>u
  <2> QED
    BY <1>10, <2>1, <2>2
<1>12. ASSUME NEW n, SleepBegin(n) PROVE IntervalInv'
  <2>1. /\ pc["main"] = "run" /\ pc' = [pc EXCEPT !["main"] = "remove"] /\ UNCHANGED <<timer, unfinished>>
        /\ \A d \in Callers : d # "main" => new'[d] = new[d]
    BY <1>12, <1>u DEF SleepBegin, Setitimer, Starts
  <2> QED
    BY <1>10, <1>u, <2>1
<1>13. CASE SleepArmed
  <2>1. /\ pc["main"] = "armed" /\ UNCHANGED <<timer, unfinished>>
        /\ pc' = [pc EXCEPT !["main"] = "remove"] \/ pc' = [pc EXCEPT !["main"] = "suspend"]
        /\ \A d \in Callers : d # "main" => new'[d] = new[d]
    BY <1>13, <1>u DEF SleepArmed, Setitimer, call
  <2> QED
    BY <1>10, <1>u, <2>1
<1>14. ASSUME NEW b \in BOOLEAN, NEW next \in {"sleep", "woken", "run"}, SetMask(b, next),
              pc["handler"] = "none", pc["main"] \in {"suspend", "wait", "unmask"},
              UNCHANGED <<timer, unfinished>>
       PROVE  IntervalInv'
  <2>1. Settled
    BY <1>14 DEF Settled
  <2> QED
    BY <1>14, <1>a, <1>u, <2>1 DEF timer
<1>15. CASE Suspend
  BY <1>14, <1>15 DEF Suspend, Goes
<1>16. CASE SuspendSleeps
  BY <1>10, <1>16, <1>u DEF SuspendSleeps, call
<1>17. CASE SuspendReturns
  BY <1>14, <1>17 DEF SuspendReturns, Goes
<1>18. CASE SleepWoken
  <2>1. /\ pc["main"] = "woken" /\ UNCHANGED <<timer, unfinished>> /\ pc' = [pc EXCEPT !["main"] = "remove"]
        /\ \A d \in Callers : d # "main" => new'[d] = new[d]
    BY <1>18, <1>u DEF SleepWoken, Setitimer
  <2> QED
    BY <1>10, <1>u, <2>1
<1>19. CASE SleepReturns
  BY <1>14, <1>19 DEF SleepReturns, Goes
<1> QED
  BY <1>0, <1>1, <1>2, <1>3, <1>4, <1>5, <1>6, <1>7, <1>8, <1>9, <1>11, <1>12, <1>13, <1>15, <1>16,
     <1>17, <1>18, <1>19 DEF Next, InSetitimer, Sleep

-----------------------------------------------------------------------------
(***************************************************************************)
(* The kernel has one ticker event at most.                                *)
(***************************************************************************)

\* A timer whose callback is due, or has stopped for a handler, has no ticker
\* event left, or the callback will not call OS_CallEvery.
OneInv ==
  Undisturbed =>
    /\ \A t, u \in tickers : t = u
    /\ \A t \in tickers : t.every > 0 => sema
    /\ pc["handler"] \notin SetitimerSteps
    /\ callbacks \in {0, 1}
    /\ callbacks = 1 \/ unfinished => tickers = {} \/ sema \/ interval = 0
    /\ pc["main"] \in {"assign", "add"} =>
         tickers = {} /\ callbacks = 0 /\ pc["handler"] = "none"

\* A tick of the one ticker event of a timer.
LEMMA TickedAlone ==
  ASSUME tickers \subseteq Event, \A t, u \in tickers : t = u
  PROVE  /\ \A t, u \in Ticked : t = u
         /\ tickers = {} => Ticked = {} /\ Cardinality(Over) = 0
         /\ Cardinality(Over) \in {0, 1}
         /\ \A t \in Ticked : \E u \in tickers : t.every = u.every
         /\ Cardinality(Over) = 1 => Ticked = {} \/ \E u \in tickers : u.every > 0
<1>1. CASE tickers = {}
  <2>1. Over = {} /\ Ticked = {}
    BY <1>1 DEF Over, Ticked
  <2> QED
    BY <1>1, <2>1, FS_EmptySet
<1>2. CASE tickers # {}
  <2>1. PICK t \in tickers : tickers = {t}
    BY <1>2
  <2>2. t \in Event /\ t.every \in Nat
    BY <2>1 DEF Event
  <2>3. CASE t.left = 1 /\ t.every = 0
    <3>1. Over = {t} /\ tickers \ Over = {} /\ {u \in Over : u.every > 0} = {}
      BY <2>1, <2>3 DEF Over
    <3>2. Ticked = {}
      BY <3>1 DEF Ticked
    <3> QED
      BY <2>1, <3>1, <3>2, FS_Singleton
  <2>4. CASE t.left = 1 /\ t.every > 0
    <3>1. Over = {t} /\ tickers \ Over = {} /\ {u \in Over : u.every > 0} = {t}
      BY <2>1, <2>4 DEF Over
    <3> DEFINE e == [t EXCEPT !.left = t.every]
    <3>2. e.every = t.every
      BY <2>2 DEF Event
    <3>3. Ticked = {e}
      BY <3>1 DEF Ticked
    <3> HIDE DEF e
    <3> QED
      BY <2>1, <2>4, <3>1, <3>2, <3>3, FS_Singleton
  <2>5. CASE t.left # 1
    <3>1. Over = {} /\ tickers \ Over = {t}
      BY <2>1, <2>5 DEF Over
    <3> DEFINE e == [t EXCEPT !.left = @ - 1]
    <3>2. e.every = t.every
      BY <2>2 DEF Event
    <3>3. Ticked = {e}
      BY <3>1 DEF Ticked
    <3> HIDE DEF e
    <3> QED
      BY <2>1, <3>1, <3>2, <3>3, FS_EmptySet
  <2> QED
    BY <2>2, <2>3, <2>4, <2>5
<1> QED
  BY <1>1, <1>2

\* What the callback does after raising the signal.
LEMMA CallEveryAlone ==
  ASSUME TypeOK, PlaceInv, CallEvery, \A t, u \in tickers : t = u,
         \A t \in tickers : t.every > 0 => sema,
         tickers = {} \/ sema \/ interval = 0
  PROVE  /\ \A t, u \in tickers' : t = u
         /\ \A t \in tickers' : t.every > 0 => sema'
         /\ sema' \/ interval = 0
<1>1. CASE sema \/ interval = 0
  BY <1>1 DEF CallEvery
<1>2. CASE ~(sema \/ interval = 0)
  <2>1. tickers' = {NewTicker(Period, Period)} /\ sema' = TRUE
    BY <1>2 DEF CallEvery
  <2> QED
    BY <2>1
<1> QED
  BY <1>1, <1>2

LEMMA OneStep ==
  ASSUME TypeOK, PlaceInv, OneInv, [Next]_vars
  PROVE  OneInv'
<1> SUFFICES ASSUME Undisturbed PROVE OneInv'
  BY AlarmProgramStays DEF OneInv, Undisturbed
<1>0. prog.setters \subseteq {"main"} /\ prog.switicks = FALSE
  BY ProgramTypes DEF TypeOK, Undisturbed, Callers
<1>i. /\ \A t, u \in tickers : t = u
      /\ \A t \in tickers : t.every > 0 => sema
      /\ pc["handler"] \notin SetitimerSteps
      /\ callbacks \in {0, 1}
      /\ callbacks = 1 \/ unfinished => tickers = {} \/ sema \/ interval = 0
      /\ pc["main"] \in {"assign", "add"} =>
           tickers = {} /\ callbacks = 0 /\ pc["handler"] = "none"
  BY DEF OneInv
<1>u. /\ SetitimerSteps = {"remove", "assign", "add"} /\ Callers = {"main", "handler"}
      /\ SleepSteps = {"armed", "suspend", "sleep", "wait", "woken", "unmask"}
      /\ pc["main"] \in MainPcs /\ pc["handler"] \in HandlerPcs
      /\ SetitimerSteps \cup SleepSteps \cup {"run", "dead"} \subseteq MainPcs
      /\ then["main"] \in {"run", "armed", "suspend", "unmask"}
      /\ tickers \subseteq Event /\ IsFiniteSet(tickers)
      /\ unfinished => pc["handler"] # "none"
  BY DEF TypeOK, PlaceInv, MainPcs, HandlerPcs, SetitimerSteps, SleepSteps, Callers, Event
\* Steps that leave the timer alone.
<1>a. ASSUME UNCHANGED <<interval, tickers, sema, callbacks, unfinished>>,
             pc'["handler"] \notin SetitimerSteps,
             pc'["main"] \in {"assign", "add"} => pc' = pc
      PROVE  OneInv'
  BY <1>a, <1>i DEF OneInv
\* Steps outside setitimer that may end with what the callback does last.
<1>b. ASSUME pc'["main"] \notin {"assign", "add"}, pc'["handler"] \notin SetitimerSteps, callbacks' = 0, interval' = interval,
             callbacks = 1 \/ unfinished,
             \/ CallEvery
             \/ UNCHANGED <<tickers, sema>>
      PROVE  OneInv'
  <2>1. /\ \A t, u \in tickers' : t = u
        /\ \A t \in tickers' : t.every > 0 => sema'
        /\ tickers' = {} \/ sema' \/ interval' = 0
    <3>1. CASE CallEvery
      BY <1>b, <1>i, <3>1, CallEveryAlone
    <3>2. CASE UNCHANGED <<tickers, sema>>
      BY <1>b, <1>i, <3>2
    <3> QED
      BY <1>b, <3>1, <3>2
  <2> QED
    BY <1>b, <2>1 DEF OneInv
<1>1. CASE UNCHANGED vars
  BY <1>1, <1>a, <1>i DEF vars, timer
<1>2. CASE Tick
  <2>1. /\ callbacks' = Cardinality(Over) /\ tickers' = Ticked
        /\ UNCHANGED <<interval, sema, pc, unfinished>>
    BY <1>2, TickIs
  <2>2. /\ \A t, u \in tickers' : t = u
        /\ tickers = {} => tickers' = {} /\ callbacks' = 0
        /\ callbacks' \in {0, 1}
        /\ \A t \in tickers' : \E u \in tickers : t.every = u.every
        /\ callbacks' = 1 => tickers' = {} \/ \E u \in tickers : u.every > 0
    BY <1>i, <1>u, <2>1, TickedAlone
  <2>3. \A t \in tickers' : t.every > 0 => sema
    BY <1>i, <2>2
  <2>4. callbacks' = 1 => tickers' = {} \/ sema
    BY <1>i, <2>2
  <2> QED
    BY <1>i, <2>1, <2>2, <2>3, <2>4 DEF OneInv
<1>3. CASE CallBack
  <2>1. /\ callbacks = 1 /\ callbacks' = 0 /\ interval' = interval /\ then' = then
        /\ pc["main"] \notin {"assign", "add", "dead"}
    BY <1>3, <1>i DEF CallBack, call
  <2>2. CASE blocked \/ pc["handler"] # "none"
    BY <1>3, <1>b, <1>i, <2>1, <2>2 DEF CallBack
  <2>3. CASE ~(blocked \/ pc["handler"] # "none")
    <3>1. /\ Post(pc["main"])
          /\ UNCHANGED <<tickers, sema>> \/ CallEvery
      BY <1>3, <2>3 DEF CallBack
    <3>2. pc'["main"] \in {"dead", pc["main"]} /\ pc'["handler"] \in {"run", "none"}
      BY <2>1, <3>1, PlaceOfPost
    <3> QED
      BY <1>b, <1>u, <2>1, <3>1, <3>2
  <2> QED
    BY <2>2, <2>3
<1>4. CASE HandlerReturns
  <2>1. /\ callbacks = 0 /\ UNCHANGED <<interval, callbacks, then>> /\ pc["handler"] = "run"
        /\ pc["main"] \notin {"assign", "add", "dead"}
    BY <1>4, <1>i DEF HandlerReturns, Goes, PlaceInv, call
  <2>2. pc'["main"] \in {"dead", pc["main"]} /\ pc'["handler"] \in {"run", "none"}
    <3>1. CASE pended /\ ~blocked
      <4>1. Post(pc["main"])
        BY <1>4, <3>1 DEF HandlerReturns
      <4> QED
        BY <2>1, <4>1, PlaceOfPost
    <3>2. CASE ~(pended /\ ~blocked)
      <4>1. pc' = [pc EXCEPT !["handler"] = "none"]
        BY <1>4, <3>2 DEF HandlerReturns
      <4> QED
        BY <4>1 DEF TypeOK
    <3> QED
      BY <3>1, <3>2
  <2>3. CASE unfinished /\ pc'["handler"] = "none"
    <3>1. CallEvery
      BY <1>4, <2>3 DEF HandlerReturns
    <3> QED
      BY <1>b, <1>u, <2>1, <2>2, <2>3, <3>1
  <2>4. CASE ~(unfinished /\ pc'["handler"] = "none")
    <3>1. UNCHANGED <<tickers, sema, unfinished>>
      BY <1>4, <2>4 DEF HandlerReturns
    <3> QED
      BY <1>a, <1>u, <2>1, <2>2, <3>1
  <2> QED
    BY <2>3, <2>4
<1>5. CASE OtherSignal
  BY <1>5, <1>a, <1>i DEF OtherSignal, timer
<1>6. ASSUME NEW c \in Callers, RemoveTicker(c) \/ Assign(c) \/ AddTicker(c)
      PROVE  /\ c = "main" /\ callbacks = 0 /\ callbacks' = 0 /\ unfinished' = FALSE
             /\ pc["handler"] = "none"
  BY <1>6, <1>0, <1>i, <1>u DEF RemoveTicker, Assign, AddTicker, Goes, TypeOK
<1>7. CASE RemoveTicker("main")
  <2>1. /\ callbacks' = 0 /\ unfinished' = FALSE /\ pc["handler"] = "none"
        /\ pc' = [pc EXCEPT !["main"] = "assign"]
    BY <1>6, <1>7, <1>u DEF RemoveTicker
  <2>2. tickers' = {}
    BY <1>7, <1>i DEF RemoveTicker
  <2>3. pc'["handler"] = "none"
    BY <2>1, <1>u, MainExcept
  <2> QED
    BY <1>u, <2>1, <2>2, <2>3 DEF OneInv
<1>8. CASE Assign("main")
  <2>1. /\ callbacks' = 0 /\ unfinished' = FALSE /\ pc["handler"] = "none"
        /\ pc' = [pc EXCEPT !["main"] = "add"]
    BY <1>6, <1>8, <1>u DEF Assign
  <2>2. tickers' = {}
    BY <1>8, <1>i DEF Assign
  <2>3. pc'["handler"] = "none"
    BY <2>1, <1>u, MainExcept
  <2> QED
    BY <1>u, <2>1, <2>2, <2>3 DEF OneInv
<1>9. CASE AddTicker("main")
  <2>1. /\ callbacks' = 0 /\ unfinished' = FALSE /\ pc["handler"] = "none"
        /\ pc' = [pc EXCEPT !["main"] = then["main"]]
        /\ tickers' = (IF new["main"].value = 0 THEN tickers
                       ELSE tickers \cup {NewTicker(Delay(new["main"].value), 0)})
    BY <1>6, <1>9, <1>u DEF AddTicker
  <2>2. tickers = {} /\ sema' = sema
    BY <1>9, <1>i DEF AddTicker
  <2>3. pc'["handler"] = "none" /\ pc'["main"] \notin {"assign", "add"}
    BY <2>1, <1>u, MainExcept
  <2>4. NewTicker(Delay(new["main"].value), 0).every = 0
    BY <2>2, FirstTickerIs
  <2>5. (\A t, u \in tickers' : t = u) /\ \A t \in tickers' : t.every = 0
    BY <2>1, <2>2, <2>4
  <2> QED
    BY <1>u, <2>1, <2>3, <2>5 DEF OneInv
<1>10. ASSUME NEW c \in Callers, Sigaction(c) PROVE OneInv'
  BY <1>10, <1>a, <1>i DEF Sigaction, timer
\* The steps of the program, outside setitimer.
<1>11. ASSUME NEW x \in {"remove", "suspend", "wait"}, pc' = [pc EXCEPT !["main"] = x],
              UNCHANGED <<timer, unfinished>>
       PROVE  OneInv'
  <2>1. pc'["main"] = x /\ pc'["handler"] = pc["handler"]
    BY <1>11, <1>u, MainExcept
  <2> QED
    BY <1>11, <1>a, <1>i, <2>1 DEF timer
<1>12. ASSUME NEW c \in prog.setters, NEW v, NEW i, SetTimer(c, v, i) PROVE OneInv'
  BY <1>12, <1>0, <1>11 DEF SetTimer, Setitimer
<1>13. ASSUME NEW n, SleepBegin(n) PROVE OneInv'
  BY <1>13, <1>11 DEF SleepBegin, Setitimer
<1>14. CASE SleepArmed
  <2>1. /\ pc' = [pc EXCEPT !["main"] = "remove"] \/ pc' = [pc EXCEPT !["main"] = "suspend"]
        /\ UNCHANGED <<timer, unfinished>>
    BY <1>14 DEF SleepArmed, Setitimer
  <2> QED
    BY <1>11, <2>1
<1>15. ASSUME NEW b \in BOOLEAN, NEW next \in {"sleep", "woken", "run"}, SetMask(b, next),
              UNCHANGED <<timer, unfinished>>
       PROVE  OneInv'
  <2>1. next \in MainPcs \ {"dead"}
    BY <1>u
  <2>2. /\ pc'["main"] \in {"dead", next} /\ pc'["handler"] \in {"run", "none", pc["handler"]}
    BY <1>15, <2>1, SetMaskIs
  <2> QED
    BY <1>15, <1>a, <1>i, <1>u, <2>2 DEF timer
<1>16. CASE Suspend
  BY <1>15, <1>16 DEF Suspend
<1>17. CASE SuspendSleeps
  BY <1>11, <1>17 DEF SuspendSleeps
<1>18. CASE SuspendReturns
  BY <1>15, <1>18 DEF SuspendReturns
<1>19. CASE SleepWoken
  BY <1>11, <1>19 DEF SleepWoken, Setitimer
<1>20. CASE SleepReturns
  BY <1>15, <1>20 DEF SleepReturns
<1>21. InSetitimer => RemoveTicker("main") \/ Assign("main") \/ AddTicker("main")
  BY <1>6 DEF InSetitimer
<1> QED
  BY <1>1, <1>2, <1>3, <1>4, <1>5, <1>7, <1>8, <1>9, <1>10, <1>12, <1>13, <1>14, <1>16, <1>17, <1>18,
     <1>19, <1>20, <1>21 DEF Next, Sleep

-----------------------------------------------------------------------------
(***************************************************************************)
(* The kernel's ticker is the one for the alarm that was asked for.        *)
(***************************************************************************)

OneShot == prog.naps = {} /\ prog.intervals = {0} /\ ~Nests

\* In the middle of setitimer there is no ticker, and none that is due unless
\* ticks may come inside OS_RemoveTickerEvent.
MatchInv ==
  OneShot =>
    /\ interval = 0 /\ \A c \in Callers : new[c].interval = 0 /\ then[c] = "run"
    /\ pc["main"] \notin SleepSteps /\ (pended => pc["handler"] # "none")
    /\ tickers = (IF due = 0 THEN {} ELSE {[left |-> due, every |-> 0, no |-> 0]})
    /\ \A c \in Callers : pc[c] \in {"assign", "add"} => due = 0 /\ (prog.switicks \/ callbacks = 0)
    /\ prog.switicks => pc["handler"] \notin SetitimerSteps
    /\ ~prog.switicks /\ pc["main"] \in {"assign", "add"} => pc["handler"] = "none"

LEMMA TickedMatches ==
  ASSUME due \in Nat, tickers = (IF due = 0 THEN {} ELSE {[left |-> due, every |-> 0, no |-> 0]})
  PROVE  /\ Ticked = (IF due <= 1 THEN {} ELSE {[left |-> due - 1, every |-> 0, no |-> 0]})
         /\ due = 0 => Cardinality(Over) = 0
<1>1. CASE due = 0
  <2>1. tickers = {} /\ Over = {}
    BY <1>1 DEF Over
  <2>2. Ticked = {}
    BY <2>1 DEF Ticked
  <2> QED
    BY <1>1, <2>1, <2>2, FS_EmptySet
<1>2. CASE due # 0
  <2> DEFINE e == [left |-> due, every |-> 0, no |-> 0]
  <2>1. tickers = {e} /\ e.left = due /\ e.every = 0
    BY <1>2
  <2>2. CASE due = 1
    <3>1. Over = {e}
      BY <2>1, <2>2 DEF Over
    <3>2. tickers \ Over = {} /\ {u \in Over : u.every > 0} = {}
      BY <2>1, <3>1
    <3>3. Ticked = {}
      BY <3>2 DEF Ticked
    <3> QED
      BY <2>2, <3>3
  <2>3. CASE due # 1
    <3>1. Over = {}
      BY <2>1, <2>3 DEF Over
    <3>2. tickers \ Over = {e} /\ {u \in Over : u.every > 0} = {}
      BY <2>1, <3>1
    <3>3. [e EXCEPT !.left = @ - 1] = [left |-> due - 1, every |-> 0, no |-> 0]
      OBVIOUS
    <3> HIDE DEF e
    <3>4. Ticked = {[e EXCEPT !.left = @ - 1]}
      BY <3>2 DEF Ticked
    <3> QED
      BY <1>2, <2>3, <3>3, <3>4
  <2> QED
    BY <2>2, <2>3
<1> QED
  BY <1>1, <1>2

LEMMA MatchStep ==
  ASSUME TypeOK, PlaceInv, MatchInv, [Next]_vars
  PROVE  MatchInv'
<1> SUFFICES ASSUME OneShot PROVE MatchInv'
  BY AlarmProgramStays DEF MatchInv, OneShot, Nests
<1>0. /\ prog' = prog /\ prog.setters \subseteq Callers /\ prog.naps = {} /\ prog.intervals = {0}
      /\ prog.switicks \in BOOLEAN /\ (prog.switicks => "handler" \notin prog.setters) /\ prog.times \subseteq Nat
  BY AlarmProgramStays, ProgramTypes DEF TypeOK, OneShot, Nests
<1>i. /\ interval = 0 /\ \A c \in Callers : new[c].interval = 0 /\ then[c] = "run"
      /\ pc["main"] \notin SleepSteps /\ (pended => pc["handler"] # "none")
      /\ tickers = (IF due = 0 THEN {} ELSE {[left |-> due, every |-> 0, no |-> 0]})
      /\ \A c \in Callers : pc[c] \in {"assign", "add"} => due = 0 /\ (prog.switicks \/ callbacks = 0)
      /\ prog.switicks => pc["handler"] \notin SetitimerSteps
      /\ ~prog.switicks /\ pc["main"] \in {"assign", "add"} => pc["handler"] = "none"
  BY DEF MatchInv
<1>u. /\ SetitimerSteps = {"remove", "assign", "add"} /\ Callers = {"main", "handler"}
      /\ SleepSteps = {"armed", "suspend", "sleep", "wait", "woken", "unmask"}
      /\ pc["main"] \in MainPcs /\ pc["handler"] \in HandlerPcs
      /\ {"remove", "assign", "add", "run"} \subseteq MainPcs \cap HandlerPcs
      /\ due \in Nat /\ callbacks \in Nat
      /\ new \in [Callers -> [value : Nat, interval : Nat]]
      /\ then \in [Callers -> SleepSteps \cup {"run"}]
  BY DEF TypeOK, MainPcs, HandlerPcs, SetitimerSteps, SleepSteps, Callers
<1>m. pc["main"] # "dead" => ~blocked
  BY <1>i, <1>u DEF PlaceInv, Place, MainPcs
\* Steps that leave the timer alone.
<1>a. ASSUME UNCHANGED <<interval, new, then, tickers, due>>,
             pc'["main"] \notin SleepSteps, pended' => pc'["handler"] # "none",
             \A c \in Callers : pc'[c] \in {"assign", "add"} => pc'[c] = pc[c] /\ (prog.switicks \/ callbacks' = 0),
             prog.switicks => pc'["handler"] \notin SetitimerSteps,
             ~prog.switicks /\ pc'["main"] \in {"assign", "add"} => pc'["handler"] = "none"
      PROVE  MatchInv'
  BY <1>a, <1>0, <1>i DEF MatchInv
<1>1. CASE UNCHANGED vars
  BY <1>1, <1>a, <1>i DEF vars, timer, signal, call
<1>2. CASE Tick
  <2>1. /\ callbacks = 0 /\ callbacks' = Cardinality(Over) /\ tickers' = Ticked
        /\ due' = (IF due > 0 THEN due - 1 ELSE 0)
        /\ UNCHANGED <<interval, new, then, pc, pended>>
    BY <1>2, TickIs DEF call, signal
  <2>2. /\ tickers' = (IF due <= 1 THEN {} ELSE {[left |-> due - 1, every |-> 0, no |-> 0]})
        /\ due = 0 => callbacks' = 0
    BY <2>1, <1>i, <1>u, TickedMatches
  <2>3. tickers' = (IF due' = 0 THEN {} ELSE {[left |-> due', every |-> 0, no |-> 0]})
    <3>1. CASE due <= 1
      <4>1. due' = 0
        BY <2>1, <3>1, <1>u
      <4> QED
        BY <2>2, <3>1, <4>1
    <3>2. CASE ~(due <= 1)
      <4>1. due' = due - 1 /\ due' # 0
        BY <2>1, <3>2, <1>u
      <4> QED
        BY <2>2, <3>2, <4>1
    <3> QED
      BY <3>1, <3>2
  <2>4. interval' = interval /\ new' = new /\ then' = then /\ pc' = pc /\ pended' = pended
    BY <2>1
  <2>5. \A c \in Callers : pc[c] \in {"assign", "add"} =>
          due' = 0 /\ (prog.switicks \/ callbacks' = 0)
    BY <2>1, <2>2, <1>i, <1>u
  <2> QED
    BY <2>3, <2>4, <2>5, <1>0, <1>i DEF MatchInv
<1>3. CASE CallBack
  <2>1. UNCHANGED <<interval, new, then, due>> /\ pc["main"] # "dead" /\ callbacks > 0
    BY <1>3 DEF CallBack, call
  <2>2. CallEvery => tickers' = tickers
    BY <1>i DEF CallEvery
  <2>3. CASE pc["handler"] # "none"
    <3>1. pc' = pc /\ CallEvery
      BY <1>3, <2>3 DEF CallBack
    <3>2. \A c \in Callers : pc[c] \in {"assign", "add"} => prog.switicks
      BY <1>i, <1>u, <2>1
    <3> QED
      BY <1>a, <1>i, <1>u, <2>1, <2>2, <2>3, <3>1, <3>2
  <2>4. CASE pc["handler"] = "none"
    <3>1. /\ Post(pc["main"]) /\ pended' = pended
          /\ IF act = "user" THEN UNCHANGED <<tickers, sema>> ELSE CallEvery
      BY <1>3, <1>m, <2>1, <2>4 DEF CallBack
    <3>2. \/ pc'["main"] = "dead" /\ pc'["handler"] = "none"
          \/ pc'["main"] = pc["main"] /\ pc'["handler"] \in {"run", "none"}
      BY <2>1, <3>1, PlaceOfPost DEF call
    <3>3. tickers' = tickers /\ pended' = FALSE
      BY <1>i, <2>2, <2>4, <3>1 DEF TypeOK
    <3>4. pc["main"] \in {"assign", "add"} => prog.switicks
      BY <1>i, <1>u, <2>1
    <3> QED
      BY <1>0, <1>i, <1>u, <2>1, <3>2, <3>3, <3>4 DEF MatchInv
  <2> QED
    BY <2>3, <2>4
<1>4. CASE HandlerReturns
  <2>1. UNCHANGED <<interval, new, then, due, callbacks>> /\ pc["handler"] = "run" /\ pc["main"] # "dead" /\ ~blocked
    BY <1>4 DEF HandlerReturns, PlaceInv, call
  <2>2. tickers' = tickers
    BY <1>4, <1>i DEF HandlerReturns, CallEvery
  <2>3. pended' = FALSE /\ pc'["handler"] \in {"run", "none"}
        /\ (pc'["main"] = pc["main"] \/ (pc'["main"] = "dead" /\ pc'["handler"] = "none"))
    <3>1. CASE pended
      <4>1. pended' = FALSE /\ Post(pc["main"])
        BY <1>4, <2>1, <3>1 DEF HandlerReturns
      <4> QED
        BY <2>1, <4>1, PlaceOfPost
    <3>2. CASE ~pended
      <4>1. pc' = [pc EXCEPT !["handler"] = "none"] /\ pended' = pended
        BY <1>4, <3>2 DEF HandlerReturns
      <4>2. pc'["main"] = pc["main"] /\ pc'["handler"] = "none" /\ pended' = FALSE
        BY <4>1, <3>2 DEF TypeOK
      <4> QED
        BY <4>2
    <3> QED
      BY <3>1, <3>2
  <2> QED
    BY <1>0, <1>i, <1>u, <2>1, <2>2, <2>3 DEF MatchInv
<1>5. CASE OtherSignal
  BY <1>5, <1>a, <1>i DEF OtherSignal, timer, call
<1>6. ASSUME NEW c \in Callers, RemoveTicker(c) PROVE MatchInv'
  <2>1. /\ pc[c] = "remove" /\ UNCHANGED <<interval, callbacks, new, then, pended>> /\ due' = 0
        /\ c = "main" => pc["handler"] = "none"
        /\ prog.switicks \/ callbacks = 0
        /\ \/ tickers = {} /\ tickers' = {}
           \/ \E t \in tickers : tickers' = tickers \ {t}
    BY <1>6, <1>i DEF RemoveTicker, Own, signal
  <2>2. tickers' = {}
    BY <2>1, <1>i
  <2>3. pc'[c] = "assign" /\ \A d \in Callers : d # c => pc'[d] = pc[d]
    BY <1>6, <1>u, PcExcept DEF RemoveTicker
  <2>4. c = "handler" => ~prog.switicks /\ pc["main"] \notin {"assign", "add"}
    BY <2>1, <1>i, <1>u
  <2> QED
    BY <1>0, <1>i, <1>u, <2>1, <2>2, <2>3, <2>4 DEF MatchInv
<1>7. ASSUME NEW c \in Callers, Assign(c) PROVE MatchInv'
  <2>1. /\ pc[c] = "assign" /\ UNCHANGED <<tickers, due, callbacks, new, then, pended>> /\ interval' = new[c].interval
    BY <1>7 DEF Assign, signal, call
  <2>2. pc'[c] = "add" /\ \A d \in Callers : d # c => pc'[d] = pc[d]
    BY <1>7, <1>u, PcExcept DEF Assign
  <2> QED
    BY <1>0, <1>i, <1>u, <2>1, <2>2 DEF MatchInv
<1>8. ASSUME NEW c \in Callers, AddTicker(c) PROVE MatchInv'
  <2>1. /\ pc[c] = "add" /\ UNCHANGED <<interval, callbacks, new, then, pended>>
        /\ pc' = [pc EXCEPT ![c] = "run"] /\ due' = Delay(new[c].value)
        /\ tickers' = (IF new[c].value = 0 THEN tickers
                       ELSE tickers \cup {NewTicker(Delay(new[c].value), 0)})
    BY <1>8, <1>i DEF AddTicker, Own, signal, call
  <2>2. tickers = {}
    BY <1>i, <2>1
  <2>3. new[c].value \in Nat /\ (Delay(new[c].value) = 0 <=> new[c].value = 0)
    BY <1>u, DelayType
  <2>4. tickers' = (IF due' = 0 THEN {} ELSE {[left |-> due', every |-> 0, no |-> 0]})
    <3>1. CASE new[c].value = 0
      BY <2>1, <2>2, <2>3, <3>1
    <3>2. CASE new[c].value # 0
      <4>1. tickers' = {NewTicker(Delay(new[c].value), 0)} /\ due' = Delay(new[c].value) /\ due' # 0
        BY <2>1, <2>2, <2>3, <3>2
      <4> QED
        BY <2>2, <4>1, FirstTickerIs
    <3> QED
      BY <3>1, <3>2
  <2>5. pc'[c] = "run" /\ \A d \in Callers : d # c => pc'[d] = pc[d]
    BY <2>1, <1>u, PcExcept
  <2>6. \A d \in Callers : d # c => pc[d] \notin {"assign", "add"}
    BY <2>1, <1>i, <1>u
  <2>7. UNCHANGED <<interval, callbacks, new, then, pended>>
    BY <2>1
  <2>8. \A d \in Callers : pc'[d] \notin {"assign", "add"}
    BY <2>5, <2>6
  <2>9. pc'["main"] \notin SleepSteps /\ (pended => pc'["handler"] # "none")
        /\ (prog.switicks => pc'["handler"] \notin SetitimerSteps)
    BY <1>i, <1>u, <2>5
  <2> QED
    BY <1>0, <1>i, <1>u, <2>4, <2>7, <2>8, <2>9 DEF MatchInv
<1>9. ASSUME NEW c \in Callers, Sigaction(c) PROVE MatchInv'
  BY <1>9, <1>a, <1>i DEF Sigaction, timer, call
<1>10. ASSUME NEW c \in prog.setters, NEW v, SetTimer(c, v, 0) PROVE MatchInv'
  <2>1. /\ c \in Callers /\ pc[c] = "run" /\ UNCHANGED <<timer, pended, due>> /\ pc' = [pc EXCEPT ![c] = "remove"]
        /\ new' = [new EXCEPT ![c] = [value |-> v, interval |-> 0]] /\ then' = [then EXCEPT ![c] = "run"]
    BY <1>10, <1>0 DEF SetTimer, Setitimer, Starts, signal
  <2>2. pc'[c] = "remove" /\ \A d \in Callers : d # c => pc'[d] = pc[d]
    BY <2>1, <1>u, PcExcept
  <2>3. \A d \in Callers : new'[d].interval = 0 /\ then'[d] = "run"
    BY <2>1, <1>i, <1>u
  <2>4. ~prog.switicks \/ c = "main"
    BY <1>0, <1>u, <2>1
  <2> QED
    BY <1>0, <1>i, <1>u, <2>1, <2>2, <2>3, <2>4 DEF MatchInv, timer
<1>11. ~Sleep
  BY <1>i, <1>u DEF Sleep, SleepArmed, Suspend, SuspendSleeps, SuspendReturns, SleepWoken, SleepReturns
<1> QED
  BY <1>0, <1>1, <1>2, <1>3, <1>4, <1>5, <1>6, <1>7, <1>8, <1>9, <1>10, <1>11 DEF Next, InSetitimer

-----------------------------------------------------------------------------
(***************************************************************************)
(* A program that sets no alarm: where sleep's own alarm is.               *)
(***************************************************************************)
Calm == prog.times = {} /\ (prog.others => \A n \in prog.naps : n < TICKS)
Setting == pc["main"] \in SetitimerSteps

\* While sleep is in setitimer, what that is given and finds is known, and so is
\* what ualarm makes up; there is one ticker event at most.
NapInv ==
  Calm =>
    /\ pc["handler"] \in {"none", "run"} /\ interval = 0
    /\ Setting => Place # "run"
    /\ \A t, u \in tickers : t = u /\ t.every = 0
    /\ Place \notin {"run", "dead"} => nap \in prog.naps
    /\ new["main"].interval = 0
    /\ Setting => new["main"].value = IF Place = "unmask" THEN 0 ELSE nap * USECS
    /\ pc["main"] = "armed" => new["main"].value = nap * USECS /\ old["main"] = 0
    /\ pc["main"] \in {"assign", "add"} /\ Place = "armed" => old["main"] = 0
    /\ pc["main"] \in {"remove", "assign"} /\ Place = "armed" => value = 0
    /\ pc["main"] = "add" /\ Place = "unmask" => value = 0
    /\ pc["main"] \in {"unmask", "run"} => value = 0
    /\ Place \in {"suspend", "sleep", "wait", "woken", "unmask"} => remaining = Whole(nap)
    /\ \/ pc["main"] \in {"run", "unmask", "assign", "add"}
       \/ Setting /\ Place = "armed"
       => tickers = {}

\* With no other signals: an alarm goes off when the sleep has lasted as long as
\* it should, and only that ends the wait, which leaves nothing behind.
FlightInv ==
  Calm /\ ~prog.others =>
    /\ callbacks \in {0, 1} /\ (callbacks = 1 => tickers = {})
    /\ Place \notin {"run", "dead"} =>
       /\ \A t \in tickers : t.left + slept >= nap
       /\ callbacks > 0 \/ pended \/ pc["handler"] # "none" => slept >= nap
    /\ pended /\ ~blocked => pc["handler"] # "none"
    /\ pc["main"] = "wait" /\ ~sleeping => slept >= nap /\ tickers = {} /\ callbacks = 0
    /\ Place \in {"run", "woken", "unmask"} \/ (Setting /\ Place = "armed") =>
         tickers = {} /\ callbacks = 0 /\ ~pended /\ pc["handler"] = "none"
    /\ Place \in {"woken", "unmask"} => slept >= nap

\* The steps of a program that sets no alarm.
LEMMA CalmNext ==
  ASSUME TypeOK, Calm, [Next]_vars, pc["handler"] \in {"none", "run"}
  PROVE  \/ UNCHANGED vars \/ Tick \/ CallBack \/ HandlerReturns \/ OtherSignal
         \/ RemoveTicker("main") \/ Assign("main") \/ AddTicker("main")
         \/ \E c \in Callers : Sigaction(c)
         \/ \E n \in prog.naps : SleepBegin(n)
         \/ SleepArmed \/ Suspend \/ SuspendSleeps \/ SuspendReturns \/ SleepWoken \/ SleepReturns
<1>1. ~(RemoveTicker("handler") \/ Assign("handler") \/ AddTicker("handler"))
  BY DEF RemoveTicker, Assign, AddTicker
<1>2. ~ \E c \in prog.setters, v \in prog.times, i \in prog.intervals : SetTimer(c, v, i)
  BY DEF Calm
<1> QED
  BY <1>1, <1>2 DEF Next, InSetitimer, Sleep, Callers

\* A tick of the one ticker event of sleep's alarm.
LEMMA TickedOne ==
  ASSUME tickers \subseteq Event, \A t, u \in tickers : t = u /\ t.every = 0
  PROVE  /\ \A t, u \in Ticked : t = u /\ t.every = 0
         /\ tickers = {} => Ticked = {} /\ Cardinality(Over) = 0
         /\ Cardinality(Over) \in {0, 1} /\ (Cardinality(Over) = 1 => Ticked = {})
         /\ \A t \in Ticked : \E u \in tickers : t.left = u.left - 1
         /\ Cardinality(Over) = 1 => \E u \in tickers : u.left = 1
<1>1. CASE tickers = {}
  <2>1. Over = {} /\ Ticked = {}
    BY <1>1 DEF Over, Ticked
  <2> QED
    BY <1>1, <2>1, FS_EmptySet
<1>2. CASE tickers # {}
  <2>1. PICK t \in tickers : tickers = {t} /\ t.every = 0
    BY <1>2
  <2>2. t \in Event /\ t.left \in Nat
    BY <2>1 DEF Event
  <2>3. CASE t.left = 1
    <3>1. Over = {t} /\ tickers \ Over = {} /\ {u \in Over : u.every > 0} = {}
      BY <2>1, <2>3 DEF Over
    <3>2. Ticked = {}
      BY <3>1 DEF Ticked
    <3> QED
      BY <2>1, <2>3, <3>1, <3>2, FS_Singleton
  <2>4. CASE t.left # 1
    <3>1. Over = {} /\ tickers \ Over = {t}
      BY <2>1, <2>4 DEF Over
    <3> DEFINE e == [t EXCEPT !.left = @ - 1]
    <3>2. e.left = t.left - 1 /\ e.every = 0
      BY <2>1, <2>2 DEF Event
    <3>3. Ticked = {e}
      BY <3>1 DEF Ticked
    <3> HIDE DEF e
    <3> QED
      BY <2>1, <3>1, <3>2, <3>3, FS_EmptySet
  <2> QED
    BY <2>3, <2>4
<1> QED
  BY <1>1, <1>2

LEMMA NapStep ==
  ASSUME TypeOK, PlaceInv, NapInv, FlightInv, [Next]_vars
  PROVE  NapInv'
<1> SUFFICES ASSUME Calm PROVE NapInv'
  BY AlarmProgramStays DEF NapInv, Calm
<1>0. /\ prog' = prog /\ TypeOK' /\ prog.naps \subseteq Nat \ {0}
      /\ tickers \subseteq Event
  BY AlarmProgramStays, AlarmTypeStep, ProgramTypes DEF TypeOK, Event
<1>i. /\ pc["handler"] \in {"none", "run"} /\ interval = 0
      /\ Setting => Place # "run"
      /\ \A t, u \in tickers : t = u /\ t.every = 0
      /\ Place \notin {"run", "dead"} => nap \in prog.naps
      /\ new["main"].interval = 0
      /\ Setting => new["main"].value = IF Place = "unmask" THEN 0 ELSE nap * USECS
      /\ pc["main"] = "armed" => new["main"].value = nap * USECS /\ old["main"] = 0
      /\ pc["main"] \in {"assign", "add"} /\ Place = "armed" => old["main"] = 0
      /\ pc["main"] \in {"remove", "assign"} /\ Place = "armed" => value = 0
      /\ pc["main"] = "add" /\ Place = "unmask" => value = 0
      /\ pc["main"] \in {"unmask", "run"} => value = 0
      /\ Place \in {"suspend", "sleep", "wait", "woken", "unmask"} => remaining = Whole(nap)
      /\ \/ pc["main"] \in {"run", "unmask", "assign", "add"}
         \/ Setting /\ Place = "armed"
         => tickers = {}
  BY DEF NapInv
<1>u. /\ SetitimerSteps = {"remove", "assign", "add"}
      /\ pc["main"] \in MainPcs /\ pc["handler"] \in HandlerPcs
      /\ SetitimerSteps \cup {"run"} \subseteq MainPcs \cap HandlerPcs
      /\ {"armed", "suspend", "sleep", "wait", "woken", "unmask"} \subseteq MainPcs
      /\ then["main"] \in {"run", "armed", "suspend", "unmask"}
      /\ Callers = {"main", "handler"} /\ "main" \in Callers
      /\ new \in [Callers -> [value : Nat, interval : Nat]] /\ old \in [Callers -> Nat]
      /\ then \in [Callers -> SleepSteps \cup {"run"}]
      /\ nap \in Nat /\ slept \in Nat /\ remaining \in Nat
  BY ProgramTypes DEF TypeOK, PlaceInv, MainPcs, HandlerPcs, SetitimerSteps, SleepSteps, Callers
<1>p. Place = IF Setting THEN then["main"] ELSE pc["main"]
  BY DEF Place, Setting
\* Steps that leave the program where it is, but for the delivery of a signal.
<1>a. ASSUME UNCHANGED <<value, interval, new, old, then, nap, remaining>>,
             pc'["handler"] \in {"none", "run"},
             \A t, u \in tickers' : t = u /\ t.every = 0, tickers = {} => tickers' = {},
             pc'["main"] = pc["main"] \/ pc'["main"] = "dead"
      PROVE  NapInv'
  <2>1. CASE pc'["main"] = pc["main"]
    <3>1. Place' = Place /\ Setting' = Setting
      BY <1>a, <2>1, PlaceKept DEF Setting
    <3> QED
      BY <1>a, <1>0, <1>i, <2>1, <3>1 DEF NapInv
  <2>2. CASE pc'["main"] = "dead"
    <3>1. Place' = "dead" /\ ~Setting'
      BY <2>2, <1>u DEF Place, Setting
    <3> QED
      BY <1>a, <1>i, <2>2, <3>1 DEF NapInv
  <2> QED
    BY <1>a, <2>1, <2>2
<1>1. CASE UNCHANGED vars
  BY <1>1, <1>a, <1>i DEF vars, timer, call, sleep
<1>2. CASE Tick
  <2>1. tickers' = Ticked /\ UNCHANGED <<value, interval, pc, call, nap, remaining>>
    BY <1>2, TickIs
  <2> QED
    BY <1>a, <1>0, <1>i, <2>1, TickedOne DEF call
<1>3. CASE CallBack
  <2>1. UNCHANGED <<value, interval, new, old, then, nap, remaining>> /\ pc["main"] # "dead"
    BY <1>3 DEF CallBack, call, sleep
  <2>2. CallEvery => tickers' = tickers
    BY <1>i DEF CallEvery
  <2>3. CASE blocked \/ pc["handler"] # "none"
    BY <1>3, <1>a, <1>i, <2>1, <2>2, <2>3 DEF CallBack
  <2>4. CASE ~(blocked \/ pc["handler"] # "none")
    <3>1. Post(pc["main"]) /\ tickers' = tickers
      BY <1>3, <2>2, <2>4 DEF CallBack
    <3> QED
      BY <1>a, <1>i, <2>1, <3>1, PlaceOfPost
  <2> QED
    BY <2>3, <2>4
<1>4. CASE HandlerReturns
  <2>1. UNCHANGED <<value, interval, new, old, then, nap, remaining>> /\ pc["main"] # "dead" /\ ~blocked
    BY <1>4 DEF HandlerReturns, PlaceInv, call, sleep
  <2>2. tickers' = tickers
    BY <1>4, <1>i DEF HandlerReturns, CallEvery
  <2>3. CASE pended
    <3>1. Post(pc["main"])
      BY <1>4, <2>1, <2>3 DEF HandlerReturns
    <3> QED
      BY <1>a, <1>i, <2>1, <2>2, <3>1, PlaceOfPost
  <2>4. CASE ~pended
    <3>1. pc' = [pc EXCEPT !["handler"] = "none"]
      BY <1>4, <2>4 DEF HandlerReturns
    <3>2. pc'["main"] = pc["main"] /\ pc'["handler"] = "none"
      BY <3>1 DEF TypeOK
    <3> QED
      BY <1>a, <1>i, <2>1, <2>2, <3>2
  <2> QED
    BY <2>3, <2>4
<1>5. CASE OtherSignal
  BY <1>5, <1>a, <1>i DEF OtherSignal, timer, call, sleep
<1>6. CASE RemoveTicker("main")
  <2>1. /\ pc["main"] = "remove" /\ UNCHANGED <<value, interval, new, then, nap, remaining>>
        /\ old' = [old EXCEPT !["main"] = value] /\ pc' = [pc EXCEPT !["main"] = "assign"]
        /\ \/ tickers = {} /\ tickers' = {}
           \/ \E t \in tickers : tickers' = tickers \ {t}
    BY <1>6 DEF RemoveTicker, sleep
  <2>2. tickers' = {} /\ old'["main"] = value
    BY <2>1, <1>i, <1>u
  <2>3. pc'["main"] = "assign" /\ pc'["handler"] = pc["handler"]
    BY <2>1, <1>u, MainExcept
  <2>4. Place' = Place /\ Setting /\ Setting'
    BY <2>1, <2>3, <1>u DEF Place, Setting
  <2> QED
    BY <1>0, <1>i, <2>1, <2>2, <2>3, <2>4 DEF NapInv
<1>7. CASE Assign("main")
  <2>1. /\ pc["main"] = "assign" /\ UNCHANGED <<tickers, new, then, old, nap, remaining>>
        /\ value' = new["main"].value /\ interval' = new["main"].interval
        /\ pc' = [pc EXCEPT !["main"] = "add"]
    BY <1>7 DEF Assign, sleep, call
  <2>2. pc'["main"] = "add" /\ pc'["handler"] = pc["handler"]
    BY <2>1, <1>u, MainExcept
  <2>3. Place' = Place /\ Setting /\ Setting'
    BY <2>1, <2>2, <1>u DEF Place, Setting
  <2> QED
    BY <1>0, <1>i, <2>1, <2>2, <2>3 DEF NapInv
<1>8. CASE AddTicker("main")
  <2>1. /\ pc["main"] = "add" /\ UNCHANGED <<value, interval, new, then, old, nap, remaining>>
        /\ tickers' = (IF new["main"].value = 0 THEN tickers
                       ELSE tickers \cup {NewTicker(Delay(new["main"].value), 0)})
        /\ pc' = [pc EXCEPT !["main"] = then["main"]]
    BY <1>8 DEF AddTicker, sleep, call
  <2>2. Setting /\ Place = then["main"] /\ Place \in {"armed", "suspend", "unmask"} /\ tickers = {}
    BY <2>1, <1>i, <1>u, <1>p DEF Setting
  <2>3. pc'["main"] = Place /\ pc'["handler"] = pc["handler"]
    BY <2>1, <2>2, <1>u, MainExcept
  <2>4. Place' = Place /\ ~Setting'
    BY <2>2, <2>3, <1>u DEF Place, Setting
  <2>5. \A t, u \in tickers' : t = u /\ t.every = 0
    BY <2>1, <2>2, FirstTickerIs
  <2>6. Place = "unmask" => tickers' = {}
    BY <2>1, <2>2, <1>i
  <2> QED
    BY <1>0, <1>i, <1>u, <2>1, <2>2, <2>3, <2>4, <2>5, <2>6 DEF NapInv
<1>9. ASSUME NEW c \in Callers, Sigaction(c) PROVE NapInv'
  BY <1>9, <1>a, <1>i DEF Sigaction, timer, call, sleep
\* Sleep calls setitimer.
<1>b. ASSUME NEW v, NEW next \in {"armed", "suspend", "unmask"},
             Setitimer("main", v, 0, next), pc'["handler"] = pc["handler"],
             UNCHANGED <<value, interval, tickers>>, nap' \in prog.naps,
             v = IF next = "unmask" THEN 0 ELSE nap' * USECS,
             next = "armed" => value = 0 /\ tickers = {},
             next # "armed" => remaining' = Whole(nap')
      PROVE  NapInv'
  <2>1. /\ pc'["main"] = "remove" /\ new'["main"] = [value |-> v, interval |-> 0]
        /\ then'["main"] = next
    BY <1>b, <1>u, MainExcept DEF Setitimer
  <2>2. Place' = next /\ Setting'
    BY <2>1, <1>u DEF Place, Setting
  <2>3. new'["main"].value = v /\ new'["main"].interval = 0
    BY <2>1
  <2> QED
    BY <1>b, <1>0, <1>i, <2>1, <2>2, <2>3 DEF NapInv
<1>h. ASSUME NEW v, NEW next \in {"armed", "suspend", "unmask"}, Setitimer("main", v, 0, next)
      PROVE  pc'["handler"] = pc["handler"]
  BY <1>h, <1>u, MainExcept DEF Setitimer
<1>10. ASSUME NEW n \in prog.naps, SleepBegin(n) PROVE NapInv'
  <2>1. /\ pc["main"] = "run" /\ Setitimer("main", n * USECS, 0, "armed") /\ nap' = n
        /\ UNCHANGED <<value, interval, tickers>>
    BY <1>10 DEF SleepBegin, Starts, timer
  <2>2. value = 0 /\ tickers = {}
    BY <2>1, <1>i
  <2> QED
    BY <1>b, <1>h, <2>1, <2>2
<1>11. CASE SleepArmed
  <2> DEFINE rem == UalarmResult \div USECS
  <2>1. /\ pc["main"] = "armed" /\ remaining' = rem /\ nap' = nap
        /\ UNCHANGED <<value, interval, tickers>>
    BY <1>11 DEF SleepArmed, timer
  <2>2. Place = "armed" /\ nap \in prog.naps
    BY <2>1, <1>i, <1>u, <1>p DEF Setting
  <2>3. rem = Whole(nap)
    BY <2>1, <1>i, <1>u, MadeUp DEF UalarmResult
  <2>4. CASE Sooner(rem)
    <3>1. Setitimer("main", nap * USECS, 0, "suspend")
      BY <1>11, <2>4 DEF SleepArmed
    <3> HIDE DEF rem
    <3> QED
      BY <1>b, <1>h, <2>1, <2>2, <2>3, <3>1
  <2>5. CASE ~Sooner(rem)
    <3>1. pc' = [pc EXCEPT !["main"] = "suspend"] /\ UNCHANGED <<new, old, then>>
      BY <1>11, <2>5 DEF SleepArmed, call
    <3> HIDE DEF rem
    <3>2. pc'["main"] = "suspend" /\ pc'["handler"] = pc["handler"]
      BY <3>1, <1>u, MainExcept
    <3>3. Place' = "suspend" /\ ~Setting'
      BY <3>2, <1>u DEF Place, Setting
    <3> QED
      BY <1>0, <1>i, <2>1, <2>2, <2>3, <3>1, <3>2, <3>3 DEF NapInv
  <2> QED
    BY <2>4, <2>5
\* Sleep goes on, outside setitimer.
<1>c. ASSUME UNCHANGED <<value, interval, tickers, new, old, then, nap, remaining>>,
             pc'["handler"] \in {"none", "run"},
             <<pc["main"], pc'["main"]>> \in
               {<<"suspend", "sleep">>, <<"sleep", "wait">>, <<"wait", "woken">>, <<"unmask", "run">>}
      PROVE  NapInv'
  <2>1. ~Setting /\ ~Setting' /\ Place = pc["main"] /\ Place' = pc'["main"]
    BY <1>c, <1>u DEF Place, Setting
  <2>2. pc'["main"] # "armed" /\ pc'["main"] \notin SetitimerSteps
    BY <1>c, <1>u
  <2> QED
    BY <1>c, <1>0, <1>i, <2>1, <2>2 DEF NapInv
<1>12. CASE Suspend
  <2>1. /\ pc["main"] = "suspend" /\ SetMask(FALSE, "sleep")
        /\ UNCHANGED <<value, interval, tickers, new, old, then, nap, remaining>>
    BY <1>12 DEF Suspend, timer, call, sleep
  <2>2. pc'["main"] \in {"dead", "sleep"} /\ pc'["handler"] \in {"none", "run"}
    BY <2>1, <1>i, <1>u, SetMaskIs
  <2> QED
    BY <1>a, <1>c, <1>i, <2>1, <2>2
<1>13. CASE SuspendSleeps
  <2>1. pc["main"] = "sleep" /\ pc' = [pc EXCEPT !["main"] = "wait"]
        /\ UNCHANGED <<value, interval, tickers, new, old, then, nap, remaining>>
    BY <1>13 DEF SuspendSleeps, timer, call, sleep
  <2>2. pc'["main"] = "wait" /\ pc'["handler"] = pc["handler"]
    BY <2>1, <1>u, MainExcept
  <2> QED
    BY <1>c, <1>i, <2>1, <2>2
<1>14. CASE SuspendReturns
  <2>1. /\ pc["main"] = "wait" /\ SetMask(TRUE, "woken")
        /\ UNCHANGED <<value, interval, tickers, new, old, then, nap, remaining>>
    BY <1>14 DEF SuspendReturns, timer, call, sleep
  <2>2. pc'["main"] = "woken" /\ pc'["handler"] = pc["handler"]
    BY <2>1, <1>u, SetMaskIs
  <2> QED
    BY <1>c, <1>i, <2>1, <2>2
<1>15. CASE SleepWoken
  <2>1. /\ pc["main"] = "woken" /\ UNCHANGED <<value, interval, tickers, nap, remaining>>
        /\ Setitimer("main", IF remaining > slept THEN (remaining - slept) * USECS ELSE 0, 0, "unmask")
    BY <1>15 DEF SleepWoken, timer, sleep
  <2>2. Place = "woken" /\ nap \in prog.naps /\ remaining = Whole(nap)
    BY <2>1, <1>i, <1>u, <1>p DEF Setting
  <2>3. ~(remaining > slept)
    <3>1. CASE prog.others
      <4>1. remaining = 0
        BY <3>1, <2>2, <1>0, WholeIs DEF Calm
      <4> QED
        BY <4>1, <1>u
    <3>2. CASE ~prog.others
      <4>1. slept >= nap
        BY <3>2, <2>2 DEF FlightInv
      <4>2. remaining <= nap
        BY <2>2, <1>u, WholeIs
      <4> QED
        BY <4>1, <4>2, <1>u
    <3> QED
      BY <3>1, <3>2
  <2>4. Setitimer("main", 0, 0, "unmask")
    BY <2>1, <2>3
  <2> QED
    BY <1>b, <1>h, <2>1, <2>2, <2>4
<1>16. CASE SleepReturns
  <2>1. /\ pc["main"] = "unmask" /\ SetMask(FALSE, "run")
        /\ UNCHANGED <<value, interval, tickers, new, old, then, nap, remaining>>
    BY <1>16 DEF SleepReturns, timer, call, sleep
  <2>2. pc'["main"] \in {"dead", "run"} /\ pc'["handler"] \in {"none", "run"}
    BY <2>1, <1>i, <1>u, SetMaskIs
  <2> QED
    BY <1>a, <1>c, <1>i, <2>1, <2>2
<1> QED
  BY <1>i, <1>1, <1>2, <1>3, <1>4, <1>5, <1>6, <1>7, <1>8, <1>9, <1>10, <1>11, <1>12, <1>13, <1>14, <1>15, <1>16,
     CalmNext

LEMMA FlightStep ==
  ASSUME TypeOK, PlaceInv, NapInv, FlightInv, [Next]_vars
  PROVE  FlightInv'
<1> SUFFICES ASSUME Calm, ~prog.others PROVE FlightInv'
  BY AlarmProgramStays DEF FlightInv, Calm
<1>0. /\ TypeOK' /\ prog' = prog /\ prog.naps \subseteq Nat \ {0} /\ prog.maxslept \in Nat
      /\ \A n \in prog.naps : n <= prog.maxslept
      /\ tickers \subseteq Event /\ \A t \in tickers : t.left \in Nat
  BY AlarmProgramStays, AlarmTypeStep, ProgramTypes DEF TypeOK, Event
<1>i. /\ callbacks \in {0, 1} /\ (callbacks = 1 => tickers = {})
      /\ Place \notin {"run", "dead"} =>
         /\ \A t \in tickers : t.left + slept >= nap
         /\ callbacks > 0 \/ pended \/ pc["handler"] # "none" => slept >= nap
      /\ pended /\ ~blocked => pc["handler"] # "none"
      /\ pc["main"] = "wait" /\ ~sleeping => slept >= nap /\ tickers = {} /\ callbacks = 0
      /\ Place \in {"run", "woken", "unmask"} \/ (Setting /\ Place = "armed") =>
           tickers = {} /\ callbacks = 0 /\ ~pended /\ pc["handler"] = "none"
      /\ Place \in {"woken", "unmask"} => slept >= nap
  BY DEF FlightInv
<1>n. /\ pc["handler"] \in {"none", "run"} /\ interval = 0
      /\ Setting => Place # "run"
      /\ \A t, u \in tickers : t = u /\ t.every = 0
      /\ Place \notin {"run", "dead"} => nap \in prog.naps
      /\ Setting => new["main"].value = IF Place = "unmask" THEN 0 ELSE nap * USECS
      /\ pc["main"] \in {"run", "unmask", "assign", "add"} => tickers = {}
  BY DEF NapInv
<1>l. /\ pc["main"] # "dead" => (blocked <=> Place \in {"armed", "suspend", "woken", "unmask"})
      /\ (pc["main"] = "dead" \/ blocked \/ sleeping) => pc["handler"] = "none"
  BY DEF PlaceInv
<1>u. /\ SetitimerSteps = {"remove", "assign", "add"}
      /\ pc["main"] \in MainPcs /\ pc["handler"] \in HandlerPcs
      /\ SetitimerSteps \cup {"run"} \subseteq MainPcs \cap HandlerPcs
      /\ {"armed", "suspend", "sleep", "wait", "woken", "unmask"} \subseteq MainPcs
      /\ then["main"] \in {"run", "armed", "suspend", "unmask"}
      /\ Callers = {"main", "handler"} /\ "main" \in Callers
      /\ new \in [Callers -> [value : Nat, interval : Nat]]
      /\ then \in [Callers -> SleepSteps \cup {"run"}]
      /\ nap \in Nat /\ slept \in Nat /\ pended \in BOOLEAN /\ blocked \in BOOLEAN /\ sleeping \in BOOLEAN
      /\ act \in {"default", "user", "nap"}
  BY ProgramTypes DEF TypeOK, PlaceInv, MainPcs, HandlerPcs, SetitimerSteps, SleepSteps, Callers
<1>p. /\ Place = IF Setting THEN then["main"] ELSE pc["main"]
      /\ pc["main"] \in {"run", "armed", "suspend", "sleep", "wait", "woken", "unmask"} =>
           ~Setting /\ Place = pc["main"]
  BY <1>u DEF Place, Setting
\* Steps that leave the program where it is.
<1>a. ASSUME UNCHANGED <<then, nap>>, pc'["main"] = pc["main"]
      PROVE  Place' = Place /\ Setting' = Setting
  BY <1>a, PlaceKept DEF Setting
\* Steps after which the process is dead.
<1>d. ASSUME pc'["main"] = "dead", callbacks' \in {0, 1}, callbacks' = 1 => tickers' = {},
             pended' = FALSE
      PROVE  FlightInv'
  <2>1. Place' = "dead" /\ ~Setting'
    BY <1>d, <1>u DEF Place, Setting
  <2> QED
    BY <1>d, <2>1 DEF FlightInv
<1>1. CASE UNCHANGED vars
  <2>1. Place' = Place /\ Setting' = Setting /\ UNCHANGED <<timer, signal, pc, nap, slept>>
    BY <1>1, <1>a DEF vars, timer, call, sleep
  <2> QED
    BY <1>i, <2>1 DEF timer, signal, FlightInv
<1>2. CASE Tick
  <2>1. /\ callbacks = 0 /\ pc["main"] # "dead" /\ callbacks' = Cardinality(Over) /\ tickers' = Ticked
        /\ slept' = (IF slept < prog.maxslept THEN slept + 1 ELSE slept)
        /\ pc' = pc /\ pended' = pended /\ blocked' = blocked /\ sleeping' = sleeping /\ nap' = nap
        /\ then' = then
    BY <1>2, TickIs DEF signal, call
  <2>2. Place' = Place /\ Setting' = Setting
    BY <2>1, <1>a
  <2>3. /\ callbacks' \in {0, 1} /\ (callbacks' = 1 => tickers' = {})
        /\ tickers = {} => tickers' = {} /\ callbacks' = 0
        /\ \A t \in tickers' : \E u \in tickers : t.left = u.left - 1
        /\ callbacks' = 1 => \E u \in tickers : u.left = 1
    BY <2>1, <1>0, <1>n, TickedOne
  <2>4. ASSUME Place \notin {"run", "dead"}
        PROVE  /\ slept' >= slept /\ slept' \in Nat
               /\ slept >= nap => slept' >= nap
               /\ \A t \in tickers' : t.left + slept' >= nap
               /\ callbacks' > 0 => slept' >= nap
    <3>1. nap <= prog.maxslept
      BY <2>4, <1>0, <1>n
    <3>2. slept' >= slept /\ slept' \in Nat /\ (slept' >= slept + 1 \/ slept' >= nap)
      BY <2>1, <3>1, <1>0, <1>u
    <3>3. ASSUME NEW t \in tickers' PROVE t.left + slept' >= nap
      <4>1. PICK u \in tickers : t.left = u.left - 1
        BY <2>3
      <4>2. u.left \in Nat \ {0} /\ u.left + slept >= nap
        BY <2>4, <1>0, <1>i DEF Event
      <4> QED
        BY <3>2, <4>1, <4>2, <1>u
    <3>4. callbacks' > 0 => slept' >= nap
      <4>1. SUFFICES ASSUME callbacks' > 0 PROVE slept' >= nap
        OBVIOUS
      <4>2. PICK u \in tickers : u.left = 1
        BY <2>3, <4>1
      <4>3. 1 + slept >= nap
        BY <2>4, <4>2, <1>i
      <4> QED
        BY <3>2, <4>3, <1>u
    <3> QED
      BY <3>2, <3>3, <3>4, <1>u
  <2>5. Place \notin {"run", "dead"} =>
         /\ \A t \in tickers' : t.left + slept' >= nap
         /\ callbacks' > 0 \/ pended \/ pc["handler"] # "none" => slept' >= nap
    BY <2>4, <1>i
  <2>6. pc["main"] = "wait" /\ ~sleeping => slept' >= nap /\ tickers' = {} /\ callbacks' = 0
    BY <2>3, <2>4, <1>i, <1>p
  <2>7. Place \in {"woken", "unmask"} => slept' >= nap
    BY <2>4, <1>i
  <2>8. Place \in {"run", "woken", "unmask"} \/ (Setting /\ Place = "armed") =>
           tickers' = {} /\ callbacks' = 0 /\ ~pended /\ pc["handler"] = "none"
    BY <2>3, <1>i
  <2> QED
    BY <2>1, <2>2, <2>3, <2>5, <2>6, <2>7, <2>8, <1>i DEF FlightInv
<1>3. CASE CallBack
  <2>1. /\ UNCHANGED <<then, nap, slept, blocked>> /\ pc["main"] # "dead"
        /\ callbacks = 1 /\ callbacks' = 0 /\ tickers = {}
    BY <1>3, <1>i DEF CallBack, call, sleep
  <2>2. CallEvery => tickers' = {}
    BY <2>1, <1>n DEF CallEvery
  <2>3. /\ Place \notin {"run", "woken", "unmask"} /\ ~(Setting /\ Place = "armed")
        /\ Place # "dead" /\ slept >= nap
    BY <2>1, <1>i, <1>p, <1>u
  <2>4. CASE blocked \/ pc["handler"] # "none"
    <3>1. /\ pended' = TRUE /\ sleeping' = (sleeping /\ pc["handler"] # "none") /\ pc' = pc /\ tickers' = {}
      BY <1>3, <2>2, <2>4 DEF CallBack
    <3>2. Place' = Place /\ Setting' = Setting
      BY <2>1, <3>1, <1>a
    <3> QED
      BY <1>i, <2>1, <2>3, <2>4, <3>1, <3>2 DEF FlightInv
  <2>5. CASE ~(blocked \/ pc["handler"] # "none")
    <3>1. Post(pc["main"]) /\ tickers' = {} /\ pended' = FALSE
      BY <1>3, <1>i, <1>u, <2>1, <2>2, <2>5 DEF CallBack
    <3>2. CASE pc'["main"] = "dead"
      BY <1>d, <2>1, <3>1, <3>2
    <3>3. CASE pc'["main"] = pc["main"] /\ sleeping' = FALSE
      <4>1. Place' = Place /\ Setting' = Setting
        BY <2>1, <3>3, <1>a
      <4> QED
        BY <1>i, <2>1, <2>3, <3>1, <3>3, <4>1 DEF FlightInv
    <3> QED
      BY <2>1, <3>1, <3>2, <3>3, PlaceOfPost
  <2> QED
    BY <2>4, <2>5
<1>4. CASE HandlerReturns
  <2>1. /\ UNCHANGED <<then, nap, slept, blocked>> /\ pc["main"] # "dead" /\ ~blocked
        /\ callbacks = 0 /\ callbacks' = 0 /\ pc["handler"] = "run" /\ ~sleeping
    BY <1>4, <1>l DEF HandlerReturns, call, sleep, Goes
  <2>2. tickers' = tickers
    BY <1>4, <1>n DEF HandlerReturns, CallEvery
  <2>3. /\ Place \notin {"run", "woken", "unmask"} /\ ~(Setting /\ Place = "armed")
        /\ Place # "dead" /\ slept >= nap
    BY <2>1, <1>i, <1>p, <1>u
  <2>4. pended' = FALSE /\ (pc'["main"] = "dead" \/ (pc'["main"] = pc["main"] /\ sleeping' = FALSE))
    <3>1. CASE pended
      <4>1. Post(pc["main"]) /\ pended' = FALSE
        BY <1>4, <2>1, <3>1 DEF HandlerReturns
      <4> QED
        BY <2>1, <4>1, PlaceOfPost
    <3>2. CASE ~pended
      <4>1. pc' = [pc EXCEPT !["handler"] = "none"] /\ sleeping' = FALSE /\ pended' = pended
        BY <1>4, <3>2 DEF HandlerReturns
      <4>2. pc'["main"] = pc["main"] /\ pended' = FALSE
        BY <4>1, <3>2 DEF TypeOK
      <4> QED
        BY <4>1, <4>2
    <3> QED
      BY <3>1, <3>2
  <2>5. CASE pc'["main"] = "dead"
    <3>1. callbacks' \in {0, 1} /\ (callbacks' = 1 => tickers' = {})
      BY <2>1
    <3>2. pended' = FALSE
      BY <2>4
    <3> QED
      BY <1>d, <2>5, <3>1, <3>2
  <2>6. CASE pc'["main"] = pc["main"] /\ sleeping' = FALSE
    <3>1. Place' = Place /\ Setting' = Setting
      BY <2>1, <2>6, <1>a
    <3> QED
      BY <1>i, <2>1, <2>2, <2>3, <2>4, <2>6, <3>1 DEF FlightInv
  <2> QED
    BY <2>4, <2>5, <2>6
<1>5. CASE OtherSignal
  BY <1>5 DEF OtherSignal
\* Steps of setitimer and sleep that go on without a change of the mask.
<1>b. ASSUME UNCHANGED <<callbacks, pended, blocked, sleeping, nap, slept>>,
             pc["main"] # "dead", pc'["main"] \notin {"wait", "dead"}, pc'["handler"] = pc["handler"],
             tickers' = {} \/ tickers' = tickers,
             Place' = Place, Place' = "armed" /\ Setting' => Setting
      PROVE  FlightInv'
  <2>1. Place \in {"run", "woken", "unmask"} \/ (Setting /\ Place = "armed") =>
           tickers' = {} /\ callbacks = 0 /\ ~pended /\ pc["handler"] = "none"
    BY <1>b, <1>i
  <2> QED
    BY <1>b, <1>i, <2>1 DEF FlightInv
<1>6. CASE RemoveTicker("main")
  <2>1. /\ pc["main"] = "remove" /\ UNCHANGED <<callbacks, pended, blocked, sleeping, then, nap, slept>>
        /\ pc' = [pc EXCEPT !["main"] = "assign"]
        /\ \/ tickers = {} /\ tickers' = {}
           \/ \E t \in tickers : tickers' = tickers \ {t}
    BY <1>6 DEF RemoveTicker, signal, sleep
  <2>2. tickers' = {}
    BY <2>1, <1>n
  <2>3. pc'["main"] = "assign" /\ pc'["handler"] = pc["handler"]
    BY <2>1, <1>u, MainExcept
  <2>4. Place' = Place /\ Setting
    BY <2>1, <2>3, <1>u DEF Place, Setting
  <2> QED
    BY <1>b, <2>1, <2>2, <2>3, <2>4
<1>7. CASE Assign("main")
  <2>1. /\ pc["main"] = "assign" /\ UNCHANGED <<callbacks, pended, blocked, sleeping, then, nap, slept, tickers>>
        /\ pc' = [pc EXCEPT !["main"] = "add"]
    BY <1>7 DEF Assign, signal, call, sleep
  <2>2. pc'["main"] = "add" /\ pc'["handler"] = pc["handler"]
    BY <2>1, <1>u, MainExcept
  <2>3. Place' = Place /\ Setting
    BY <2>1, <2>2, <1>u DEF Place, Setting
  <2> QED
    BY <1>b, <2>1, <2>2, <2>3
<1>8. CASE AddTicker("main")
  <2>1. /\ pc["main"] = "add" /\ UNCHANGED <<pended, blocked, sleeping, then, nap, slept>>
        /\ callbacks = 0 /\ callbacks' = 0 /\ pc["handler"] = "none"
        /\ tickers' = (IF new["main"].value = 0 THEN tickers
                       ELSE tickers \cup {NewTicker(Delay(new["main"].value), 0)})
        /\ pc' = [pc EXCEPT !["main"] = then["main"]]
    BY <1>8 DEF AddTicker, signal, call, sleep, Goes
  <2>2. Setting /\ Place = then["main"] /\ Place \in {"armed", "suspend", "unmask"} /\ tickers = {}
    BY <2>1, <1>n, <1>u, <1>p DEF Setting
  <2>3. pc'["main"] = Place /\ pc'["handler"] = "none"
    BY <2>1, <2>2, <1>u, MainExcept
  <2>4. Place' = Place /\ ~Setting'
    BY <2>2, <2>3, <1>u DEF Place, Setting
  <2>5. CASE Place = "unmask"
    <3>1. tickers' = {}
      BY <2>1, <2>2, <2>5, <1>n
    <3> QED
      BY <1>b, <2>1, <2>2, <2>3, <2>4, <3>1
  <2>6. CASE Place \in {"armed", "suspend"}
    <3>1. new["main"].value = nap * USECS
      BY <2>2, <2>6, <1>n
    <3>2. \A t \in tickers' : t.left = nap
      BY <2>1, <2>2, <3>1, <1>u, NapDelay, FirstTickerIs
    <3>3. \A t \in tickers' : t.left + slept >= nap
      BY <3>2, <1>u
    <3> QED
      BY <1>i, <2>1, <2>2, <2>3, <2>4, <2>6, <3>3 DEF FlightInv
  <2> QED
    BY <2>2, <2>5, <2>6
<1>9. ASSUME NEW c \in Callers, Sigaction(c) PROVE FlightInv'
  <2>1. Place' = Place /\ Setting' = Setting /\ UNCHANGED <<timer, pended, blocked, sleeping, pc, nap, slept>>
    BY <1>9, <1>a DEF Sigaction, call, sleep
  <2> QED
    BY <1>i, <2>1 DEF timer, FlightInv
<1>10. ASSUME NEW n \in prog.naps, SleepBegin(n) PROVE FlightInv'
  <2>1. /\ pc["main"] = "run" /\ Setitimer("main", n * USECS, 0, "armed") /\ nap' = n /\ blocked' = TRUE
        /\ UNCHANGED <<tickers, callbacks, pended, sleeping>>
    BY <1>10 DEF SleepBegin, Starts, timer
  <2>2. tickers = {} /\ callbacks = 0 /\ ~pended /\ pc["handler"] = "none"
    BY <2>1, <1>i, <1>p
  <2>3. pc'["main"] = "remove" /\ pc'["handler"] = "none" /\ then'["main"] = "armed"
    BY <2>1, <2>2, <1>u, MainExcept DEF Setitimer
  <2>4. Place' = "armed" /\ Setting'
    BY <2>3, <1>u DEF Place, Setting
  <2> QED
    BY <2>1, <2>2, <2>3, <2>4 DEF FlightInv
<1>11. CASE SleepArmed
  <2> DEFINE rem == UalarmResult \div USECS
  <2>1. /\ pc["main"] = "armed" /\ UNCHANGED <<tickers, callbacks, pended, blocked, sleeping, nap, slept>>
    BY <1>11 DEF SleepArmed, timer
  <2>2. Place = "armed" /\ ~Setting
    BY <2>1, <1>p
  <2>3. pc'["main"] \in {"remove", "suspend"} /\ pc'["handler"] = pc["handler"] /\ Place' = "suspend"
    <3>1. CASE Sooner(rem)
      <4>1. Setitimer("main", nap * USECS, 0, "suspend")
        BY <1>11, <3>1 DEF SleepArmed
      <4>2. pc'["main"] = "remove" /\ pc'["handler"] = pc["handler"] /\ then'["main"] = "suspend"
        BY <4>1, <1>u, MainExcept DEF Setitimer
      <4> QED
        BY <4>2, <1>u DEF Place
    <3>2. CASE ~Sooner(rem)
      <4>1. pc' = [pc EXCEPT !["main"] = "suspend"]
        BY <1>11, <3>2 DEF SleepArmed
      <4>2. pc'["main"] = "suspend" /\ pc'["handler"] = pc["handler"]
        BY <4>1, <1>u, MainExcept
      <4> QED
        BY <4>2, <1>u DEF Place
    <3> QED
      BY <3>1, <3>2
  <2> QED
    BY <1>i, <2>1, <2>2, <2>3 DEF FlightInv
<1>12. CASE Suspend
  <2>1. /\ pc["main"] = "suspend" /\ SetMask(FALSE, "sleep") /\ pc["handler"] = "none"
        /\ UNCHANGED <<tickers, callbacks, then, nap, slept>>
    BY <1>12 DEF Suspend, timer, call, sleep, Goes
  <2>2. "sleep" \in MainPcs \ {"dead"}
    BY <1>u
  <2>3. \/ /\ pended /\ pended' = FALSE
           /\ pc'["main"] = "dead" \/ pc'["main"] = "sleep"
        \/ /\ pended' = FALSE /\ pc'["main"] = "sleep" /\ pc'["handler"] = "none"
    BY <2>1, <2>2, <1>u, SetMaskIs
  <2>4. Place = "suspend"
    BY <2>1, <1>p
  <2>5. CASE pc'["main"] = "dead"
    BY <1>d, <1>i, <2>1, <2>3, <2>5
  <2>6. CASE pc'["main"] = "sleep"
    <3>1. Place' = "sleep" /\ ~Setting'
      BY <2>6, <1>u DEF Place, Setting
    <3> QED
      BY <1>i, <2>1, <2>3, <2>4, <2>6, <3>1 DEF FlightInv
  <2> QED
    BY <2>3, <2>5, <2>6
<1>13. CASE SuspendSleeps
  <2>1. /\ pc["main"] = "sleep" /\ pc' = [pc EXCEPT !["main"] = "wait"] /\ sleeping' = TRUE
        /\ UNCHANGED <<tickers, callbacks, pended, blocked, nap, slept>>
    BY <1>13 DEF SuspendSleeps, timer, sleep
  <2>2. pc'["main"] = "wait" /\ pc'["handler"] = pc["handler"]
    BY <2>1, <1>u, MainExcept
  <2>3. Place' = "wait" /\ ~Setting' /\ Place = "sleep"
    BY <2>1, <2>2, <1>u, <1>p DEF Place, Setting
  <2> QED
    BY <1>i, <2>1, <2>2, <2>3 DEF FlightInv
<1>14. CASE SuspendReturns
  <2>1. /\ pc["main"] = "wait" /\ ~sleeping /\ SetMask(TRUE, "woken") /\ pc["handler"] = "none"
        /\ UNCHANGED <<tickers, callbacks, nap, slept>>
    BY <1>14 DEF SuspendReturns, timer, sleep, Goes
  <2>2. /\ pended' = pended /\ pc'["main"] = "woken" /\ pc'["handler"] = "none" /\ blocked' = TRUE
    BY <2>1, <1>u, SetMaskIs
  <2>3. Place' = "woken" /\ ~Setting' /\ Place = "wait"
    BY <2>1, <2>2, <1>u, <1>p DEF Place, Setting
  <2>4. ~pended
    BY <1>i, <1>l, <2>1, <2>3
  <2> QED
    BY <1>i, <2>1, <2>2, <2>3, <2>4 DEF FlightInv
<1>15. CASE SleepWoken
  <2>1. /\ pc["main"] = "woken" /\ UNCHANGED <<tickers, callbacks, pended, blocked, sleeping, nap, slept>>
        /\ \E v : Setitimer("main", v, 0, "unmask")
    BY <1>15 DEF SleepWoken, timer, sleep
  <2>2. pc'["main"] = "remove" /\ pc'["handler"] = pc["handler"] /\ then'["main"] = "unmask"
    BY <2>1, <1>u, MainExcept DEF Setitimer
  <2>3. Place' = "unmask" /\ Setting' /\ Place = "woken"
    BY <2>1, <2>2, <1>u, <1>p DEF Place, Setting
  <2> QED
    BY <1>i, <2>1, <2>2, <2>3 DEF FlightInv
<1>16. CASE SleepReturns
  <2>1. /\ pc["main"] = "unmask" /\ SetMask(FALSE, "run") /\ UNCHANGED <<tickers, callbacks>>
    BY <1>16 DEF SleepReturns, timer
  <2>2. tickers = {} /\ callbacks = 0 /\ ~pended /\ pc["handler"] = "none"
    BY <2>1, <1>i, <1>p
  <2>3. pc'["main"] = "run" /\ pc'["handler"] = "none" /\ pended' = pended
    BY <2>1, <2>2, <1>u, SetMaskIs
  <2>4. Place' = "run" /\ ~Setting'
    BY <2>3, <1>u DEF Place, Setting
  <2> QED
    BY <2>1, <2>2, <2>3, <2>4 DEF FlightInv
<1> QED
  BY <1>n, <1>1, <1>2, <1>3, <1>4, <1>5, <1>6, <1>7, <1>8, <1>9, <1>10, <1>11, <1>12, <1>13, <1>14, <1>15, <1>16,
     CalmNext

\* With no other signals, and with plain naps, SIGALRM finds sleep's handler.
KeptInv ==
  Calm /\ ~prog.others /\ PlainNaps =>
    /\ pc["main"] # "dead" /\ pc["handler"] = "none"
    /\ callbacks > 0 \/ pended \/ tickers # {} => act = "nap"
    /\ pended => tickers = {} /\ callbacks = 0
    /\ Place = "armed" => act = "nap"
    /\ Setting => Place # "suspend"

\* The action is what sleep has found, from when it has restored it.
RestoredInv ==
  Calm /\ PlainNaps /\ Place = "unmask" => act = oact

\* A plain nap makes ualarm report no alarm, or one that is no sooner.
LEMMA NotSooner ==
  ASSUME TypeOK, Calm, PlainNaps, nap \in prog.naps
  PROVE  ~Sooner(Whole(nap))
<1>1. nap \in Nat
  BY ProgramTypes DEF TypeOK
<1>2. CASE nap < TICKS
  BY <1>1, <1>2, WholeIs DEF Sooner
<1>3. CASE nap % TICKS = 0
  BY <1>1, <1>3, WholeIs DEF Sooner
<1> QED
  BY <1>2, <1>3 DEF PlainNaps

LEMMA NapKeptStep ==
  ASSUME TypeOK, PlaceInv, NapInv, FlightInv, KeptInv, [Next]_vars
  PROVE  KeptInv'
<1> SUFFICES ASSUME Calm, ~prog.others, PlainNaps PROVE KeptInv'
  BY AlarmProgramStays DEF KeptInv, Calm, PlainNaps
<1>0. prog' = prog /\ tickers \subseteq Event
  BY AlarmProgramStays DEF TypeOK, Event
<1>i. /\ pc["main"] # "dead" /\ pc["handler"] = "none"
      /\ callbacks > 0 \/ pended \/ tickers # {} => act = "nap"
      /\ pended => tickers = {} /\ callbacks = 0
      /\ Place = "armed" => act = "nap"
      /\ Setting => Place # "suspend"
  BY DEF KeptInv
<1>n. /\ interval = 0
      /\ Setting => Place # "run"
      /\ \A t, u \in tickers : t = u /\ t.every = 0
      /\ Setting => new["main"].value = IF Place = "unmask" THEN 0 ELSE nap * USECS
      /\ Place \notin {"run", "dead"} => nap \in prog.naps
      /\ pc["main"] = "armed" => new["main"].value = nap * USECS /\ old["main"] = 0
      /\ pc["main"] \in {"run", "unmask", "assign", "add"} => tickers = {}
  BY DEF NapInv
<1>f. /\ callbacks \in {0, 1} /\ (callbacks = 1 => tickers = {})
      /\ pended /\ ~blocked => pc["handler"] # "none"
      /\ Place \in {"run", "woken", "unmask"} => tickers = {} /\ callbacks = 0 /\ ~pended
  BY DEF FlightInv
<1>l. blocked <=> Place \in {"armed", "suspend", "woken", "unmask"}
  BY <1>i DEF PlaceInv
<1>u. /\ SetitimerSteps = {"remove", "assign", "add"}
      /\ pc["main"] \in MainPcs
      /\ SetitimerSteps \cup {"run"} \subseteq MainPcs \cap HandlerPcs
      /\ {"armed", "suspend", "sleep", "wait", "woken", "unmask"} \subseteq MainPcs
      /\ then["main"] \in {"run", "armed", "suspend", "unmask"}
      /\ Callers = {"main", "handler"} /\ "main" \in Callers
      /\ then \in [Callers -> SleepSteps \cup {"run"}]
      /\ pended \in BOOLEAN /\ blocked \in BOOLEAN /\ nap \in Nat
      /\ act \in {"default", "user", "nap"}
  BY ProgramTypes DEF TypeOK, PlaceInv, MainPcs, HandlerPcs, SetitimerSteps, SleepSteps, Callers
<1>p. /\ Place = IF Setting THEN then["main"] ELSE pc["main"]
      /\ pc["main"] \in {"run", "armed", "suspend", "sleep", "wait", "woken", "unmask"} =>
           ~Setting /\ Place = pc["main"]
  BY <1>u DEF Place, Setting
\* Steps that leave the program where it is.
<1>a. ASSUME then' = then, pc' = pc
      PROVE  Place' = Place /\ Setting' = Setting
  BY <1>a, PlaceKept DEF Setting
\* Steps that take the program on, with the signal as it is.
<1>b. ASSUME UNCHANGED <<callbacks, pended, act>>, tickers' = tickers \/ tickers' = {},
             pc'["main"] # "dead", pc'["handler"] = "none",
             Place' = "armed" => act = "nap", Setting' => Place' # "suspend"
      PROVE  KeptInv'
  BY <1>b, <1>i DEF KeptInv
<1>1. CASE UNCHANGED vars
  <2>1. Place' = Place /\ Setting' = Setting /\ UNCHANGED <<timer, signal, pc>>
    BY <1>1, <1>a DEF vars, timer, call, sleep
  <2> QED
    BY <1>b, <1>i, <2>1 DEF timer, signal
<1>2. CASE Tick
  <2>1. /\ callbacks' = Cardinality(Over) /\ tickers' = Ticked
        /\ pc' = pc /\ pended' = pended /\ act' = act /\ then' = then
    BY <1>2, TickIs DEF signal, call
  <2>2. Place' = Place /\ Setting' = Setting
    BY <2>1, <1>a
  <2>3. /\ callbacks' \in {0, 1} /\ (tickers = {} => tickers' = {} /\ callbacks' = 0)
    BY <2>1, <1>0, <1>n, TickedOne
  <2>4. /\ callbacks' > 0 \/ pended \/ tickers' # {} => act = "nap"
        /\ pended => tickers' = {} /\ callbacks' = 0
    BY <2>3, <1>i
  <2> QED
    BY <1>i, <2>1, <2>2, <2>4 DEF KeptInv
<1>3. CASE CallBack
  <2>1. then' = then /\ callbacks = 1 /\ callbacks' = 0 /\ tickers = {} /\ act = "nap" /\ ~pended
    BY <1>3, <1>f, <1>i DEF CallBack, call
  <2>2. CallEvery => tickers' = {}
    BY <2>1, <1>n DEF CallEvery
  <2>3. CASE blocked
    <3>1. pended' = TRUE /\ pc' = pc /\ act' = act /\ tickers' = {}
      BY <1>3, <2>2, <2>3 DEF CallBack
    <3>2. Place' = Place /\ Setting' = Setting
      BY <2>1, <3>1, <1>a
    <3> QED
      BY <1>i, <2>1, <3>1, <3>2 DEF KeptInv
  <2>4. CASE ~blocked
    <3>1. Post(pc["main"]) /\ tickers' = {} /\ pended' = pended
      BY <1>3, <1>i, <2>1, <2>2, <2>4 DEF CallBack
    <3>2. pc'["main"] = pc["main"] /\ pc'["handler"] = "none" /\ Place' = Place
      BY <1>i, <2>1, <3>1, PlaceOfPost
    <3>3. Setting' = Setting /\ Place # "armed"
      BY <2>4, <3>2, <1>l DEF Setting
    <3> QED
      BY <1>i, <2>1, <3>1, <3>2, <3>3 DEF KeptInv
  <2> QED
    BY <2>3, <2>4
<1>4. ~HandlerReturns
  BY <1>i DEF HandlerReturns
<1>5. ~OtherSignal
  BY DEF OtherSignal
<1>6. CASE RemoveTicker("main")
  <2>1. /\ pc["main"] = "remove" /\ UNCHANGED <<callbacks, pended, act, then>>
        /\ pc' = [pc EXCEPT !["main"] = "assign"]
        /\ \/ tickers = {} /\ tickers' = {}
           \/ \E t \in tickers : tickers' = tickers \ {t}
    BY <1>6 DEF RemoveTicker, signal
  <2>2. tickers' = {}
    BY <2>1, <1>n
  <2>3. pc'["main"] = "assign" /\ pc'["handler"] = "none"
    BY <2>1, <1>i, <1>u, MainExcept
  <2>4. Place' = Place /\ Setting
    BY <2>1, <2>3, <1>u DEF Place, Setting
  <2> QED
    BY <1>b, <1>i, <2>1, <2>2, <2>3, <2>4
<1>7. CASE Assign("main")
  <2>1. /\ pc["main"] = "assign" /\ UNCHANGED <<callbacks, pended, act, then, tickers>>
        /\ pc' = [pc EXCEPT !["main"] = "add"]
    BY <1>7 DEF Assign, signal, call
  <2>2. pc'["main"] = "add" /\ pc'["handler"] = "none"
    BY <2>1, <1>i, <1>u, MainExcept
  <2>3. Place' = Place /\ Setting
    BY <2>1, <2>2, <1>u DEF Place, Setting
  <2> QED
    BY <1>b, <1>i, <2>1, <2>2, <2>3
<1>8. CASE AddTicker("main")
  <2>1. /\ pc["main"] = "add" /\ UNCHANGED <<callbacks, pended, act, then>>
        /\ tickers' = (IF new["main"].value = 0 THEN tickers
                       ELSE tickers \cup {NewTicker(Delay(new["main"].value), 0)})
        /\ pc' = [pc EXCEPT !["main"] = then["main"]] /\ callbacks = 0
    BY <1>8 DEF AddTicker, signal, call, Goes
  <2>2. Setting /\ Place = then["main"] /\ Place \in {"armed", "unmask"} /\ tickers = {}
    BY <2>1, <1>i, <1>n, <1>u, <1>p DEF Setting
  <2>3. pc'["main"] = Place /\ pc'["handler"] = "none"
    BY <2>1, <2>2, <1>i, <1>u, MainExcept
  <2>4. Place' = Place /\ ~Setting'
    BY <2>2, <2>3, <1>u DEF Place, Setting
  <2>5. CASE Place = "unmask"
    <3>1. tickers' = {}
      BY <2>1, <2>2, <2>5, <1>n
    <3> QED
      BY <1>b, <1>i, <2>1, <2>2, <2>3, <2>4, <3>1
  <2>6. CASE Place = "armed"
    <3>1. act = "nap" /\ blocked
      BY <2>6, <1>i, <1>l
    <3>2. ~pended
      BY <2>2, <2>6 DEF FlightInv
    <3> QED
      BY <2>1, <2>2, <2>3, <2>4, <2>6, <3>1, <3>2 DEF KeptInv
  <2> QED
    BY <2>2, <2>5, <2>6
<1>9. ASSUME NEW c \in Callers, Sigaction(c) PROVE KeptInv'
  <2>1. Place' = Place /\ Setting' = Setting /\ UNCHANGED <<timer, pended, pc>> /\ pc[c] = "run"
    BY <1>9, <1>a DEF Sigaction, call
  <2>2. Place = "run" /\ ~Setting
    BY <2>1, <1>i, <1>u, <1>p
  <2> QED
    BY <1>i, <1>f, <2>1, <2>2 DEF timer, KeptInv
<1>10. ASSUME NEW n \in prog.naps, SleepBegin(n) PROVE KeptInv'
  <2>1. /\ pc["main"] = "run" /\ Setitimer("main", n * USECS, 0, "armed") /\ act' = "nap"
        /\ UNCHANGED <<tickers, callbacks, pended>>
    BY <1>10 DEF SleepBegin, Starts, timer
  <2>2. pc'["main"] = "remove" /\ pc'["handler"] = "none" /\ then'["main"] = "armed"
    BY <2>1, <1>i, <1>u, MainExcept DEF Setitimer
  <2>3. Place' = "armed" /\ Setting'
    BY <2>2, <1>u DEF Place, Setting
  <2> QED
    BY <1>i, <2>1, <2>2, <2>3 DEF KeptInv
<1>11. CASE SleepArmed
  <2> DEFINE rem == UalarmResult \div USECS
  <2>1. /\ pc["main"] = "armed" /\ UNCHANGED <<tickers, callbacks, pended>>
    BY <1>11 DEF SleepArmed, timer
  <2>2. Place = "armed" /\ nap \in prog.naps
    BY <2>1, <1>n, <1>p
  <2>3. rem = Whole(nap)
    BY <2>1, <1>n, <1>u, MadeUp DEF UalarmResult
  <2>4. ~Sooner(rem)
    BY <2>2, <2>3, NotSooner
  <2>5. pc' = [pc EXCEPT !["main"] = "suspend"] /\ act' = act
    BY <1>11, <2>4 DEF SleepArmed
  <2>6. pc'["main"] = "suspend" /\ pc'["handler"] = "none"
    BY <2>5, <1>i, <1>u, MainExcept
  <2>7. Place' = "suspend" /\ ~Setting'
    BY <2>6, <1>u DEF Place, Setting
  <2> QED
    BY <1>b, <2>1, <2>5, <2>6, <2>7
<1>12. CASE Suspend
  <2>1. /\ pc["main"] = "suspend" /\ SetMask(FALSE, "sleep") /\ UNCHANGED <<tickers, callbacks>>
    BY <1>12 DEF Suspend, timer
  <2>2. "sleep" \in MainPcs \ {"dead"}
    BY <1>u
  <2>3. /\ pended' = FALSE /\ pc'["main"] = "sleep" /\ pc'["handler"] = "none"
        /\ \/ pended
           \/ act' = act
    BY <2>1, <2>2, <1>i, <1>u, SetMaskIs
  <2>4. Place' = "sleep" /\ ~Setting'
    BY <2>3, <1>u DEF Place, Setting
  <2> QED
    BY <1>i, <2>1, <2>3, <2>4 DEF KeptInv
<1>13. CASE SuspendSleeps
  <2>1. /\ pc' = [pc EXCEPT !["main"] = "wait"] /\ UNCHANGED <<tickers, callbacks, pended, act>>
    BY <1>13 DEF SuspendSleeps, timer
  <2>2. pc'["main"] = "wait" /\ pc'["handler"] = "none"
    BY <2>1, <1>i, <1>u, MainExcept
  <2>3. Place' = "wait" /\ ~Setting'
    BY <2>2, <1>u DEF Place, Setting
  <2> QED
    BY <1>b, <2>1, <2>2, <2>3
<1>14. CASE SuspendReturns
  <2>1. SetMask(TRUE, "woken") /\ UNCHANGED <<tickers, callbacks>>
    BY <1>14 DEF SuspendReturns, timer
  <2>2. pended' = pended /\ act' = act /\ pc'["main"] = "woken" /\ pc'["handler"] = "none"
    BY <2>1, <1>i, <1>u, SetMaskIs
  <2>3. Place' = "woken" /\ ~Setting'
    BY <2>2, <1>u DEF Place, Setting
  <2> QED
    BY <1>b, <2>1, <2>2, <2>3
<1>15. CASE SleepWoken
  <2>1. /\ pc["main"] = "woken" /\ UNCHANGED <<tickers, callbacks, pended>>
        /\ \E v : Setitimer("main", v, 0, "unmask")
    BY <1>15 DEF SleepWoken, timer
  <2>2. pc'["main"] = "remove" /\ pc'["handler"] = "none" /\ then'["main"] = "unmask"
    BY <2>1, <1>i, <1>u, MainExcept DEF Setitimer
  <2>3. Place' = "unmask" /\ Setting' /\ Place = "woken"
    BY <2>1, <2>2, <1>u, <1>p DEF Place, Setting
  <2> QED
    BY <1>f, <2>1, <2>2, <2>3 DEF KeptInv
<1>16. CASE SleepReturns
  <2>1. /\ pc["main"] = "unmask" /\ SetMask(FALSE, "run") /\ UNCHANGED <<tickers, callbacks>>
    BY <1>16 DEF SleepReturns, timer
  <2>2. ~pended
    BY <2>1, <1>f, <1>p
  <2>3. pc'["main"] = "run" /\ pc'["handler"] = "none" /\ pended' = pended /\ act' = act
    BY <2>1, <2>2, <1>i, <1>u, SetMaskIs
  <2>4. Place' = "run" /\ ~Setting'
    BY <2>3, <1>u DEF Place, Setting
  <2> QED
    BY <1>b, <2>1, <2>3, <2>4
<1> QED
  BY <1>i, <1>1, <1>2, <1>3, <1>4, <1>5, <1>6, <1>7, <1>8, <1>9, <1>10, <1>11, <1>12, <1>13, <1>14, <1>15, <1>16,
     CalmNext

LEMMA RestoredStep ==
  ASSUME TypeOK, PlaceInv, NapInv, RestoredInv, [Next]_vars
  PROVE  RestoredInv'
<1> SUFFICES ASSUME Calm, PlainNaps, Place' = "unmask" PROVE act' = oact'
  BY AlarmProgramStays DEF RestoredInv, Calm, PlainNaps
<1>i. Place = "unmask" => act = oact
  BY DEF RestoredInv
<1>n. /\ pc["handler"] \in {"none", "run"}
      /\ Place \notin {"run", "dead"} => nap \in prog.naps
      /\ Place = "woken" => remaining = Whole(nap)
  BY DEF NapInv
<1>l. Place = "unmask" => blocked /\ pc["handler"] = "none"
  BY DEF PlaceInv, Place, SetitimerSteps
<1>u. /\ SetitimerSteps = {"remove", "assign", "add"}
      /\ pc["main"] \in MainPcs /\ "main" \in Callers /\ Callers = {"main", "handler"}
      /\ SetitimerSteps \cup {"run"} \subseteq MainPcs \cap HandlerPcs
      /\ {"armed", "suspend", "sleep", "wait", "woken", "unmask"} \subseteq MainPcs
      /\ then["main"] \in {"run", "armed", "suspend", "unmask"}
      /\ then \in [Callers -> SleepSteps \cup {"run"}] /\ blocked \in BOOLEAN
  BY DEF TypeOK, PlaceInv, MainPcs, HandlerPcs, SetitimerSteps, SleepSteps, Callers
\* Steps that leave the program where it is.
<1>a. ASSUME Place' = Place, UNCHANGED <<act, oact>> PROVE act' = oact'
  BY <1>a, <1>i
<1>1. CASE UNCHANGED vars
  BY <1>1, <1>a, PlaceKept DEF vars, call, signal, sleep
<1>2. CASE Tick
  BY <1>2, <1>a, TickIs, PlaceKept DEF call, signal
<1>3. CASE CallBack
  <2>1. UNCHANGED <<then, oact, blocked>> /\ pc["main"] # "dead"
    BY <1>3 DEF CallBack, call, sleep
  <2>2. CASE blocked \/ pc["handler"] # "none"
    BY <1>3, <1>a, <2>1, <2>2, PlaceKept DEF CallBack
  <2>3. CASE ~(blocked \/ pc["handler"] # "none")
    <3>1. Post(pc["main"])
      BY <1>3, <2>3 DEF CallBack
    <3>2. Place' = "dead" \/ Place' = Place
      BY <2>1, <3>1, <1>u, PlaceOfPost DEF Place
    <3> QED
      BY <2>3, <3>2, <1>l
  <2> QED
    BY <2>2, <2>3
<1>4. CASE HandlerReturns
  <2>1. then' = then /\ pc["handler"] = "run" /\ pc["main"] # "dead" /\ ~blocked
    BY <1>4 DEF HandlerReturns, PlaceInv, call
  <2>2. Place' = "dead" \/ Place' = Place
    <3>1. CASE pended
      <4>1. Post(pc["main"])
        BY <1>4, <2>1, <3>1 DEF HandlerReturns
      <4> QED
        BY <2>1, <4>1, <1>u, PlaceOfPost DEF Place
    <3>2. CASE ~pended
      <4>1. pc' = [pc EXCEPT !["handler"] = "none"]
        BY <1>4, <3>2 DEF HandlerReturns
      <4>2. pc'["main"] = pc["main"]
        BY <4>1 DEF TypeOK
      <4> QED
        BY <2>1, <4>2, PlaceKept
    <3> QED
      BY <3>1, <3>2
  <2> QED
    BY <2>1, <2>2, <1>l
<1>5. CASE OtherSignal
  BY <1>5, <1>a, PlaceKept DEF OtherSignal, call, sleep
<1>6. CASE RemoveTicker("main") \/ Assign("main") \/ AddTicker("main")
  <2>1. /\ pc["main"] \in SetitimerSteps /\ then' = then /\ UNCHANGED <<act, oact>>
        /\ \/ \E x \in SetitimerSteps : pc' = [pc EXCEPT !["main"] = x]
           \/ pc' = [pc EXCEPT !["main"] = then["main"]]
    BY <1>6, <1>u DEF RemoveTicker, Assign, AddTicker, call, sleep, signal
  <2>2. Place' = Place
    BY <2>1, <1>u, PlaceOfSetitimer
  <2> QED
    BY <1>a, <2>1, <2>2
<1>7. ASSUME NEW c \in Callers, Sigaction(c) PROVE act' = oact'
  <2>1. Place' = Place /\ pc[c] = "run"
    BY <1>7, PlaceKept DEF Sigaction, call
  <2>2. Place = "unmask" => pc["main"] # "run" /\ pc["handler"] # "run"
    BY <1>l, <1>u DEF Place
  <2> QED
    BY <2>1, <2>2, <1>u
<1>8. ASSUME NEW n, SleepBegin(n) PROVE act' = oact'
  <2>1. Setitimer("main", n * USECS, 0, "armed")
    BY <1>8 DEF SleepBegin
  <2>2. pc'["main"] = "remove" /\ then'["main"] = "armed"
    BY <2>1, <1>u, MainExcept DEF Setitimer
  <2> QED
    BY <2>2, <1>u DEF Place
<1>9. CASE SleepArmed
  <2> DEFINE rem == UalarmResult \div USECS
  <2>1. CASE Sooner(rem)
    <3>1. Setitimer("main", nap * USECS, 0, "suspend")
      BY <1>9, <2>1 DEF SleepArmed
    <3>2. pc'["main"] = "remove" /\ then'["main"] = "suspend"
      BY <3>1, <1>u, MainExcept DEF Setitimer
    <3> QED
      BY <3>2, <1>u DEF Place
  <2>2. CASE ~Sooner(rem)
    <3>1. pc' = [pc EXCEPT !["main"] = "suspend"]
      BY <1>9, <2>2 DEF SleepArmed
    <3>2. pc'["main"] = "suspend"
      BY <3>1, <1>u, MainExcept
    <3> QED
      BY <3>2, <1>u DEF Place
  <2> QED
    BY <2>1, <2>2
<1>10. CASE Suspend
  <2>1. SetMask(FALSE, "sleep") /\ "sleep" \in MainPcs \ {"dead"}
    BY <1>10, <1>u DEF Suspend
  <2>2. pc'["main"] \in {"dead", "sleep"}
    BY <2>1, SetMaskIs
  <2> QED
    BY <2>2, <1>u DEF Place
<1>11. CASE SuspendSleeps
  <2>1. pc' = [pc EXCEPT !["main"] = "wait"]
    BY <1>11 DEF SuspendSleeps
  <2>2. pc'["main"] = "wait"
    BY <2>1, <1>u, MainExcept
  <2> QED
    BY <2>2, <1>u DEF Place
<1>12. CASE SuspendReturns
  <2>1. SetMask(TRUE, "woken") /\ "woken" \in MainPcs \ {"dead"}
    BY <1>12, <1>u DEF SuspendReturns
  <2>2. pc'["main"] \in {"dead", "woken"}
    BY <2>1, SetMaskIs
  <2> QED
    BY <2>2, <1>u DEF Place
<1>13. CASE SleepWoken
  <2>1. /\ pc["main"] = "woken" /\ oact' = oact
        /\ act' = (IF Sooner(remaining) THEN act ELSE oact)
    BY <1>13 DEF SleepWoken, sleep
  <2>2. Place = "woken"
    BY <2>1, <1>u DEF Place
  <2>3. ~Sooner(remaining)
    BY <2>2, <1>n, NotSooner
  <2> QED
    BY <2>1, <2>3
<1>14. CASE SleepReturns
  <2>1. SetMask(FALSE, "run") /\ "run" \in MainPcs \ {"dead"}
    BY <1>14, <1>u DEF SleepReturns
  <2>2. pc'["main"] \in {"dead", "run"}
    BY <2>1, SetMaskIs
  <2> QED
    BY <2>2, <1>u DEF Place
<1> QED
  BY <1>n, <1>1, <1>2, <1>3, <1>4, <1>5, <1>6, <1>7, <1>8, <1>9, <1>10, <1>11, <1>12, <1>13, <1>14,
     CalmNext

-----------------------------------------------------------------------------
(***************************************************************************)
(* The inductive invariant of the timers and of sleep.                     *)
(***************************************************************************)
AlarmIInv ==
  /\ TypeOK /\ PlaceInv
  /\ IntervalInv /\ OneInv /\ MatchInv
  /\ NapInv /\ FlightInv /\ KeptInv /\ RestoredInv

LEMMA AlarmInit ==
  ASSUME Init
  PROVE  AlarmIInv
<1>i. /\ prog \in Programs
      /\ value = 0 /\ interval = 0 /\ tickers = {} /\ sema = FALSE /\ callbacks = 0
      /\ pended = FALSE /\ blocked = FALSE /\ act = "default" /\ sleeping = FALSE
      /\ pc = [main |-> "run", handler |-> "none"]
      /\ new = [c \in Callers |-> [value |-> 0, interval |-> 0]]
      /\ old = [c \in Callers |-> 0]
      /\ then = [c \in Callers |-> "run"]
      /\ unfinished = FALSE
      /\ nap = 0 /\ oact = "default" /\ remaining = 0 /\ slept = 0
      /\ started = 0 /\ due = 0
  BY DEF Init
<1>u. /\ Callers = {"main", "handler"} /\ SetitimerSteps = {"remove", "assign", "add"}
      /\ SleepSteps = {"armed", "suspend", "sleep", "wait", "woken", "unmask"}
      /\ prog.maxcalls \in Nat /\ prog.maxslept \in Nat
  BY <1>i, ProgramTypes DEF Callers, SetitimerSteps, SleepSteps
<1>p. /\ pc["main"] = "run" /\ pc["handler"] = "none" /\ Place = "run" /\ ~Setting
      /\ then["main"] = "run" /\ then["handler"] = "run"
      /\ new["main"].value = 0 /\ new["main"].interval = 0 /\ new["handler"].interval = 0
  BY <1>i, <1>u DEF Place, Setting
<1>1. TypeOK
  <2>1. pc \in [main : SetitimerSteps \cup SleepSteps \cup {"run", "dead"},
                handler : SetitimerSteps \cup {"none", "run"}]
    BY <1>i, <1>u
  <2>2. /\ new \in [Callers -> [value : Nat, interval : Nat]] /\ old \in [Callers -> Nat]
        /\ then \in [Callers -> SleepSteps \cup {"run"}]
    BY <1>i
  <2>3. 0 \in 0 .. prog.maxcalls /\ 0 \in 0 .. prog.maxslept
    BY <1>u
  <2> QED
    BY <1>i, <1>p, <2>1, <2>2, <2>3 DEF TypeOK
<1>2. PlaceInv
  BY <1>i, <1>p, FS_EmptySet DEF PlaceInv
<1>3. IntervalInv
  BY <1>i DEF IntervalInv
<1>4. MatchInv /\ OneInv
  BY <1>i, <1>u, <1>p DEF MatchInv, OneInv
<1>5. NapInv
  BY <1>i, <1>p DEF NapInv
<1>6. FlightInv
  BY <1>i, <1>p DEF FlightInv
<1>7. KeptInv /\ RestoredInv
  BY <1>i, <1>p DEF KeptInv, RestoredInv
<1> QED
  BY <1>1, <1>2, <1>3, <1>4, <1>5, <1>6, <1>7 DEF AlarmIInv

LEMMA AlarmStep ==
  ASSUME AlarmIInv, [Next]_vars
  PROVE  AlarmIInv'
  BY AlarmTypeStep, PlaceStep, IntervalStep, OneStep, MatchStep, NapStep, FlightStep, NapKeptStep,
     RestoredStep DEF AlarmIInv

LEMMA AlarmInvariant == Spec => []AlarmIInv
<1>1. Init => AlarmIInv
  BY AlarmInit
<1>2. AlarmIInv /\ [Next]_vars => AlarmIInv'
  BY AlarmStep
<1> QED
  BY <1>1, <1>2, PTL DEF Spec

\* In every state, the kernel's ticker events are those of the timer that was set
\* last: one, due when the program's alarm is, and none when it has none; there
\* is never a second one, whether the timer is an interval timer or sleep's; and
\* an interval timer that is set has one, or its callback is due (setitmr.c,
\* __h_sigalrm).  For every set of programs and every resolution of the clock.
THEOREM TimersCorrect == Spec => []TimersInv
<1>1. AlarmIInv => TimersInv
  <2> SUFFICES ASSUME AlarmIInv PROVE TimersInv
    OBVIOUS
  <2>1. TypeOK /\ IntervalInv /\ OneInv /\ MatchInv
    BY DEF AlarmIInv
  <2>2. TimerMatches
    BY <2>1 DEF TimerMatches, MatchInv, OneShot
  <2>3. IntervalGoesOn
    <3>1. AtRest => Settled /\ ~unfinished /\ \A c \in Callers : pc[c] # "add"
      BY <2>1 DEF AtRest, Settled, Callers, TypeOK
    <3> QED
      BY <2>1, <3>1 DEF IntervalGoesOn, IntervalInv, AtRest
  <2>4. OneTicker
    BY <2>1 DEF OneTicker, OneInv
  <2> QED
    BY <2>1, <2>2, <2>3, <2>4 DEF TimersInv
<1> QED
  BY <1>1, AlarmInvariant, PTL

\* In every state of every program: a sleep does not kill a process that sets no
\* alarm, lasts as long as it should, gives back the action and the mask that it
\* has found, and leaves no alarm behind (sleep.c:sleep_int), each under the
\* conditions that it states.
THEOREM SleepCorrect == Spec => []SleepInv
<1>1. AlarmIInv => SleepInv
  <2> SUFFICES ASSUME AlarmIInv PROVE SleepInv
    OBVIOUS
  <2>1. TypeOK /\ PlaceInv /\ NapInv /\ FlightInv /\ KeptInv /\ RestoredInv
    BY DEF AlarmIInv
  <2>2. pc["main"] \in {"run", "woken", "unmask"} => Place = pc["main"]
    BY DEF Place, SetitimerSteps
  <2>3. prog.times = {} /\ (~prog.others \/ PlainNaps \/ \A n \in prog.naps : n < TICKS) => Calm
    BY DEF Calm, PlainNaps
  <2>4. SleepIsSafe
    BY <2>1, <2>3 DEF SleepIsSafe, KeptInv
  <2>5. SleepsLongEnough
    BY <2>1, <2>2, <2>3 DEF SleepsLongEnough, FlightInv
  <2>6. SleepRestores
    BY <2>1, <2>2, <2>3 DEF SleepRestores, RestoredInv, PlaceInv, AtRest
  <2>7. AlarmOff
    BY <2>1, <2>3 DEF AlarmOff, NapInv, AtRest
  <2> QED
    BY <2>4, <2>5, <2>6, <2>7 DEF SleepInv
<1> QED
  BY <1>1, AlarmInvariant, PTL
===============================================================================
