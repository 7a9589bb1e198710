--------------------------- MODULE PthreadSigwait ---------------------------
(***************************************************************************)
(* pthread_kill and sigwait (pthread/pthsignal.c): signals for one thread, *)
(* kept in its node and waited for on the condition variable of its node.  *)
(*                                                                         *)
(* The mutex and the condition variables are taken as CondSpec gives them  *)
(* (PthreadCond implements it); a node's condition variable is only waited *)
(* for by its own thread, so that its queue is whether the thread sleeps.  *)
(***************************************************************************)
EXTENDS Pthreads, Naturals

CONSTANTS Signals,
          Receivers,    \* bound: the threads that signals are sent to and that
                        \* call sigwait
          Cancellable,  \* the threads that pthread_cancel is called for
          MaxSent       \* bound: signals of one number sent to one thread

ASSUME SignalsAssumption == NULL \notin Signals
ASSUME SubsetAssumption == Receivers \subseteq Threads /\ Cancellable \subseteq Threads
ASSUME BoundAssumption == MaxSent \in Nat

VARIABLES
  sigwait_mutex,  \* its owner
  pending,        \* pending[t]: the signals for t
  asleep,         \* the threads in the queue of their sigwait_cond
  cancelpending,
  sig_pc,         \* sig_pc[t]: where t is in pthread_kill or sigwait
  thread, sig,    \* the arguments of pthread_kill
  set,            \* the argument of sigwait
  sent, taken     \* history: sent[t][s] calls of pthread_kill, taken[t][s]
                  \* returns of sigwait

args == <<thread, sig, set>>
history == <<sent, taken>>
sigwaitVars == <<sigwait_mutex, pending, asleep, cancelpending, sig_pc, args, history>>

SigwaitPcs == {"run", "kill_lock", "kill_add", "kill_unlock", "kill_signal",
        "wait_lock", "wait_test", "wait_cond", "wait_unlock", "exited"}

Counts == [Threads -> [Signals -> Nat]]

SigwaitTypeOK ==
  /\ sigwait_mutex \in Threads \cup {NULL}
  /\ pending \in [Threads -> SUBSET Signals]
  /\ asleep \in SUBSET Threads
  /\ cancelpending \in SUBSET Threads
  /\ sig_pc \in [Threads -> SigwaitPcs]
  /\ thread \in [Threads -> Threads \cup {NULL}]
  /\ sig \in [Threads -> Signals \cup {NULL}]
  /\ \A t \in Threads : sig_pc[t] \in {"kill_lock", "kill_add", "kill_unlock", "kill_signal"} =>
       thread[t] \in Threads /\ sig[t] \in Signals
  /\ set \in [Threads -> SUBSET Signals]
  /\ sent \in Counts /\ taken \in Counts

SigwaitGoto(t, l) == sig_pc' = [sig_pc EXCEPT ![t] = l]

\* A function returns, and its arguments are gone.
Return(t) == /\ SigwaitGoto(t, "run")
             /\ thread' = [thread EXCEPT ![t] = NULL]
             /\ sig' = [sig EXCEPT ![t] = NULL]
             /\ set' = [set EXCEPT ![t] = {}]

-----------------------------------------------------------------------------
(***************************************************************************)
(* pthread_kill                                                            *)
(***************************************************************************)

KillCall(t, u, s) ==
  /\ sig_pc[t] = "run" /\ u \in Receivers /\ sent[u][s] < MaxSent
  /\ thread' = [thread EXCEPT ![t] = u]
  /\ sig' = [sig EXCEPT ![t] = s]
  /\ SigwaitGoto(t, "kill_lock")
  /\ UNCHANGED <<sigwait_mutex, pending, asleep, cancelpending, set, history>>

KillLock(t) ==
  /\ sig_pc[t] = "kill_lock" /\ sigwait_mutex = NULL
  /\ sigwait_mutex' = t
  /\ SigwaitGoto(t, "kill_add")
  /\ UNCHANGED <<pending, asleep, cancelpending, args, history>>

KillAdd(t) ==
  /\ sig_pc[t] = "kill_add"
  /\ pending' = [pending EXCEPT ![thread[t]] = @ \cup {sig[t]}]
  /\ sent' = [sent EXCEPT ![thread[t]][sig[t]] = @ + 1]
  /\ SigwaitGoto(t, "kill_unlock")
  /\ UNCHANGED <<sigwait_mutex, asleep, cancelpending, args, taken>>

\* Mutant of KillUnlock: the thread is forgotten too early.
KillUnlockForgets(t) ==
  /\ sig_pc[t] = "kill_unlock"
  /\ sigwait_mutex' = NULL
  /\ thread' = [thread EXCEPT ![t] = NULL]
  /\ SigwaitGoto(t, "kill_signal")
  /\ UNCHANGED <<pending, asleep, cancelpending, sig, set, history>>

KillUnlock(t) ==
  /\ sig_pc[t] = "kill_unlock"
  /\ sigwait_mutex' = NULL
  /\ SigwaitGoto(t, "kill_signal")
  /\ UNCHANGED <<pending, asleep, cancelpending, args, history>>

\* Mutant of KillSignal: the condition variable of the caller.
KillSignalOwn(t) ==
  /\ sig_pc[t] = "kill_signal"
  /\ asleep' = asleep \ {t}
  /\ Return(t)
  /\ UNCHANGED <<sigwait_mutex, pending, cancelpending, history>>

\* pthread_cond_signal
KillSignal(t) ==
  /\ sig_pc[t] = "kill_signal"
  /\ asleep' = asleep \ {thread[t]}
  /\ Return(t)
  /\ UNCHANGED <<sigwait_mutex, pending, cancelpending, history>>

-----------------------------------------------------------------------------
(***************************************************************************)
(* sigwait                                                                 *)
(***************************************************************************)

\* PTHREAD_SAFE_CANCELLATION
WaitCall(t, S) ==
  /\ sig_pc[t] = "run" /\ t \in Receivers
  /\ set' = [set EXCEPT ![t] = S]
  /\ SigwaitGoto(t, IF t \in cancelpending THEN "exited" ELSE "wait_lock")
  /\ UNCHANGED <<sigwait_mutex, pending, asleep, cancelpending, thread, sig, history>>

\* pthread_mutex_lock, by sigwait or at the end of pthread_cond_wait.
WaitLock(t) ==
  /\ sig_pc[t] \in {"wait_lock", "wait_cond"} /\ t \notin asleep
  /\ sigwait_mutex = NULL /\ sigwait_mutex' = t
  /\ SigwaitGoto(t, "wait_test")
  /\ UNCHANGED <<pending, asleep, cancelpending, args, history>>

\* ffs: the lowest signal, which set leaves open here.
Found(t) == set[t] \cap pending[t]

\* Mutant of WaitTake: the signal stays pending.
WaitTakeKeeps(t) ==
  /\ sig_pc[t] = "wait_test"
  /\ \E s \in Found(t) : taken' = [taken EXCEPT ![t][s] = @ + 1]
  /\ SigwaitGoto(t, "wait_unlock")
  /\ UNCHANGED <<sigwait_mutex, pending, asleep, cancelpending, args, sent>>

WaitTake(t) ==
  /\ sig_pc[t] = "wait_test"
  /\ \E s \in Found(t) : /\ pending' = [pending EXCEPT ![t] = @ \ {s}]
                         /\ taken' = [taken EXCEPT ![t][s] = @ + 1]
  /\ SigwaitGoto(t, "wait_unlock")
  /\ UNCHANGED <<sigwait_mutex, asleep, cancelpending, args, sent>>

\* Mutant of WaitSleep: it sleeps with the mutex.
WaitSleepLocked(t) ==
  /\ sig_pc[t] = "wait_test" /\ Found(t) = {}
  /\ asleep' = asleep \cup {t}
  /\ SigwaitGoto(t, "wait_cond")
  /\ UNCHANGED <<sigwait_mutex, pending, cancelpending, args, history>>

\* Nothing found: pthread_cond_wait gives up the mutex and sleeps.
WaitSleep(t) ==
  /\ sig_pc[t] = "wait_test" /\ Found(t) = {}
  /\ sigwait_mutex' = NULL
  /\ asleep' = asleep \cup {t}
  /\ SigwaitGoto(t, "wait_cond")
  /\ UNCHANGED <<pending, cancelpending, args, history>>

WaitUnlock(t) ==
  /\ sig_pc[t] = "wait_unlock"
  /\ sigwait_mutex' = NULL
  /\ Return(t)
  /\ UNCHANGED <<pending, asleep, cancelpending, history>>

\* pthread_cancel
Cancel(t) ==
  /\ t \in Cancellable \ cancelpending
  /\ cancelpending' = cancelpending \cup {t}
  /\ UNCHANGED <<sigwait_mutex, pending, asleep, sig_pc, args, history>>

-----------------------------------------------------------------------------
SigwaitInit ==
  /\ sigwait_mutex = NULL
  /\ pending = [t \in Threads |-> {}]
  /\ asleep = {} /\ cancelpending = {}
  /\ sig_pc = [t \in Threads |-> "run"]
  /\ thread = [t \in Threads |-> NULL]
  /\ sig = [t \in Threads |-> NULL]
  /\ set = [t \in Threads |-> {}]
  /\ sent = [t \in Threads |-> [s \in Signals |-> 0]]
  /\ taken = [t \in Threads |-> [s \in Signals |-> 0]]

\* What a thread inside a call does next.
SigwaitContinue(t) == \/ KillLock(t) \/ KillAdd(t) \/ KillUnlock(t) \/ KillSignal(t)
                      \/ WaitLock(t) \/ WaitTake(t) \/ WaitSleep(t) \/ WaitUnlock(t)

SigwaitNext == \E t \in Threads :
          \/ SigwaitContinue(t)
          \/ \E u \in Threads, s \in Signals : KillCall(t, u, s)
          \/ \E S \in SUBSET Signals \ {{}} : WaitCall(t, S)
          \/ Cancel(t)

SigwaitSpec == SigwaitInit /\ [][SigwaitNext]_sigwaitVars

\* The scheduler is fair to threads that can run, and a thread that waits for
\* the mutex gets it when it is free time and again (PthreadLock!FreedLockIsTaken
\* and the order of its list).
FairSigwaitSpec == SigwaitSpec /\ \A t \in Threads : SF_sigwaitVars(SigwaitContinue(t))

-----------------------------------------------------------------------------
(***************************************************************************)
(* Properties.                                                             *)
(***************************************************************************)

\* No thread sleeps in sigwait with a signal it waits for pending, unless a
\* pthread_kill for it is about to signal its condition variable, although that
\* happens after the mutex was given back.
NoSignalMissed ==
  \A t \in asleep : Found(t) # {} =>
    \E u \in Threads : sig_pc[u] \in {"kill_unlock", "kill_signal"} /\ thread[u] = t

\* A signal is taken at most once for each time it was sent, and one that is
\* pending was sent once more than it was taken, at least.
TakenOnce ==
  \A t \in Threads, s \in Signals :
    taken[t][s] + (IF s \in pending[t] THEN 1 ELSE 0) <= sent[t][s]

\* The mutex is given back by who took it, and nobody reads or changes pending
\* signals without it.
MutexHeld ==
  \A t \in Threads :
    sigwait_mutex = t <=> sig_pc[t] \in {"kill_add", "kill_unlock", "wait_test", "wait_unlock"}

\* A thread in sigwait returns once a signal it waits for is pending.
SignalGetsThrough ==
  \A t \in Threads :
    (sig_pc[t] = "wait_cond" /\ Found(t) # {}) ~> sig_pc[t] = "run"

\* Pending signals are guarded by the mutex, none is slept through, and none is
\* taken twice.
SigwaitInv == SigwaitTypeOK /\ MutexHeld /\ NoSignalMissed /\ TakenOnce
=============================================================================
