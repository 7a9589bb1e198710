----------------------------- MODULE PthreadOnce -----------------------------
(***************************************************************************)
(* pthread_once (pthread/once.c) and the cleanup handlers it uses          *)
(* (cleanup.c, cleanupcall.c).                                             *)
(*                                                                         *)
(* One mutex, error-checking, serves every once control.  An init routine  *)
(* runs for as long as it likes; it may be cancelled, and it may itself    *)
(* call pthread_once, as deep as MaxDepth allows.  calls[t] is the stack   *)
(* of calls of pthread_once that t is in; the control of the innermost one *)
(* is on top, and once_pc[t] says where that call is.                      *)
(***************************************************************************)
EXTENDS Pthreads, Naturals, Sequences

CONSTANTS Controls,
          CancelledInInit,  \* the threads that pthread_cancel is called for
          MaxDepth          \* bound: calls of pthread_once inside one another

ASSUME CancelledAssumption == CancelledInInit \subseteq Threads
ASSUME DepthAssumption == MaxDepth \in Nat \ {0}

VARIABLES
  once,        \* once[o]: *once_control
  once_mutex,  \* its owner
  handlers,    \* handlers[t]: the length of cleanupfns, all of them
               \* __pthread_once_cleanup; in pthread_exit, how many are left
  calls, once_pc,
  completed    \* history: completed[o] is how often the init routine of o
               \* has run to its end

onceVars == <<once, once_mutex, handlers, calls, once_pc, completed>>

OncePcs == {"run", "lock", "test", "push", "init", "set", "unlock", "cleanup", "exited"}

OnceTypeOK ==
  /\ once \in [Controls -> BOOLEAN]
  /\ once_mutex \in Threads \cup {NULL}
  /\ handlers \in [Threads -> 0 .. MaxDepth]
  /\ calls \in [Threads -> Seq(Controls)]
  /\ once_pc \in [Threads -> OncePcs]
  /\ \A t \in Threads : /\ Len(calls[t]) <= MaxDepth
                        /\ once_pc[t] = "run" <=> calls[t] = << >>
  /\ completed \in [Controls -> Nat]

OnceGoto(t, l) == once_pc' = [once_pc EXCEPT ![t] = l]
Control(t) == Head(calls[t])

\* pthread_once is called by the program, or by an init routine for another
\* control.
Call(t, o) ==
  /\ once_pc[t] \in {"run", "init"} /\ Len(calls[t]) < MaxDepth
  /\ \A i \in 1 .. Len(calls[t]) : calls[t][i] # o
  /\ calls' = [calls EXCEPT ![t] = <<o>> \o @]
  /\ OnceGoto(t, "lock")
  /\ UNCHANGED <<once, once_mutex, handlers, completed>>

\* Mutant of Lock: nobody asks who has the mutex.
LockNever(t) ==
  /\ once_pc[t] = "lock"
  /\ once_mutex' = t
  /\ OnceGoto(t, "test")
  /\ UNCHANGED <<once, handlers, calls, completed>>

\* "This won't fail": the thread that has the mutex is told EDEADLK, and goes
\* on too.
Lock(t) ==
  /\ once_pc[t] = "lock" /\ once_mutex \in {NULL, t}
  /\ once_mutex' = t
  /\ OnceGoto(t, "test")
  /\ UNCHANGED <<once, handlers, calls, completed>>

\* Mutant of Test: the control is set before the init routine runs.
TestClaims(t) ==
  /\ once_pc[t] = "test"
  /\ once' = [once EXCEPT ![Control(t)] = TRUE]
  /\ OnceGoto(t, IF once[Control(t)] THEN "unlock" ELSE "push")
  /\ UNCHANGED <<once_mutex, handlers, calls, completed>>

Test(t) ==
  /\ once_pc[t] = "test"
  /\ OnceGoto(t, IF once[Control(t)] THEN "unlock" ELSE "push")
  /\ UNCHANGED <<once, once_mutex, handlers, calls, completed>>

\* pthread_cleanup_push, and the init routine begins.
Push(t) ==
  /\ once_pc[t] = "push"
  /\ handlers' = [handlers EXCEPT ![t] = @ + 1]
  /\ OnceGoto(t, "init")
  /\ UNCHANGED <<once, once_mutex, calls, completed>>

\* Mutant of InitReturns: the handler is never popped.
InitReturnsNoPop(t) ==
  /\ once_pc[t] = "init"
  /\ completed' = [completed EXCEPT ![Control(t)] = @ + 1]
  /\ OnceGoto(t, "set")
  /\ UNCHANGED <<once, once_mutex, handlers, calls>>

\* The init routine returns, and pthread_cleanup_pop(0).
InitReturns(t) ==
  /\ once_pc[t] = "init"
  /\ handlers' = [handlers EXCEPT ![t] = @ - 1]
  /\ completed' = [completed EXCEPT ![Control(t)] = @ + 1]
  /\ OnceGoto(t, "set")
  /\ UNCHANGED <<once, once_mutex, calls>>

\* Mutant of Set: the control is forgotten.
SetNothing(t) ==
  /\ once_pc[t] = "set"
  /\ OnceGoto(t, "unlock")
  /\ UNCHANGED <<once, once_mutex, handlers, calls, completed>>

Set(t) ==
  /\ once_pc[t] = "set"
  /\ once' = [once EXCEPT ![Control(t)] = TRUE]
  /\ OnceGoto(t, "unlock")
  /\ UNCHANGED <<once_mutex, handlers, calls, completed>>

\* pthread_mutex_unlock: EPERM for who is not the once_mutex.
OwnerAfterUnlock(t) == IF once_mutex = t THEN NULL ELSE once_mutex

\* The call returns, to the program or to the init routine it was made in.
Unlock(t) ==
  /\ once_pc[t] = "unlock"
  /\ once_mutex' = OwnerAfterUnlock(t)
  /\ calls' = [calls EXCEPT ![t] = Tail(@)]
  /\ OnceGoto(t, IF Len(calls[t]) = 1 THEN "run" ELSE "init")
  /\ UNCHANGED <<once, handlers, completed>>

\* The init routine comes to a cancellation point: pthread_exit.
Cancelled(t) ==
  /\ once_pc[t] = "init" /\ t \in CancelledInInit
  /\ OnceGoto(t, "cleanup")
  /\ UNCHANGED <<once, once_mutex, handlers, calls, completed>>

\* Mutant of Cleanup: the handlers are not called.
CleanupSkipped(t) ==
  /\ once_pc[t] = "cleanup"
  /\ OnceGoto(t, "exited")
  /\ UNCHANGED <<once, once_mutex, handlers, calls, completed>>

\* __pthread_cleanup_callhandlers: one handler after the other, then the end.
Cleanup(t) ==
  /\ once_pc[t] = "cleanup"
  /\ IF handlers[t] > 0
     THEN /\ once_mutex' = OwnerAfterUnlock(t)
          /\ handlers' = [handlers EXCEPT ![t] = @ - 1]
          /\ once_pc' = once_pc
     ELSE OnceGoto(t, "exited") /\ UNCHANGED <<once_mutex, handlers>>
  /\ UNCHANGED <<once, calls, completed>>

OnceInit ==
  /\ once = [o \in Controls |-> FALSE]
  /\ once_mutex = NULL
  /\ handlers = [t \in Threads |-> 0]
  /\ calls = [t \in Threads |-> << >>]
  /\ once_pc = [t \in Threads |-> "run"]
  /\ completed = [o \in Controls |-> 0]

\* What a thread inside pthread_once does next.
OnceContinue(t) == \/ Lock(t) \/ Test(t) \/ Push(t) \/ InitReturns(t) \/ Set(t)
                   \/ Unlock(t) \/ Cleanup(t)

OnceNext == \E t \in Threads : \/ OnceContinue(t)
                               \/ Cancelled(t)
                               \/ \E o \in Controls : Call(t, o)

OnceSpec == OnceInit /\ [][OnceNext]_onceVars

\* The scheduler is fair, init routines return or are cancelled, and who waits
\* for the mutex gets it when it is free time and again (PthreadLock).
FairOnceSpec == OnceSpec /\ \A t \in Threads : SF_onceVars(OnceContinue(t))

-----------------------------------------------------------------------------
(***************************************************************************)
(* Properties.                                                             *)
(***************************************************************************)

\* "Ensure init_routine is called exactly once" (pthread.h): it runs to its end
\* no more than once.
OnceOnly == \A o \in Controls : completed[o] <= 1

InInit(o) == {t \in Threads : once_pc[t] \in {"init", "set"} /\ Control(t) = o}

\* No two threads are in the init routine of a control at the same time, and
\* nobody is in that of a control that is done.
InitAlone ==
  \A o \in Controls : /\ \A t, u \in InInit(o) : t = u
                      /\ once[o] => InInit(o) = {}

\* Who returns from pthread_once does so after the init routine has run to its
\* end, whoever ran it and whoever was cancelled in it.
ReturnsAfterInit ==
  \A t \in Threads : once_pc[t] = "unlock" => completed[Control(t)] > 0

\* A call of pthread_once returns, or its thread is cancelled: a cancelled init
\* routine leaves neither the mutex nor the control behind.
OnceReturns == \A t \in Threads : once_pc[t] = "lock" ~> once_pc[t] \in {"run", "exited"}

\* The init routine of a control runs alone, to its end once, and before any
\* call for that control returns.
OnceInv == OnceTypeOK /\ OnceOnly /\ InitAlone /\ ReturnsAfterInit
=============================================================================
