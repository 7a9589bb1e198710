------------------------------ MODULE Pthreads ------------------------------
(***************************************************************************)
(* What the modules about calls of the pthread library share: the threads  *)
(* of the program, and the null pointer.  PthreadThread has the threads'   *)
(* own life, PthreadLock their mutexes.                                    *)
(***************************************************************************)
EXTENDS FiniteSets

CONSTANTS Threads, NULL

ASSUME ThreadsAssumption == IsFiniteSet(Threads)
ASSUME NullAssumption == NULL \notin Threads
=============================================================================
