----------------------------- MODULE PthreadCond -----------------------------
(***************************************************************************)
(* UnixLib's condition variables (pthread/cond.c) with the mutex they are  *)
(* used with (lock.c) and the scheduler's timeout (context.c).             *)
(*                                                                         *)
(* Lists are what they are in the code: a head in each condition variable  *)
(* and in the mutex, and one link per thread, nextwait, for whichever list *)
(* the thread is in.  A thread that leaves a list keeps its link until it  *)
(* enters the next one.  Any thread that is not asleep may step next; what *)
(* the code does between __pthread_disable_ints and _enable_ints is one    *)
(* step.                                                                   *)
(*                                                                         *)
(* Time is counted in ticks of the monotonic clock.  A struct timespec is  *)
(* a real time, clock + Phase, which time(NULL) gives in whole seconds.    *)
(***************************************************************************)
EXTENDS Integers, Sequences, FiniteSets

CONSTANTS Threads, Conds, NULL,
          AbsTimes,   \* the abstime arguments, in ticks of real time
          Second,     \* ticks per second (100)
          Phase,      \* real time when the clock is 0
          MaxClock    \* bound: the clock stops here

ASSUME ThreadsAssumption == IsFiniteSet(Threads)
ASSUME NullAssumption == NULL \notin Threads
ASSUME TimeAssumption == /\ AbsTimes \subseteq Nat /\ Second \in Nat \ {0}
                         /\ Phase \in Nat /\ MaxClock \in Nat

VARIABLES
  owner, mwaiting,      \* the mutex: owner and waiting
  cwaiting,             \* cwaiting[c]: cond->waiting
  nextwait, state, cond, condtimeout,
                        \* fields of a thread's node; the last two are only
                        \* read in a wait and forgotten (Returned) after it
  clock,
  pc,                   \* pc[t]: "run", "lock", "block" (in __pthread_lock_block), "wait"
  abstime,              \* abstime[t]: the argument of the last wait, or NULL
  ret,                  \* ret[t]: what the wait will return
  signalled             \* history: the last wait of t was ended by a signal

mutex == <<owner, mwaiting>>
node  == <<nextwait, state, cond, condtimeout>>
args  == <<abstime, ret, signalled>>
vars  == <<mutex, cwaiting, node, clock, pc, args>>

Ptr    == Threads \cup {NULL}
States == {"RUNNING", "MUTEX_WAIT", "COND_WAIT", "COND_TIMED_WAIT"}

TypeOK ==
  /\ owner \in Ptr /\ mwaiting \in Ptr
  /\ cwaiting \in [Conds -> Ptr]
  /\ nextwait \in [Threads -> Ptr]
  /\ state \in [Threads -> States]
  /\ cond \in [Threads -> Conds \cup {NULL}]
  /\ condtimeout \in [Threads -> Int]
  /\ clock \in 0 .. MaxClock
  /\ pc \in [Threads -> {"run", "lock", "block", "wait"}]
  /\ abstime \in [Threads -> AbsTimes \cup {NULL}]
  /\ ret \in [Threads -> {"0", "ETIMEDOUT"}]
  /\ signalled \in [Threads -> BOOLEAN]

At(t, l)   == pc[t] = l /\ state[t] = "RUNNING"
Goto(t, l) == pc' = [pc EXCEPT ![t] = l]

-----------------------------------------------------------------------------
(***************************************************************************)
(* Lists.                                                                  *)
(***************************************************************************)

\* The n-th node of the list that starts at h, or NULL.
Node(h, n) ==
  LET node_[k \in 0 .. Cardinality(Threads)] ==
        IF k = 0 THEN h
        ELSE IF node_[k - 1] = NULL THEN NULL ELSE nextwait[node_[k - 1]]
  IN  node_[n]

Members(h) == {Node(h, n) : n \in 0 .. Cardinality(Threads)} \ {NULL}

\* The list as a sequence, if it ends.
List(h) == [i \in 1 .. Cardinality(Members(h)) |-> Node(h, i - 1)]

Ends(h) == Node(h, Cardinality(Threads)) = NULL

\* t, whose link is NULL by now, goes to the end of the list that starts at h:
\* the new head and the new links.
NewHead(h, t)  == IF h = NULL THEN t ELSE h
NewLinks(h, t) == [u \in Threads |->
                     IF u = t THEN NULL
                     ELSE IF u \in Members(h) /\ nextwait[u] = NULL THEN t
                     ELSE nextwait[u]]

\* t is taken out of the list that starts at h.
HeadWithout(h, t)  == IF h = t THEN nextwait[t] ELSE h
LinksWithout(h, t) == [u \in Threads |->
                         IF h # t /\ u \in Members(h) /\ nextwait[u] = t THEN nextwait[t]
                         ELSE nextwait[u]]

-----------------------------------------------------------------------------
(***************************************************************************)
(* The mutex (lock.c, for a mutex that is not recursive).                  *)
(***************************************************************************)

\* pthread_mutex_lock, by a program that does not hold the mutex.
LockCall(t) ==
  /\ At(t, "run") /\ owner # t
  /\ Goto(t, "lock")
  /\ UNCHANGED <<mutex, cwaiting, node, clock, args>>

\* pthread_mutex_lock returns, and the wait that called it, if one did.
Returned(t) ==
  /\ Goto(t, "run")
  /\ cond' = [cond EXCEPT ![t] = NULL] /\ condtimeout' = [condtimeout EXCEPT ![t] = 0]
  /\ abstime' = [abstime EXCEPT ![t] = NULL] /\ ret' = [ret EXCEPT ![t] = "0"]
  /\ signalled' = [signalled EXCEPT ![t] = FALSE]

LockGranted(t) ==
  /\ At(t, "lock") /\ owner = NULL
  /\ owner' = t
  /\ Returned(t)
  /\ UNCHANGED <<mwaiting, cwaiting, nextwait, state, clock>>

LockBlocks(t) ==
  /\ At(t, "lock") /\ owner \notin {NULL, t}
  /\ mwaiting' = NewHead(mwaiting, t)
  /\ nextwait' = NewLinks(mwaiting, t)
  /\ state' = [state EXCEPT ![t] = "MUTEX_WAIT"]
  /\ Goto(t, "block")
  /\ UNCHANGED <<owner, cwaiting, cond, condtimeout, clock, args>>

\* Runs again: the mutex is free, or another round of the loop.
LockWoken(t) ==
  /\ At(t, "block")
  /\ IF owner = NULL
     THEN /\ owner' = t
          /\ mwaiting' = HeadWithout(mwaiting, t)
          /\ nextwait' = [LinksWithout(mwaiting, t) EXCEPT ![t] = NULL]
          /\ Returned(t)
          /\ state' = state
     ELSE /\ state' = [state EXCEPT ![t] = "MUTEX_WAIT"]
          /\ UNCHANGED <<mutex, nextwait, cond, condtimeout, pc, args>>
  /\ UNCHANGED <<cwaiting, clock>>

\* Mutant of StateAfterUnlock: nobody is woken.
StateNotWoken == state

\* __pthread_lock_unlock by the owner: the state of every thread afterwards.
StateAfterUnlock == [u \in Threads |-> IF u = mwaiting THEN "RUNNING" ELSE state[u]]

Unlock(t) ==
  /\ At(t, "run") /\ owner = t
  /\ owner' = NULL
  /\ state' = StateAfterUnlock
  /\ UNCHANGED <<mwaiting, cwaiting, nextwait, cond, condtimeout, clock, pc, args>>

-----------------------------------------------------------------------------
(***************************************************************************)
(* Condition variables (cond.c).                                           *)
(***************************************************************************)

\* Mutant of Deadline: the time of day is rounded up to a second.
DeadlineRoundsUp(a) ==
  clock + Second * ((a \div Second) - ((clock + Phase + Second - 1) \div Second)) + (a % Second)

\* abstime is turned into a time of the monotonic clock.
Deadline(a) ==
  clock + Second * ((a \div Second) - ((clock + Phase) \div Second)) + (a % Second)

\* pthread_cond_timedwait, and pthread_cond_wait (a = NULL), up to the yield.
\* Who does not own the mutex is told EINVAL.
Wait(t, c, a) ==
  /\ At(t, "run") /\ owner = t
  /\ owner' = NULL
  /\ cond' = [cond EXCEPT ![t] = c]
  /\ state' = [StateAfterUnlock EXCEPT ![t] = IF a = NULL THEN "COND_WAIT" ELSE "COND_TIMED_WAIT"]
  /\ condtimeout' = [condtimeout EXCEPT ![t] = IF a = NULL THEN 0 ELSE Deadline(a)]
  /\ cwaiting' = [cwaiting EXCEPT ![c] = NewHead(@, t)]
  /\ nextwait' = NewLinks(cwaiting[c], t)
  /\ abstime' = [abstime EXCEPT ![t] = a]
  /\ signalled' = [signalled EXCEPT ![t] = FALSE]
  /\ ret' = [ret EXCEPT ![t] = "0"]
  /\ Goto(t, "wait")
  /\ UNCHANGED <<mwaiting, clock>>

\* After the yield: what is to be returned, then pthread_mutex_lock.
WaitReturns(t) ==
  /\ At(t, "wait")
  /\ ret' = [ret EXCEPT ![t] = IF abstime[t] # NULL /\ clock > condtimeout[t]
                               THEN "ETIMEDOUT" ELSE "0"]
  /\ Goto(t, "lock")
  /\ UNCHANGED <<mutex, cwaiting, node, clock, abstime, signalled>>

\* Mutant of Signal: the thread stays in the list.
SignalStaysQueued(t, c) ==
  /\ At(t, "run")
  /\ cwaiting[c] # NULL
  /\ state' = [state EXCEPT ![cwaiting[c]] = "RUNNING"]
  /\ signalled' = [signalled EXCEPT ![cwaiting[c]] = TRUE]
  /\ UNCHANGED <<mutex, cwaiting, nextwait, cond, condtimeout, clock, pc, abstime, ret>>

\* pthread_cond_signal; without a waiting thread it does nothing.
Signal(t, c) ==
  /\ At(t, "run")
  /\ cwaiting[c] # NULL
  /\ state' = [state EXCEPT ![cwaiting[c]] = "RUNNING"]
  /\ cwaiting' = [cwaiting EXCEPT ![c] = nextwait[cwaiting[c]]]
  /\ signalled' = [signalled EXCEPT ![cwaiting[c]] = TRUE]
  /\ UNCHANGED <<mutex, nextwait, cond, condtimeout, clock, pc, abstime, ret>>

\* pthread_cond_broadcast
Broadcast(t, c) ==
  /\ At(t, "run")
  /\ cwaiting[c] # NULL
  /\ state' = [u \in Threads |-> IF u \in Members(cwaiting[c]) THEN "RUNNING" ELSE state[u]]
  /\ signalled' = [u \in Threads |-> u \in Members(cwaiting[c]) \/ signalled[u]]
  /\ cwaiting' = [cwaiting EXCEPT ![c] = NULL]
  /\ UNCHANGED <<mutex, nextwait, cond, condtimeout, clock, pc, abstime, ret>>

\* Mutant of TimeoutStep: the links are left alone.
TimeoutKeepsLinks(t) ==
  /\ state[t] = "COND_TIMED_WAIT" /\ clock > condtimeout[t]
  /\ state' = [state EXCEPT ![t] = "RUNNING"]
  /\ cwaiting' = [cwaiting EXCEPT ![cond[t]] = HeadWithout(@, t)]
  /\ UNCHANGED <<mutex, nextwait, cond, condtimeout, clock, pc, args>>

\* Mutant of TimeoutStep: a wait that has just reached its time.
TimeoutNever(t) ==
  /\ state[t] = "COND_TIMED_WAIT" /\ clock > condtimeout[t] + Second
  /\ state' = [state EXCEPT ![t] = "RUNNING"]
  /\ cwaiting' = [cwaiting EXCEPT ![cond[t]] = HeadWithout(@, t)]
  /\ nextwait' = LinksWithout(cwaiting[cond[t]], t)
  /\ UNCHANGED <<mutex, cond, condtimeout, clock, pc, args>>

\* The scheduler comes across a timed wait that is over.
TimeoutStep(t) ==
  /\ state[t] = "COND_TIMED_WAIT" /\ clock > condtimeout[t]
  /\ state' = [state EXCEPT ![t] = "RUNNING"]
  /\ cwaiting' = [cwaiting EXCEPT ![cond[t]] = HeadWithout(@, t)]
  /\ nextwait' = LinksWithout(cwaiting[cond[t]], t)
  /\ UNCHANGED <<mutex, cond, condtimeout, clock, pc, args>>

\* Mutant of Tick: the clock runs on.
TickOn ==
  /\ clock <= MaxClock
  /\ clock' = clock + 1
  /\ UNCHANGED <<mutex, cwaiting, node, pc, args>>

\* OS_ReadMonotonicTime has moved on.
Tick ==
  /\ clock < MaxClock
  /\ clock' = clock + 1
  /\ UNCHANGED <<mutex, cwaiting, node, pc, args>>

-----------------------------------------------------------------------------
Init ==
  /\ owner = NULL /\ mwaiting = NULL
  /\ cwaiting = [c \in Conds |-> NULL]
  /\ nextwait = [t \in Threads |-> NULL]
  /\ state = [t \in Threads |-> "RUNNING"]
  /\ cond = [t \in Threads |-> NULL]
  /\ condtimeout = [t \in Threads |-> 0]
  /\ clock = 0
  /\ pc = [t \in Threads |-> "run"]
  /\ abstime = [t \in Threads |-> NULL]
  /\ ret = [t \in Threads |-> "0"]
  /\ signalled = [t \in Threads |-> FALSE]

\* What a thread does next inside a call, and the scheduler for it.
Continue(t) == LockGranted(t) \/ LockBlocks(t) \/ LockWoken(t) \/ WaitReturns(t)

Next ==
  \/ Tick
  \/ \E t \in Threads :
       \/ Continue(t)
       \/ TimeoutStep(t)
       \/ LockCall(t)
       \/ Unlock(t)
       \/ \E c \in Conds : \/ Signal(t, c)
                           \/ Broadcast(t, c)
                           \/ \E a \in AbsTimes \cup {NULL} : Wait(t, c, a)

Spec == Init /\ [][Next]_vars

\* The clock goes on, the scheduler is fair to threads that can run and looks
\* at every sleeping one (PthreadThread!RunnableRuns, SwitchEnds), and the
\* program gives back the mutex.
FairSpec == /\ Spec /\ WF_vars(Tick)
            /\ \A t \in Threads : /\ WF_vars(Continue(t)) /\ WF_vars(TimeoutStep(t))
                                  /\ WF_vars(Unlock(t))

-----------------------------------------------------------------------------
(***************************************************************************)
(* Properties.                                                             *)
(***************************************************************************)

InCond(t, c) == cond[t] = c /\ state[t] \in {"COND_WAIT", "COND_TIMED_WAIT"}

\* The lists end, and hold who sleeps: a condition variable's list the threads
\* that wait for it and were neither signalled nor timed out, the mutex's list
\* the threads in __pthread_lock_block; so none is in two lists, whatever links
\* earlier lists have left in the nodes.
ListsInv ==
  /\ Ends(mwaiting) /\ Members(mwaiting) = {t \in Threads : pc[t] = "block"}
  /\ \A c \in Conds : /\ Ends(cwaiting[c])
                      /\ Members(cwaiting[c]) = {t \in Threads : InCond(t, c)}

\* A free mutex with threads in its list has woken one, in the unlock inside
\* pthread_cond_timedwait too.
MutexWakes == owner = NULL /\ mwaiting # NULL => \E t \in Members(mwaiting) : state[t] = "RUNNING"

\* A wait that reports a timeout does so after abstime, and a wait that does
\* not report one was signalled: cond.c has no spurious wakeups.
WaitTellsTheTruth ==
  \A t \in Threads : pc[t] \in {"lock", "block"} /\ cond[t] # NULL =>
    /\ ret[t] = "ETIMEDOUT" => clock + Phase > abstime[t]
    /\ ret[t] = "0" => signalled[t]

\* A wait with a timeout is over some time after its deadline, signalled or not.
TimedWaitEnds == \A t \in Threads : state[t] = "COND_TIMED_WAIT" ~> state[t] = "RUNNING"

\* The lists of links implement queues, and a wait gives up the mutex and
\* joins the queue in one step.
Abstract == INSTANCE CondSpec
              WITH holder <- owner, queue <- [c \in Conds |-> List(cwaiting[c])]

ImplementsCond == Abstract!Spec

\* The lists of links hold the threads that sleep, each once, and nobody sleeps
\* by a free mutex that has woken none.
CondInv == TypeOK /\ ListsInv /\ MutexWakes
=============================================================================
