------------------------------- MODULE Signals -------------------------------
(***************************************************************************)
(* Signals of a UnixLib process: delivery (signal/post.c), sigprocmask,    *)
(* sigaction, sigsuspend, raise and siglongjmp.                            *)
(*                                                                         *)
(* There is one flow of control.  It runs the program, a handler, or       *)
(* __unixlib_raise_signal and the post_signal it calls, and pc says where  *)
(* it is.  The callback of a timer (_signal.s) raises a signal on top of   *)
(* whatever is running; nothing keeps it out of post_signal itself.  What  *)
(* it interrupts there is a statement that changes the word `pending'      *)
(* now and then, and that statement then writes back what it has read.     *)
(*                                                                         *)
(* __u->stopped is never set (post.c only reads it), so the tests of it    *)
(* are left out.                                                           *)
(***************************************************************************)
EXTENDS Naturals, FiniteSets

CONSTANTS
  Sigs,          \* signal numbers
  KILL, STOP, CONT,
  JobStops,      \* SIGTSTP, SIGTTIN and SIGTTOU
  Ignorable,     \* ignore_signals, but for SIGCONT
  Infos,         \* SIGINFO
  Faults,        \* SIGSEGV: those with saved registers
  Wide,          \* signal numbers a sigset_t of 32 bits has no bit for
  Programs       \* the programs and processes to look at

\* What a program does, and the process it is.
ProgramType ==
  [masks : SUBSET SUBSET (Sigs \ Wide),  \* the sets of signals it uses as masks
   caught : SUBSET Sigs,       \* the signals it sets an action for
   raised : SUBSET Sigs,       \* the signals it raises
   async : SUBSET Sigs,        \* the signals that timers raise
   plainjumps : BOOLEAN,       \* do handlers jump to a sigsetjmp without mask?
   restarts : BOOLEAN,         \* do handlers change the saved pc?
   leader : BOOLEAN,           \* is the process the leader of its group?
   orphan : BOOLEAN,           \* is its parent process 1?
   raises : Nat]               \* bound: how often each signal is raised

ASSUME SigsAssumption ==
  /\ Sigs \subseteq Nat
  /\ {KILL, STOP, CONT} \cup JobStops \cup Ignorable \cup Infos \cup Faults \cup Wide \subseteq Sigs
  /\ CONT # KILL /\ CONT # STOP /\ CONT \notin JobStops
ASSUME ProgramsAssumption == Programs \subseteq ProgramType

Stops == JobStops \cup {STOP}

VARIABLES
  prog,            \* the program, which stays the same
  pending, blocked, act, handling,   \* struct unixlib_sigstate
  sleeping, stopped,
  pc,
  signo, saved,    \* signo and blocked of post_signal
  ret,             \* where __unixlib_raise_signal returns to
  raising,         \* the signal of a call of raise that has just begun
  oset,            \* oset of sigsuspend
  jmp,             \* the sigjmp_buf
  progmask,        \* history: the mask the program has asked for
  raised, handled, \* history: how often a signal was raised and handled
  awaited          \* history: signals raised and not delivered since

ghosts == <<progmask, raised, handled, awaited>>
vars == <<prog, pending, blocked, act, handling, sleeping, stopped, pc, signo, saved, ret,
          raising, oset, jmp, ghosts>>

Default == [handler |-> "default", mask |-> {}]
Actions == [handler : {"default", "ignore", "function", "invalid"}, mask : prog.masks \cup {{}}]
InProgram == {"run", "raise", "suspend", "wait"}

TypeOK ==
  /\ prog \in Programs
  /\ pending \subseteq Sigs /\ blocked \subseteq Sigs /\ awaited \subseteq Sigs
  /\ act \in [Sigs -> Actions]
  /\ handling \in BOOLEAN /\ sleeping \in BOOLEAN /\ stopped \in BOOLEAN
  /\ pc \in InProgram \cup {"post", "handler", "next", "end", "dead"}
  /\ ret \in InProgram
  /\ signo \in Sigs /\ raising \in Sigs
  /\ saved \subseteq Sigs /\ oset \subseteq Sigs /\ progmask \subseteq Sigs
  /\ jmp \in [mask : SUBSET Sigs, handling : BOOLEAN]
  /\ raised \in [Sigs -> 0 .. prog.raises] /\ handled \in [Sigs -> Nat]
  /\ pc \in {"post", "handler", "next", "end"} => handling

Bit(s) == {s} \ Wide

\* A history of the signals raised.
Note(s) ==
  /\ raised[s] < prog.raises
  /\ raised' = [raised EXCEPT ![s] = @ + 1]
  /\ awaited' = awaited \cup {s}

-----------------------------------------------------------------------------
(***************************************************************************)
(* __unixlib_raise_signal.                                                 *)
(***************************************************************************)

\* The rest of it: post_signal is called if no signal is being handled, to
\* return to r.
Post(s, r) ==
  /\ handling' = TRUE
  /\ signo' = s
  /\ ret' = r
  /\ pc' = "post"

\* The program calls raise (kill does the same).
Raise(s) ==
  /\ pc = "run"
  /\ Note(s)
  /\ pending' = pending \cup Bit(s)
  /\ raising' = s
  /\ pc' = "raise"
  /\ UNCHANGED <<prog, blocked, act, handling, sleeping, stopped, signo, saved, ret, oset, jmp,
                 progmask, handled>>

RaiseRest ==
  /\ pc = "raise"
  /\ \/ ~handling /\ Post(raising, "run")
     \/ handling /\ pc' = (IF raising \in Faults THEN "dead" ELSE "run")
        /\ UNCHANGED <<handling, signo, ret>>
  /\ UNCHANGED <<prog, pending, blocked, act, sleeping, stopped, saved, raising, oset, jmp,
                 ghosts>>

\* A handler calls raise.
HandlerRaises(s) ==
  /\ pc = "handler"
  /\ Note(s)
  /\ pending' = pending \cup Bit(s)
  /\ pc' = IF s \in Faults THEN "dead" ELSE pc
  /\ UNCHANGED <<prog, blocked, act, handling, sleeping, stopped, signo, saved, ret, raising,
                 oset, jmp, progmask, handled>>

\* A timer's callback raises a signal.
Timer(s) ==
  /\ pc # "dead"
  /\ Note(s)
  /\ pending' = pending \cup Bit(s)
  /\ IF handling THEN UNCHANGED <<handling, signo, ret, pc>> ELSE Post(s, pc)
  /\ UNCHANGED <<prog, blocked, act, sleeping, stopped, saved, raising, oset, jmp, progmask,
                 handled>>

\* The same, in the middle of a statement that changes `pending'.
TimerTorn(s) ==
  /\ pc \in {"post", "next"}
  /\ Note(s)
  /\ UNCHANGED <<prog, pending, blocked, act, handling, sleeping, stopped, pc, signo, saved,
                 ret, raising, oset, jmp, progmask, handled>>

-----------------------------------------------------------------------------
(***************************************************************************)
(* post_signal.                                                            *)
(***************************************************************************)

DefaultDecision(s) ==
  CASE s \in Stops -> "stop"
    [] s \in Ignorable \cup {CONT} -> "ignore"
    [] s \in Infos -> IF prog.leader THEN "handle" ELSE "ignore"
    [] OTHER -> "die"

\* `act', before blocked signals are looked at.
Decision(s) ==
  LET a == CASE act[s].handler = "default" -> DefaultDecision(s)
             [] act[s].handler = "ignore" -> "ignore"
             [] OTHER -> "handle"
  IN IF a = "stop" /\ prog.orphan /\ s \in JobStops THEN "die" ELSE a

\* An orphan that would be stopped is killed.
Final(s) == IF prog.orphan /\ s \in JobStops /\ act[s].handler = "default" THEN KILL ELSE s

\* A stop signal clears a pending SIGCONT and the other way round.
Cleared(s, set) == IF s \in Stops THEN set \ {CONT} ELSE IF s = CONT THEN set \ Stops ELSE set

StoppedAfter(s) == IF s = CONT THEN FALSE ELSE stopped

\* The signal is blocked, and not ignored.
Held(s) == Final(s) \in blocked /\ Decision(s) # "ignore"

\* Mutant of PostHold: a blocked signal is dropped.
PostHoldForgets ==
  /\ pc = "post" /\ Held(signo)
  /\ pending' = Cleared(signo, pending) \ {Final(signo)}
  /\ awaited' = Cleared(signo, awaited)
  /\ stopped' = StoppedAfter(signo)
  /\ pc' = "next"
  /\ UNCHANGED <<prog, blocked, act, handling, sleeping, signo, saved, ret, raising, oset, jmp,
                 progmask, raised, handled>>

PostHold ==
  /\ pc = "post" /\ Held(signo)
  /\ pending' = Cleared(signo, pending) \cup {Final(signo)}
  /\ awaited' = Cleared(signo, awaited)
  /\ stopped' = StoppedAfter(signo)
  /\ pc' = "next"
  /\ UNCHANGED <<prog, blocked, act, handling, sleeping, signo, saved, ret, raising, oset, jmp,
                 progmask, raised, handled>>

PostStop ==
  /\ pc = "post" /\ ~Held(signo) /\ Decision(signo) = "stop"
  /\ pending' = Cleared(signo, pending)
  /\ awaited' = Cleared(signo, awaited) \ {signo}
  /\ stopped' = TRUE
  /\ sleeping' = FALSE
  /\ pc' = "next"
  /\ UNCHANGED <<prog, blocked, act, handling, signo, saved, ret, raising, oset, jmp, progmask,
                 raised, handled>>

PostIgnore ==
  /\ pc = "post" /\ ~Held(signo) /\ Decision(signo) = "ignore"
  /\ pending' = Cleared(signo, pending)
  /\ awaited' = Cleared(signo, awaited) \ {signo}
  /\ stopped' = StoppedAfter(signo)
  /\ pc' = "next"
  /\ UNCHANGED <<prog, blocked, act, handling, sleeping, signo, saved, ret, raising, oset, jmp,
                 progmask, raised, handled>>

\* The process ends: by the default action, or since sigsetup cannot run the
\* handler.
PostDie ==
  /\ pc = "post" /\ ~Held(signo)
  /\ \/ Decision(signo) = "die"
     \/ Decision(signo) = "handle" /\ act[signo].handler = "invalid"
  /\ pc' = "dead"
  /\ UNCHANGED <<prog, pending, blocked, act, handling, sleeping, stopped, signo, saved, ret,
                 raising, oset, jmp, ghosts>>

\* Mutant of PostHandle: the signal stays pending.
PostHandleKeeps ==
  /\ pc = "post" /\ ~Held(signo)
  /\ Decision(signo) = "handle" /\ act[signo].handler # "invalid"
  /\ pending' = Cleared(signo, pending)
  /\ awaited' = Cleared(signo, awaited) \ {signo}
  /\ stopped' = StoppedAfter(signo)
  /\ saved' = blocked
  /\ blocked' = blocked \cup Bit(signo) \cup act[signo].mask
  /\ act' = [act EXCEPT ![signo] = Default]
  /\ handled' = [handled EXCEPT ![signo] = @ + 1]
  /\ pc' = "handler"
  /\ UNCHANGED <<prog, handling, sleeping, signo, ret, raising, oset, jmp, progmask, raised>>

\* The default action is set again, the mask extended and the handler called.
PostHandle ==
  /\ pc = "post" /\ ~Held(signo)
  /\ Decision(signo) = "handle" /\ act[signo].handler # "invalid"
  /\ pending' = Cleared(signo, pending) \ {signo}
  /\ awaited' = Cleared(signo, awaited) \ {signo}
  /\ stopped' = StoppedAfter(signo)
  /\ saved' = blocked
  /\ blocked' = blocked \cup Bit(signo) \cup act[signo].mask
  /\ act' = [act EXCEPT ![signo] = Default]
  /\ handled' = [handled EXCEPT ![signo] = @ + 1]
  /\ pc' = "handler"
  /\ UNCHANGED <<prog, handling, sleeping, signo, ret, raising, oset, jmp, progmask, raised>>

\* Mutant of HandlerReturns: the mask is not restored.
HandlerReturnsMasked ==
  /\ pc = "handler"
  /\ pc' = "next"
  /\ UNCHANGED <<prog, pending, blocked, act, handling, sleeping, stopped, signo, saved, ret,
                 raising, oset, jmp, ghosts>>

HandlerReturns ==
  /\ pc = "handler"
  /\ blocked' = saved
  /\ pc' = "next"
  /\ UNCHANGED <<prog, pending, act, handling, sleeping, stopped, signo, saved, ret, raising,
                 oset, jmp, ghosts>>

\* It returns having changed the saved pc: __signal_restart.
HandlerRestarts ==
  /\ pc = "handler" /\ signo \in Faults /\ prog.restarts
  /\ blocked' = saved
  /\ pc' = "run"
  /\ UNCHANGED <<prog, pending, act, handling, sleeping, stopped, signo, saved, ret, raising,
                 oset, jmp, ghosts>>

\* Mutant of NextPending: the signal stays pending.
NextPendingKeeps ==
  /\ pc = "next"
  /\ \E s \in pending \ blocked :
       /\ \A u \in pending \ blocked : s <= u
       /\ signo' = s
  /\ pc' = "post"
  /\ UNCHANGED <<prog, pending, blocked, act, handling, sleeping, stopped, saved, ret, raising,
                 oset, jmp, ghosts>>

\* post_pending: the least pending signal that is not blocked.
NextPending ==
  /\ pc = "next"
  /\ \E s \in pending \ blocked :
       /\ \A u \in pending \ blocked : s <= u
       /\ pending' = pending \ {s}
       /\ signo' = s
  /\ pc' = "post"
  /\ UNCHANGED <<prog, blocked, act, handling, sleeping, stopped, saved, ret, raising, oset,
                 jmp, ghosts>>

NonePending ==
  /\ pc = "next" /\ pending \subseteq blocked
  /\ pc' = "end"
  /\ UNCHANGED <<prog, pending, blocked, act, handling, sleeping, stopped, signo, saved, ret,
                 raising, oset, jmp, ghosts>>

\* Mutant of PostReturns: sleeping stays set.
PostReturnsAsleep ==
  /\ pc = "end"
  /\ handling' = FALSE
  /\ pc' = ret
  /\ UNCHANGED <<prog, pending, blocked, act, sleeping, stopped, signo, saved, ret, raising, oset,
                 jmp, ghosts>>

PostReturns ==
  /\ pc = "end"
  /\ handling' = FALSE
  /\ sleeping' = FALSE
  /\ pc' = ret
  /\ UNCHANGED <<prog, pending, blocked, act, stopped, signo, saved, ret, raising, oset, jmp,
                 ghosts>>

-----------------------------------------------------------------------------
(***************************************************************************)
(* sigprocmask, sigaction, sigsuspend, sigsetjmp and siglongjmp.           *)
(***************************************************************************)

\* Mutant of PostPending: post_signal is called without a mark.
PostPendingUnmarked(r) == ret' = r /\ pc' = "next" /\ UNCHANGED handling

\* __unixlib_raise_signal (0, 0): deliver what is pending, return to r.
PostPending(r) ==
  IF handling THEN pc' = r /\ UNCHANGED <<handling, ret>>
  ELSE handling' = TRUE /\ ret' = r /\ pc' = "next"

\* Mutant of Blockable: every signal can be blocked.
BlockableAll(set) == set

\* SIGKILL and SIGSTOP are not blocked.
Blockable(set) == set \ {KILL, STOP}

\* The mask that sigprocmask (how, set, NULL) makes.
Mask(how, set) ==
  CASE how = "block" -> blocked \cup Blockable(set)
    [] how = "unblock" -> blocked \ Blockable(set)
    [] how = "set" -> Blockable(set)

Sigprocmask(how, set) ==
  /\ pc = "run"
  /\ blocked' = Mask(how, set)
  /\ progmask' = Mask(how, set)
  /\ IF how = "block" THEN UNCHANGED <<handling, ret, pc>> ELSE PostPending("run")
  /\ UNCHANGED <<prog, pending, act, sleeping, stopped, signo, saved, raising, oset, jmp,
                 raised, handled, awaited>>

\* A handler calls it; its mask is forgotten when the handler returns.
HandlerMasks(how, set) ==
  /\ pc = "handler"
  /\ blocked' = Mask(how, set)
  /\ UNCHANGED <<prog, pending, act, handling, sleeping, stopped, pc, signo, saved, ret,
                 raising, oset, jmp, progmask, raised, handled, awaited>>

Sigaction(s, a) ==
  /\ pc \in {"run", "handler"}
  /\ s \notin {KILL, STOP} \/ a.handler = "default"
  /\ act' = [act EXCEPT ![s] = a]
  /\ UNCHANGED <<prog, pending, blocked, handling, sleeping, stopped, pc, signo, saved, ret,
                 raising, oset, jmp, ghosts>>

\* sigsuspend: the mask is set with sigprocmask,
Sigsuspend(set) ==
  /\ pc = "run"
  /\ oset' = blocked
  /\ blocked' = Blockable(set)
  /\ PostPending("suspend")
  /\ UNCHANGED <<prog, pending, act, sleeping, stopped, signo, saved, raising, jmp, ghosts>>

\* then sleeping is set,
SuspendSleeps ==
  /\ pc = "suspend"
  /\ sleeping' = TRUE
  /\ pc' = "wait"
  /\ UNCHANGED <<prog, pending, blocked, act, handling, stopped, signo, saved, ret, raising,
                 oset, jmp, ghosts>>

\* and when it is no longer so, the mask is restored.
SuspendReturns ==
  /\ pc = "wait" /\ ~sleeping
  /\ blocked' = Blockable(oset)
  /\ PostPending("run")
  /\ UNCHANGED <<prog, pending, act, sleeping, stopped, signo, saved, raising, oset, jmp,
                 ghosts>>

Sigsetjmp ==
  /\ pc = "run"
  /\ jmp' = [mask |-> blocked, handling |-> handling]
  /\ UNCHANGED <<prog, pending, blocked, act, handling, sleeping, stopped, pc, signo, saved,
                 ret, raising, oset, ghosts>>

\* Mutant of Siglongjmp: pending signals are left to the next one raised.
SiglongjmpQuiet ==
  /\ pc = "handler"
  /\ blocked' = jmp.mask
  /\ progmask' = jmp.mask
  /\ handling' = jmp.handling
  /\ pc' = "run"
  /\ UNCHANGED <<prog, pending, act, sleeping, stopped, signo, saved, ret, raising, oset, jmp,
                 raised, handled, awaited>>

\* siglongjmp out of a handler, with the mask saved,
Siglongjmp ==
  /\ pc = "handler"
  /\ blocked' = jmp.mask
  /\ progmask' = jmp.mask
  /\ IF jmp.handling THEN handling' = TRUE /\ pc' = "run" /\ UNCHANGED ret
     ELSE handling' = TRUE /\ pc' = "next" /\ ret' = "run"
  /\ UNCHANGED <<prog, pending, act, sleeping, stopped, signo, saved, raising, oset, jmp,
                 raised, handled, awaited>>

\* and without.
SiglongjmpPlain ==
  /\ pc = "handler" /\ prog.plainjumps
  /\ progmask' = blocked
  /\ pc' = "run"
  /\ UNCHANGED <<prog, pending, blocked, act, handling, sleeping, stopped, signo, saved, ret,
                 raising, oset, jmp, raised, handled, awaited>>

-----------------------------------------------------------------------------
Init ==
  /\ prog \in Programs
  /\ pending = {} /\ blocked = {} /\ awaited = {} /\ progmask = {}
  /\ act = [s \in Sigs |-> Default]
  /\ handling = FALSE /\ sleeping = FALSE /\ stopped = FALSE
  /\ pc = "run" /\ ret = "run"
  /\ signo = KILL /\ raising = KILL
  /\ saved = {} /\ oset = {}
  /\ jmp = [mask |-> {}, handling |-> FALSE]
  /\ raised = [s \in Sigs |-> 0] /\ handled = [s \in Sigs |-> 0]

\* What is not up to the program.
Deliver == \/ RaiseRest \/ PostHold \/ PostStop \/ PostIgnore \/ PostDie \/ PostHandle
           \/ NextPending \/ NonePending \/ PostReturns

Program ==
  \/ \E s \in prog.raised : Raise(s)
  \/ \E how \in {"block", "unblock", "set"}, set \in prog.masks : Sigprocmask(how, set)
  \/ \E s \in prog.caught, a \in Actions : Sigaction(s, a)
  \/ \E set \in prog.masks : Sigsuspend(set)
  \/ SuspendSleeps \/ SuspendReturns
  \/ Sigsetjmp

Handler ==
  \/ \E s \in prog.raised : HandlerRaises(s)
  \/ \E how \in {"block", "unblock", "set"}, set \in prog.masks : HandlerMasks(how, set)
  \/ HandlerReturns \/ HandlerRestarts \/ Siglongjmp \/ SiglongjmpPlain

Timers == \E s \in prog.async : Timer(s) \/ TimerTorn(s)

Next == Deliver \/ Program \/ Handler \/ Timers

Spec == Init /\ [][Next]_vars

\* The process runs, its handlers return, and sigsuspend is not left undone.
FairSpec == Spec /\ WF_vars(Deliver \/ SuspendSleeps \/ SuspendReturns) /\ SF_vars(HandlerReturns)

-----------------------------------------------------------------------------
(***************************************************************************)
(* Properties.                                                             *)
(***************************************************************************)

\* No timers, no jumps without a mask, no handler that changes the saved pc.
Tame == prog.async = {} /\ ~prog.plainjumps /\ ~prog.restarts

\* The program finds the mask it has asked for last, whatever was delivered
\* and whatever mask handlers, sigsuspend and siglongjmp have used meanwhile.
MaskKept == pc \in {"run", "raise"} => blocked = progmask

\* SIGKILL and SIGSTOP are never blocked while the program runs.
KillNotBlocked == pc \in InProgram => {KILL, STOP} \cap blocked = {}

\* "Any raised signals will be pended and executed after the current signal has
\* finished executing" (sigstate.h): whenever the program goes on, there is
\* nothing left to deliver, unless timers raise signals at any moment, or
\* handlers are left without a word to post_signal.
NothingLeftBehind == Tame /\ pc \in {"run", "wait"} => pending \subseteq blocked

\* A handler runs at most once for every time its signal was raised, unless a
\* timer gets in between the two halves of raise.
TakenOnce == prog.async = {} => \A s \in Sigs : handled[s] <= raised[s]

\* A signal that was raised is pending, is being delivered, or has been
\* delivered since; not so for one that a set of 32 bits has no bit for, or if
\* timers interrupt post_signal.
NoneLost ==
  prog.async = {} /\ prog.raised \cap Wide = {} /\ pc # "dead" =>
    awaited \subseteq pending \cup {s \in Sigs : pc = "post" /\ s = signo}

\* post_signal comes to an end, also when handlers raise signals.
DeliveryEnds == pc = "post" ~> pc \in InProgram \cup {"dead"}

\* "wait until a signal arrives" (sigsuspend.c): a handler that is run while
\* sigsuspend sleeps ends it.
SuspendWakes == pc = "handler" /\ ret = "wait" ~> pc \in {"run", "dead"}

\* Whatever handlers, timers, sigsuspend and jumps do, the program's mask comes
\* back, nothing that can be delivered is left behind, and nothing is handled
\* twice.
SignalsInv ==
  /\ TypeOK
  /\ MaskKept
  /\ KillNotBlocked
  /\ NothingLeftBehind
  /\ TakenOnce
==============================================================================
