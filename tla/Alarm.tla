-------------------------------- MODULE Alarm --------------------------------
(***************************************************************************)
(* The real-time interval timer of a UnixLib process and what is built on  *)
(* it: setitimer, the ticker routines of _signal.s, ualarm and sleep.      *)
(*                                                                         *)
(* A tick of the clock makes expired tickers ask for a callback, which     *)
(* runs when user code would go on: at once, or, when the tick came while  *)
(* a SWI was being executed, when that SWI returns.  Of SIGALRM there is   *)
(* one pending bit, one bit of the mask and the action, which is back to   *)
(* the default when a handler starts; module Signals has the rest.         *)
(*                                                                         *)
(* setitimer is called by the program, by sleep for the program, and by    *)
(* the program's SIGALRM handler, so its variables are functions of the    *)
(* caller, "main" or "handler".                                            *)
(***************************************************************************)
EXTENDS Integers, FiniteSets

CONSTANTS
  TICKS,       \* CLOCKS_PER_SEC
  USECS,       \* USECS_PER_CLOCK
  Programs     \* the programs to look at

\* What a program does with SIGALRM, and when ticks may come.
ProgramType ==
  [times : SUBSET Nat,           \* values it gives timers, in usecs
   intervals : SUBSET Nat,       \* intervals it gives timers, in usecs
   naps : SUBSET (Nat \ {0}),    \* how long it sleeps, in ticks
   handlers : BOOLEAN,           \* does it have a SIGALRM handler?
   setters : SUBSET {"main", "handler"},  \* who sets timers
   switicks : BOOLEAN,           \* may a tick come inside OS_RemoveTickerEvent?
   others : BOOLEAN,             \* are there other signals?
   maxcalls : Nat,               \* bound: calls of setitimer and sleep
   maxslept : Nat]               \* bound: ticks of a sleep that are counted

ASSUME ClockAssumption == TICKS \in Nat \ {0} /\ USECS \in Nat \ {0}
ASSUME ProgramsAssumption == Programs \subseteq ProgramType

\* The bound on the ticks that are counted is no shorter than any sleep.
ASSUME NapsAssumption == \A p \in Programs : \A n \in p.naps : n <= p.maxslept

VARIABLES
  prog,                   \* the program, which stays the same
  value, interval,        \* __u->itimers[ITIMER_REAL]
  tickers,                \* the ticker events of the kernel
  sema,                   \* __h_sigalrm_sema
  callbacks,              \* callbacks that are due
  pended, blocked, act,   \* SIGALRM: is it pending, is it blocked, its action
  sleeping,
  pc,                     \* where each caller is; handler: "none" if not running
  new, old, then,         \* setitimer: its arguments, and where it returns to
  unfinished,             \* has the handler been called by __h_sigalrm?
  nap, oact, remaining, slept,  \* of sleep_int
  started,
  due                     \* history: ticks until the program's own alarm, or 0

timer == <<value, interval, tickers, sema, callbacks>>
signal == <<pended, blocked, act, sleeping>>
call == <<new, old, then>>
sleep == <<nap, oact, remaining, slept>>
vars == <<prog, timer, signal, pc, call, unfinished, sleep, started, due>>

Callers == {"main", "handler"}
SetitimerSteps == {"remove", "assign", "add"}
SleepSteps == {"armed", "suspend", "sleep", "wait", "woken", "unmask"}
SECOND == TICKS * USECS

TypeOK ==
  /\ prog \in Programs
  /\ value \in Nat /\ interval \in Nat /\ callbacks \in Nat
  /\ tickers \subseteq [left : Nat \ {0}, every : Nat, no : Nat]
  /\ sema \in BOOLEAN /\ pended \in BOOLEAN /\ blocked \in BOOLEAN /\ sleeping \in BOOLEAN
  /\ unfinished \in BOOLEAN
  /\ act \in {"default", "user", "nap"} /\ oact \in {"default", "user"}
  /\ pc \in [main : SetitimerSteps \cup SleepSteps \cup {"run", "dead"},
             handler : SetitimerSteps \cup {"none", "run"}]
  /\ new \in [Callers -> [value : Nat, interval : Nat]]
  /\ old \in [Callers -> Nat]
  /\ then \in [Callers -> SleepSteps \cup {"run"}]
  /\ nap \in Nat /\ remaining \in Nat /\ slept \in 0 .. prog.maxslept
  /\ started \in 0 .. prog.maxcalls /\ due \in Nat
  /\ sleeping => pc["main"] = "wait"
  /\ unfinished => pc["handler"] # "none"

\* User code goes on: no callback is due, and a handler goes first.
Goes(c) == callbacks = 0 /\ (c = "main" => pc["handler"] = "none")

-----------------------------------------------------------------------------
(***************************************************************************)
(* Signals, as far as SIGALRM goes.                                        *)
(***************************************************************************)

\* Mutant of Post: the process is left asleep.
PostStaysAsleep(next) ==
  /\ act' = "default"
  /\ sleeping' = sleeping
  /\ CASE act = "default" -> pc' = [main |-> "dead", handler |-> "none"]
       [] act = "nap" -> pc' = [main |-> next, handler |-> "none"]
       [] act = "user" -> pc' = [main |-> next, handler |-> "run"]

\* post_signal for a SIGALRM that is not blocked: next is where the program
\* goes on when it does.
Post(next) ==
  /\ act' = "default"
  /\ sleeping' = FALSE
  /\ CASE act = "default" -> pc' = [main |-> "dead", handler |-> "none"]
       [] act = "nap" -> pc' = [main |-> next, handler |-> "none"]
       [] act = "user" -> pc' = [main |-> next, handler |-> "run"]

\* sigprocmask makes b the mask: a pending SIGALRM is delivered.
SetMask(b, next) ==
  /\ blocked' = b
  /\ IF pended /\ ~b THEN pended' = FALSE /\ Post(next)
     ELSE pc' = [pc EXCEPT !["main"] = next] /\ UNCHANGED <<pended, act, sleeping>>

-----------------------------------------------------------------------------
(***************************************************************************)
(* The kernel's tickers, and the callback __h_sigalrm.                     *)
(***************************************************************************)

\* A new ticker event; its number tells it from others with the same times.
NewTicker(l, e) ==
  [left |-> l, every |-> e,
   no |-> CHOOSE n \in 0 .. Cardinality(tickers) : \A t \in tickers : t.no # n]

\* Mutant of Tick: a ticker goes off one tick late.
TickLate ==
  /\ callbacks = 0 /\ pc["main"] # "dead"
  /\ LET late == [t \in tickers |-> t.left = 0] IN
     /\ callbacks' = Cardinality({t \in tickers : late[t]})
     /\ tickers' = {[t EXCEPT !.left = @ - 1] : t \in {u \in tickers : ~late[u]}}
  /\ slept' = IF slept < prog.maxslept THEN slept + 1 ELSE slept
  /\ due' = IF due > 0 THEN due - 1 ELSE 0
  /\ UNCHANGED <<prog, value, interval, sema, signal, pc, call, unfinished, nap, oact,
                 remaining, started>>

Tick ==
  /\ callbacks = 0 /\ pc["main"] # "dead"
  /\ LET over == {t \in tickers : t.left = 1} IN
     /\ callbacks' = Cardinality(over)
     /\ tickers' = {[t EXCEPT !.left = @ - 1] : t \in tickers \ over}
                   \cup {[t EXCEPT !.left = t.every] : t \in {u \in over : u.every > 0}}
  /\ slept' = IF slept < prog.maxslept THEN slept + 1 ELSE slept
  /\ due' = IF due > 0 THEN due - 1 ELSE 0
  /\ UNCHANGED <<prog, value, interval, sema, signal, pc, call, unfinished, nap, oact,
                 remaining, started>>

\* The delay for OS_CallEvery.
Period == TICKS * (interval \div SECOND) + (interval % SECOND) + 1

\* What __h_sigalrm does after raising the signal.
CallEvery ==
  IF sema \/ interval = 0 THEN UNCHANGED <<tickers, sema>>
  ELSE tickers' = tickers \cup {NewTicker(Period, Period)} /\ sema' = TRUE

\* __h_sigalrm: SIGALRM is raised; a handler runs before the rest of it.
CallBack ==
  /\ callbacks > 0 /\ pc["main"] # "dead"
  /\ callbacks' = callbacks - 1
  /\ IF blocked \/ pc["handler"] # "none" THEN
       /\ pended' = TRUE
       /\ sleeping' = (sleeping /\ pc["handler"] # "none")
       /\ UNCHANGED <<act, pc, unfinished>> /\ CallEvery
     ELSE
       /\ Post(pc["main"]) /\ UNCHANGED pended
       /\ unfinished' = (act = "user")
       /\ IF act = "user" THEN UNCHANGED <<tickers, sema>> ELSE CallEvery
  /\ UNCHANGED <<prog, value, interval, blocked, call, sleep, started, due>>

\* The program's handler returns; a SIGALRM that came meanwhile is delivered.
HandlerReturns ==
  /\ pc["handler"] = "run" /\ Goes("handler")
  /\ IF pended /\ ~blocked THEN
       /\ pended' = FALSE
       /\ Post(pc["main"])
     ELSE
       /\ pc' = [pc EXCEPT !["handler"] = "none"]
       /\ sleeping' = FALSE
       /\ UNCHANGED <<pended, act>>
  /\ IF unfinished /\ pc'["handler"] = "none" THEN CallEvery /\ unfinished' = FALSE
     ELSE UNCHANGED <<tickers, sema, unfinished>>
  /\ UNCHANGED <<prog, value, interval, callbacks, blocked, call, sleep, started, due>>

\* Any other signal, with a handler that returns, ends the wait of sigsuspend.
OtherSignal ==
  /\ prog.others /\ sleeping /\ Goes("main")
  /\ sleeping' = FALSE
  /\ UNCHANGED <<prog, timer, pended, blocked, act, pc, call, unfinished, sleep, started, due>>

-----------------------------------------------------------------------------
(***************************************************************************)
(* setitimer.                                                              *)
(***************************************************************************)

\* Caller c is about to call setitimer, and goes on at next.
Setitimer(c, v, i, next) ==
  /\ pc' = [pc EXCEPT ![c] = "remove"]
  /\ new' = [new EXCEPT ![c] = [value |-> v, interval |-> i]]
  /\ then' = [then EXCEPT ![c] = next]
  /\ UNCHANGED old

\* Is it the program that sets the timer, and not sleep?
Own(c) == then[c] = "run"

\* Mutant of RemoveTicker: the old ticker stays.
RemoveTickerForgets(c) ==
  /\ pc[c] = "remove" /\ (c = "main" => pc["handler"] = "none")
  /\ prog.switicks \/ callbacks = 0
  /\ old' = [old EXCEPT ![c] = value]
  /\ due' = IF Own(c) THEN 0 ELSE due
  /\ pc' = [pc EXCEPT ![c] = "assign"]
  /\ UNCHANGED <<prog, timer, signal, new, then, unfinished, sleep, started>>

\* OS_RemoveTickerEvent.  A tick may come while it is executed.
RemoveTicker(c) ==
  /\ pc[c] = "remove" /\ (c = "main" => pc["handler"] = "none")
  /\ prog.switicks \/ callbacks = 0
  /\ old' = [old EXCEPT ![c] = value]
  /\ \/ tickers = {} /\ tickers' = {}
     \/ \E t \in tickers : tickers' = tickers \ {t}
  /\ due' = IF Own(c) THEN 0 ELSE due
  /\ pc' = [pc EXCEPT ![c] = "assign"]
  /\ UNCHANGED <<prog, value, interval, sema, callbacks, signal, new, then, unfinished, sleep,
                 started>>

\* Mutant of Assign: __h_sigalrm_sema is not reset.
AssignKeepsSema(c) ==
  /\ pc[c] = "assign" /\ Goes(c)
  /\ value' = new[c].value
  /\ interval' = new[c].interval
  /\ pc' = [pc EXCEPT ![c] = "add"]
  /\ UNCHANGED <<prog, sema, tickers, callbacks, signal, call, unfinished, sleep, started, due>>

Assign(c) ==
  /\ pc[c] = "assign" /\ Goes(c)
  /\ sema' = FALSE
  /\ value' = new[c].value
  /\ interval' = new[c].interval
  /\ pc' = [pc EXCEPT ![c] = "add"]
  /\ UNCHANGED <<prog, tickers, callbacks, signal, call, unfinished, sleep, started, due>>

\* The delay for OS_CallAfter.
Delay(v) == TICKS * (v \div SECOND) + ((v % SECOND) + USECS - 1) \div USECS

AddTicker(c) ==
  /\ pc[c] = "add" /\ Goes(c)
  /\ tickers' = IF new[c].value = 0 THEN tickers
                ELSE tickers \cup {NewTicker(Delay(new[c].value), 0)}
  /\ due' = IF Own(c) THEN Delay(new[c].value) ELSE due
  /\ pc' = [pc EXCEPT ![c] = then[c]]
  /\ UNCHANGED <<prog, value, interval, sema, callbacks, signal, call, unfinished, sleep,
                 started>>

-----------------------------------------------------------------------------
(***************************************************************************)
(* The program and its handler.                                            *)
(***************************************************************************)
Starts(c) == pc[c] = "run" /\ Goes(c) /\ started < prog.maxcalls /\ started' = started + 1

\* setitimer, alarm or ualarm is called.
SetTimer(c, v, i) ==
  /\ Starts(c)
  /\ Setitimer(c, v, i, "run")
  /\ UNCHANGED <<prog, timer, signal, unfinished, sleep, due>>

\* sigaction installs the handler.
Sigaction(c) ==
  /\ pc[c] = "run" /\ Goes(c) /\ prog.handlers
  /\ act' = "user"
  /\ UNCHANGED <<prog, timer, pended, blocked, sleeping, pc, call, unfinished, sleep, started,
                 due>>

-----------------------------------------------------------------------------
(***************************************************************************)
(* sleep_int.                                                              *)
(***************************************************************************)

\* SIGALRM is blocked, the handler installed, and ualarm called.
SleepBegin(n) ==
  /\ Starts("main")
  /\ blocked' = TRUE
  /\ oact' = act
  /\ act' = "nap"
  /\ nap' = n
  /\ slept' = 0
  /\ Setitimer("main", n * USECS, 0, "armed")
  /\ UNCHANGED <<prog, timer, pended, sleeping, unfinished, remaining, due>>

\* What ualarm returns.
UalarmResult == (old["main"] % SECOND) + (new["main"].value \div SECOND) * SECOND

\* Mutant of Sooner: an alarm that is as late as sleep's own counts as sooner.
SoonerOrEqual(rem) == rem > 0 /\ rem <= nap

\* Is there an alarm of the program's that goes off before sleep's?
Sooner(rem) == rem > 0 /\ rem < nap

SleepArmed ==
  /\ pc["main"] = "armed" /\ Goes("main")
  /\ LET rem == UalarmResult \div USECS IN
     /\ remaining' = rem
     /\ IF Sooner(rem) THEN act' = oact /\ Setitimer("main", nap * USECS, 0, "suspend")
        ELSE pc' = [pc EXCEPT !["main"] = "suspend"] /\ UNCHANGED <<act, call>>
  /\ UNCHANGED <<prog, timer, pended, blocked, sleeping, unfinished, nap, oact, slept, started,
                 due>>

\* sigsuspend (&oset): the mask is set,
Suspend ==
  /\ pc["main"] = "suspend" /\ Goes("main")
  /\ SetMask(FALSE, "sleep")
  /\ UNCHANGED <<prog, timer, call, unfinished, sleep, started, due>>

\* Mutant of SuspendSleeps: the process is not marked as sleeping.
SuspendSleepsNot ==
  /\ pc["main"] = "sleep" /\ Goes("main")
  /\ pc' = [pc EXCEPT !["main"] = "wait"]
  /\ UNCHANGED <<prog, timer, signal, call, unfinished, sleep, started, due>>

\* the process sleeps,
SuspendSleeps ==
  /\ pc["main"] = "sleep" /\ Goes("main")
  /\ sleeping' = TRUE
  /\ pc' = [pc EXCEPT !["main"] = "wait"]
  /\ UNCHANGED <<prog, timer, pended, blocked, act, call, unfinished, sleep, started, due>>

\* and the mask is restored.
SuspendReturns ==
  /\ pc["main"] = "wait" /\ ~sleeping /\ Goes("main")
  /\ SetMask(TRUE, "woken")
  /\ UNCHANGED <<prog, timer, call, unfinished, sleep, started, due>>

\* Mutant of SleepWoken: the alarm is left as it is.
SleepWokenLeaves ==
  /\ pc["main"] = "woken" /\ Goes("main")
  /\ act' = IF Sooner(remaining) THEN act ELSE oact
  /\ pc' = [pc EXCEPT !["main"] = "unmask"]
  /\ UNCHANGED <<prog, timer, pended, blocked, sleeping, call, unfinished, sleep, started, due>>

\* Mutant of SleepWoken: the action is not restored.
SleepWokenForgets ==
  /\ pc["main"] = "woken" /\ Goes("main")
  /\ Setitimer("main", IF remaining > slept THEN (remaining - slept) * USECS ELSE 0, 0, "unmask")
  /\ UNCHANGED <<prog, timer, signal, unfinished, sleep, started, due>>

\* The action is restored, and the alarm set again or turned off.
SleepWoken ==
  /\ pc["main"] = "woken" /\ Goes("main")
  /\ act' = IF Sooner(remaining) THEN act ELSE oact
  /\ Setitimer("main", IF remaining > slept THEN (remaining - slept) * USECS ELSE 0, 0, "unmask")
  /\ UNCHANGED <<prog, timer, pended, blocked, sleeping, unfinished, sleep, started, due>>

\* The mask is restored and sleep returns.
SleepReturns ==
  /\ pc["main"] = "unmask" /\ Goes("main")
  /\ SetMask(FALSE, "run")
  /\ UNCHANGED <<prog, timer, call, unfinished, sleep, started, due>>

-----------------------------------------------------------------------------
Init ==
  /\ prog \in Programs
  /\ value = 0 /\ interval = 0 /\ tickers = {} /\ sema = FALSE /\ callbacks = 0
  /\ pended = FALSE /\ blocked = FALSE /\ act = "default" /\ sleeping = FALSE
  /\ pc = [main |-> "run", handler |-> "none"]
  /\ new = [c \in Callers |-> [value |-> 0, interval |-> 0]]
  /\ old = [c \in Callers |-> 0]
  /\ then = [c \in Callers |-> "run"]
  /\ unfinished = FALSE
  /\ nap = 0 /\ oact = "default" /\ remaining = 0 /\ slept = 0
  /\ started = 0 /\ due = 0

Sleep == SleepArmed \/ Suspend \/ SuspendSleeps \/ SuspendReturns \/ SleepWoken \/ SleepReturns

InSetitimer == \E c \in Callers : RemoveTicker(c) \/ Assign(c) \/ AddTicker(c)

Next ==
  \/ Tick \/ CallBack \/ HandlerReturns \/ OtherSignal
  \/ InSetitimer
  \/ \E c \in Callers : Sigaction(c)
  \/ \E c \in prog.setters, v \in prog.times, i \in prog.intervals : SetTimer(c, v, i)
  \/ \E n \in prog.naps : SleepBegin(n)
  \/ Sleep

Spec == Init /\ [][Next]_vars

\* The clock ticks, and the process runs.
FairSpec == Spec /\ WF_vars(Tick) /\ WF_vars(CallBack) /\ SF_vars(InSetitimer \/ Sleep)
                 /\ SF_vars(HandlerReturns)

-----------------------------------------------------------------------------
(***************************************************************************)
(* Properties.                                                             *)
(***************************************************************************)
AtRest == pc["main"] = "run" /\ pc["handler"] = "none"

\* "If a timer is set that has not yet expired, that timer is reset to the new
\* value" (setitmr.c): between calls the kernel has one ticker event, for when
\* the alarm that was asked for is due, and none when none is.  Of alarms that
\* go off once, in a program that does not sleep, and in which no handler sets
\* the timer while the program is inside setitimer, with the old ticker gone.
Nests == prog.switicks /\ "handler" \in prog.setters
TimerMatches ==
  prog.naps = {} /\ prog.intervals = {0} /\ ~Nests /\ AtRest =>
    tickers = (IF due = 0 THEN {} ELSE {[left |-> due, every |-> 0, no |-> 0]})

\* "Only one timer of each kind can be set at any given time" (setitmr.c): the
\* kernel has one ticker event at most, whatever was set, interval or not, and
\* whoever sleeps.  Of programs in which no handler sets the timer, and no tick
\* comes inside OS_RemoveTickerEvent.
Undisturbed == "handler" \notin prog.setters /\ ~prog.switicks
OneTicker == Undisturbed => \A t, u \in tickers : t = u

\* An interval timer goes on, whatever timers went before it and whatever the
\* handler does: between calls the kernel has a ticker event for it.
IntervalGoesOn ==
  AtRest /\ callbacks = 0 /\ value > 0 /\ interval > 0 => tickers # {}

\* "be sure to turn off the alarm in case a signal other than SIGALRM was what
\* woke us up" (sleep.c): in a program that sets no alarm, sleep leaves none.
\* Of sleeps of less than a second, for which ualarm returns no made-up seconds.
AlarmOff ==
  prog.times = {} /\ (\A n \in prog.naps : n < TICKS) /\ AtRest => tickers = {}

\* Sleeps for which ualarm makes up no sooner alarm, and leaves none behind:
\* of less than a second, or of whole seconds that no other signal interrupts.
PlainNaps == \A n \in prog.naps : n < TICKS \/ (n % TICKS = 0 /\ ~prog.others)

\* "sleep for CLOCKTICKS clock ticks, or until a signal arrives" (sleep.c): a
\* process that sets no alarm, sleeps for whole seconds or less than one, and
\* has no other signals, is not killed by SIGALRM.
SleepIsSafe ==
  prog.times = {} /\ ~prog.others /\ PlainNaps => pc["main"] # "dead"

\* Without other signals and alarms, sleep does not end before its time.
SleepsLongEnough ==
  prog.times = {} /\ ~prog.others /\ pc["main"] \in {"woken", "unmask"} => slept >= nap

\* sleep gives back the action of SIGALRM that it has found, and the mask,
\* also when another signal has ended it.
SleepRestores == /\ prog.times = {} /\ PlainNaps /\ pc["main"] = "unmask" => act = oact
                 /\ AtRest => ~blocked

\* A sleep that has got as far as waiting, with its alarm still to come, ends.
SleepEnds ==
  prog.times = {} /\ sleeping /\ tickers # {} ~> pc["main"] \in {"run", "dead"}

\* The kernel's ticker events are those of the timer that was set last.
TimersInv == TypeOK /\ TimerMatches /\ OneTicker /\ IntervalGoesOn

\* A sleep does not kill its process, lasts as long as it should, and leaves
\* action, mask and alarm as it has found them.
SleepInv == SleepIsSafe /\ SleepsLongEnough /\ SleepRestores /\ AlarmOff
==============================================================================
