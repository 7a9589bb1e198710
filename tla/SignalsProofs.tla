---------------------------- MODULE SignalsProofs ----------------------------
(***************************************************************************)
(* Proofs about Signals for every set of signals and every program whose   *)
(* handlers are left by returning or by a siglongjmp that restores the     *)
(* mask (Returning).  Timers may raise signals at any moment, also in the  *)
(* middle of post_signal.                                                  *)
(*                                                                         *)
(* ControlInv ties currently_handling to where control is, MaskInv says    *)
(* where the program's mask is kept at every point, PendingInv what may be *)
(* pending there, and CountInv that a signal that can still be handled was *)
(* raised more often than it has been.  The last two, and NoneLost, are    *)
(* about programs without timers.                                          *)
(***************************************************************************)
EXTENDS Signals, TLAPS

Returning == ~prog.plainjumps /\ ~prog.restarts

ControlInv ==
  /\ handling <=> pc \in {"post", "handler", "next", "end", "dead"}
  /\ ~jmp.handling
  /\ prog.async = {} => ret \in {"run", "suspend"}

Clean(set) == KILL \notin set /\ STOP \notin set

MaskInv ==
  /\ Clean(progmask) /\ Clean(oset) /\ Clean(jmp.mask)
  /\ pc = "handler" => Clean(saved)
  /\ pc \notin {"handler", "dead"} => Clean(blocked)
  /\ pc \in {"run", "raise"} => blocked = progmask
  /\ pc \in {"suspend", "wait"} => oset = progmask
  /\ pc \in {"post", "next", "end"} =>
       IF ret \in {"run", "raise"} THEN blocked = progmask ELSE oset = progmask
  /\ pc = "handler" =>
       IF ret \in {"run", "raise"} THEN saved = progmask ELSE oset = progmask

PendingInv ==
  /\ pc \in {"run", "suspend", "wait", "end"} => pending \subseteq blocked
  /\ pc = "raise" => pending \subseteq blocked \cup {raising}

Due(s) == \/ s \in pending
          \/ pc = "post" /\ signo = s
          \/ pc = "raise" /\ raising = s

CountInv == \A s \in Sigs : handled[s] <= raised[s] /\ (Due(s) => handled[s] < raised[s])

IInv ==
  /\ TypeOK
  /\ Returning => ControlInv /\ MaskInv /\ NoneLost
  /\ Tame => PendingInv /\ CountInv

LEMMA ProgramTypes ==
  ASSUME prog \in Programs
  PROVE  /\ \A set \in prog.masks : set \subseteq Sigs
         /\ prog.caught \subseteq Sigs /\ prog.raised \subseteq Sigs /\ prog.async \subseteq Sigs
         /\ prog.raises \in Nat
  BY ProgramsAssumption DEF ProgramType

LEMMA ProgramStays ==
  ASSUME [Next]_vars
  PROVE  prog' = prog /\ Actions' = Actions
<1>1. prog' = prog
  BY DEF Next, vars, Deliver, Program, Handler, Timers, RaiseRest, PostHold, PostStop, PostIgnore,
         PostDie, PostHandle, NextPending, NonePending, PostReturns, Raise, Sigprocmask, Sigaction,
         Sigsuspend, SuspendSleeps, SuspendReturns, Sigsetjmp, HandlerRaises, HandlerMasks,
         HandlerReturns, HandlerRestarts, Siglongjmp, SiglongjmpPlain, Timer, TimerTorn
<1> QED
  BY <1>1 DEF Actions

\* What the history of the signals raised keeps.
LEMMA TypeOfNote ==
  ASSUME NEW s \in Sigs, TypeOK, Note(s)
  PROVE  /\ raised' \in [Sigs -> 0 .. prog.raises]
         /\ awaited' \subseteq Sigs
<1>1. raised \in [Sigs -> 0 .. prog.raises] /\ awaited \subseteq Sigs
  BY DEF TypeOK
<1>2. raised[s] < prog.raises
  BY Zenon DEF Note
<1>3. raised' = [raised EXCEPT ![s] = @ + 1]
  BY Zenon DEF Note
<1>4. awaited' = awaited \cup {s}
  BY Zenon DEF Note
<1>6. raised[s] + 1 \in 0 .. prog.raises
  BY <1>1, <1>2, ProgramTypes DEF TypeOK
<1>7. raised' \in [Sigs -> 0 .. prog.raises]
  BY <1>1, <1>3, <1>6
<1> QED
  BY <1>1, <1>4, <1>7

LEMMA TypeOfStep ==
  ASSUME TypeOK, [Next]_vars
  PROVE  TypeOK'
<1>0. prog' = prog /\ Actions' = Actions
  BY ProgramStays
<1> USE SigsAssumption, ProgramTypes, <1>0 DEF InProgram, ghosts
<1>1. CASE UNCHANGED vars
  BY <1>1 DEF vars, TypeOK
<1>2. CASE RaiseRest
  <2>1. CASE ~handling /\ Post(raising, "run")
    BY <1>2, <2>1 DEF RaiseRest, Post, TypeOK
  <2>2. CASE handling /\ UNCHANGED <<handling, signo, ret>> /\ pc' \in {"dead", "run"}
    BY <1>2, <2>2 DEF RaiseRest, TypeOK
  <2> QED
    BY <1>2, <2>1, <2>2 DEF RaiseRest
<1>3. CASE PostHold
  <2>1. Final(signo) \in Sigs
    BY DEF Final, TypeOK
  <2> QED
    BY <1>3, <2>1 DEF PostHold, Cleared, StoppedAfter, TypeOK
<1>4. CASE PostStop
  BY <1>4 DEF PostStop, Cleared, TypeOK
<1>5. CASE PostIgnore
  BY <1>5 DEF PostIgnore, Cleared, StoppedAfter, TypeOK
<1>6. CASE PostDie
  BY <1>6 DEF PostDie, TypeOK
<1>7. CASE PostHandle
  <2>1. act' \in [Sigs -> Actions]
    BY <1>7 DEF PostHandle, Actions, Default, TypeOK
  <2>2. act[signo].mask \subseteq Sigs
    <3>1. act[signo] \in Actions
      BY DEF TypeOK
    <3>2. act[signo].mask \in prog.masks \cup {{}}
      BY <3>1 DEF Actions
    <3> QED
      BY <3>2 DEF TypeOK
  <2>3. handled' \in [Sigs -> Nat]
    BY <1>7 DEF PostHandle, TypeOK
  <2>4. blocked' \subseteq Sigs /\ pending' \subseteq Sigs /\ awaited' \subseteq Sigs
    BY <1>7, <2>2 DEF PostHandle, Cleared, Bit, TypeOK
  <2>5. stopped' \in BOOLEAN
    BY <1>7 DEF PostHandle, StoppedAfter, TypeOK
  <2> QED
    BY <1>7, <2>1, <2>3, <2>4, <2>5 DEF PostHandle, TypeOK
<1>8. CASE NextPending
  BY <1>8 DEF NextPending, TypeOK
<1>9. CASE NonePending
  BY <1>9 DEF NonePending, TypeOK
<1>10. CASE PostReturns
  BY <1>10 DEF PostReturns, TypeOK
<1>11. ASSUME NEW s \in prog.raised, Raise(s) PROVE TypeOK'
  <2>1. s \in Sigs /\ Note(s)
    BY <1>11 DEF Raise, TypeOK
  <2>2. /\ raised' \in [Sigs -> 0 .. prog.raises]
        /\ awaited' \subseteq Sigs
    BY <2>1, TypeOfNote
  <2>3. /\ pending' = pending \cup Bit(s)
        /\ raising' = s
        /\ pc' = "raise"
        /\ handling' = handling
    BY <1>11 DEF Raise
  <2>4. pending' \subseteq Sigs
    BY <2>1, <2>3 DEF Bit, TypeOK
  <2>5. UNCHANGED <<blocked, act, sleeping, stopped, signo, saved, ret, oset, jmp, progmask,
                    handled>>
    BY <1>11 DEF Raise
  <2> QED
    BY <2>1, <2>2, <2>3, <2>4, <2>5 DEF TypeOK
<1>12. ASSUME NEW how \in {"block", "unblock", "set"}, NEW set \in prog.masks, Sigprocmask(how, set) PROVE TypeOK'
  BY <1>12 DEF Sigprocmask, Mask, Blockable, PostPending, TypeOK
<1>13. ASSUME NEW s \in prog.caught, NEW a \in Actions, Sigaction(s, a) PROVE TypeOK'
  BY <1>13 DEF Sigaction, TypeOK
<1>14. ASSUME NEW set \in prog.masks, Sigsuspend(set) PROVE TypeOK'
  BY <1>14 DEF Sigsuspend, PostPending, Blockable, TypeOK
<1>15. CASE SuspendSleeps
  BY <1>15 DEF SuspendSleeps, TypeOK
<1>16. CASE SuspendReturns
  BY <1>16 DEF SuspendReturns, PostPending, Blockable, TypeOK
<1>17. CASE Sigsetjmp
  BY <1>17 DEF Sigsetjmp, TypeOK
<1>18. ASSUME NEW s \in prog.raised, HandlerRaises(s) PROVE TypeOK'
  <2>1. s \in Sigs /\ Note(s)
    BY <1>18 DEF HandlerRaises, TypeOK
  <2>2. /\ raised' \in [Sigs -> 0 .. prog.raises]
        /\ awaited' \subseteq Sigs
    BY <2>1, TypeOfNote
  <2>3. /\ pending' = pending \cup Bit(s)
        /\ raising' = raising
        /\ pc' = IF s \in Faults THEN "dead" ELSE pc
        /\ handling' = handling
    BY <1>18 DEF HandlerRaises
  <2>4. pending' \subseteq Sigs
    BY <2>1, <2>3 DEF Bit, TypeOK
  <2>5. UNCHANGED <<blocked, act, sleeping, stopped, signo, saved, ret, oset, jmp, progmask,
                    handled>>
    BY <1>18 DEF HandlerRaises
  <2> QED
    BY <2>1, <2>2, <2>3, <2>4, <2>5 DEF TypeOK
<1>19. ASSUME NEW how \in {"block", "unblock", "set"}, NEW set \in prog.masks, HandlerMasks(how, set) PROVE TypeOK'
  BY <1>19 DEF HandlerMasks, Mask, Blockable, TypeOK
<1>20. CASE HandlerReturns
  BY <1>20 DEF HandlerReturns, TypeOK
<1>21. CASE Siglongjmp
  BY <1>21 DEF Siglongjmp, TypeOK
<1>22. CASE HandlerRestarts
  BY <1>22 DEF HandlerRestarts, TypeOK
<1>23. CASE SiglongjmpPlain
  BY <1>23 DEF SiglongjmpPlain, TypeOK
<1>24. ASSUME NEW s \in prog.async, Timer(s) PROVE TypeOK'
  <2>1. s \in Sigs /\ Note(s)
    BY <1>24 DEF Timer, TypeOK
  <2>2. /\ raised' \in [Sigs -> 0 .. prog.raises]
        /\ awaited' \subseteq Sigs
    BY <2>1, TypeOfNote
  <2>3. /\ pc # "dead"
        /\ pending' = pending \cup Bit(s)
        /\ IF handling THEN UNCHANGED <<handling, signo, ret, pc>> ELSE Post(s, pc)
    BY <1>24 DEF Timer
  <2>4. pending' \subseteq Sigs
    BY <2>1, <2>3 DEF Bit, TypeOK
  <2>5. UNCHANGED <<blocked, act, sleeping, stopped, saved, raising, oset, jmp, progmask, handled>>
    BY <1>24 DEF Timer
  <2>6. CASE handling
    BY <2>1, <2>2, <2>3, <2>4, <2>5, <2>6 DEF TypeOK
  <2>7. CASE ~handling
    <3>1. pc \in InProgram
      BY <2>3, <2>7 DEF TypeOK
    <3> QED
      BY <2>1, <2>2, <2>3, <2>4, <2>5, <2>7, <3>1 DEF TypeOK, Post
  <2> QED
    BY <2>6, <2>7
<1>25. ASSUME NEW s \in prog.async, TimerTorn(s) PROVE TypeOK'
  <2>1. s \in Sigs /\ Note(s)
    BY <1>25 DEF TimerTorn, TypeOK
  <2>2. /\ raised' \in [Sigs -> 0 .. prog.raises]
        /\ awaited' \subseteq Sigs
    BY <2>1, TypeOfNote
  <2>3. UNCHANGED <<pending, blocked, act, handling, sleeping, stopped, pc, signo, saved, ret,
                    raising, oset, jmp, progmask, handled>>
    BY <1>25 DEF TimerTorn
  <2> QED
    BY <2>2, <2>3 DEF TypeOK
<1> QED
  BY <1>1, <1>2, <1>3, <1>4, <1>5, <1>6, <1>7, <1>8, <1>9, <1>10, <1>11, <1>12, <1>13, <1>14, <1>15, <1>16, <1>17, <1>18, <1>19, <1>20, <1>21, <1>22, <1>23, <1>24, <1>25 DEF Next, Deliver, Program, Handler, Timers

LEMMA ControlOfStep ==
  ASSUME Returning, TypeOK, ControlInv, [Next]_vars
  PROVE  ControlInv'
<1>0. prog' = prog /\ Actions' = Actions
  BY ProgramStays
<1> USE SigsAssumption, ProgramTypes, <1>0 DEF Returning, InProgram, ghosts
<1>1. CASE UNCHANGED vars
  BY <1>1 DEF vars, TypeOK, ControlInv
<1>2. CASE RaiseRest
  BY <1>2 DEF RaiseRest, Post, TypeOK, ControlInv
<1>3. CASE PostHold
  BY <1>3 DEF PostHold, Held, Cleared, StoppedAfter, TypeOK, ControlInv
<1>4. CASE PostStop
  BY <1>4 DEF PostStop, Cleared, TypeOK, ControlInv
<1>5. CASE PostIgnore
  BY <1>5 DEF PostIgnore, Cleared, StoppedAfter, TypeOK, ControlInv
<1>6. CASE PostDie
  BY <1>6 DEF PostDie, TypeOK, ControlInv
<1>7. CASE PostHandle
  BY <1>7 DEF PostHandle, Cleared, StoppedAfter, Bit, Actions, Default, TypeOK, ControlInv
<1>8. CASE NextPending
  BY <1>8 DEF NextPending, TypeOK, ControlInv
<1>9. CASE NonePending
  BY <1>9 DEF NonePending, TypeOK, ControlInv
<1>10. CASE PostReturns
  BY <1>10 DEF PostReturns, TypeOK, ControlInv
<1>11. ASSUME NEW s \in prog.raised, Raise(s) PROVE ControlInv'
  BY <1>11 DEF Raise, Note, Bit, TypeOK, ControlInv
<1>12. ASSUME NEW how \in {"block", "unblock", "set"}, NEW set \in prog.masks, Sigprocmask(how, set) PROVE ControlInv'
  BY <1>12 DEF Sigprocmask, Mask, Blockable, PostPending, TypeOK, ControlInv
<1>13. ASSUME NEW s \in prog.caught, NEW a \in Actions, Sigaction(s, a) PROVE ControlInv'
  BY <1>13 DEF Sigaction, TypeOK, ControlInv
<1>14. ASSUME NEW set \in prog.masks, Sigsuspend(set) PROVE ControlInv'
  BY <1>14 DEF Sigsuspend, PostPending, Blockable, TypeOK, ControlInv
<1>15. CASE SuspendSleeps
  BY <1>15 DEF SuspendSleeps, TypeOK, ControlInv
<1>16. CASE SuspendReturns
  BY <1>16 DEF SuspendReturns, PostPending, Blockable, TypeOK, ControlInv
<1>17. CASE Sigsetjmp
  BY <1>17 DEF Sigsetjmp, TypeOK, ControlInv
<1>18. ASSUME NEW s \in prog.raised, HandlerRaises(s) PROVE ControlInv'
  BY <1>18 DEF HandlerRaises, Note, Bit, TypeOK, ControlInv
<1>19. ASSUME NEW how \in {"block", "unblock", "set"}, NEW set \in prog.masks, HandlerMasks(how, set) PROVE ControlInv'
  BY <1>19 DEF HandlerMasks, Mask, Blockable, TypeOK, ControlInv
<1>20. CASE HandlerReturns
  BY <1>20 DEF HandlerReturns, TypeOK, ControlInv
<1>21. CASE Siglongjmp
  BY <1>21 DEF Siglongjmp, TypeOK, ControlInv
<1>22. ASSUME NEW s \in prog.async, Timer(s) PROVE ControlInv'
  BY <1>22 DEF Timer, Post, TypeOK, ControlInv
<1>23. ASSUME NEW s \in prog.async, TimerTorn(s) PROVE ControlInv'
  BY <1>23 DEF TimerTorn, TypeOK, ControlInv
<1> QED
  BY <1>1, <1>2, <1>3, <1>4, <1>5, <1>6, <1>7, <1>8, <1>9, <1>10, <1>11, <1>12, <1>13, <1>14, <1>15, <1>16, <1>17, <1>18, <1>19, <1>20, <1>21,
     <1>22, <1>23 DEF Next, Deliver, Program, Handler, Timers, HandlerRestarts, SiglongjmpPlain

LEMMA MaskOfStep ==
  ASSUME Returning, TypeOK, ControlInv, MaskInv, [Next]_vars
  PROVE  MaskInv'
<1>0. prog' = prog /\ Actions' = Actions
  BY ProgramStays
<1> USE SigsAssumption, ProgramTypes, <1>0 DEF Returning, InProgram, ghosts
<1>1. CASE UNCHANGED vars
  BY <1>1 DEF vars, TypeOK, ControlInv, MaskInv, Clean
<1>2. CASE RaiseRest
  BY <1>2 DEF RaiseRest, Post, TypeOK, ControlInv, MaskInv, Clean
<1>3. CASE PostHold
  BY <1>3 DEF PostHold, Held, Cleared, StoppedAfter, TypeOK, ControlInv, MaskInv, Clean
<1>4. CASE PostStop
  BY <1>4 DEF PostStop, Cleared, TypeOK, ControlInv, MaskInv, Clean
<1>5. CASE PostIgnore
  BY <1>5 DEF PostIgnore, Cleared, StoppedAfter, TypeOK, ControlInv, MaskInv, Clean
<1>6. CASE PostDie
  BY <1>6 DEF PostDie, TypeOK, ControlInv, MaskInv, Clean
<1>7. CASE PostHandle
  BY <1>7 DEF PostHandle, Cleared, StoppedAfter, Bit, Actions, Default, TypeOK, ControlInv, MaskInv, Clean
<1>8. CASE NextPending
  BY <1>8 DEF NextPending, TypeOK, ControlInv, MaskInv, Clean
<1>9. CASE NonePending
  BY <1>9 DEF NonePending, TypeOK, ControlInv, MaskInv, Clean
<1>10. CASE PostReturns
  BY <1>10 DEF PostReturns, TypeOK, ControlInv, MaskInv, Clean
<1>11. ASSUME NEW s \in prog.raised, Raise(s) PROVE MaskInv'
  BY <1>11 DEF Raise, Note, Bit, TypeOK, ControlInv, MaskInv, Clean
<1>12. ASSUME NEW how \in {"block", "unblock", "set"}, NEW set \in prog.masks, Sigprocmask(how, set) PROVE MaskInv'
  BY <1>12 DEF Sigprocmask, Mask, Blockable, PostPending, TypeOK, ControlInv, MaskInv, Clean
<1>13. ASSUME NEW s \in prog.caught, NEW a \in Actions, Sigaction(s, a) PROVE MaskInv'
  BY <1>13 DEF Sigaction, TypeOK, ControlInv, MaskInv, Clean
<1>14. ASSUME NEW set \in prog.masks, Sigsuspend(set) PROVE MaskInv'
  BY <1>14 DEF Sigsuspend, PostPending, Blockable, TypeOK, ControlInv, MaskInv, Clean
<1>15. CASE SuspendSleeps
  BY <1>15 DEF SuspendSleeps, TypeOK, ControlInv, MaskInv, Clean
<1>16. CASE SuspendReturns
  BY <1>16 DEF SuspendReturns, PostPending, Blockable, TypeOK, ControlInv, MaskInv, Clean
<1>17. CASE Sigsetjmp
  BY <1>17 DEF Sigsetjmp, TypeOK, ControlInv, MaskInv, Clean
<1>18. ASSUME NEW s \in prog.raised, HandlerRaises(s) PROVE MaskInv'
  BY <1>18 DEF HandlerRaises, Note, Bit, TypeOK, ControlInv, MaskInv, Clean
<1>19. ASSUME NEW how \in {"block", "unblock", "set"}, NEW set \in prog.masks, HandlerMasks(how, set) PROVE MaskInv'
  BY <1>19 DEF HandlerMasks, Mask, Blockable, TypeOK, ControlInv, MaskInv, Clean
<1>20. CASE HandlerReturns
  BY <1>20 DEF HandlerReturns, TypeOK, ControlInv, MaskInv, Clean
<1>21. CASE Siglongjmp
  BY <1>21 DEF Siglongjmp, TypeOK, ControlInv, MaskInv, Clean
<1>22. ASSUME NEW s \in prog.async, Timer(s) PROVE MaskInv'
  BY <1>22 DEF Timer, Post, TypeOK, ControlInv, MaskInv, Clean
<1>23. ASSUME NEW s \in prog.async, TimerTorn(s) PROVE MaskInv'
  BY <1>23 DEF TimerTorn, TypeOK, ControlInv, MaskInv, Clean
<1> QED
  BY <1>1, <1>2, <1>3, <1>4, <1>5, <1>6, <1>7, <1>8, <1>9, <1>10, <1>11, <1>12, <1>13, <1>14, <1>15, <1>16, <1>17, <1>18, <1>19, <1>20, <1>21,
     <1>22, <1>23 DEF Next, Deliver, Program, Handler, Timers, HandlerRestarts, SiglongjmpPlain

LEMMA PendingOfStep ==
  ASSUME Tame, TypeOK, ControlInv, MaskInv, PendingInv, [Next]_vars
  PROVE  PendingInv'
<1>0. prog' = prog /\ Actions' = Actions
  BY ProgramStays
<1> USE SigsAssumption, ProgramTypes, <1>0 DEF Tame, InProgram, ghosts
<1>1. CASE UNCHANGED vars
  BY <1>1 DEF vars, TypeOK, ControlInv, MaskInv, PendingInv, Clean
<1>2. CASE RaiseRest
  BY <1>2 DEF RaiseRest, Post, TypeOK, ControlInv, MaskInv, PendingInv, Clean
<1>3. CASE PostHold
  BY <1>3 DEF PostHold, Held, Cleared, StoppedAfter, TypeOK, ControlInv, MaskInv, PendingInv, Clean
<1>4. CASE PostStop
  BY <1>4 DEF PostStop, Cleared, TypeOK, ControlInv, MaskInv, PendingInv, Clean
<1>5. CASE PostIgnore
  BY <1>5 DEF PostIgnore, Cleared, StoppedAfter, TypeOK, ControlInv, MaskInv, PendingInv, Clean
<1>6. CASE PostDie
  BY <1>6 DEF PostDie, TypeOK, ControlInv, MaskInv, PendingInv, Clean
<1>7. CASE PostHandle
  BY <1>7 DEF PostHandle, Cleared, StoppedAfter, Bit, Actions, Default, TypeOK, ControlInv, MaskInv, PendingInv, Clean
<1>8. CASE NextPending
  BY <1>8 DEF NextPending, TypeOK, ControlInv, MaskInv, PendingInv, Clean
<1>9. CASE NonePending
  BY <1>9 DEF NonePending, TypeOK, ControlInv, MaskInv, PendingInv, Clean
<1>10. CASE PostReturns
  BY <1>10 DEF PostReturns, TypeOK, ControlInv, MaskInv, PendingInv, Clean
<1>11. ASSUME NEW s \in prog.raised, Raise(s) PROVE PendingInv'
  BY <1>11 DEF Raise, Note, Bit, TypeOK, ControlInv, MaskInv, PendingInv, Clean
<1>12. ASSUME NEW how \in {"block", "unblock", "set"}, NEW set \in prog.masks, Sigprocmask(how, set) PROVE PendingInv'
  BY <1>12 DEF Sigprocmask, Mask, Blockable, PostPending, TypeOK, ControlInv, MaskInv, PendingInv, Clean
<1>13. ASSUME NEW s \in prog.caught, NEW a \in Actions, Sigaction(s, a) PROVE PendingInv'
  BY <1>13 DEF Sigaction, TypeOK, ControlInv, MaskInv, PendingInv, Clean
<1>14. ASSUME NEW set \in prog.masks, Sigsuspend(set) PROVE PendingInv'
  BY <1>14 DEF Sigsuspend, PostPending, Blockable, TypeOK, ControlInv, MaskInv, PendingInv, Clean
<1>15. CASE SuspendSleeps
  BY <1>15 DEF SuspendSleeps, TypeOK, ControlInv, MaskInv, PendingInv, Clean
<1>16. CASE SuspendReturns
  BY <1>16 DEF SuspendReturns, PostPending, Blockable, TypeOK, ControlInv, MaskInv, PendingInv, Clean
<1>17. CASE Sigsetjmp
  BY <1>17 DEF Sigsetjmp, TypeOK, ControlInv, MaskInv, PendingInv, Clean
<1>18. ASSUME NEW s \in prog.raised, HandlerRaises(s) PROVE PendingInv'
  BY <1>18 DEF HandlerRaises, Note, Bit, TypeOK, ControlInv, MaskInv, PendingInv, Clean
<1>19. ASSUME NEW how \in {"block", "unblock", "set"}, NEW set \in prog.masks, HandlerMasks(how, set) PROVE PendingInv'
  BY <1>19 DEF HandlerMasks, Mask, Blockable, TypeOK, ControlInv, MaskInv, PendingInv, Clean
<1>20. CASE HandlerReturns
  BY <1>20 DEF HandlerReturns, TypeOK, ControlInv, MaskInv, PendingInv, Clean
<1>21. CASE Siglongjmp
  BY <1>21 DEF Siglongjmp, TypeOK, ControlInv, MaskInv, PendingInv, Clean
<1> QED
  BY <1>1, <1>2, <1>3, <1>4, <1>5, <1>6, <1>7, <1>8, <1>9, <1>10, <1>11, <1>12, <1>13, <1>14, <1>15, <1>16, <1>17, <1>18, <1>19, <1>20, <1>21 DEF Next, Deliver, Program, Handler, Timers, HandlerRestarts, SiglongjmpPlain

LEMMA CountOfStep ==
  ASSUME Tame, TypeOK, ControlInv, MaskInv, CountInv, [Next]_vars
  PROVE  CountInv'
<1>0. prog' = prog /\ Actions' = Actions
  BY ProgramStays
<1> USE SigsAssumption, ProgramTypes, <1>0 DEF Tame, InProgram, ghosts
<1>1. CASE UNCHANGED vars
  BY <1>1 DEF vars, TypeOK, ControlInv, MaskInv, CountInv, Due, Clean
<1>2. CASE RaiseRest
  BY <1>2 DEF RaiseRest, Post, TypeOK, ControlInv, MaskInv, CountInv, Due, Clean
<1>3. CASE PostHold
  <2>1. Final(signo) \in {signo, KILL} /\ Final(signo) # KILL
    BY <1>3 DEF PostHold, Held, Final, TypeOK, MaskInv, Clean
  <2> QED
    BY <1>3, <2>1 DEF PostHold, Cleared, StoppedAfter, TypeOK, CountInv, Due
<1>4. CASE PostStop
  BY <1>4 DEF PostStop, Cleared, TypeOK, ControlInv, MaskInv, CountInv, Due, Clean
<1>5. CASE PostIgnore
  BY <1>5 DEF PostIgnore, Cleared, StoppedAfter, TypeOK, ControlInv, MaskInv, CountInv, Due, Clean
<1>6. CASE PostDie
  BY <1>6 DEF PostDie, TypeOK, ControlInv, MaskInv, CountInv, Due, Clean
<1>7. CASE PostHandle
  BY <1>7 DEF PostHandle, Cleared, StoppedAfter, Bit, Actions, Default, TypeOK, ControlInv, MaskInv, CountInv, Due, Clean
<1>8. CASE NextPending
  BY <1>8 DEF NextPending, TypeOK, ControlInv, MaskInv, CountInv, Due, Clean
<1>9. CASE NonePending
  BY <1>9 DEF NonePending, TypeOK, ControlInv, MaskInv, CountInv, Due, Clean
<1>10. CASE PostReturns
  BY <1>10 DEF PostReturns, TypeOK, ControlInv, MaskInv, CountInv, Due, Clean
<1>11. ASSUME NEW s \in prog.raised, Raise(s) PROVE CountInv'
  BY <1>11 DEF Raise, Note, Bit, TypeOK, ControlInv, MaskInv, CountInv, Due, Clean
<1>12. ASSUME NEW how \in {"block", "unblock", "set"}, NEW set \in prog.masks, Sigprocmask(how, set) PROVE CountInv'
  BY <1>12 DEF Sigprocmask, Mask, Blockable, PostPending, TypeOK, ControlInv, MaskInv, CountInv, Due, Clean
<1>13. ASSUME NEW s \in prog.caught, NEW a \in Actions, Sigaction(s, a) PROVE CountInv'
  BY <1>13 DEF Sigaction, TypeOK, ControlInv, MaskInv, CountInv, Due, Clean
<1>14. ASSUME NEW set \in prog.masks, Sigsuspend(set) PROVE CountInv'
  BY <1>14 DEF Sigsuspend, PostPending, Blockable, TypeOK, ControlInv, MaskInv, CountInv, Due, Clean
<1>15. CASE SuspendSleeps
  BY <1>15 DEF SuspendSleeps, TypeOK, ControlInv, MaskInv, CountInv, Due, Clean
<1>16. CASE SuspendReturns
  BY <1>16 DEF SuspendReturns, PostPending, Blockable, TypeOK, ControlInv, MaskInv, CountInv, Due, Clean
<1>17. CASE Sigsetjmp
  BY <1>17 DEF Sigsetjmp, TypeOK, ControlInv, MaskInv, CountInv, Due, Clean
<1>18. ASSUME NEW s \in prog.raised, HandlerRaises(s) PROVE CountInv'
  BY <1>18 DEF HandlerRaises, Note, Bit, TypeOK, ControlInv, MaskInv, CountInv, Due, Clean
<1>19. ASSUME NEW how \in {"block", "unblock", "set"}, NEW set \in prog.masks, HandlerMasks(how, set) PROVE CountInv'
  BY <1>19 DEF HandlerMasks, Mask, Blockable, TypeOK, ControlInv, MaskInv, CountInv, Due, Clean
<1>20. CASE HandlerReturns
  BY <1>20 DEF HandlerReturns, TypeOK, ControlInv, MaskInv, CountInv, Due, Clean
<1>21. CASE Siglongjmp
  BY <1>21 DEF Siglongjmp, TypeOK, ControlInv, MaskInv, CountInv, Due, Clean
<1> QED
  BY <1>1, <1>2, <1>3, <1>4, <1>5, <1>6, <1>7, <1>8, <1>9, <1>10, <1>11, <1>12, <1>13, <1>14, <1>15, <1>16, <1>17, <1>18, <1>19, <1>20, <1>21 DEF Next, Deliver, Program, Handler, Timers, HandlerRestarts, SiglongjmpPlain

\* No step drops a signal that was raised and has not been delivered.
LEMMA LossOfStep ==
  ASSUME TypeOK, MaskInv, NoneLost, [Next]_vars
  PROVE  NoneLost'
<1>0. prog' = prog /\ Actions' = Actions
  BY ProgramStays
<1> USE SigsAssumption, ProgramTypes, <1>0 DEF InProgram, ghosts
<1>1. CASE UNCHANGED vars
  BY <1>1 DEF vars, TypeOK, NoneLost
<1>2. CASE RaiseRest
  BY <1>2 DEF RaiseRest, Post, TypeOK, NoneLost
<1>3. CASE PostHold
  <2>1. Final(signo) \in {signo, KILL} /\ Final(signo) # KILL
    BY <1>3 DEF PostHold, Held, Final, TypeOK, MaskInv, Clean
  <2> QED
    BY <1>3, <2>1 DEF PostHold, Cleared, StoppedAfter, TypeOK, NoneLost
<1>4. CASE PostStop
  BY <1>4 DEF PostStop, Cleared, TypeOK, NoneLost
<1>5. CASE PostIgnore
  BY <1>5 DEF PostIgnore, Cleared, StoppedAfter, TypeOK, NoneLost
<1>6. CASE PostDie
  BY <1>6 DEF PostDie, TypeOK, NoneLost
<1>7. CASE PostHandle
  BY <1>7 DEF PostHandle, Cleared, StoppedAfter, Bit, Actions, Default, TypeOK, NoneLost
<1>8. CASE NextPending
  BY <1>8 DEF NextPending, TypeOK, NoneLost
<1>9. CASE NonePending
  BY <1>9 DEF NonePending, TypeOK, NoneLost
<1>10. CASE PostReturns
  BY <1>10 DEF PostReturns, TypeOK, NoneLost
<1>11. ASSUME NEW s \in prog.raised, Raise(s) PROVE NoneLost'
  BY <1>11 DEF Raise, Note, Bit, TypeOK, NoneLost
<1>12. ASSUME NEW how \in {"block", "unblock", "set"}, NEW set \in prog.masks, Sigprocmask(how, set) PROVE NoneLost'
  BY <1>12 DEF Sigprocmask, Mask, Blockable, PostPending, TypeOK, NoneLost
<1>13. ASSUME NEW s \in prog.caught, NEW a \in Actions, Sigaction(s, a) PROVE NoneLost'
  BY <1>13 DEF Sigaction, TypeOK, NoneLost
<1>14. ASSUME NEW set \in prog.masks, Sigsuspend(set) PROVE NoneLost'
  BY <1>14 DEF Sigsuspend, PostPending, Blockable, TypeOK, NoneLost
<1>15. CASE SuspendSleeps
  BY <1>15 DEF SuspendSleeps, TypeOK, NoneLost
<1>16. CASE SuspendReturns
  BY <1>16 DEF SuspendReturns, PostPending, Blockable, TypeOK, NoneLost
<1>17. CASE Sigsetjmp
  BY <1>17 DEF Sigsetjmp, TypeOK, NoneLost
<1>18. ASSUME NEW s \in prog.raised, HandlerRaises(s) PROVE NoneLost'
  BY <1>18 DEF HandlerRaises, Note, Bit, TypeOK, NoneLost
<1>19. ASSUME NEW how \in {"block", "unblock", "set"}, NEW set \in prog.masks, HandlerMasks(how, set) PROVE NoneLost'
  BY <1>19 DEF HandlerMasks, Mask, Blockable, TypeOK, NoneLost
<1>20. CASE HandlerReturns
  BY <1>20 DEF HandlerReturns, TypeOK, NoneLost
<1>21. CASE Siglongjmp
  BY <1>21 DEF Siglongjmp, TypeOK, NoneLost
<1>22. CASE HandlerRestarts \/ SiglongjmpPlain
  BY <1>22 DEF HandlerRestarts, SiglongjmpPlain, NoneLost
<1>23. CASE prog.async # {}
  BY <1>23 DEF NoneLost
<1> QED
  BY <1>1, <1>2, <1>3, <1>4, <1>5, <1>6, <1>7, <1>8, <1>9, <1>10, <1>11, <1>12, <1>13, <1>14, <1>15, <1>16, <1>17, <1>18, <1>19, <1>20, <1>21,
     <1>22, <1>23 DEF Next, Deliver, Program, Handler, Timers

LEMMA Invariance == Spec => []IInv
<1>1. Init => IInv
  <2> SUFFICES ASSUME Init PROVE IInv
    OBVIOUS
  <2> USE SigsAssumption, ProgramTypes DEF Init
  <2>1. act \in [Sigs -> Actions]
    BY DEF Actions, Default
  <2>2. jmp \in [mask : SUBSET Sigs, handling : BOOLEAN] /\ jmp.mask = {} /\ jmp.handling = FALSE
    OBVIOUS
  <2>3. raised \in [Sigs -> 0 .. prog.raises] /\ handled \in [Sigs -> Nat]
    OBVIOUS
  <2>4. TypeOK
    BY <2>1, <2>2, <2>3 DEF TypeOK, InProgram
  <2>5. ControlInv /\ MaskInv /\ PendingInv
    BY <2>2 DEF ControlInv, MaskInv, PendingInv, Clean
  <2>6. CountInv /\ NoneLost
    BY DEF CountInv, Due, NoneLost
  <2> QED
    BY <2>4, <2>5, <2>6 DEF IInv
<1>2. IInv /\ [Next]_vars => IInv'
  <2> SUFFICES ASSUME IInv, [Next]_vars PROVE IInv'
    OBVIOUS
  <2>1. TypeOK /\ TypeOK'
    BY TypeOfStep DEF IInv
  <2>2. (Tame' => Tame) /\ (Returning' => Returning)
    BY ProgramStays DEF Tame, Returning
  <2>3. ASSUME Returning PROVE ControlInv' /\ MaskInv' /\ NoneLost'
    BY <2>1, <2>3, ControlOfStep, MaskOfStep, LossOfStep DEF IInv
  <2>4. ASSUME Tame PROVE PendingInv' /\ CountInv'
    <3>1. Returning
      BY <2>4 DEF Tame, Returning
    <3> QED
      BY <2>1, <2>4, <3>1, PendingOfStep, CountOfStep DEF IInv
  <2> QED
    BY <2>1, <2>2, <2>3, <2>4 DEF IInv
<1> QED
  BY <1>1, <1>2, PTL DEF Spec

\* The signal state of a process keeps its type.
THEOREM TypeCorrect == Spec => []TypeOK
<1>1. IInv => TypeOK
  BY DEF IInv
<1> QED
  BY <1>1, Invariance, PTL

\* Handlers, sigsuspend and siglongjmp give the program's mask back, whenever
\* timers raise signals.
THEOREM MaskIsKept == Spec => [](Returning => MaskKept)
<1>1. IInv => (Returning => MaskKept)
  BY DEF IInv, MaskInv, MaskKept
<1> QED
  BY <1>1, Invariance, PTL

\* SIGKILL and SIGSTOP are not blocked outside handlers.
THEOREM KillIsNotBlocked == Spec => [](Returning => KillNotBlocked)
<1>1. IInv => (Returning => KillNotBlocked)
  BY DEF IInv, MaskInv, Clean, KillNotBlocked, InProgram
<1> QED
  BY <1>1, Invariance, PTL

\* post_signal leaves nothing that it could deliver.
THEOREM NothingIsLeftBehind == Spec => []NothingLeftBehind
<1>1. IInv => NothingLeftBehind
  BY DEF IInv, PendingInv, NothingLeftBehind
<1> QED
  BY <1>1, Invariance, PTL

\* A signal is handled no more often than it is raised.
THEOREM HandledOnce == Spec => [](Returning => TakenOnce)
<1>1. IInv => (Returning => TakenOnce)
  BY DEF IInv, CountInv, TakenOnce, Returning, Tame
<1> QED
  BY <1>1, Invariance, PTL

\* Masks come back, nothing deliverable is left behind and nothing is handled
\* twice, in a program whose handlers return or restore the mask.
THEOREM SignalsCorrect == Spec => [](Returning => SignalsInv)
  BY TypeCorrect, MaskIsKept, KillIsNotBlocked, NothingIsLeftBehind, HandledOnce, PTL DEF SignalsInv

\* A signal that was raised stays pending until it is delivered, in a program
\* whose handlers return or restore the mask.
THEOREM NoSignalIsLost == Spec => [](Returning => NoneLost)
<1>1. IInv => (Returning => NoneLost)
  BY DEF IInv
<1> QED
  BY <1>1, Invariance, PTL
=============================================================================
