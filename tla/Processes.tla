----------------------------- MODULE Processes -----------------------------
(***************************************************************************)
(* UnixLib processes and the file descriptors they share.  RISC OS runs    *)
(* one process of a program at a time: a child runs in place of the parent *)
(* that forked it, until it ends.  Process structures live in the          *)
(* SharedUnixLibrary module (SUL); each holds a table of descriptors that  *)
(* refer to reference-counted device handles.                              *)
(*                                                                         *)
(* A process is "live" or a "zombie"; a structure that has been given back *)
(* to SUL is "free".  A live process runs a UnixLib program, is about to   *)
(* enter one ("starting", after exec), or has become a program that is not *)
(* linked with UnixLib ("foreign").  Calls that fail without a trace       *)
(* (EBADF, EMFILE, ENOMEM of open, a device that refuses to open) are      *)
(* steps that change nothing and are left out.                             *)
(***************************************************************************)
EXTENDS Integers, Sequences, FiniteSets, SequencesExt, FiniteSetsExt

CONSTANTS Procs,      \* process structures SUL can hand out
          Handles,    \* device handles SUL can hand out
          Ttys,       \* tty structures SUL can hand out
          Images,     \* loaded programs: memory, dynamic area, SOM client
          MaxFd,      \* sulproc->maxfd, at least 3
          Programs    \* the programs to choose from (ProgramType)
CONSTANT NULL

(* A program: how many processes it may have, what it opens, whether it    *)
(* duplicates descriptors, whether stdin and stdout came from RISC OS and  *)
(* not the tty, which fork calls it makes and what it execs, whether an    *)
(* exec'd program forks in turn, whether it makes a dynamic area, sets     *)
(* close-on-exec flags, has other threads, the allocations of sul_fork     *)
(* that may fail, the pid arguments of its wait4 calls other than a        *)
(* child's, and how its processes end.                                     *)
ProgramType ==
  [procs : 1 .. Cardinality(Procs), kinds : SUBSET {"file", "pipe", "tty"},
   dups : BOOLEAN, redirected : BOOLEAN, forks : SUBSET {"fork", "vfork"},
   execs : SUBSET {"unixlib", "foreign"}, nested : BOOLEAN,
   areas : SUBSET BOOLEAN, flags : BOOLEAN, threaded : BOOLEAN,
   faults : SUBSET {"struct", "environ", "table", "slot"},
   waits : SUBSET {"any", "mypgrp", "stranger"},
   ends : SUBSET {"exit", "signal", "core"}]

ASSUME ProcessesAssumption ==
  /\ MaxFd \in Nat /\ MaxFd >= 3
  /\ Programs \subseteq ProgramType
ASSUME FiniteAssumption == IsFiniteSet(Procs) /\ IsFiniteSet(Handles)
ASSUME NullAssumption ==
  /\ NULL \notin Procs \cup Handles \cup Ttys \cup Images
  /\ NULL \notin [ret : Procs, end : {"none", "exit", "signal", "core"}]
ASSUME DevicesAssumption == Ttys \cap {"free", "file", "pipe"} = {}

VARIABLES prog,     \* the program at hand; it never changes
          cur,      \* __ul_global.sulproc of the running image; NULL: all over
          proc,     \* the process structures
          dev,      \* what a device handle is open on; "free": not allocated
          refs,     \* devicehandle->refcount
          ttys,     \* allocated tty structures
          ttyref,   \* tty->refcount
          clients,  \* images registered with the Shared Object Manager
          dref,     \* __dynamic_area_refcount of an image
          areas,    \* images whose dynamic area exists
          dup,      \* a dup2 between its close and its F_DUPFD
          told      \* what the last wait4 returned

vars == <<prog, cur, proc, dev, refs, ttys, ttyref, clients, dref, areas, dup, told>>

devs == <<dev, refs, ttys, ttyref>>
imgs == <<clients, dref, areas>>

Fds == 0 .. MaxFd - 1

(* A descriptor: its handle, whether it is the writing end (fflag) and     *)
(* whether F_SETFD marked it close-on-exec (O_EXECCL, also in fflag).      *)
Shut == [h |-> NULL, w |-> FALSE, x |-> FALSE]
Desc(h, w) == [h |-> h, w |-> w, x |-> FALSE]
NoTable == [f \in Fds |-> Shut]

(* A process structure as swi_initialise makes it: ppid 1 is NULL here.    *)
FreshProc ==
  [st |-> "live", ppid |-> NULL, kids |-> <<>>, fds |-> NoTable, tty |-> NULL,
   run |-> "starting", image |-> NULL, forked |-> FALSE, execed |-> FALSE,
   shares |-> FALSE, end |-> "none"]
NoProc == [FreshProc EXCEPT !.st = "free"]

-----------------------------------------------------------------------------
(* Descriptors and handles *)

me == proc[cur]

(* No fork has failed halfway (ForkFails): what a program does that runs   *)
(* on with freed structures is not followed.                               *)
Intact ==
  /\ cur # NULL => me.st # "free"
  /\ \A p \in Procs : \A c \in Range(proc[p].kids) : proc[c].st # "free"

Running == cur # NULL /\ Intact /\ me.run = "unixlib" /\ told = NULL
Calls == Running /\ (prog.threaded \/ dup = NULL)

(* __alloc_file_descriptor: the lowest free descriptor from start upwards. *)
FreeFds(t, start) == {f \in start .. MaxFd - 1 : t[f].h = NULL}
Unused == {h \in Handles : dev[h] = "free"}

(* The open descriptors of the processes in S.                             *)
Open(S) == {d \in S \X Fds : proc[d[1]].fds[d[2]].h # NULL}
HandleOf(d) == proc[d[1]].fds[d[2]].h
Held(h, D) == Cardinality({d \in D : HandleOf(d) = h})

(* The handles whose last reference goes when the descriptors D close.     *)
LastRefs(D) == {h \in Handles : Held(h, D) > 0 /\ refs[h] = Held(h, D)}

(* __close on every descriptor of D, and the tty references the processes  *)
(* of S hold: a device is closed with its last reference.  A tty is freed  *)
(* when its count reaches zero; what __free_process then frees is the tty  *)
(* of the running process, whichever process it is freeing.                *)
Release(D, S) ==
  LET left == [t \in Ttys |-> ttyref[t]
                 - Cardinality({h \in LastRefs(D) : dev[h] = t})
                 - Cardinality({p \in S : proc[p].tty = t})]
      zero == {t \in ttys : left[t] = 0 /\ left[t] # ttyref[t]}
      wrong == {t \in zero : \E p \in S \ {cur} : proc[p].tty = t}
      freed == (zero \ wrong)
                 \cup (IF wrong = {} \/ cur \in S THEN {} ELSE {me.tty})
  IN  /\ refs' = [h \in Handles |-> refs[h] - Held(h, D)]
      /\ dev' = [h \in Handles |-> IF h \in LastRefs(D) THEN "free" ELSE dev[h]]
      /\ ttyref' = left
      /\ ttys' = ttys \ freed

CloseFd(f) ==
  /\ Release({<<cur, f>>}, {})
  /\ proc' = [proc EXCEPT ![cur].fds[f] = Shut]

\* Mutant of NewTtyRefs: the process's own reference is not counted.
OneTtyRef == 1

(* The references a new tty starts with: its descriptor's and its          *)
(* process's.                                                              *)
NewTtyRefs == 2

(* open: a handle of its own, or for the tty one more reference to the     *)
(* process's tty, allocated with two when it has none (__ttyopen).         *)
OpenFd(k) ==
  /\ Calls /\ k \in prog.kinds \ {"pipe"}
  /\ FreeFds(me.fds, 0) # {}
  /\ \E h \in Unused :
       LET f == Min(FreeFds(me.fds, 0))
           to == [proc EXCEPT ![cur].fds[f] = Desc(h, FALSE)]
       IN  /\ refs' = [refs EXCEPT ![h] = 1]
           /\ IF k = "file"
                THEN /\ dev' = [dev EXCEPT ![h] = "file"]
                     /\ proc' = to
                     /\ UNCHANGED <<ttys, ttyref>>
                ELSE \E t \in IF me.tty # NULL THEN {me.tty} ELSE Ttys \ ttys :
                       /\ dev' = [dev EXCEPT ![h] = t]
                       /\ ttys' = ttys \cup {t}
                       /\ ttyref' = [ttyref EXCEPT
                            ![t] = IF me.tty # NULL THEN @ + 1 ELSE NewTtyRefs]
                       /\ proc' = [to EXCEPT ![cur].tty = t]
  /\ UNCHANGED <<prog, cur, imgs, dup, told>>

\* Mutant of PipeRefs: the writing end is not counted.
OnePipeRef == 1

(* The references a new pipe starts with.                                  *)
PipeRefs == 2

(* pipe: both descriptors share one handle with two references.            *)
Pipe ==
  /\ Calls /\ "pipe" \in prog.kinds
  /\ Cardinality(FreeFds(me.fds, 0)) >= 2
  /\ \E h \in Unused :
       LET f0 == Min(FreeFds(me.fds, 0))
           f1 == Min(FreeFds(me.fds, 0) \ {f0})
       IN  /\ proc' = [proc EXCEPT ![cur].fds[f0] = Desc(h, FALSE),
                                   ![cur].fds[f1] = Desc(h, TRUE)]
           /\ refs' = [refs EXCEPT ![h] = PipeRefs]
           /\ dev' = [dev EXCEPT ![h] = "pipe"]
  /\ UNCHANGED <<prog, cur, ttys, ttyref, imgs, dup, told>>

Close(f) ==
  /\ Calls /\ me.fds[f].h # NULL
  /\ CloseFd(f)
  /\ UNCHANGED <<prog, cur, imgs, dup, told>>

\* Mutant of Copy: the reference is not counted.
CopyUncounted(f1, f2) ==
  /\ proc' = [proc EXCEPT ![cur].fds[f2] = [me.fds[f1] EXCEPT !.x = FALSE]]
  /\ UNCHANGED devs

(* The copy fcntl (F_DUPFD) makes of descriptor f1 at f2.                  *)
Copy(f1, f2) ==
  /\ proc' = [proc EXCEPT ![cur].fds[f2] = [me.fds[f1] EXCEPT !.x = FALSE]]
  /\ refs' = [refs EXCEPT ![me.fds[f1].h] = @ + 1]
  /\ UNCHANGED <<dev, ttys, ttyref>>

DupFd(f, start) ==
  /\ Calls /\ prog.dups /\ me.fds[f].h # NULL
  /\ FreeFds(me.fds, start) # {}
  /\ Copy(f, Min(FreeFds(me.fds, start)))
  /\ UNCHANGED <<prog, cur, imgs, dup, told>>

(* dup2 closes the target, then asks F_DUPFD for a descriptor from there   *)
(* on; each of the two calls is protected from the other threads, the pair *)
(* is not.                                                                 *)
Dup2(f1, f2) ==
  /\ Calls /\ prog.dups /\ dup = NULL /\ f1 # f2 /\ me.fds[f1].h # NULL
  /\ IF me.fds[f2].h # NULL THEN CloseFd(f2) ELSE UNCHANGED <<devs, proc>>
  /\ dup' = [p |-> cur, f1 |-> f1, f2 |-> f2, got |-> NULL]
  /\ UNCHANGED <<prog, cur, imgs, told>>

Dup2Copy ==
  /\ Running /\ dup # NULL /\ dup.got = NULL /\ dup.p = cur
  /\ IF me.fds[dup.f1].h = NULL \/ FreeFds(me.fds, dup.f2) = {}
       THEN /\ dup' = [dup EXCEPT !.got = -1]
            /\ UNCHANGED <<devs, proc>>
       ELSE LET f == Min(FreeFds(me.fds, dup.f2))
            IN  /\ Copy(dup.f1, f)
                /\ dup' = [dup EXCEPT !.got = f]
  /\ UNCHANGED <<prog, cur, imgs, told>>

Dup2Returns ==
  /\ dup # NULL /\ dup.got # NULL /\ dup.p = cur
  /\ dup' = NULL
  /\ UNCHANGED <<prog, cur, proc, devs, imgs, told>>

(* fcntl (F_SETFD) *)
SetFd(f) ==
  /\ Calls /\ prog.flags /\ me.fds[f].h # NULL
  /\ proc' = [proc EXCEPT ![cur].fds[f].x = ~@]
  /\ UNCHANGED <<prog, cur, devs, imgs, dup, told>>

-----------------------------------------------------------------------------
(* Processes *)

(* The zombies __free_process reaches from p: its zombie children, theirs, *)
(* and so on.                                                              *)
ZombieKids(S) == {c \in Procs : proc[c].st = "zombie"
                                  /\ \E p \in S : c \in Range(proc[p].kids)}
\* Mutant of Doomed: every zombie, whoever its parent is.
AnyZombie(p) == {c \in Procs : proc[c].st = "zombie"} \ {p}
Doomed(p) ==
  {c \in Procs : \A S \in SUBSET Procs :
     ZombieKids(S \cup {p}) \subseteq S => c \in S}

\* Mutant of Freed: zombie children are left behind.
FreedAlone(p) ==
  [proc EXCEPT ![p] = IF @.st = "zombie" THEN NoProc
                      ELSE [@ EXCEPT !.fds = NoTable, !.tty = NULL, !.kids = <<>>]]

(* The process structures after __free_process (p): the zombies below it   *)
(* are gone, a child that still runs is an orphan.                         *)
Freed(p) ==
  LET lost == Doomed(p) \cup {p}
  IN  [q \in Procs |->
         CASE q \in Doomed(p) \/ (q = p /\ proc[p].st = "zombie") -> NoProc
           [] q = p /\ proc[p].st # "zombie"
                -> [proc[p] EXCEPT !.fds = NoTable, !.tty = NULL, !.kids = <<>>]
           [] q \notin lost /\ (\E l \in lost : q \in Range(proc[l].kids))
                -> [proc[q] EXCEPT !.ppid = NULL]
           [] OTHER -> proc[q]]

\* Mutant of FreeProcess: the ttys keep their references.
FreeFdsOnly(p) == Release(Open(Doomed(p) \cup {p}), {})
FreeProcess(p) == Release(Open(Doomed(p) \cup {p}), Doomed(p) \cup {p})

(* sul_fork: the child's structure is a copy of the parent's, status bits  *)
(* included; it is put on the parent's list of children, and every open    *)
(* descriptor and the tty gain a reference.                                *)
Child(how) == [me EXCEPT !.ppid = cur, !.kids = <<>>, !.forked = TRUE,
                         !.shares = (how = "vfork")]
Linked(c, child) == [proc EXCEPT ![c] = child, ![cur].kids = <<c>> \o @]
\* Mutant of ShareFds: the copied table is not counted.
ShareNothing == UNCHANGED <<refs, ttyref>>
\* Mutant of ShareFds: the tty is not counted.
ShareFilesOnly ==
  /\ refs' = [h \in Handles |-> refs[h] + Held(h, Open({cur}))]
  /\ UNCHANGED ttyref
ShareFds ==
  /\ refs' = [h \in Handles |-> refs[h] + Held(h, Open({cur}))]
  /\ ttyref' = [t \in Ttys |-> ttyref[t] + (IF t = me.tty THEN 1 ELSE 0)]

(* A vfork child has its parent's memory, so it may not fork before it     *)
(* execs; fork is refused while there is a dynamic area (__fork_pre).      *)
(* prog.procs bounds the processes there are at a time.                    *)
MayFork(how) ==
  /\ Calls /\ how \in prog.forks
  /\ Cardinality({p \in Procs : proc[p].st # "free"}) < prog.procs
  /\ ~me.shares /\ (me.execed => prog.nested)
  /\ how = "fork" => me.image \notin areas

\* Mutant of JoinArea: the child is not counted.
JoinUncounted == UNCHANGED dref

(* __fork_post in the child: one more process in the dynamic area.         *)
JoinArea == dref' = [dref EXCEPT ![me.image] = @ + 1]

Fork(how) ==
  /\ MayFork(how)
  /\ \E c \in Procs :
       /\ proc[c].st = "free"
       /\ proc' = Linked(c, Child(how))
       /\ cur' = c
  /\ ShareFds
  /\ JoinArea
  /\ UNCHANGED <<prog, dev, ttys, clients, areas, dup, told>>

(* fork_error1 .. fork_error3: what sul_fork allocated is freed, and that  *)
(* is all.  Without memory for the structure nothing has happened yet; for *)
(* the environment or the table, the child is on the lists already; when   *)
(* there is no room for the copy of the parent's memory, the references    *)
(* are counted and __ul_global.sulproc is the child.                       *)
ForkFails(how, why) ==
  /\ MayFork(how) /\ why \in prog.faults
  /\ why = "slot" => how = "fork"
  /\ \E c \in Procs :
       /\ proc[c].st = "free"
       /\ proc' = IF why = "struct" THEN proc ELSE Linked(c, NoProc)
       /\ IF why = "slot" THEN ShareFds /\ cur' = c
                          ELSE UNCHANGED <<refs, ttyref, cur>>
  /\ UNCHANGED <<prog, dev, ttys, imgs, dup, told>>

(* __dynamic_area_exit *)
LeaveArea ==
  /\ dref' = [dref EXCEPT ![me.image] = @ - 1]
  /\ areas' = IF dref[me.image] = 1 THEN areas \ {me.image} ELSE areas

(* execve closes the descriptors with O_EXECCL in dflag; no code sets that *)
(* bit there (F_SETFD sets it in fflag), so it closes none.                *)
ExecCloses == {}

FreeImages == {i \in Images \ clients : dref[i] = 0}

(* execve: a process without a parent gives back all it has and leaves the *)
(* Shared Object Manager; a child keeps its descriptors.  The images bound *)
(* the programs that run or are registered.                                *)
Exec(what) ==
  /\ Calls /\ what \in prog.execs /\ FreeImages # {}
  /\ LET next == IF what = "unixlib" THEN "starting" ELSE "foreign"
         from == IF me.ppid = NULL THEN Freed(cur)
                 ELSE [proc EXCEPT ![cur].fds =
                        [f \in Fds |-> IF f \in ExecCloses THEN Shut ELSE me.fds[f]]]
     IN  proc' = [from EXCEPT ![cur].run = next, ![cur].execed = TRUE,
                              ![cur].image = NULL, ![cur].shares = FALSE]
  /\ IF me.ppid = NULL THEN FreeProcess(cur)
                       ELSE Release({cur} \X ExecCloses, {})
  /\ clients' = IF me.ppid = NULL THEN clients \ {me.image} ELSE clients
  /\ LeaveArea
  /\ dup' = IF dup # NULL /\ dup.p = cur THEN NULL ELSE dup
  /\ UNCHANGED <<prog, cur, told>>

(* A UnixLib program starts: it registers with the Shared Object Manager,  *)
(* may make a dynamic area, and opens stdin, stdout and stderr unless it   *)
(* has a table already (initialise_unix_io).                               *)
Start ==
  /\ cur # NULL /\ me.st = "live" /\ me.run = "starting"
  /\ \E i \in FreeImages :
       /\ clients' = clients \cup {i}
       /\ dref' = [dref EXCEPT ![i] = 1]
       /\ \E a \in prog.areas : areas' = IF a THEN areas \cup {i} ELSE areas
       /\ LET on == [proc EXCEPT ![cur].run = "unixlib", ![cur].image = i]
          IN  IF me.ppid # NULL
                THEN proc' = on /\ UNCHANGED devs
                ELSE \E h0, h1 \in Unused :
                       /\ h0 # h1
                       /\ refs' = [refs EXCEPT ![h0] = 1, ![h1] = 2]
                       /\ LET std == [[[NoTable EXCEPT ![0] = Desc(h0, FALSE)]
                                          EXCEPT ![1] = Desc(h1, TRUE)]
                                          EXCEPT ![2] = Desc(h1, TRUE)]
                              fit == [on EXCEPT ![cur].fds = std]
                          IN  IF prog.redirected
                                THEN /\ dev' = [dev EXCEPT ![h0] = "file", ![h1] = "file"]
                                     /\ proc' = fit
                                     /\ UNCHANGED <<ttys, ttyref>>
                                ELSE \E t \in Ttys \ ttys :
                                       /\ dev' = [dev EXCEPT ![h0] = t, ![h1] = t]
                                       /\ ttys' = ttys \cup {t}
                                       /\ ttyref' = [ttyref EXCEPT ![t] = NewTtyRefs + 1]
                                       /\ proc' = [fit EXCEPT ![cur].tty = t]
  /\ UNCHANGED <<prog, cur, dup, told>>

\* Mutant of SulExit: the child is not marked as a zombie.
ExitUnmarked(now, how) ==
  /\ cur' = me.ppid
  /\ proc' = [now EXCEPT ![cur] = IF me.ppid = NULL THEN NoProc
                                  ELSE [@ EXCEPT !.end = how, !.image = NULL]]

(* sul_exit: back to the parent, for which the structure stays behind as a *)
(* zombie; a process without a parent is given back.                       *)
SulExit(now, how) ==
  /\ cur' = me.ppid
  /\ proc' = [now EXCEPT ![cur] =
                IF me.ppid = NULL THEN NoProc
                ELSE [@ EXCEPT !.st = "zombie", !.end = how, !.image = NULL]]

\* Mutant of LeavesSom: every process that ends deregisters.
AlwaysLeavesSom == TRUE

(* A child that has forked and not exec'd is the same client of the Shared *)
(* Object Manager as its parent.                                           *)
LeavesSom == me.execed \/ ~me.forked

(* _exit *)
Exit(how) ==
  /\ Calls /\ how \in prog.ends
  /\ FreeProcess(cur)
  /\ LeaveArea
  /\ clients' = IF LeavesSom THEN clients \ {me.image} ELSE clients
  /\ SulExit(Freed(cur), how)
  /\ dup' = IF dup # NULL /\ dup.p = cur THEN NULL ELSE dup
  /\ UNCHANGED <<prog, told>>

(* A program that is not linked with UnixLib ends through the handlers     *)
(* sul_exec installed: its descriptors stay open until it is waited for.   *)
ForeignExit ==
  /\ cur # NULL /\ me.run = "foreign"
  /\ SulExit(proc, "exit")
  /\ UNCHANGED <<prog, devs, imgs, dup, told>>

-----------------------------------------------------------------------------
(* wait4 *)

(* swi_initialise sets gid to 1 and pgrp to 2 and fork copies both; the    *)
(* group of a child is looked for in its gid.                              *)
Gid == 1
Pgrp == 2
WaitType(pid, c) == pid = "any" \/ pid = c \/ (pid = "mypgrp" /\ Gid = Pgrp)

(* wait_convert_status: a signal is looked at before a core dump.          *)
Converted(end) == IF end = "core" THEN "signal" ELSE end

Said(ret, end) == [ret |-> ret, end |-> end]

(* The newest child comes first; with children but no answer the call      *)
(* goes round its loop, inside a critical section, for good.               *)
Wait4(pid, nohang) ==
  LET ready == {n \in DOMAIN me.kids : /\ WaitType(pid, me.kids[n])
                                       /\ proc[me.kids[n]].st = "zombie"}
      n == Min(ready)
      c == me.kids[n]
  IN  /\ Calls
      /\ IF ready # {}
           THEN /\ FreeProcess(c)
                /\ proc' = [Freed(c) EXCEPT ![cur].kids = RemoveAt(@, n)]
                /\ told' = Said(c, Converted(proc[c].end))
           ELSE /\ told' = Said(CASE me.kids = <<>> -> "none"
                                  [] me.kids # <<>> /\ nohang -> "zero"
                                  [] OTHER -> "never", pid)
                /\ UNCHANGED <<devs, proc>>
      /\ UNCHANGED <<prog, cur, imgs, dup>>

WaitReturns ==
  /\ told # NULL /\ told.ret # "never"
  /\ told' = NULL
  /\ UNCHANGED <<prog, cur, proc, devs, imgs, dup>>

-----------------------------------------------------------------------------
(* Nothing happens any more: the last process has ended, a wait4 goes      *)
(* round its loop, or a fork has failed halfway.                           *)
Over ==
  /\ \/ cur = NULL
     \/ told # NULL /\ told.ret = "never"
     \/ ~Intact
  /\ UNCHANGED vars

Init ==
  /\ prog \in Programs
  /\ \E p \in Procs :
       /\ cur = p
       /\ proc = [q \in Procs |-> IF q = p THEN FreshProc ELSE NoProc]
  /\ dev = [h \in Handles |-> "free"]
  /\ refs = [h \in Handles |-> 0]
  /\ ttys = {}
  /\ ttyref = [t \in Ttys |-> 0]
  /\ clients = {}
  /\ dref = [i \in Images |-> 0]
  /\ areas = {}
  /\ dup = NULL
  /\ told = NULL

Next ==
  \/ \E k \in prog.kinds : OpenFd(k)
  \/ Pipe
  \/ \E f \in Fds : Close(f) \/ SetFd(f)
  \/ \E f, s \in Fds : DupFd(f, s)
  \/ \E f1, f2 \in Fds : Dup2(f1, f2)
  \/ Dup2Copy
  \/ Dup2Returns
  \/ \E how \in prog.forks : Fork(how) \/ (\E why \in prog.faults : ForkFails(how, why))
  \/ \E what \in prog.execs : Exec(what)
  \/ Start
  \/ \E how \in prog.ends : Exit(how)
  \/ ForeignExit
  \/ \E nohang \in BOOLEAN :
       \/ \E pid \in prog.waits : Wait4(pid, nohang)
       \/ \E c \in Procs : cur # NULL /\ c \in Range(me.kids) /\ Wait4(c, nohang)
  \/ WaitReturns
  \/ Over

Spec == Init /\ [][Next]_vars

-----------------------------------------------------------------------------
(* Properties *)

Live == {p \in Procs : proc[p].st = "live"}

(* The programs in which a fork that fails has done nothing: the other     *)
(* error paths of sul_fork leave the child's structure on the lists and,   *)
(* the last of them, its references counted.                               *)
ForksWhole == prog.faults \subseteq {"struct"}

(* The programs without children that are not linked with UnixLib: for     *)
(* such a zombie __free_process frees another process's tty than it means. *)
UnixLibOnly == "foreign" \notin prog.execs

(* The programs whose exec'd children do not fork: a child of theirs has   *)
(* execed set, and deregisters its parent's client when it ends.           *)
ExecsAreLeaves == "unixlib" \in prog.execs => ~prog.nested

FdType == [h : Handles \cup {NULL}, w : BOOLEAN, x : BOOLEAN]
ProcType ==
  [st : {"free", "live", "zombie"}, ppid : Procs \cup {NULL}, kids : Seq(Procs),
   fds : [Fds -> FdType], tty : Ttys \cup {NULL},
   run : {"starting", "unixlib", "foreign"}, image : Images \cup {NULL},
   forked : BOOLEAN, execed : BOOLEAN, shares : BOOLEAN,
   end : {"none", "exit", "signal", "core"}]

(* Every structure, table and count is what the code can hold.             *)
TypeOK ==
  /\ prog \in Programs
  /\ cur \in Procs \cup {NULL}
  /\ proc \in [Procs -> ProcType]
  /\ dev \in [Handles -> {"free", "file", "pipe"} \cup Ttys]
  /\ refs \in [Handles -> 0 .. MaxFd * Cardinality(Procs)]
  /\ ttys \subseteq Ttys /\ ttyref \in [Ttys -> Int]
  /\ clients \subseteq Images /\ areas \subseteq Images
  /\ dref \in [Images -> 0 .. Cardinality(Procs)]

(* A handle's count is the number of descriptors that refer to it, over    *)
(* the running process, the suspended ones and the zombies; a handle is    *)
(* allocated exactly while there is one.  So closing, duplicating, forking *)
(* and ending, in any order, neither close a file another process still    *)
(* has open nor leave one open for nobody.                                 *)
RefcountExact ==
  ForksWhole => \A h \in Handles :
    /\ refs[h] = Held(h, Open(Procs))
    /\ dev[h] = "free" <=> refs[h] = 0

(* A tty's count is the number of open handles on it plus the number of    *)
(* processes that have it as their console.  (A tty that __free_process    *)
(* frees by mistake can be allocated again, with new references.)          *)
TtyCountExact ==
  ForksWhole /\ UnixLibOnly => \A t \in Ttys :
    ttyref[t] = Cardinality({h \in Handles : dev[h] = t})
                + Cardinality({p \in Procs : proc[p].tty = t})

(* No process is left with a console that has been freed (__free_process). *)
TtyKept ==
  UnixLibOnly => \A p \in Procs : proc[p].tty # NULL => proc[p].tty \in ttys

(* Once the last process is gone no tty structure is left allocated.       *)
TtysEnd == UnixLibOnly /\ cur = NULL => ttys = {}

(* The lists of children and the parents agree, no structure is on two     *)
(* lists or on one twice, and none is allocated that cannot be reached     *)
(* from the running process or its ancestors: a zombie is either still to  *)
(* be waited for or freed.                                                 *)
FamilyTree ==
  ForksWhole =>
    /\ \A p, c \in Procs :
         c \in Range(proc[p].kids) <=> proc[c].st # "free" /\ proc[c].ppid = p
    /\ \A p \in Procs : Cardinality(Range(proc[p].kids)) = Len(proc[p].kids)
    /\ \A p \in Procs : proc[p].st # "free" /\ proc[p].ppid = NULL => p \in Live
    /\ cur = NULL => Live = {}

(* The live processes are a chain that ends in the one that runs: each of  *)
(* the others waits for the child at the head of its list.                 *)
Chain ==
  ForksWhole =>
    /\ cur # NULL => cur \in Live
    /\ \A p \in Live : \A n \in DOMAIN proc[p].kids :
         proc[p].kids[n] \in Live <=> (n = 1 /\ p # cur)
    /\ \A p \in Live : proc[p].ppid # NULL => proc[p].ppid \in Live

(* A zombie is freed when its parent is told how it ended, or when that    *)
(* parent itself ends or execs; never otherwise, so no death is lost.      *)
ReapedByParent ==
  [][\A c \in Procs :
       proc[c].st = "zombie" /\ proc'[c].st = "free" =>
         \/ told' # NULL /\ told'.ret = c /\ proc[c].ppid = cur
         \/ proc'[proc[c].ppid].st # "live"
         \/ proc'[proc[c].ppid].run # "unixlib"]_vars

(* The select call finds end of file on a pipe by its handle's count; it   *)
(* must never do so while a process can still write to it.                 *)
AtEof(h) == refs[h] < 2
NoEarlyEof ==
  \A h \in Handles : dev[h] = "pipe" /\ AtEof(h) =>
    ~ \E d, e \in Open(Procs) : /\ HandleOf(d) = h /\ ~proc[d[1]].fds[d[2]].w
                                /\ HandleOf(e) = h /\ proc[e[1]].fds[e[2]].w

(* The count of an image's dynamic area is the number of live processes    *)
(* that run in it, suspended ones included, so neither a vfork child that  *)
(* ends nor one that execs takes the area from under its parent.           *)
AreaShared ==
  \A i \in Images :
    /\ dref[i] = Cardinality({p \in Live : proc[p].image = i})
    /\ i \in areas => dref[i] > 0

(* A live UnixLib process is a client of the Shared Object Manager.        *)
ClientKept ==
  ExecsAreLeaves => \A p \in Live : proc[p].image # NULL => proc[p].image \in clients

(* Handles, ttys and dynamic areas are counted as often as they are used.  *)
CountsInv == TypeOK /\ RefcountExact /\ TtyCountExact /\ AreaShared

(* Parents, children and zombies agree, and the live ones are a chain.     *)
FamilyInv == FamilyTree /\ Chain

(* Pipes, ttys and clients are there for whoever uses them, and ttys no    *)
(* longer than that.                                                       *)
UsedIsKept == NoEarlyEof /\ TtyKept /\ TtysEnd /\ ClientKept
=============================================================================
