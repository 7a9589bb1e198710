---------------------------- MODULE SharedObjects ----------------------------
(***************************************************************************)
(* The Shared Object Manager (soloader/module2) and its two callers: the   *)
(* command that starts a program (som_runcom.c) and the dynamic loader in  *)
(* the program (ld.so, readelflib1.c and dlib.c).  Every SWI is a step; a  *)
(* callback of the manager, or another task in a task window, may come     *)
(* between two of them.  The address of a library's memory is its handle.  *)
(***************************************************************************)
EXTENDS Integers, Sequences, FiniteSets

CONSTANTS Clients,  \* tasks that run ELF programs
          Blocks,   \* base addresses of library memory
          Names,    \* library files
          Loader,   \* the name of the dynamic loader
          MaxSlots, \* bound: elements of global.object_array
          Settings  \* the settings to choose from (SettingType)
CONSTANT NULL

(* A setting: global.max_idle_time, global.call_every_cs_delay, how many   *)
(* values the clock has (2^32 in the code) and whether it reaches the last *)
(* of them, whether others can run between two SWIs of a load, and what    *)
(* may fail.                                                               *)
SettingType ==
  [maxidle : Nat, period : Nat \ {0}, wrap : Nat \ {0}, wraps : BOOLEAN,
   race : BOOLEAN, fails : SUBSET {"alloc", "malloc", "read", "run", "reloc"}]

ASSUME SharedObjectsAssumption ==
  /\ IsFiniteSet(Clients)
  /\ Blocks \subseteq Nat
  /\ Loader \in Names
  /\ NULL \notin Blocks \cup Names
  /\ NULL \notin [n : Names, h : Blocks \cup {NULL}, at : {"found", "ready"}]
  /\ NULL \notin Seq(Blocks \cup {NULL})
  /\ MaxSlots \in Nat
  /\ Settings \subseteq SettingType
  /\ \A s \in Settings : s.maxidle < s.wrap   \* both are of 32 bits

VARIABLES env,     \* the setting; it never changes
          mem,     \* the library in a block of memory
          listed,  \* global.object_list
          name,    \* object.name
          usage,   \* usage_count
          expire,  \* expire_time
          index,   \* object.index
          slots,   \* global.object_array without its element 0, the client
          reg,     \* clients whose workspace has a client structure
          libs,    \* client->object_list
          arr,     \* what GOTT_BASE and RUNTIME_ARRAY point to, NULL if freed
          booted,  \* clients whose loader has finished starting them
          using,   \* _dl_loaded_modules: names and handles
          opening, \* those of them that the load in progress has added
          opened,  \* those of them that came with dlopen
          pc,      \* the library a client's loader is working on
          now,     \* OS_ReadMonotonicTime
          count,   \* ticks to the next call of som_call_every_handler
          pending, \* callback_pending
          idle     \* ticks a library has been without clients (history)

global == <<listed, name, usage, expire, index, slots>>
client == <<reg, libs, arr>>
loader == <<booted, using, opening, opened, pc>>
clock == <<env, now, count, pending>>
vars == <<mem, global, client, loader, clock, idle>>

MaxIdle == env.maxidle
Period == env.period
Wrap == env.wrap

-----------------------------------------------------------------------------
(* The manager.                                                            *)

(* som_handle_from_name: the first of the list, which is in order of the   *)
(* base address, or none.                                                  *)
Known(n) == {b \in listed : name[b] = n}
HandleFromName(n, h) ==
  IF Known(n) = {} THEN h = NULL ELSE h \in Known(n) /\ \A b \in Known(n) : h <= b

\* Mutant of NewIndex: the slot after as many as there are libraries.
CountIndex(i) == i = Cardinality(listed) + 1

(* somarray_add_object: the first slot that was given up, or one more.     *)
NewIndex(i) ==
  /\ i \in 1 .. Len(slots) + 1
  /\ i <= Len(slots) => slots[i] = NULL
  /\ \A k \in 1 .. i - 1 : slots[k] # NULL

(* The new entry of som_register_sharedobject.                             *)
AddGlobal(b, n) ==
  \E i \in 1 .. MaxSlots :
    /\ NewIndex(i)
    /\ listed' = listed \cup {b}
    /\ name' = [name EXCEPT ![b] = n]
    /\ index' = [index EXCEPT ![b] = i]
    /\ slots' = IF i > Len(slots) THEN Append(slots, b) ELSE [slots EXCEPT ![i] = b]

(* The library is on the list, or put there with an expiry time of 0.      *)
Global(b, n) ==
  /\ IF b \in listed THEN UNCHANGED <<listed, name, index, slots>> ELSE AddGlobal(b, n)
  /\ expire' = [expire EXCEPT ![b] = IF b \in listed THEN @ ELSE 0]
  /\ idle' = [idle EXCEPT ![b] = IF b \in listed THEN @ ELSE 0]

\* Mutant of RegisterObject: only a new library is counted.
RegisterNew(c, b, n) ==
  /\ Global(b, n)
  /\ usage' = [usage EXCEPT ![b] = 1]
  /\ libs' = [libs EXCEPT ![c] = @ \cup {b}]

\* Mutant of RegisterObject: the client gets no entry.
RegisterNoEntry(c, b, n) == Global(b, n) /\ usage' = [usage EXCEPT ![b] = @ + 1] /\ UNCHANGED libs

(* som_register_sharedobject.                                              *)
RegisterObject(c, b, n) ==
  /\ Global(b, n)
  /\ usage' = [usage EXCEPT ![b] = @ + 1]
  /\ libs' = [libs EXCEPT ![c] = @ \cup {b}]

(* ... without memory for the client's entry the library stays on the list *)
(* with no use and no expiry time, ...                                     *)
RegisterHalf(c, b, n) == Global(b, n) /\ UNCHANGED <<usage, libs>>

(* ... and without memory for the library nothing is done.                 *)
RegisterNothing(c, b, n) == UNCHANGED <<global, libs, idle>>

Register(c, b, n) ==
  \/ RegisterObject(c, b, n)
  \/ "alloc" \in env.fails /\ RegisterHalf(c, b, n)
  \/ "alloc" \in env.fails /\ b \notin listed /\ RegisterNothing(c, b, n)

(* The usage counts when client c lets go of the libraries S, and the time *)
(* of those that are not used any more.                                    *)
Unused(S) == {b \in S : usage[b] = 1}
LetGo(S) ==
  /\ usage' = [b \in Blocks |-> IF b \in S THEN usage[b] - 1 ELSE usage[b]]
  /\ expire' = [b \in Blocks |-> IF b \in Unused(S) THEN (now + MaxIdle) % Wrap ELSE expire[b]]
  /\ idle' = [b \in Blocks |-> IF b \in Unused(S) THEN 0 ELSE idle[b]]
  /\ UNCHANGED <<listed, name, index, slots>>

\* Mutant of Remove: the libraries stay on the list.
RemoveUnlinksNot(S) == UNCHANGED <<listed, name, index, slots>>

(* The libraries S leave the list and the array.                           *)
Remove(S) ==
  /\ listed' = listed \ S
  /\ name' = [b \in Blocks |-> IF b \in S THEN NULL ELSE name[b]]
  /\ index' = [b \in Blocks |-> IF b \in S THEN 0 ELSE index[b]]
  /\ slots' = [i \in DOMAIN slots |-> IF \E b \in S : index[b] = i THEN NULL ELSE slots[i]]

\* Mutant of Free: the memory stays allocated.
FreeNot(S) == UNCHANGED mem

(* som_free of their memory.                                               *)
Free(S) == mem' = [b \in Blocks |-> IF b \in S THEN NULL ELSE mem[b]]

(* A client lets go of the libraries S, and the libraries R go at once.    *)
LetGoRemoving(S, R) ==
  /\ Remove(R)
  /\ usage' = [b \in Blocks |-> IF b \in S THEN usage[b] - 1 ELSE usage[b]]
  /\ expire' = [b \in Blocks |-> IF b \in R THEN 0
                                 ELSE IF b \in Unused(S) THEN (now + MaxIdle) % Wrap
                                 ELSE expire[b]]
  /\ idle' = [b \in Blocks |-> IF b \in Unused(S) \cup R THEN 0 ELSE idle[b]]

(* deregister_shared_object: a library the client has, one nobody has, or  *)
(* one that others have.                                                   *)
DeregisterObject(c, b) ==
  \/ /\ b \in libs[c]
     /\ LetGo({b})
     /\ libs' = [libs EXCEPT ![c] = @ \ {b}]
     /\ UNCHANGED mem
  \/ /\ b \in listed \ libs[c] /\ usage[b] = 0
     /\ Remove({b}) /\ Free({b})
     /\ expire' = [expire EXCEPT ![b] = 0]
     /\ idle' = [idle EXCEPT ![b] = 0]
     /\ UNCHANGED <<usage, libs>>
  \/ /\ b \notin libs[c] /\ (b \in listed => usage[b] # 0)
     /\ UNCHANGED <<mem, global, libs, idle>>

\* Mutant of Forget: the libraries stay with the client.
ForgetNot(c) == reg' = reg \ {c} /\ arr' = [arr EXCEPT ![c] = NULL] /\ UNCHANGED libs

(* What is left of a client that has deregistered.                         *)
Forget(c) ==
  /\ reg' = reg \ {c}
  /\ libs' = [libs EXCEPT ![c] = {}]
  /\ arr' = [arr EXCEPT ![c] = NULL]

Gone(c) ==
  /\ booted' = booted \ {c}
  /\ using' = [using EXCEPT ![c] = {}]
  /\ opening' = [opening EXCEPT ![c] = {}]
  /\ opened' = [opened EXCEPT ![c] = {}]
  /\ pc' = [pc EXCEPT ![c] = NULL]

(* som_deregister_client.                                                  *)
DeregisterClient(c) == LetGo(libs[c]) /\ Forget(c) /\ Gone(c) /\ UNCHANGED mem

(* som_generate_runtime_array: an entry for each library of the client, at *)
(* the library's index.                                                    *)
RuntimeArray(S, array, at) ==
  [i \in DOMAIN array |-> IF array[i] # NULL /\ \E b \in S : at[b] = i
                          THEN CHOOSE b \in S : at[b] = i ELSE NULL]

\* Mutant of Expired: a library that expires now is kept.
ExpiredBefore == {b \in listed : usage[b] = 0 /\ expire[b] < now}
\* Mutant of Expired: the time is not looked at.
ExpiredAtOnce == {b \in listed : usage[b] = 0}

(* som_callback_handler: the libraries whose time has come.                *)
Expired == {b \in listed : usage[b] = 0 /\ expire[b] <= now}

(* Nobody else's load is between two SWIs, unless others may run there.    *)
Alone(c) == env.race \/ \A d \in Clients \ {c} : pc[d] = NULL

CallBack ==
  /\ pending
  /\ env.race \/ \A d \in Clients : pc[d] = NULL
  /\ pending' = FALSE
  /\ Remove(Expired) /\ Free(Expired)
  /\ expire' = [b \in Blocks |-> IF b \in Expired THEN 0 ELSE expire[b]]
  /\ idle' = [b \in Blocks |-> IF b \in Expired THEN 0 ELSE idle[b]]
  /\ UNCHANGED <<env, usage, client, loader, now, count>>

(* A centisecond; each Period of them som_call_every_handler asks for a    *)
(* callback.  A callback comes with the next return to a program, well     *)
(* before the next centisecond.                                            *)
Tick ==
  /\ env.wraps \/ now + MaxIdle + 1 < Wrap
  /\ ~pending
  /\ now' = (now + 1) % Wrap
  /\ count' = IF count = 1 THEN Period ELSE count - 1
  /\ pending' = (count = 1)
  /\ idle' = [b \in Blocks |-> IF b \in listed /\ usage[b] = 0 /\ idle[b] < MaxIdle + Period
                               THEN idle[b] + 1 ELSE idle[b]]
  /\ UNCHANGED <<env, mem, global, client, loader>>

-----------------------------------------------------------------------------
(* command_run: a program is started.                                      *)

(* The loader that is there, or memory into which it is read.              *)
Fresh == Known(Loader) = {}
LoaderBlock(b) == IF Fresh THEN mem[b] = NULL ELSE HandleFromName(Loader, b)

Run(c) ==
  /\ c \notin reg /\ Alone(c)
  /\ \E b \in Blocks :
       /\ LoaderBlock(b)
       /\ mem' = [mem EXCEPT ![b] = IF Fresh THEN Loader ELSE @]
       /\ RegisterObject(c, b, Loader)
       /\ arr' = [arr EXCEPT ![c] = RuntimeArray({b}, slots', index')]
       /\ using' = [using EXCEPT ![c] = {<<Loader, b>>}]
  /\ reg' = reg \cup {c}
  /\ UNCHANGED <<booted, opening, opened, pc, clock>>

(* ... there is no memory for the client's entry of the loader, or the     *)
(* loader is registered and the rest fails: no memory for the array, or    *)
(* the wimpslot is too small.  The loader's memory is freed if it was read *)
(* for this program, and the client deregistered.                          *)
RunFails(c) ==
  /\ "run" \in env.fails
  /\ c \notin reg /\ Alone(c)
  /\ \E b \in Blocks, registered \in BOOLEAN :
       LET again == registered /\ usage[b] = 0
       IN  /\ LoaderBlock(b)
           /\ IF b \in listed THEN UNCHANGED <<listed, name, index, slots>> ELSE AddGlobal(b, Loader)
           /\ expire' = [expire EXCEPT ![b] = IF again THEN (now + MaxIdle) % Wrap
                                              ELSE IF b \in listed THEN @ ELSE 0]
           /\ idle' = [idle EXCEPT ![b] = IF again \/ b \notin listed THEN 0 ELSE @]
           /\ mem' = [mem EXCEPT ![b] = IF Fresh THEN NULL ELSE @]
  /\ UNCHANGED <<usage, client, loader, clock>>

-----------------------------------------------------------------------------
(* ld.so.                                                                  *)

Named(c) == {u[1] : u \in using[c]}

(* _dl_load_elf_shared_library looks a library up: it is not one of the    *)
(* client's, and may be in the system.                                     *)
Find(c, n) ==
  /\ c \in reg /\ pc[c] = NULL /\ Alone(c) /\ n \notin Named(c)
  /\ \E h \in Blocks \cup {NULL} :
       HandleFromName(n, h) /\ pc' = [pc EXCEPT ![c] = [n |-> n, h |-> h, at |-> "found"]]
  /\ UNCHANGED <<mem, global, client, booted, using, opening, opened, clock, idle>>

(* ... it is: its details are asked for.                                   *)
Query(c) ==
  /\ pc[c] # NULL /\ pc[c].at = "found" /\ pc[c].h \in listed
  /\ pc' = [pc EXCEPT ![c].at = "ready"]
  /\ UNCHANGED <<mem, global, client, booted, using, opening, opened, clock, idle>>

(* ... it is not: it is read from its file.                                *)
LoadFile(c) ==
  /\ pc[c] # NULL /\ pc[c].at = "found" /\ pc[c].h = NULL
  /\ \E b \in Blocks :
       /\ mem[b] = NULL
       /\ mem' = [mem EXCEPT ![b] = pc[c].n]
       /\ pc' = [pc EXCEPT ![c].h = b, ![c].at = "ready"]
  /\ UNCHANGED <<global, client, booted, using, opening, opened, clock, idle>>

(* ... and registered, unless the client has it; the answer of the SWI is  *)
(* not looked at.                                                          *)
RegisterLib(c) ==
  /\ pc[c] # NULL /\ pc[c].at = "ready"
  /\ LET n == pc[c].n
         h == pc[c].h
     IN  /\ IF h \in libs[c] THEN UNCHANGED <<global, libs, idle>> ELSE Register(c, h, n)
         /\ using' = [using EXCEPT ![c] = @ \cup {<<n, h>>}]
         /\ opening' = [opening EXCEPT ![c] = @ \cup {<<n, h>>}]
  /\ pc' = [pc EXCEPT ![c] = NULL]
  /\ UNCHANGED <<mem, reg, arr, booted, opened, clock>>

Handles(S) == {u[2] : u \in S}

\* Mutant of Bogus: the usage count is not looked at.
BogusUsed(c) == Handles(opening[c]) \cap (listed \ libs[c])

(* What goes at once when a client deregisters what it has opened: a       *)
(* library on the list that nobody has, or that only the client has and    *)
(* deregisters for two names.                                              *)
Bogus(c) == {u[2] : u \in {v \in opening[c] :
  /\ v[2] \in listed
  /\ IF v[2] \in libs[c]
     THEN usage[v[2]] = 1 /\ \E w \in opening[c] \ {v} : w[2] = v[2]
     ELSE usage[v[2]] = 0}}

(* dlopen fails: what it has opened is closed again, with the library      *)
(* memory as m says.                                                       *)
CloseOpening(c, m) ==
  /\ LetGoRemoving(Handles(opening[c]) \cap libs[c], Bogus(c))
  /\ mem' = [b \in Blocks |-> IF b \in Bogus(c) THEN NULL ELSE m[b]]
  /\ libs' = [libs EXCEPT ![c] = @ \ Handles(opening[c])]
  /\ opening' = [opening EXCEPT ![c] = {}]
  /\ UNCHANGED <<reg, booted, opened, clock>>

(* The library memory when a library could not be opened or, after its     *)
(* memory was allocated, read.                                             *)
Unread(n) == {mem} \cup {[mem EXCEPT ![b] = n] : b \in {d \in Blocks : "read" \in env.fails /\ mem[d] = NULL}}

(* ... and such a load fails.  A program that starts exits.                *)
LoadFails(c) ==
  /\ pc[c] # NULL /\ pc[c].at = "found" /\ pc[c].h = NULL
  /\ \E m \in Unread(pc[c].n) :
       \/ /\ c \in booted /\ CloseOpening(c, m)
          /\ using' = [using EXCEPT ![c] = @ \ opening[c]]
          /\ pc' = [pc EXCEPT ![c] = NULL]
          /\ UNCHANGED arr
       \/ /\ c \notin booted /\ mem' = m
          /\ LetGo(libs[c]) /\ Forget(c) /\ Gone(c)
          /\ UNCHANGED clock

(* ... there is no memory for the client's copy of the data: the load      *)
(* fails, and the library stays among the modules that are loaded.         *)
NoData(c) ==
  /\ "malloc" \in env.fails
  /\ pc[c] # NULL /\ pc[c].at = "ready" /\ pc[c].h \notin libs[c] /\ c \in booted
  /\ CloseOpening(c, mem)
  /\ using' = [using EXCEPT ![c] = (@ \cup {<<pc[c].n, pc[c].h>>}) \ opening[c]]
  /\ pc' = [pc EXCEPT ![c] = NULL]
  /\ UNCHANGED arr

Idle(c) == c \in reg /\ pc[c] = NULL /\ Alone(c)

\* Mutant of Generate: the array is only made anew when it has to grow.
GenerateLonger(c) ==
  /\ Idle(c) /\ (c \notin booted \/ opening[c] # {})
  /\ arr' = [arr EXCEPT ![c] = IF Len(slots) > Len(@) THEN RuntimeArray(libs[c], slots, index) ELSE @]
  /\ booted' = booted \cup {c}
  /\ opened' = [opened EXCEPT ![c] = IF c \in booted THEN @ \cup opening[c] ELSE @]
  /\ opening' = [opening EXCEPT ![c] = {}]
  /\ UNCHANGED <<mem, global, reg, libs, using, pc, clock, idle>>

(* All the libraries of a program, or of a dlopen, are there.              *)
Generate(c) ==
  /\ Idle(c) /\ (c \notin booted \/ opening[c] # {})
  /\ arr' = [arr EXCEPT ![c] = RuntimeArray(libs[c], slots, index)]
  /\ booted' = booted \cup {c}
  /\ opened' = [opened EXCEPT ![c] = IF c \in booted THEN @ \cup opening[c] ELSE @]
  /\ opening' = [opening EXCEPT ![c] = {}]
  /\ UNCHANGED <<mem, global, reg, libs, using, pc, clock, idle>>

(* ... no memory for the array: the old one is freed all the same.  A      *)
(* program that starts exits (Exit), a dlopen closes what it has opened.   *)
GenerateFails(c) ==
  /\ "alloc" \in env.fails
  /\ Idle(c) /\ c \in booted /\ opening[c] # {}
  /\ CloseOpening(c, mem)
  /\ arr' = [arr EXCEPT ![c] = NULL]
  /\ using' = [using EXCEPT ![c] = @ \ opening[c]]
  /\ UNCHANGED pc

(* dlclose of a library nobody else in the program has open.               *)
DlClose(c) ==
  /\ Idle(c) /\ opening[c] = {}
  /\ \E u \in opened[c] :
       /\ DeregisterObject(c, u[2])
       /\ using' = [using EXCEPT ![c] = @ \ {u}]
       /\ opened' = [opened EXCEPT ![c] = @ \ {u}]
  /\ UNCHANGED <<reg, arr, booted, opening, pc, clock>>

(* A library that cannot be relocated is deregistered twice, to have it    *)
(* removed at once, and the program exits.                                 *)
RelocFails(c) ==
  /\ "reloc" \in env.fails
  /\ Idle(c)
  /\ \E u \in opening[c] :
       LET b == u[2]
           last == IF b \in libs[c] THEN usage[b] = 1 ELSE b \in listed /\ usage[b] = 0
           R == IF last THEN {b} ELSE {}
       IN  LetGoRemoving(libs[c], R) /\ Free(R)
  /\ Forget(c) /\ Gone(c)
  /\ UNCHANGED clock

(* The program ends: UnixLib deregisters it.                               *)
Exit(c) ==
  /\ Idle(c)
  /\ DeregisterClient(c)
  /\ UNCHANGED clock

Init ==
  /\ env \in Settings
  /\ mem = [b \in Blocks |-> NULL]
  /\ listed = {}
  /\ name = [b \in Blocks |-> NULL]
  /\ usage = [b \in Blocks |-> 0]
  /\ expire = [b \in Blocks |-> 0]
  /\ index = [b \in Blocks |-> 0]
  /\ slots = <<>>
  /\ reg = {}
  /\ libs = [c \in Clients |-> {}]
  /\ arr = [c \in Clients |-> NULL]
  /\ booted = {}
  /\ using = [c \in Clients |-> {}]
  /\ opening = [c \in Clients |-> {}]
  /\ opened = [c \in Clients |-> {}]
  /\ pc = [c \in Clients |-> NULL]
  /\ now = 0
  /\ count = Period
  /\ pending = FALSE
  /\ idle = [b \in Blocks |-> 0]

Next ==
  \/ CallBack
  \/ Tick
  \/ \E c \in Clients :
       \/ Run(c) \/ RunFails(c)
       \/ \E n \in Names : Find(c, n)
       \/ Query(c) \/ LoadFile(c) \/ LoadFails(c)
       \/ RegisterLib(c) \/ NoData(c)
       \/ Generate(c) \/ GenerateFails(c)
       \/ DlClose(c) \/ RelocFails(c) \/ Exit(c)

Spec == Init /\ [][Next]_vars

-----------------------------------------------------------------------------
(* Lists, counts, indices and arrays are of their types.                   *)
TypeOK ==
  /\ env \in Settings
  /\ mem \in [Blocks -> Names \cup {NULL}]
  /\ listed \subseteq Blocks
  /\ name \in [Blocks -> Names \cup {NULL}]
  /\ usage \in [Blocks -> Nat]
  /\ expire \in [Blocks -> 0 .. Wrap - 1]
  /\ index \in [Blocks -> 0 .. MaxSlots]
  /\ slots \in Seq(Blocks \cup {NULL})
  /\ reg \subseteq Clients /\ booted \subseteq reg
  /\ libs \in [Clients -> SUBSET Blocks]
  /\ using \in [Clients -> SUBSET (Names \X Blocks)]
  /\ opening \in [Clients -> SUBSET (Names \X Blocks)]
  /\ opened \in [Clients -> SUBSET (Names \X Blocks)]
  /\ arr \in [Clients -> Seq(Blocks \cup {NULL}) \cup {NULL}]
  /\ pc \in [Clients -> [n : Names, h : Blocks \cup {NULL}, at : {"found", "ready"}] \cup {NULL}]
  /\ now \in 0 .. Wrap - 1
  /\ count \in 1 .. Period
  /\ pending \in BOOLEAN
  /\ idle \in [Blocks -> 0 .. MaxIdle + Period]

(* usage_count is the number of clients that have the library in their     *)
(* lists, and a library in a client's list is never removed from the       *)
(* global one, whatever fails and whoever runs in between.                 *)
UsageExact ==
  /\ \A b \in Blocks : usage[b] = Cardinality({c \in Clients : b \in libs[c]})
  /\ \A c \in Clients : libs[c] \subseteq listed

(* The array of objects and the list agree: each library is in the slot    *)
(* its index names, and every other slot is free for use.                  *)
SlotsExact ==
  /\ \A b \in listed : index[b] \in DOMAIN slots /\ slots[index[b]] = b
  /\ \A i \in DOMAIN slots : slots[i] # NULL => slots[i] \in listed /\ index[slots[i]] = i

(* Every file can be read and there is memory for what is registered.      *)
Registers == env.fails \subseteq {"run", "reloc"}

(* Nobody runs between the SWIs of a load, and no start fails.             *)
Undisturbed == ~env.race /\ "run" \notin env.fails

(* A library a loader has found is still in memory when the loader reads   *)
(* and registers it, whatever else fails.                                  *)
FoundIsThere ==
  Undisturbed => \A c \in Clients : pc[c] # NULL /\ pc[c].h # NULL => mem[pc[c].h] = pc[c].n

(* The memory of a library on the list holds that library: a program that  *)
(* finds it by name finds its code.                                        *)
ListedIsLoaded ==
  Undisturbed => \A b \in listed : mem[b] = name[b]

(* Memory that holds a library is on the list or about to be: none is lost.*)
NothingLost ==
  Registers => \A b \in Blocks : mem[b] # NULL =>
    b \in listed \/ \E c \in Clients : pc[c] # NULL /\ pc[c].h = b

(* The libraries a program's loader has loaded are registered for it, so   *)
(* that they stay in memory, although loads and relocations fail.          *)
UsedIsCounted ==
  ~env.race /\ env.fails \subseteq {"read", "reloc"} => \A c \in Clients : \A u \in using[c] : u[2] \in libs[c]

(* When a program runs, the array its code takes its data from has, at the *)
(* index of each library it uses, its own copy of that library's data.     *)
ArrayRight ==
  Registers => \A c \in booted : pc[c] = NULL /\ opening[c] = {} =>
    /\ arr[c] # NULL
    /\ \A b \in libs[c] : index[b] \in DOMAIN arr[c] /\ arr[c][index[b]] = b

(* The callback removes a library only when nobody has used it for         *)
(* max_idle_time, unless that time ends past the last value of the clock:  *)
(* a due time that wraps is met at once.  Whoever runs and whatever fails, *)
(* but for registrations, which leave libraries without a due time.        *)
KeptIdle ==
  [][env.fails \cap {"alloc", "run"} = {} =>
     \A b \in listed : CallBack /\ b \notin listed' =>
       idle[b] >= MaxIdle \/ now + (MaxIdle - idle[b]) >= Wrap]_vars

(* A library nobody uses is removed by the first callback once its time    *)
(* has come, as long as the clock does not wrap: no library on the list    *)
(* has been idle for longer than that callback can be away.                *)
GoneInTime ==
  ~env.wraps /\ MaxIdle > 0 =>
    \A b \in listed : usage[b] = 0 /\ ~pending => idle[b] < MaxIdle + Period - 1

(* The manager's lists, counts and array agree with what the clients have. *)
ManagerInv == TypeOK /\ UsageExact /\ SlotsExact

(* A library that is listed, found or used is in memory and counted, its   *)
(* data are where the program looks for them, and an idle one goes in time.*)
LibrariesInv ==
  /\ FoundIsThere
  /\ ListedIsLoaded
  /\ NothingLost
  /\ UsedIsCounted
  /\ ArrayRight
  /\ GoneInTime
=============================================================================
