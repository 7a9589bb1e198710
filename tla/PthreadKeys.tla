----------------------------- MODULE PthreadKeys -----------------------------
(***************************************************************************)
(* Thread specific data (pthread/key.c, keydest.c) and the part of         *)
(* pthread_exit that calls the destructors.                                *)
(*                                                                         *)
(* What runs with context switches disabled is one step.  Two things do    *)
(* not: the test of pthread_key_delete for an empty list of keys, and all  *)
(* of __pthread_key_calldestructors, with the destructors, which may call  *)
(* the functions of this module, and the calls of free_unlocked.           *)
(*                                                                         *)
(* The list of all keys is only ever searched for a key, so a set stands   *)
(* for it.  The order of a thread's list is the order of its destructors.  *)
(***************************************************************************)
EXTENDS Pthreads, Naturals, Sequences, FiniteSetsExt

CONSTANTS Values,
          Deleters,       \* the threads that call pthread_key_delete
          KeysMax,        \* PTHREAD_KEYS_MAX
          Iterations,     \* PTHREAD_DESTRUCTOR_ITERATIONS
          MaxFailures     \* bound: calls of pthread_key_create over the limit

ASSUME ValuesAssumption == NULL \notin Values \cup Nat
ASSUME LimitsAssumption == KeysMax \in Nat /\ Iterations \in Nat /\ MaxFailures \in Nat
ASSUME DeletersAssumption == Deleters \subseteq Threads

Ids == 0 .. KeysMax - 1
Key == [id : Ids, dtor : BOOLEAN]
Node == [id : Ids, dtor : BOOLEAN, value : Values \cup {NULL}]

ASSUME NodeAssumption == NULL \notin Node

VARIABLES
  nextkey, keys,
  mine,        \* mine[t]: the list of nodes of thread t, its head first
  key_pc,
  deleting,    \* deleting[t]: the key that t is about to delete
  tries,       \* the local variable of __pthread_key_calldestructors
  current,     \* current[t]: the node that t has taken off its list
  allocated,   \* how many nodes are allocated
  failures,    \* how often pthread_key_create returned EAGAIN
  wild,        \* has anybody followed a null pointer?
  last         \* history: last[t][k] is what t has set k to last

keysVars == <<nextkey, keys, mine, key_pc, deleting, tries, current, allocated, failures, wild, last>>

IdsOf(s) == {s[i].id : i \in DOMAIN s}

KeysTypeOK ==
  /\ nextkey \in 0 .. KeysMax
  /\ keys \subseteq Key
  /\ mine \in [Threads -> Seq(Node)]
  /\ deleting \in [Threads -> Ids \cup {NULL}]
  /\ current \in [Threads -> Node \cup {NULL}]
  /\ \A t \in Threads : current[t] # NULL <=> key_pc[t] \in {"dtor", "free"}
  /\ key_pc \in [Threads -> {"run", "loop", "dtor", "free", "idle"}]
  /\ tries \in [Threads -> 0 .. Iterations]
  /\ allocated \in Nat /\ failures \in 0 .. MaxFailures
  /\ wild \in BOOLEAN
  /\ last \in [Threads -> [Ids -> Values \cup {NULL}]]

\* The program, or a destructor, calls a function.
Calls(t) == key_pc[t] \in {"run", "dtor"} /\ deleting[t] = NULL

\* Mutant of NewKey: the number of keys is the next key.
NewKeyCount == Cardinality(keys)

NewKey == nextkey

\* Mutant of KeysLeft: one key too many.
KeysLeftOne == nextkey <= KeysMax

KeysLeft == nextkey < KeysMax

KeyCreate(t, d) ==
  /\ Calls(t) /\ KeysLeft
  /\ keys' = keys \cup {[id |-> NewKey, dtor |-> d]}
  /\ nextkey' = nextkey + 1
  /\ allocated' = allocated + 1
  /\ last' = [u \in Threads |-> [last[u] EXCEPT ![NewKey] = NULL]]
  /\ UNCHANGED <<mine, key_pc, deleting, tries, current, failures, wild>>

\* EAGAIN: the node has been allocated, and stays so.
KeyCreateFails(t) ==
  /\ Calls(t) /\ ~KeysLeft /\ failures < MaxFailures
  /\ allocated' = allocated + 1
  /\ failures' = failures + 1
  /\ UNCHANGED <<nextkey, keys, mine, key_pc, deleting, tries, current, wild, last>>

\* Mutant of KeyDelete: the list may be empty.
KeyDeleteAny(t, k) ==
  /\ Calls(t) /\ t \in Deleters
  /\ deleting' = [deleting EXCEPT ![t] = k]
  /\ UNCHANGED <<nextkey, keys, mine, key_pc, tries, current, allocated, failures, wild, last>>

KeyDelete(t, k) ==
  /\ Calls(t) /\ t \in Deleters /\ keys # {}
  /\ deleting' = [deleting EXCEPT ![t] = k]
  /\ UNCHANGED <<nextkey, keys, mine, key_pc, tries, current, allocated, failures, wild, last>>

\* Mutant of KeyDeleteRest: the key is unlinked and not freed.
KeyDeleteRestKeeps(t) ==
  /\ deleting[t] # NULL
  /\ keys' = {x \in keys : x.id # deleting[t]}
  /\ wild' = (wild \/ keys = {})
  /\ deleting' = [deleting EXCEPT ![t] = NULL]
  /\ UNCHANGED <<nextkey, mine, key_pc, tries, current, allocated, failures, last>>

\* In the critical section the list is taken to have a head still.
KeyDeleteRest(t) ==
  /\ deleting[t] # NULL
  /\ LET old == {x \in keys : x.id = deleting[t]} IN
     /\ keys' = keys \ old
     /\ allocated' = allocated - Cardinality(old)
  /\ wild' = (wild \/ keys = {})
  /\ deleting' = [deleting EXCEPT ![t] = NULL]
  /\ UNCHANGED <<nextkey, mine, key_pc, tries, current, failures, last>>

\* Mutant of Stored: the value is found for a key of the list only by chance.
StoredAtEnd(s, n) == Append(s, n)

\* The list s with the node of n's key, which may be new, set to n.
Stored(s, n) ==
  IF n.id \in IdsOf(s) THEN [i \in DOMAIN s |-> IF s[i].id = n.id THEN n ELSE s[i]]
  ELSE <<n>> \o s

SetSpecific(t, k, v) ==
  /\ Calls(t)
  /\ \E x \in keys :
       /\ x.id = k
       /\ mine' = [mine EXCEPT ![t] = Stored(@, [id |-> k, dtor |-> x.dtor, value |-> v])]
  /\ allocated' = allocated + Len(mine'[t]) - Len(mine[t])
  /\ last' = [last EXCEPT ![t][k] = v]
  /\ UNCHANGED <<nextkey, keys, key_pc, deleting, tries, current, failures, wild>>

\* What pthread_getspecific returns.
GetSpecific(t, k) ==
  IF k \in IdsOf(mine[t])
  THEN mine[t][Min({i \in DOMAIN mine[t] : mine[t][i].id = k})].value
  ELSE NULL

\* pthread_exit, up to __pthread_key_calldestructors.
Exit(t) ==
  /\ key_pc[t] = "run" /\ deleting[t] = NULL
  /\ key_pc' = [key_pc EXCEPT ![t] = "loop"]
  /\ UNCHANGED <<nextkey, keys, mine, deleting, tries, current, allocated, failures, wild, last>>

Wanted(n) == n.value # NULL /\ n.dtor

\* Mutant of TakeAndCall: the calls are not counted.
TakeAndCallForever(t) ==
  /\ key_pc[t] = "loop" /\ mine[t] # << >>
  /\ Wanted(Head(mine[t])) /\ tries[t] < Iterations
  /\ mine' = [mine EXCEPT ![t] = Tail(@)]
  /\ current' = [current EXCEPT ![t] = Head(mine[t])]
  /\ last' = [last EXCEPT ![t][Head(mine[t]).id] = NULL]
  /\ key_pc' = [key_pc EXCEPT ![t] = "dtor"]
  /\ UNCHANGED <<nextkey, keys, deleting, tries, allocated, failures, wild>>

\* The head of the list is taken off it, and its destructor called.
TakeAndCall(t) ==
  /\ key_pc[t] = "loop" /\ mine[t] # << >>
  /\ Wanted(Head(mine[t])) /\ tries[t] < Iterations
  /\ mine' = [mine EXCEPT ![t] = Tail(@)]
  /\ current' = [current EXCEPT ![t] = Head(mine[t])]
  /\ last' = [last EXCEPT ![t][Head(mine[t]).id] = NULL]
  /\ tries' = [tries EXCEPT ![t] = @ + 1]
  /\ key_pc' = [key_pc EXCEPT ![t] = "dtor"]
  /\ UNCHANGED <<nextkey, keys, deleting, allocated, failures, wild>>

\* It has no value or no destructor, or there have been too many calls.
TakeAndFree(t) ==
  /\ key_pc[t] = "loop" /\ mine[t] # << >>
  /\ ~(Wanted(Head(mine[t])) /\ tries[t] < Iterations)
  /\ mine' = [mine EXCEPT ![t] = Tail(@)]
  /\ current' = [current EXCEPT ![t] = Head(mine[t])]
  /\ last' = [last EXCEPT ![t][Head(mine[t]).id] = NULL]
  /\ key_pc' = [key_pc EXCEPT ![t] = "free"]
  /\ UNCHANGED <<nextkey, keys, deleting, tries, allocated, failures, wild>>

\* The destructor returns, and free_unlocked is called.
DestructorReturns(t) ==
  /\ key_pc[t] = "dtor" /\ deleting[t] = NULL
  /\ key_pc' = [key_pc EXCEPT ![t] = "free"]
  /\ UNCHANGED <<nextkey, keys, mine, deleting, tries, current, allocated, failures, wild, last>>

\* free_unlocked returns.
Freed(t) ==
  /\ key_pc[t] = "free"
  /\ allocated' = allocated - 1
  /\ current' = [current EXCEPT ![t] = NULL]
  /\ key_pc' = [key_pc EXCEPT ![t] = "loop"]
  /\ UNCHANGED <<nextkey, keys, mine, deleting, tries, failures, wild, last>>

\* The list is empty, and pthread_exit goes on.
ExitRest(t) ==
  /\ key_pc[t] = "loop" /\ mine[t] = << >>
  /\ key_pc' = [key_pc EXCEPT ![t] = "idle"]
  /\ UNCHANGED <<nextkey, keys, mine, deleting, tries, current, allocated, failures, wild, last>>

KeysInit ==
  /\ nextkey = 0 /\ keys = {}
  /\ mine = [t \in Threads |-> << >>]
  /\ key_pc = [t \in Threads |-> "run"]
  /\ deleting = [t \in Threads |-> NULL]
  /\ tries = [t \in Threads |-> 0]
  /\ current = [t \in Threads |-> NULL]
  /\ allocated = 0 /\ failures = 0 /\ wild = FALSE
  /\ last = [t \in Threads |-> [k \in Ids |-> NULL]]

\* What a thread that has called pthread_exit does, or a call it is in.
KeysContinue(t) == \/ KeyDeleteRest(t) \/ TakeAndCall(t) \/ TakeAndFree(t)
                   \/ DestructorReturns(t) \/ Freed(t) \/ ExitRest(t)

KeysNext ==
  \E t \in Threads :
    \/ KeysContinue(t)
    \/ Exit(t)
    \/ KeyCreateFails(t)
    \/ \E d \in BOOLEAN : KeyCreate(t, d)
    \/ \E k \in Ids : KeyDelete(t, k)
    \/ \E k \in Ids, v \in Values \cup {NULL} : SetSpecific(t, k, v)

KeysSpec == KeysInit /\ [][KeysNext]_keysVars

\* A destructor returns after all it may do; the scheduler is fair.
FairKeysSpec ==
  /\ KeysSpec
  /\ \A t \in Threads : /\ WF_keysVars(KeyDeleteRest(t) \/ TakeAndCall(t) \/ TakeAndFree(t)
                                        \/ Freed(t) \/ ExitRest(t))
                        /\ SF_keysVars(DestructorReturns(t))

-----------------------------------------------------------------------------
(***************************************************************************)
(* Properties.                                                             *)
(***************************************************************************)

\* A key has one node in a list at most, and the key that is created next is
\* in none of them: a new key has the value NULL in every thread, those
\* included that still have a value of a deleted key.
KeysAreFresh ==
  /\ \A t \in Threads : /\ \A i, j \in DOMAIN mine[t] : mine[t][i].id = mine[t][j].id => i = j
                        /\ KeysLeft => NewKey \notin IdsOf(mine[t])
  /\ \A x, y \in keys : x.id = y.id => x = y

\* pthread_getspecific returns what this thread has set last, and NULL for a
\* key that is new or whose destructor has been called.
GetsWhatWasSet == \A t \in Threads, k \in Ids : k < nextkey => GetSpecific(t, k) = last[t][k]

\* The places of the threads' lists, and the threads that have taken a node off.
Linked == UNION {{t} \X DOMAIN mine[t] : t \in Threads}
Taking == {t \in Threads : current[t] # NULL}

\* Every node that was allocated is in a list or about to be freed, but for
\* those of the calls of pthread_key_create that returned EAGAIN.
NodesAccounted ==
  allocated = Cardinality(keys) + failures + Cardinality(Linked) + Cardinality(Taking)

\* "Key doesn't exist" (key.c) is an error, and not a null pointer followed.
NoWildRead == ~wild

\* pthread_exit gets to its end, although destructors may set values again.
ExitEnds == \A t \in Threads : key_pc[t] = "loop" ~> key_pc[t] = "idle"

\* Nodes of keys and values are freed once, and none is read that is not there.
NodesInv == KeysTypeOK /\ NodesAccounted /\ NoWildRead

\* A thread reads what it has set, and NULL for a new key.
ValuesInv == KeysAreFresh /\ GetsWhatWasSet
=============================================================================
