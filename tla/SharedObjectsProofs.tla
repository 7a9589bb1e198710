------------------------- MODULE SharedObjectsProofs -------------------------
(***************************************************************************)
(* The counts, the lists and the array of the Shared Object Manager agree, *)
(* for any clients, libraries, names and clock, whatever fails and whoever *)
(* runs between the SWIs of a load.  Then, one after the other, what is    *)
(* said of the libraries: no memory is lost; the arrays of the programs    *)
(* are right; what is listed, found or used is in memory; and an idle      *)
(* library goes in time, and not before.                                   *)
(***************************************************************************)
EXTENDS SharedObjects, FiniteSetTheorems, SequenceTheorems, TLAPS

USE DEF MaxIdle, Period, Wrap

Users(b) == {c \in Clients : b \in libs[c]}

(* A task without a client structure has no libraries: so a program that   *)
(* starts is counted once for its loader.                                  *)
NewcomersInv == \A c \in Clients \ reg : libs[c] = {}

(* Only a client loads, and what it is about to register has an address.   *)
LoadInv ==
  \A c \in Clients : pc[c] # NULL => c \in reg /\ (pc[c].at = "ready" => pc[c].h \in Blocks)

IInv == TypeOK /\ UsageExact /\ SlotsExact /\ NewcomersInv /\ LoadInv

(* The two halves of the invariant: the manager's lists, and the programs. *)
ObjectsOK ==
  /\ UsageExact /\ SlotsExact
  /\ listed \subseteq Blocks
  /\ name \in [Blocks -> Names \cup {NULL}]
  /\ usage \in [Blocks -> Nat]
  /\ expire \in [Blocks -> 0 .. Wrap - 1]
  /\ index \in [Blocks -> 0 .. MaxSlots]
  /\ slots \in Seq(Blocks \cup {NULL})
  /\ libs \in [Clients -> SUBSET Blocks]
  /\ idle \in [Blocks -> 0 .. MaxIdle + Period]

ProgramsOK ==
  /\ NewcomersInv /\ LoadInv
  /\ mem \in [Blocks -> Names \cup {NULL}]
  /\ reg \subseteq Clients /\ booted \subseteq reg
  /\ using \in [Clients -> SUBSET (Names \X Blocks)]
  /\ opening \in [Clients -> SUBSET (Names \X Blocks)]
  /\ opened \in [Clients -> SUBSET (Names \X Blocks)]
  /\ arr \in [Clients -> Seq(Blocks \cup {NULL}) \cup {NULL}]
  /\ pc \in [Clients -> [n : Names, h : Blocks \cup {NULL}, at : {"found", "ready"}] \cup {NULL}]

ClockOK == env \in Settings /\ now \in 0 .. Wrap - 1 /\ count \in 1 .. Period /\ pending \in BOOLEAN

LEMMA Halves == IInv <=> ObjectsOK /\ ProgramsOK /\ ClockOK
BY DEF IInv, TypeOK, ObjectsOK, ProgramsOK, ClockOK

LEMMA HalvesPrime == ObjectsOK' /\ ProgramsOK' /\ ClockOK' => IInv'
BY DEF IInv, TypeOK, ObjectsOK, ProgramsOK, ClockOK

(* A program that starts is registered for its loader once, and ld.so asks *)
(* before it registers: the count grows with the set of clients.           *)
LEMMA UsageAdd ==
  ASSUME IInv, UNCHANGED env, NEW c \in Clients, NEW b \in Blocks, b \notin libs[c],
         usage' = [usage EXCEPT ![b] = @ + 1],
         libs' = [libs EXCEPT ![c] = @ \cup {b}],
         listed' = listed \cup {b}
  PROVE  UsageExact' /\ usage' \in [Blocks -> Nat]
<1>1. \A d \in Blocks : IsFiniteSet(Users(d))
  BY FS_Subset, SharedObjectsAssumption DEF SharedObjectsAssumption, Users
<1>2. ASSUME NEW d \in Blocks
      PROVE  usage'[d] = Cardinality({e \in Clients : d \in libs'[e]})
  <2>1. CASE d = b
    <3>1. {e \in Clients : d \in libs'[e]} = Users(b) \cup {c}
      BY <2>1 DEF Users, IInv, TypeOK
    <3>2. c \notin Users(b)
      BY DEF Users
    <3>3. Cardinality(Users(b) \cup {c}) = Cardinality(Users(b)) + 1
      BY <1>1, <3>2, FS_AddElement
    <3> QED BY <2>1, <3>1, <3>3 DEF IInv, TypeOK, UsageExact, Users
  <2>2. CASE d # b
    <3>1. {e \in Clients : d \in libs'[e]} = {e \in Clients : d \in libs[e]}
      BY <2>2 DEF IInv, TypeOK
    <3> QED BY <2>2, <3>1 DEF IInv, TypeOK, UsageExact
  <2> QED BY <2>1, <2>2
<1>3. \A e \in Clients : libs'[e] \subseteq listed'
  BY DEF IInv, TypeOK, UsageExact
<1> QED BY <1>2, <1>3 DEF UsageExact, IInv, TypeOK

(* A client lets go of libraries it has: none is counted below zero.       *)
LEMMA UsageLetGo ==
  ASSUME IInv, UNCHANGED env, NEW c \in Clients, NEW S \in SUBSET libs[c],
         usage' = [b \in Blocks |-> IF b \in S THEN usage[b] - 1 ELSE usage[b]],
         libs' = [libs EXCEPT ![c] = @ \ S],
         \A e \in Clients : libs'[e] \subseteq listed'
  PROVE  UsageExact' /\ usage' \in [Blocks -> Nat]
<1>1. \A d \in Blocks : IsFiniteSet(Users(d)) /\ Cardinality(Users(d)) \in Nat
  BY FS_Subset, FS_CardinalityType, SharedObjectsAssumption DEF SharedObjectsAssumption, Users
<1>2. ASSUME NEW d \in Blocks
      PROVE  usage'[d] = Cardinality({e \in Clients : d \in libs'[e]}) /\ usage'[d] \in Nat
  <2>1. CASE d \in S
    <3>1. {e \in Clients : d \in libs'[e]} = Users(d) \ {c}
      BY <2>1 DEF Users, IInv, TypeOK
    <3>2. c \in Users(d)
      BY <2>1 DEF Users
    <3>3. Cardinality(Users(d) \ {c}) = Cardinality(Users(d)) - 1 /\ Cardinality(Users(d) \ {c}) \in Nat
      BY <1>1, <3>2, FS_RemoveElement, FS_CardinalityType
    <3> QED BY <2>1, <3>1, <3>3 DEF IInv, UsageExact, Users
  <2>2. CASE d \notin S
    <3>1. {e \in Clients : d \in libs'[e]} = {e \in Clients : d \in libs[e]}
      BY <2>2 DEF IInv, TypeOK
    <3> QED BY <2>2, <3>1 DEF IInv, TypeOK, UsageExact
  <2> QED BY <2>1, <2>2
<1> QED BY <1>2 DEF UsageExact

(* Nobody has a library whose count is zero.                               *)
LEMMA Unheld ==
  ASSUME IInv, NEW b \in Blocks, usage[b] = 0
  PROVE  \A c \in Clients : b \notin libs[c]
<1>1. IsFiniteSet(Users(b))
  BY FS_Subset, SharedObjectsAssumption DEF SharedObjectsAssumption, Users
<1>2. Cardinality(Users(b)) = 0
  BY DEF IInv, UsageExact, Users
<1>3. Users(b) = {}
  BY <1>1, <1>2, FS_EmptySet
<1> QED BY <1>3 DEF Users

(* A library with one user has no other.                                   *)
LEMMA OneHolder ==
  ASSUME IInv, NEW b \in Blocks, NEW c \in Clients, b \in libs[c], usage[b] = 1
  PROVE  \A d \in Clients \ {c} : b \notin libs[d]
<1>1. IsFiniteSet(Users(b))
  BY FS_Subset, SharedObjectsAssumption DEF SharedObjectsAssumption, Users
<1>2. Cardinality(Users(b)) = 1 /\ c \in Users(b)
  BY DEF IInv, UsageExact, Users
<1>3. IsFiniteSet(Users(b) \ {c}) /\ Cardinality(Users(b) \ {c}) = 0
  BY <1>1, <1>2, FS_RemoveElement
<1>4. Users(b) \ {c} = {}
  BY <1>3, FS_EmptySet
<1> QED BY <1>4 DEF Users

(* A new library takes a slot nobody has.                                  *)
LEMMA SlotsAdd ==
  ASSUME IInv, UNCHANGED env, NEW b \in Blocks, b \notin listed, NEW n \in Names, AddGlobal(b, n)
  PROVE  /\ SlotsExact'
         /\ listed' = listed \cup {b}
         /\ name' \in [Blocks -> Names \cup {NULL}]
         /\ index' \in [Blocks -> 0 .. MaxSlots]
         /\ slots' \in Seq(Blocks \cup {NULL})
<1>1. PICK i \in 1 .. MaxSlots :
        /\ NewIndex(i)
        /\ listed' = listed \cup {b}
        /\ name' = [name EXCEPT ![b] = n]
        /\ index' = [index EXCEPT ![b] = i]
        /\ slots' = IF i > Len(slots) THEN Append(slots, b) ELSE [slots EXCEPT ![i] = b]
  BY DEF AddGlobal
<1>2. i \in 1 .. Len(slots) + 1 /\ (i <= Len(slots) => slots[i] = NULL)
  BY <1>1 DEF NewIndex
<1>3. /\ slots \in Seq(Blocks \cup {NULL}) /\ Len(slots) \in Nat /\ DOMAIN slots = 1 .. Len(slots)
      /\ listed \subseteq Blocks /\ NULL \notin Blocks
      /\ index \in [Blocks -> 0 .. MaxSlots] /\ name \in [Blocks -> Names \cup {NULL}]
      /\ MaxSlots \in Nat
  BY SharedObjectsAssumption DEF IInv, TypeOK, SharedObjectsAssumption
<1>4. /\ slots' \in Seq(Blocks \cup {NULL})
      /\ i \in DOMAIN slots' /\ slots'[i] = b
      /\ \A k \in DOMAIN slots : k # i => k \in DOMAIN slots' /\ slots'[k] = slots[k]
      /\ \A k \in DOMAIN slots' : k # i => k \in DOMAIN slots
  <2>1. CASE i > Len(slots)
    <3>1. slots' = Append(slots, b) /\ i = Len(slots) + 1
      BY <1>1, <1>2, <1>3, <2>1
    <3> QED BY <1>3, <3>1, AppendProperties
  <2>2. CASE ~(i > Len(slots))
    <3>1. slots' = [slots EXCEPT ![i] = b] /\ i \in 1 .. Len(slots)
      BY <1>1, <1>2, <1>3, <2>2
    <3> QED BY <1>3, <3>1, ExceptSeq
  <2> QED BY <2>1, <2>2
<1>5. \A d \in listed : index[d] \in DOMAIN slots /\ slots[index[d]] = d /\ d # NULL /\ index[d] # i
  BY <1>2, <1>3 DEF IInv, SlotsExact
<1>6. index'[b] = i /\ \A d \in listed : index'[d] = index[d]
  BY <1>1, <1>3
<1>7. \A d \in listed' : index'[d] \in DOMAIN slots' /\ slots'[index'[d]] = d
  BY <1>1, <1>4, <1>5, <1>6
<1>8. ASSUME NEW k \in DOMAIN slots', slots'[k] # NULL
      PROVE  slots'[k] \in listed' /\ index'[slots'[k]] = k
  <2>1. CASE k = i
    BY <1>1, <1>4, <1>6, <2>1
  <2>2. CASE k # i
    <3>1. k \in DOMAIN slots /\ slots'[k] = slots[k]
      BY <1>4, <2>2
    <3>2. slots[k] \in listed /\ index[slots[k]] = k
      BY <1>8, <3>1 DEF IInv, SlotsExact
    <3> QED BY <1>1, <1>6, <3>1, <3>2
  <2> QED BY <2>1, <2>2
<1>9. SlotsExact'
  BY <1>7, <1>8 DEF SlotsExact
<1>10. name' \in [Blocks -> Names \cup {NULL}] /\ index' \in [Blocks -> 0 .. MaxSlots]
  BY <1>1, <1>3
<1> QED BY <1>1, <1>4, <1>9, <1>10

(* Libraries that leave give up their own slots.                           *)
LEMMA SlotsRemove ==
  ASSUME IInv, UNCHANGED env, NEW S \in SUBSET listed, Remove(S)
  PROVE  /\ SlotsExact'
         /\ listed' = listed \ S
         /\ name' \in [Blocks -> Names \cup {NULL}]
         /\ index' \in [Blocks -> 0 .. MaxSlots]
         /\ slots' \in Seq(Blocks \cup {NULL})
<1>1. /\ slots \in Seq(Blocks \cup {NULL}) /\ Len(slots) \in Nat /\ DOMAIN slots = 1 .. Len(slots)
      /\ listed \subseteq Blocks /\ NULL \notin Blocks
      /\ index \in [Blocks -> 0 .. MaxSlots] /\ name \in [Blocks -> Names \cup {NULL}]
      /\ MaxSlots \in Nat
  BY SharedObjectsAssumption DEF IInv, TypeOK, SharedObjectsAssumption
<1>2. DOMAIN slots' = DOMAIN slots
  BY DEF Remove
<1>3. slots' \in Seq(Blocks \cup {NULL})
  <2>1. slots' \in [1 .. Len(slots) -> Blocks \cup {NULL}]
    BY <1>1 DEF Remove
  <2> QED BY <1>1, <2>1, SeqDef
<1>4. \A d \in listed' : index'[d] = index[d] /\ d \in listed /\ d \notin S
  BY <1>1 DEF Remove
<1>5. ASSUME NEW d \in listed' PROVE index'[d] \in DOMAIN slots' /\ slots'[index'[d]] = d
  <2>1. slots[index[d]] = d /\ index[d] \in DOMAIN slots
    BY <1>4 DEF IInv, SlotsExact
  <2>2. \A b \in S : index[b] # index[d]
    BY <1>4, <2>1 DEF IInv, SlotsExact
  <2> QED BY <1>2, <1>4, <2>1, <2>2 DEF Remove
<1>6. ASSUME NEW k \in DOMAIN slots', slots'[k] # NULL
      PROVE  slots'[k] \in listed' /\ index'[slots'[k]] = k
  <2>1. slots'[k] = slots[k] /\ \A b \in S : index[b] # k
    BY <1>2, <1>6 DEF Remove
  <2>2. slots[k] \in listed /\ index[slots[k]] = k
    BY <1>2, <1>6, <2>1 DEF IInv, SlotsExact
  <2>3. slots[k] \in listed'
    BY <2>1, <2>2 DEF Remove
  <2> QED BY <1>4, <2>1, <2>2, <2>3
<1>7. SlotsExact'
  BY <1>5, <1>6 DEF SlotsExact
<1>8. name' \in [Blocks -> Names \cup {NULL}] /\ index' \in [Blocks -> 0 .. MaxSlots]
  BY <1>1 DEF Remove
<1> QED BY <1>3, <1>7, <1>8 DEF Remove

(* The times of a setting.                                                 *)
LEMMA Times ==
  ASSUME env \in Settings
  PROVE  MaxIdle \in Nat /\ Period \in Nat \ {0} /\ Wrap \in Nat \ {0}
<1>1. env \in SettingType
  BY SharedObjectsAssumption DEF SharedObjectsAssumption
<1> QED BY <1>1 DEF SettingType

LEMMA Remainder == \A m \in Nat \ {0}, x \in Nat : x % m \in 0 .. m - 1
OBVIOUS

(* A time after now is a time.                                             *)
LEMMA LaterType ==
  ASSUME TypeOK
  PROVE  (now + MaxIdle) % Wrap \in 0 .. Wrap - 1 /\ 0 \in 0 .. Wrap - 1 /\ 0 \in 0 .. MaxIdle + Period
<1>1. MaxIdle \in Nat /\ Period \in Nat \ {0} /\ Wrap \in Nat \ {0}
  BY Times DEF TypeOK
<1>2. now \in Nat /\ now + MaxIdle \in Nat
  BY <1>1 DEF TypeOK
<1>3. (now + MaxIdle) % Wrap \in 0 .. Wrap - 1
  BY <1>1, <1>2, Remainder, Zenon
<1> QED BY <1>1, <1>3

(* The new entry, or the one that is there.                                *)
LEMMA GlobalStep ==
  ASSUME IInv, UNCHANGED env, NEW b \in Blocks, NEW n \in Names, Global(b, n)
  PROVE  /\ SlotsExact'
         /\ listed' = listed \cup {b}
         /\ name' \in [Blocks -> Names \cup {NULL}]
         /\ index' \in [Blocks -> 0 .. MaxSlots]
         /\ slots' \in Seq(Blocks \cup {NULL})
         /\ expire' \in [Blocks -> 0 .. Wrap - 1]
         /\ idle' \in [Blocks -> 0 .. MaxIdle + Period]
<1>1. CASE b \in listed
  <2>1. UNCHANGED <<listed, name, index, slots>>
    BY <1>1 DEF Global
  <2>2. SlotsExact'
    BY <2>1 DEF IInv, SlotsExact
  <2>3. UNCHANGED <<expire, idle>>
    BY <1>1 DEF Global, IInv, TypeOK
  <2> QED BY <1>1, <2>1, <2>2, <2>3 DEF IInv, TypeOK
<1>2. CASE b \notin listed
  <2>1. AddGlobal(b, n) /\ expire' = [expire EXCEPT ![b] = 0] /\ idle' = [idle EXCEPT ![b] = 0]
    BY <1>2 DEF Global
  <2>2. expire' \in [Blocks -> 0 .. Wrap - 1] /\ idle' \in [Blocks -> 0 .. MaxIdle + Period]
    BY <2>1, LaterType DEF IInv, TypeOK
  <2> QED BY <1>2, <2>1, <2>2, SlotsAdd
<1> QED BY <1>1, <1>2

(* som_register_sharedobject, and when it fails half way.                  *)
LEMMA RegisterStep ==
  ASSUME IInv, UNCHANGED env, NEW c \in Clients, NEW b \in Blocks, NEW n \in Names, b \notin libs[c],
         RegisterObject(c, b, n)
  PROVE  ObjectsOK'
<1>1. Global(b, n) /\ usage' = [usage EXCEPT ![b] = @ + 1] /\ libs' = [libs EXCEPT ![c] = @ \cup {b}]
  BY DEF RegisterObject
<1>2. listed' = listed \cup {b}
  BY <1>1, GlobalStep
<1>3. UsageExact' /\ usage' \in [Blocks -> Nat]
  BY <1>1, <1>2, UsageAdd
<1>4. libs' \in [Clients -> SUBSET Blocks] /\ listed' \subseteq Blocks
  BY <1>1, <1>2 DEF IInv, TypeOK
<1> QED BY <1>1, <1>3, <1>4, GlobalStep DEF ObjectsOK

LEMMA HalfStep ==
  ASSUME IInv, UNCHANGED env, NEW c \in Clients, NEW b \in Blocks, NEW n \in Names, RegisterHalf(c, b, n)
  PROVE  ObjectsOK'
<1>1. Global(b, n) /\ UNCHANGED <<usage, libs>>
  BY DEF RegisterHalf
<1>2. listed' = listed \cup {b}
  BY <1>1, GlobalStep
<1>3. UsageExact'
  BY <1>1, <1>2 DEF IInv, UsageExact
<1>4. usage' \in [Blocks -> Nat] /\ libs' \in [Clients -> SUBSET Blocks] /\ listed' \subseteq Blocks
  BY <1>1, <1>2 DEF IInv, TypeOK
<1> QED BY <1>1, <1>3, <1>4, GlobalStep DEF ObjectsOK

(* A client lets go of libraries, which stay on the list.                  *)
LEMMA LetGoStep ==
  ASSUME IInv, UNCHANGED env, NEW c \in Clients, NEW S \in SUBSET libs[c],
         LetGo(S), libs' = [libs EXCEPT ![c] = @ \ S]
  PROVE  ObjectsOK'
<1>1. UNCHANGED <<listed, name, index, slots>>
  BY DEF LetGo
<1>2. \A e \in Clients : libs'[e] \subseteq listed'
  BY <1>1 DEF IInv, TypeOK, UsageExact
<1>3. UsageExact' /\ usage' \in [Blocks -> Nat]
  BY <1>2, UsageLetGo DEF LetGo
<1>4. SlotsExact'
  BY <1>1 DEF IInv, SlotsExact
<1>5. expire' \in [Blocks -> 0 .. Wrap - 1] /\ idle' \in [Blocks -> 0 .. MaxIdle + Period]
  BY LaterType DEF LetGo, IInv, TypeOK
<1>6. libs' \in [Clients -> SUBSET Blocks]
  BY DEF IInv, TypeOK
<1> QED BY <1>1, <1>3, <1>4, <1>5, <1>6 DEF ObjectsOK, IInv, TypeOK

(* A client lets go of libraries, and some leave the list with that: those *)
(* no other client has.                                                    *)
LEMMA LetGoRemovingStep ==
  ASSUME IInv, UNCHANGED env, NEW c \in Clients, NEW S \in SUBSET libs[c], NEW R \in SUBSET listed,
         \A b \in R : b \in libs[c] => b \in S,
         \A b \in R : \A e \in Clients \ {c} : b \notin libs[e],
         LetGoRemoving(S, R), libs' = [libs EXCEPT ![c] = @ \ S]
  PROVE  ObjectsOK'
<1>1. Remove(R) /\ usage' = [b \in Blocks |-> IF b \in S THEN usage[b] - 1 ELSE usage[b]]
  BY DEF LetGoRemoving
<1>2. expire' \in [Blocks -> 0 .. Wrap - 1] /\ idle' \in [Blocks -> 0 .. MaxIdle + Period]
  BY LaterType DEF LetGoRemoving, IInv, TypeOK
<1>3. listed' = listed \ R /\ listed' \subseteq Blocks
  BY <1>1, SlotsRemove DEF IInv, TypeOK
<1>4. libs' \in [Clients -> SUBSET Blocks]
  BY DEF IInv, TypeOK
<1>5. \A e \in Clients : libs'[e] \subseteq listed'
  BY <1>3 DEF IInv, TypeOK, UsageExact
<1>6. UsageExact' /\ usage' \in [Blocks -> Nat]
  BY <1>1, <1>5, UsageLetGo
<1> QED BY <1>1, <1>2, <1>3, <1>4, <1>6, SlotsRemove DEF ObjectsOK

(* What a failed dlopen removes at once, no other client has.              *)
LEMMA BogusAlone ==
  ASSUME IInv, NEW c \in Clients
  PROVE  /\ Bogus(c) \in SUBSET listed
         /\ \A b \in Bogus(c) : b \in libs[c] => b \in Handles(opening[c]) \cap libs[c]
         /\ \A b \in Bogus(c) : \A e \in Clients \ {c} : b \notin libs[e]
<1>1. ASSUME NEW b \in Bogus(c)
      PROVE  b \in listed /\ b \in Blocks /\ b \in Handles(opening[c])
             /\ (IF b \in libs[c] THEN usage[b] = 1 ELSE usage[b] = 0)
  BY DEF Bogus, Handles, IInv, TypeOK
<1>2. ASSUME NEW b \in Bogus(c), NEW e \in Clients \ {c} PROVE b \notin libs[e]
  <2>1. b \in libs[c] /\ usage[b] = 1 => b \notin libs[e]
    BY <1>1, OneHolder
  <2>2. usage[b] = 0 => b \notin libs[e]
    BY <1>1, Unheld
  <2> QED BY <1>1, <2>1, <2>2
<1> QED BY <1>1, <1>2

(* Libraries that nobody uses are removed.                                 *)
LEMMA RemoveStep ==
  ASSUME IInv, UNCHANGED env, NEW S \in SUBSET listed, \A b \in S : usage[b] = 0,
         Remove(S), UNCHANGED <<usage, libs>>,
         expire' \in [Blocks -> 0 .. Wrap - 1], idle' \in [Blocks -> 0 .. MaxIdle + Period]
  PROVE  ObjectsOK'
<1>1. listed' = listed \ S /\ listed' \subseteq Blocks /\ S \subseteq Blocks
  BY SlotsRemove DEF IInv, TypeOK
<1>2. \A b \in S : \A c \in Clients : b \notin libs[c]
  BY <1>1, Unheld
<1>3. UsageExact'
  BY <1>1, <1>2 DEF IInv, UsageExact
<1> QED BY <1>1, <1>3, SlotsRemove DEF ObjectsOK, IInv, TypeOK

LEMMA DeregisterStep ==
  ASSUME IInv, UNCHANGED env, NEW c \in Clients, NEW b \in Blocks, DeregisterObject(c, b)
  PROVE  ObjectsOK' /\ mem' \in [Blocks -> Names \cup {NULL}] /\ \A d \in Clients : libs'[d] \subseteq libs[d]
<1>1. CASE b \in libs[c] /\ LetGo({b}) /\ libs' = [libs EXCEPT ![c] = @ \ {b}] /\ UNCHANGED mem
  <2>1. {b} \in SUBSET libs[c]
    BY <1>1
  <2>2. ObjectsOK'
    BY <1>1, <2>1, LetGoStep
  <2> QED BY <1>1, <2>2 DEF IInv, TypeOK
<1>2. CASE /\ b \in listed \ libs[c] /\ usage[b] = 0
           /\ Remove({b}) /\ Free({b})
           /\ expire' = [expire EXCEPT ![b] = 0]
           /\ idle' = [idle EXCEPT ![b] = 0]
           /\ UNCHANGED <<usage, libs>>
  <2>1. expire' \in [Blocks -> 0 .. Wrap - 1] /\ idle' \in [Blocks -> 0 .. MaxIdle + Period]
    BY <1>2, LaterType DEF IInv, TypeOK
  <2>2. ObjectsOK'
    BY <1>2, <2>1, RemoveStep
  <2>3. mem' \in [Blocks -> Names \cup {NULL}]
    BY <1>2 DEF Free, IInv, TypeOK
  <2> QED BY <1>2, <2>2, <2>3
<1>3. CASE UNCHANGED <<mem, global, libs, idle>>
  BY <1>3 DEF global, ObjectsOK, IInv, TypeOK, UsageExact, SlotsExact
<1> QED BY <1>1, <1>2, <1>3 DEF DeregisterObject

(* som_generate_runtime_array makes an array.                              *)
LEMMA RuntimeArrayType ==
  ASSUME NEW S \in SUBSET Blocks, NEW array \in Seq(Blocks \cup {NULL}), NEW at
  PROVE  RuntimeArray(S, array, at) \in Seq(Blocks \cup {NULL})
<1>1. Len(array) \in Nat /\ DOMAIN array = 1 .. Len(array)
  BY LenProperties
<1>2. RuntimeArray(S, array, at) \in [1 .. Len(array) -> Blocks \cup {NULL}]
  BY <1>1 DEF RuntimeArray
<1> QED BY <1>1, <1>2, SeqDef

(* A program that has left: its loader's state is gone with it.            *)
LEMMA GoneStep ==
  ASSUME IInv, UNCHANGED env, NEW c \in Clients, Forget(c), Gone(c), mem' \in [Blocks -> Names \cup {NULL}]
  PROVE  ProgramsOK'
<1> USE DEF IInv, TypeOK, Forget, Gone
<1>1. NewcomersInv'
  BY DEF NewcomersInv
<1>2. LoadInv'
  BY DEF LoadInv
<1>3. reg' \subseteq Clients /\ booted' \subseteq reg'
  OBVIOUS
<1>4. /\ using' \in [Clients -> SUBSET (Names \X Blocks)]
      /\ opening' \in [Clients -> SUBSET (Names \X Blocks)]
      /\ opened' \in [Clients -> SUBSET (Names \X Blocks)]
  OBVIOUS
<1>5. arr' \in [Clients -> Seq(Blocks \cup {NULL}) \cup {NULL}]
  OBVIOUS
<1>6. pc' \in [Clients -> [n : Names, h : Blocks \cup {NULL}, at : {"found", "ready"}] \cup {NULL}]
  OBVIOUS
<1> QED BY <1>1, <1>2, <1>3, <1>4, <1>5, <1>6 DEF ProgramsOK

(* A client that leaves gives all its libraries back.                      *)
LEMMA LeaveStep ==
  ASSUME IInv, UNCHANGED env, NEW c \in Clients, LetGo(libs[c]), Forget(c), Gone(c),
         mem' \in [Blocks -> Names \cup {NULL}]
  PROVE  ObjectsOK' /\ ProgramsOK'
<1>1. libs' = [libs EXCEPT ![c] = @ \ libs[c]]
  BY DEF Forget, IInv, TypeOK
<1>2. libs[c] \in SUBSET libs[c]
  OBVIOUS
<1>3. ObjectsOK'
  BY <1>1, <1>2, LetGoStep
<1> QED BY <1>3, GoneStep

(* A dlopen that fails gives back what it has opened.                      *)
LEMMA CloseStep ==
  ASSUME IInv, UNCHANGED env, NEW c \in Clients, NEW m \in [Blocks -> Names \cup {NULL}],
         CloseOpening(c, m), pc' \in {pc, [pc EXCEPT ![c] = NULL]},
         arr' \in {arr, [arr EXCEPT ![c] = NULL]},
         using' \in [Clients -> SUBSET (Names \X Blocks)]
  PROVE  ObjectsOK' /\ ProgramsOK' /\ ClockOK'
<1> DEFINE mine == Handles(opening[c]) \cap libs[c]
<1>1. LetGoRemoving(mine, Bogus(c)) /\ libs' = [libs EXCEPT ![c] = @ \ mine]
  <2>1. libs' = [libs EXCEPT ![c] = @ \ Handles(opening[c])]
    BY DEF CloseOpening
  <2>2. libs[c] \ Handles(opening[c]) = libs[c] \ mine
    OBVIOUS
  <2> QED BY <2>1, <2>2 DEF CloseOpening, IInv, TypeOK
<1>2. mine \in SUBSET libs[c] /\ \A b \in Bogus(c) : b \in libs[c] => b \in mine
  BY BogusAlone
<1> HIDE DEF mine
<1>3. ObjectsOK'
  BY <1>1, <1>2, BogusAlone, LetGoRemovingStep
<1>4. opening' \in [Clients -> SUBSET (Names \X Blocks)] /\ UNCHANGED <<reg, booted, opened, clock>>
  BY DEF CloseOpening, IInv, TypeOK
<1>5. NewcomersInv'
  BY <1>1, <1>4 DEF NewcomersInv, IInv, TypeOK
<1>6. LoadInv' /\ pc' \in [Clients -> [n : Names, h : Blocks \cup {NULL}, at : {"found", "ready"}] \cup {NULL}]
  <2>1. CASE pc' = pc
    BY <1>4, <2>1 DEF LoadInv, IInv, TypeOK
  <2>2. CASE pc' = [pc EXCEPT ![c] = NULL]
    BY <1>4, <2>2 DEF LoadInv, IInv, TypeOK
  <2> QED BY <2>1, <2>2
<1>7. arr' \in [Clients -> Seq(Blocks \cup {NULL}) \cup {NULL}]
  BY DEF IInv, TypeOK
<1>8. mem' \in [Blocks -> Names \cup {NULL}]
  BY DEF CloseOpening
<1> QED BY <1>3, <1>4, <1>5, <1>6, <1>7, <1>8 DEF ProgramsOK, ClockOK, clock, IInv, TypeOK

(* The callback removes only what nobody has.                              *)
LEMMA CallBackStep == ASSUME IInv, UNCHANGED env, CallBack PROVE IInv'
<1>1. Expired \in SUBSET listed /\ \A b \in Expired : usage[b] = 0
  BY DEF Expired
<1>2. expire' \in [Blocks -> 0 .. Wrap - 1] /\ idle' \in [Blocks -> 0 .. MaxIdle + Period]
  BY LaterType DEF CallBack, IInv, TypeOK
<1>3. ObjectsOK'
  BY <1>1, <1>2, RemoveStep DEF CallBack, client
<1>4. mem' \in [Blocks -> Names \cup {NULL}]
  BY DEF CallBack, Free, IInv, TypeOK
<1>5. ProgramsOK'
  BY <1>4 DEF CallBack, client, loader, ProgramsOK, NewcomersInv, LoadInv, IInv, TypeOK
<1>6. ClockOK'
  BY DEF CallBack, ClockOK, IInv, TypeOK
<1> QED BY <1>3, <1>5, <1>6, HalvesPrime

LEMMA TickStep == ASSUME IInv, UNCHANGED env, Tick PROVE IInv'
<1>1. now' \in 0 .. Wrap - 1
  BY Times DEF Tick, IInv, TypeOK
<1>2. count' \in 1 .. Period /\ pending' \in BOOLEAN
  BY Times DEF Tick, IInv, TypeOK
<1>3. idle' \in [Blocks -> 0 .. MaxIdle + Period]
  <2>0. MaxIdle \in Nat /\ Period \in Nat
    BY Times DEF IInv, TypeOK
  <2>1. ASSUME NEW i \in 0 .. MaxIdle + Period
        PROVE  i < MaxIdle + Period => i + 1 \in 0 .. MaxIdle + Period
    BY <2>0, <2>1
  <2>2. idle \in [Blocks -> 0 .. MaxIdle + Period]
    BY DEF IInv, TypeOK
  <2>3. idle' = [b \in Blocks |-> IF b \in listed /\ usage[b] = 0 /\ idle[b] < MaxIdle + Period
                                  THEN idle[b] + 1 ELSE idle[b]]
    BY DEF Tick
  <2> QED BY <2>1, <2>2, <2>3
<1>4. UNCHANGED <<mem, global, client, loader>>
  BY DEF Tick
<1>5. UsageExact' /\ SlotsExact'
  BY <1>4 DEF global, client, UsageExact, SlotsExact, IInv
<1>6. ObjectsOK'
  BY <1>3, <1>4, <1>5 DEF global, client, ObjectsOK, IInv, TypeOK
<1>7. ProgramsOK'
  BY <1>4 DEF client, loader, ProgramsOK, NewcomersInv, LoadInv, IInv, TypeOK
<1> QED BY <1>1, <1>2, <1>6, <1>7, HalvesPrime DEF ClockOK, IInv, TypeOK

(* A newcomer has no libraries: it is counted once more for the loader.    *)
LEMMA RunStep == ASSUME IInv, UNCHANGED env, NEW c \in Clients, Run(c) PROVE IInv'
<1>1. PICK b \in Blocks :
        /\ mem' = [mem EXCEPT ![b] = IF Fresh THEN Loader ELSE @]
        /\ RegisterObject(c, b, Loader)
        /\ arr' = [arr EXCEPT ![c] = RuntimeArray({b}, slots', index')]
        /\ using' = [using EXCEPT ![c] = {<<Loader, b>>}]
  BY DEF Run
<1>2. reg' = reg \cup {c} /\ c \notin reg /\ UNCHANGED <<booted, opening, opened, pc, clock>>
  BY DEF Run
<1>3. Loader \in Names /\ b \notin libs[c]
  BY <1>2, SharedObjectsAssumption DEF SharedObjectsAssumption, IInv, NewcomersInv
<1>4. ObjectsOK'
  BY <1>1, <1>3, RegisterStep
<1>5. RuntimeArray({b}, slots', index') \in Seq(Blocks \cup {NULL})
  BY <1>4, RuntimeArrayType DEF ObjectsOK
<1>6. mem' \in [Blocks -> Names \cup {NULL}]
  BY <1>1, <1>3 DEF IInv, TypeOK
<1>7. arr' \in [Clients -> Seq(Blocks \cup {NULL}) \cup {NULL}]
  BY <1>1, <1>5 DEF IInv, TypeOK
<1>8. using' \in [Clients -> SUBSET (Names \X Blocks)]
  BY <1>1, <1>3 DEF IInv, TypeOK
<1>9. NewcomersInv'
  BY <1>1, <1>2 DEF RegisterObject, NewcomersInv, IInv, TypeOK
<1>10. LoadInv'
  BY <1>2 DEF LoadInv, IInv
<1>11. ProgramsOK' /\ ClockOK'
  BY <1>2, <1>6, <1>7, <1>8, <1>9, <1>10 DEF ProgramsOK, ClockOK, clock, IInv, TypeOK
<1> QED BY <1>4, <1>11, HalvesPrime

LEMMA RunFailsStep == ASSUME IInv, UNCHANGED env, NEW c \in Clients, RunFails(c) PROVE IInv'
<1>1. PICK b \in Blocks, registered \in BOOLEAN :
           LET again == registered /\ usage[b] = 0
           IN  /\ IF b \in listed THEN UNCHANGED <<listed, name, index, slots>> ELSE AddGlobal(b, Loader)
               /\ expire' = [expire EXCEPT ![b] = IF again THEN (now + MaxIdle) % Wrap
                                                  ELSE IF b \in listed THEN @ ELSE 0]
               /\ idle' = [idle EXCEPT ![b] = IF again \/ b \notin listed THEN 0 ELSE @]
               /\ mem' = [mem EXCEPT ![b] = IF Fresh THEN NULL ELSE @]
  BY DEF RunFails
<1>2. UNCHANGED <<usage, client, loader, clock>>
  BY DEF RunFails
<1>3. Loader \in Names
  BY SharedObjectsAssumption DEF SharedObjectsAssumption
<1>4. expire' \in [Blocks -> 0 .. Wrap - 1] /\ idle' \in [Blocks -> 0 .. MaxIdle + Period]
  BY <1>1, LaterType DEF IInv, TypeOK
<1>5. /\ SlotsExact'
      /\ listed' = listed \cup {b}
      /\ name' \in [Blocks -> Names \cup {NULL}]
      /\ index' \in [Blocks -> 0 .. MaxSlots]
      /\ slots' \in Seq(Blocks \cup {NULL})
  <2>1. CASE b \in listed
    BY <1>1, <2>1 DEF IInv, TypeOK, SlotsExact
  <2>2. CASE b \notin listed
    BY <1>1, <1>3, <2>2, SlotsAdd
  <2> QED BY <2>1, <2>2
<1>6. UsageExact'
  BY <1>2, <1>5 DEF client, UsageExact, IInv
<1>7. ObjectsOK'
  BY <1>2, <1>4, <1>5, <1>6 DEF client, ObjectsOK, IInv, TypeOK
<1>8. mem' \in [Blocks -> Names \cup {NULL}]
  BY <1>1 DEF IInv, TypeOK
<1>9. ProgramsOK' /\ ClockOK'
  BY <1>2, <1>8 DEF client, loader, clock, ProgramsOK, ClockOK, NewcomersInv, LoadInv, IInv, TypeOK
<1> QED BY <1>7, <1>9, HalvesPrime

(* What a load does before it registers leaves the lists alone.            *)
LEMMA QuietObjects == ASSUME IInv, UNCHANGED env, UNCHANGED <<global, libs, idle>> PROVE ObjectsOK'
<1>1. UsageExact' /\ SlotsExact'
  BY DEF global, UsageExact, SlotsExact, IInv
<1> QED BY <1>1 DEF global, ObjectsOK, IInv, TypeOK

LEMMA FindStep == ASSUME IInv, UNCHANGED env, NEW c \in Clients, NEW n \in Names, Find(c, n) PROVE IInv'
<1>1. ObjectsOK'
  BY QuietObjects DEF Find, client
<1>2. PICK h \in Blocks \cup {NULL} : pc' = [pc EXCEPT ![c] = [n |-> n, h |-> h, at |-> "found"]]
  BY DEF Find
<1>3. LoadInv' /\ pc' \in [Clients -> [n : Names, h : Blocks \cup {NULL}, at : {"found", "ready"}] \cup {NULL}]
  BY <1>2 DEF Find, client, LoadInv, IInv, TypeOK
<1>4. ProgramsOK' /\ ClockOK'
  BY <1>3 DEF Find, client, clock, ProgramsOK, ClockOK, NewcomersInv, IInv, TypeOK
<1> QED BY <1>1, <1>4, HalvesPrime

LEMMA QueryStep == ASSUME IInv, UNCHANGED env, NEW c \in Clients, Query(c) PROVE IInv'
<1>1. ObjectsOK'
  BY QuietObjects DEF Query, client
<1>2. /\ pc[c] \in [n : Names, h : Blocks \cup {NULL}, at : {"found", "ready"}]
      /\ pc[c].h \in Blocks /\ c \in reg /\ reg' = reg
      /\ pc' = [pc EXCEPT ![c].at = "ready"]
  BY DEF Query, client, LoadInv, IInv, TypeOK
<1>3. LoadInv' /\ pc' \in [Clients -> [n : Names, h : Blocks \cup {NULL}, at : {"found", "ready"}] \cup {NULL}]
  BY <1>2 DEF LoadInv, IInv, TypeOK
<1>4. ProgramsOK' /\ ClockOK'
  BY <1>3 DEF Query, client, clock, ProgramsOK, ClockOK, NewcomersInv, IInv, TypeOK
<1> QED BY <1>1, <1>4, HalvesPrime

LEMMA LoadFileStep == ASSUME IInv, UNCHANGED env, NEW c \in Clients, LoadFile(c) PROVE IInv'
<1>1. ObjectsOK'
  BY QuietObjects DEF LoadFile, client
<1>2. PICK b \in Blocks : mem' = [mem EXCEPT ![b] = pc[c].n] /\ pc' = [pc EXCEPT ![c].h = b, ![c].at = "ready"]
  BY DEF LoadFile
<1>3. pc[c] \in [n : Names, h : Blocks \cup {NULL}, at : {"found", "ready"}]
  BY DEF LoadFile, IInv, TypeOK
<1>4. LoadInv' /\ pc' \in [Clients -> [n : Names, h : Blocks \cup {NULL}, at : {"found", "ready"}] \cup {NULL}]
  BY <1>2, <1>3 DEF LoadFile, client, LoadInv, IInv, TypeOK
<1>5. mem' \in [Blocks -> Names \cup {NULL}]
  BY <1>2, <1>3 DEF IInv, TypeOK
<1>6. ProgramsOK' /\ ClockOK'
  BY <1>4, <1>5 DEF LoadFile, client, clock, ProgramsOK, ClockOK, NewcomersInv, IInv, TypeOK
<1> QED BY <1>1, <1>6, HalvesPrime

(* ld.so registers a library only when the client does not have it.        *)
LEMMA RegisterLibStep == ASSUME IInv, UNCHANGED env, NEW c \in Clients, RegisterLib(c) PROVE IInv'
<1> DEFINE n == pc[c].n
           h == pc[c].h
<1>1. c \in reg /\ h \in Blocks /\ n \in Names
  BY DEF RegisterLib, LoadInv, IInv, TypeOK
<1>2. /\ IF h \in libs[c] THEN UNCHANGED <<global, libs, idle>> ELSE Register(c, h, n)
      /\ using' = [using EXCEPT ![c] = @ \cup {<<n, h>>}]
      /\ opening' = [opening EXCEPT ![c] = @ \cup {<<n, h>>}]
      /\ pc' = [pc EXCEPT ![c] = NULL]
      /\ UNCHANGED <<mem, reg, arr, booted, opened, clock>>
  BY DEF RegisterLib
<1> HIDE DEF n, h
<1>3. ObjectsOK' /\ \A d \in Clients \ {c} : libs'[d] = libs[d]
  <2>1. CASE UNCHANGED <<global, libs, idle>>
    BY <2>1, QuietObjects
  <2>2. CASE h \notin libs[c] /\ RegisterObject(c, h, n)
    BY <1>1, <2>2, RegisterStep DEF RegisterObject, IInv, TypeOK
  <2>3. CASE RegisterHalf(c, h, n)
    BY <1>1, <2>3, HalfStep DEF RegisterHalf
  <2> QED BY <1>2, <2>1, <2>2, <2>3 DEF Register, RegisterNothing
<1>4. NewcomersInv'
  BY <1>1, <1>2, <1>3 DEF NewcomersInv, IInv
<1>5. LoadInv' /\ pc' \in [Clients -> [n : Names, h : Blocks \cup {NULL}, at : {"found", "ready"}] \cup {NULL}]
  BY <1>2 DEF LoadInv, IInv, TypeOK
<1>6. /\ using' \in [Clients -> SUBSET (Names \X Blocks)]
      /\ opening' \in [Clients -> SUBSET (Names \X Blocks)]
  BY <1>1, <1>2 DEF IInv, TypeOK
<1>7. ProgramsOK' /\ ClockOK'
  BY <1>2, <1>4, <1>5, <1>6 DEF clock, ProgramsOK, ClockOK, IInv, TypeOK
<1> QED BY <1>3, <1>7, HalvesPrime

LEMMA UnreadType ==
  ASSUME IInv, NEW n \in Names, NEW m \in Unread(n)
  PROVE  m \in [Blocks -> Names \cup {NULL}]
BY DEF Unread, IInv, TypeOK

LEMMA LoadFailsStep == ASSUME IInv, UNCHANGED env, NEW c \in Clients, LoadFails(c) PROVE IInv'
<1>1. PICK m \in Unread(pc[c].n) :
       \/ /\ c \in booted /\ CloseOpening(c, m)
          /\ using' = [using EXCEPT ![c] = @ \ opening[c]]
          /\ pc' = [pc EXCEPT ![c] = NULL]
          /\ UNCHANGED arr
       \/ /\ c \notin booted /\ mem' = m
          /\ LetGo(libs[c]) /\ Forget(c) /\ Gone(c)
          /\ UNCHANGED clock
  BY DEF LoadFails
<1>2. m \in [Blocks -> Names \cup {NULL}]
  <2>1. pc[c].n \in Names
    BY DEF LoadFails, IInv, TypeOK
  <2> QED BY <2>1, UnreadType
<1>3. CASE /\ CloseOpening(c, m)
           /\ using' = [using EXCEPT ![c] = @ \ opening[c]]
           /\ pc' = [pc EXCEPT ![c] = NULL]
           /\ UNCHANGED arr
  <2>1. using' \in [Clients -> SUBSET (Names \X Blocks)]
    BY <1>3 DEF IInv, TypeOK
  <2> QED BY <1>2, <1>3, <2>1, CloseStep, HalvesPrime
<1>4. CASE mem' = m /\ LetGo(libs[c]) /\ Forget(c) /\ Gone(c) /\ UNCHANGED clock
  <2>1. ClockOK'
    BY <1>4 DEF clock, ClockOK, IInv, TypeOK
  <2> QED BY <1>2, <1>4, <2>1, LeaveStep, HalvesPrime
<1> QED BY <1>1, <1>3, <1>4

LEMMA NoDataStep == ASSUME IInv, UNCHANGED env, NEW c \in Clients, NoData(c) PROVE IInv'
<1>1. pc[c].n \in Names /\ pc[c].h \in Blocks
  BY DEF NoData, LoadInv, IInv, TypeOK
<1>2. using' \in [Clients -> SUBSET (Names \X Blocks)]
  BY <1>1 DEF NoData, IInv, TypeOK
<1>3. mem \in [Blocks -> Names \cup {NULL}] /\ CloseOpening(c, mem)
      /\ pc' \in {pc, [pc EXCEPT ![c] = NULL]} /\ arr' \in {arr, [arr EXCEPT ![c] = NULL]}
  BY DEF NoData, IInv, TypeOK
<1> QED BY <1>2, <1>3, CloseStep, HalvesPrime

LEMMA GenerateStep == ASSUME IInv, UNCHANGED env, NEW c \in Clients, Generate(c) PROVE IInv'
<1>1. ObjectsOK'
  BY QuietObjects DEF Generate
<1>2. RuntimeArray(libs[c], slots, index) \in Seq(Blocks \cup {NULL})
  BY RuntimeArrayType DEF IInv, TypeOK
<1>3. arr' \in [Clients -> Seq(Blocks \cup {NULL}) \cup {NULL}]
  BY <1>2 DEF Generate, IInv, TypeOK
<1>4. booted' \subseteq reg'
  BY DEF Generate, Idle, IInv, TypeOK
<1>5. /\ opening' \in [Clients -> SUBSET (Names \X Blocks)]
      /\ opened' \in [Clients -> SUBSET (Names \X Blocks)]
  BY DEF Generate, IInv, TypeOK
<1>6. NewcomersInv' /\ LoadInv'
  BY DEF Generate, NewcomersInv, LoadInv, IInv
<1>7. ProgramsOK' /\ ClockOK'
  BY <1>3, <1>4, <1>5, <1>6 DEF Generate, clock, ProgramsOK, ClockOK, IInv, TypeOK
<1> QED BY <1>1, <1>7, HalvesPrime

LEMMA GenerateFailsStep == ASSUME IInv, UNCHANGED env, NEW c \in Clients, GenerateFails(c) PROVE IInv'
<1>1. using' \in [Clients -> SUBSET (Names \X Blocks)] /\ mem \in [Blocks -> Names \cup {NULL}]
  BY DEF GenerateFails, IInv, TypeOK
<1>2. CloseOpening(c, mem) /\ pc' \in {pc, [pc EXCEPT ![c] = NULL]} /\ arr' \in {arr, [arr EXCEPT ![c] = NULL]}
  BY DEF GenerateFails
<1> QED BY <1>1, <1>2, CloseStep, HalvesPrime

LEMMA DlCloseStep == ASSUME IInv, UNCHANGED env, NEW c \in Clients, DlClose(c) PROVE IInv'
<1>1. PICK u \in opened[c] :
        /\ DeregisterObject(c, u[2])
        /\ using' = [using EXCEPT ![c] = @ \ {u}]
        /\ opened' = [opened EXCEPT ![c] = @ \ {u}]
  BY DEF DlClose
<1>2. u[2] \in Blocks
  BY <1>1 DEF IInv, TypeOK
<1>3. /\ ObjectsOK' /\ mem' \in [Blocks -> Names \cup {NULL}]
      /\ \A d \in Clients : libs'[d] \subseteq libs[d]
  BY <1>1, <1>2, DeregisterStep
<1>4. UNCHANGED <<reg, arr, booted, opening, pc, clock>>
  BY DEF DlClose
<1>5. NewcomersInv' /\ LoadInv'
  BY <1>3, <1>4 DEF NewcomersInv, LoadInv, IInv
<1>6. /\ using' \in [Clients -> SUBSET (Names \X Blocks)]
      /\ opened' \in [Clients -> SUBSET (Names \X Blocks)]
  BY <1>1 DEF IInv, TypeOK
<1>7. ProgramsOK' /\ ClockOK'
  BY <1>3, <1>4, <1>5, <1>6 DEF clock, ProgramsOK, ClockOK, IInv, TypeOK
<1> QED BY <1>3, <1>7, HalvesPrime

(* The library that is removed at once was this client's or nobody's.      *)
LEMMA RelocFailsStep == ASSUME IInv, UNCHANGED env, NEW c \in Clients, RelocFails(c) PROVE IInv'
<1>1. PICK u \in opening[c] :
       LET b == u[2]
           last == IF b \in libs[c] THEN usage[b] = 1 ELSE b \in listed /\ usage[b] = 0
           R == IF last THEN {b} ELSE {}
       IN  LetGoRemoving(libs[c], R) /\ Free(R)
  BY DEF RelocFails
<1> DEFINE b == u[2]
           last == IF b \in libs[c] THEN usage[b] = 1 ELSE b \in listed /\ usage[b] = 0
           R == IF last THEN {b} ELSE {}
<1>2. Forget(c) /\ Gone(c) /\ UNCHANGED clock
  BY DEF RelocFails
<1>3. b \in Blocks
  BY <1>1 DEF IInv, TypeOK
<1>4. R \in SUBSET listed
  BY DEF IInv, UsageExact
<1>5. \A d \in R : \A e \in Clients \ {c} : d \notin libs[e]
  BY <1>3, OneHolder, Unheld
<1>6. LetGoRemoving(libs[c], R) /\ Free(R)
  BY <1>1
<1> HIDE DEF b, last, R
<1>7. libs' = [libs EXCEPT ![c] = @ \ libs[c]] /\ libs[c] \in SUBSET libs[c]
  BY <1>2 DEF Forget, IInv, TypeOK
<1>8. ObjectsOK'
  BY <1>4, <1>5, <1>6, <1>7, LetGoRemovingStep
<1>9. mem' \in [Blocks -> Names \cup {NULL}]
  BY <1>6 DEF Free, IInv, TypeOK
<1>10. ProgramsOK' /\ ClockOK'
  BY <1>2, <1>9, GoneStep DEF clock, ClockOK, IInv, TypeOK
<1> QED BY <1>8, <1>10, HalvesPrime

LEMMA ExitStep == ASSUME IInv, UNCHANGED env, NEW c \in Clients, Exit(c) PROVE IInv'
<1>1. LetGo(libs[c]) /\ Forget(c) /\ Gone(c) /\ UNCHANGED <<mem, clock>>
  BY DEF Exit, DeregisterClient
<1>2. mem' \in [Blocks -> Names \cup {NULL}] /\ ClockOK'
  BY <1>1 DEF clock, ClockOK, IInv, TypeOK
<1> QED BY <1>1, <1>2, LeaveStep, HalvesPrime

LEMMA InitIInv == Init => IInv
<1> SUFFICES ASSUME Init PROVE IInv
  OBVIOUS
<1> USE SharedObjectsAssumption, Times DEF Init, SharedObjectsAssumption
<1>1. UsageExact
  <2>1. \A b \in Blocks : {c \in Clients : b \in libs[c]} = {}
    OBVIOUS
  <2> QED BY <2>1, FS_EmptySet DEF UsageExact
<1>2. slots \in Seq(Blocks \cup {NULL}) /\ SlotsExact
  BY DEF SlotsExact
<1>3. NewcomersInv /\ LoadInv
  BY DEF NewcomersInv, LoadInv
<1>4. ObjectsOK
  BY <1>1, <1>2 DEF ObjectsOK
<1>5. ProgramsOK
  BY <1>3 DEF ProgramsOK
<1>6. ClockOK
  <2>1. now \in 0 .. Wrap - 1 /\ count \in 1 .. Period
    OBVIOUS
  <2>2. pending \in BOOLEAN
    BY Zenon
  <2> QED BY <2>1, <2>2 DEF ClockOK
<1> QED BY <1>4, <1>5, <1>6, Halves

LEMMA NextIInv == IInv /\ [Next]_vars => IInv'
<1> SUFFICES ASSUME IInv, [Next]_vars PROVE IInv'
  OBVIOUS
<1>1. CASE CallBack
  BY <1>1, CallBackStep DEF CallBack
<1>2. CASE Tick
  BY <1>2, TickStep DEF Tick
<1>3. ASSUME NEW c \in Clients,
             \/ Run(c) \/ RunFails(c)
             \/ \E n \in Names : Find(c, n)
             \/ Query(c) \/ LoadFile(c) \/ LoadFails(c)
             \/ RegisterLib(c) \/ NoData(c)
             \/ Generate(c) \/ GenerateFails(c)
             \/ DlClose(c) \/ RelocFails(c) \/ Exit(c)
      PROVE  IInv'
  <2>1. UNCHANGED clock
    BY <1>3 DEF Run, RunFails, Find, Query, LoadFile, LoadFails, RegisterLib, NoData, Generate,
                GenerateFails, DlClose, RelocFails, Exit, CloseOpening
  <2>2. UNCHANGED env
    BY <2>1 DEF clock
  <2> QED BY <1>3, <2>2, RunStep, RunFailsStep, FindStep, QueryStep, LoadFileStep, LoadFailsStep, RegisterLibStep,
     NoDataStep, GenerateStep, GenerateFailsStep, DlCloseStep, RelocFailsStep, ExitStep
<1>4. CASE UNCHANGED vars
  <2> UNCHANGED env
    BY <1>4 DEF vars, clock
  <2>1. ObjectsOK'
    BY <1>4, QuietObjects DEF vars, client
  <2>2. ProgramsOK' /\ ClockOK'
    BY <1>4 DEF vars, client, loader, clock, ProgramsOK, ClockOK, NewcomersInv, LoadInv, IInv, TypeOK
  <2> QED BY <2>1, <2>2, HalvesPrime
<1> QED BY <1>1, <1>2, <1>3, <1>4 DEF Next

LEMMA Invariant == Spec => []IInv
BY InitIInv, NextIInv, PTL DEF Spec

(* The lists, counts, indices and arrays of som_register.c, som_array.c    *)
(* and ld.so keep their types: no usage count is taken below zero, and     *)
(* only a client has a loader at work.                                     *)
THEOREM TypeCorrect == Spec => []TypeOK
BY Invariant, PTL DEF IInv

(* som_register.c and som_array.c: a library's usage_count is the number   *)
(* of clients that have it in their lists, and what a client has in its    *)
(* list stays on the global one, whatever fails (a half registration, a    *)
(* load that is taken back, the double deregistration of a library that    *)
(* cannot be relocated) and whoever runs between the SWIs of a load.       *)
THEOREM UsageCorrect == Spec => []UsageExact
BY Invariant, PTL DEF IInv

(* som_array.c: each library has the slot its index names, and no slot     *)
(* names a library that has left: an index is not given to two libraries.  *)
THEOREM SlotsCorrect == Spec => []SlotsExact
BY Invariant, PTL DEF IInv

(* The manager's lists, counts and array agree with what the clients have, *)
(* whatever fails and whoever comes in between.                            *)
THEOREM ManagerCorrect == Spec => []ManagerInv
  BY TypeCorrect, UsageCorrect, SlotsCorrect, PTL DEF ManagerInv

-----------------------------------------------------------------------------
(* No memory is lost.                                                      *)

LEMMA EnvStays == ASSUME [Next]_vars PROVE env' = env
BY DEF Next, vars, clock, CallBack, Tick, Run, RunFails, Find, Query, LoadFile, LoadFails,
       RegisterLib, NoData, Generate, GenerateFails, DlClose, RelocFails, Exit, CloseOpening

(* What a loader works on is a record, and never nothing.                  *)
LEMMA LoadType ==
  ASSUME IInv, NEW c \in Clients
  PROVE  /\ pc[c] # NULL => /\ pc[c] \in [n : Names, h : Blocks \cup {NULL}, at : {"found", "ready"}]
                            /\ c \in reg
         /\ NULL \notin [n : Names, h : Blocks \cup {NULL}, at : {"found", "ready"}]
         /\ NULL \notin Blocks /\ NULL \notin Names
BY SharedObjectsAssumption DEF SharedObjectsAssumption, IInv, TypeOK, LoadInv

Held(b) == b \in listed \/ \E c \in Clients : pc[c] # NULL /\ pc[c].h = b

LEMMA LostStep ==
  ASSUME IInv, NothingLost, [Next]_vars
  PROVE  NothingLost'
<1> SUFFICES ASSUME Registers, NEW x \in Blocks, mem'[x] # NULL PROVE Held(x)'
  BY EnvStays DEF NothingLost, Registers, Held
<1>0. mem[x] # NULL => Held(x)
  BY DEF NothingLost, Held
<1>f. "alloc" \notin env.fails /\ "malloc" \notin env.fails /\ "read" \notin env.fails
  BY DEF Registers
<1>p. pc \in [Clients -> [n : Names, h : Blocks \cup {NULL}, at : {"found", "ready"}] \cup {NULL}]
  BY DEF IInv, TypeOK
<1>m. mem \in [Blocks -> Names \cup {NULL}]
  BY DEF IInv, TypeOK
<1>1. CASE UNCHANGED <<mem, listed, pc>>
  BY <1>0, <1>1 DEF Held
<1>2. CASE CallBack
  <2>1. x \notin Expired /\ mem[x] # NULL /\ listed' = listed \ Expired /\ pc' = pc
    BY <1>2 DEF CallBack, Free, Remove, loader
  <2> QED BY <1>0, <2>1 DEF Held
<1>3. CASE Tick
  BY <1>1, <1>3 DEF Tick, global, loader
<1>4. ASSUME NEW c \in Clients, Run(c) PROVE Held(x)'
  <2>1. PICK b \in Blocks : /\ mem' = [mem EXCEPT ![b] = IF Fresh THEN Loader ELSE @]
                            /\ RegisterObject(c, b, Loader)
    BY <1>4 DEF Run
  <2>2. listed' = listed \cup {b} /\ pc' = pc
    BY <1>4, <2>1, EnvStays, GlobalStep, SharedObjectsAssumption
    DEF SharedObjectsAssumption, RegisterObject, Run
  <2> QED BY <1>0, <1>m, <2>1, <2>2 DEF Held
<1>5. ASSUME NEW c \in Clients, RunFails(c) PROVE Held(x)'
  <2>1. mem[x] # NULL /\ listed \subseteq listed' /\ pc' = pc
    BY <1>5, <1>m DEF RunFails, AddGlobal, loader
  <2> QED BY <1>0, <2>1 DEF Held
<1>6. ASSUME NEW c \in Clients, NEW n \in Names, Find(c, n) PROVE Held(x)'
  <2>1. mem' = mem /\ listed' = listed /\ \A d \in Clients : pc[d] # NULL => pc'[d] = pc[d]
    BY <1>6, <1>p DEF Find, global
  <2> QED BY <1>0, <2>1 DEF Held
<1>7. ASSUME NEW c \in Clients, Query(c) PROVE Held(x)'
  <2>1. pc[c] # NULL /\ pc' = [pc EXCEPT ![c].at = "ready"] /\ mem' = mem /\ listed' = listed
    BY <1>7 DEF Query, global
  <2>2. pc'[c] # NULL /\ pc'[c].h = pc[c].h /\ \A d \in Clients \ {c} : pc'[d] = pc[d]
    BY <1>p, <2>1, LoadType
  <2> QED BY <1>0, <2>1, <2>2 DEF Held
<1>8. ASSUME NEW c \in Clients, LoadFile(c) PROVE Held(x)'
  <2>1. PICK b \in Blocks : /\ mem' = [mem EXCEPT ![b] = pc[c].n]
                            /\ pc' = [pc EXCEPT ![c].h = b, ![c].at = "ready"]
    BY <1>8 DEF LoadFile
  <2>2. pc[c] # NULL /\ pc[c].h = NULL /\ listed' = listed /\ x # NULL
    BY <1>8, LoadType DEF LoadFile, global
  <2>3. pc'[c] # NULL /\ pc'[c].h = b /\ \A d \in Clients \ {c} : pc'[d] = pc[d]
    BY <1>p, <2>1, <2>2, LoadType
  <2> QED BY <1>0, <1>m, <2>1, <2>2, <2>3 DEF Held
<1>9. ASSUME NEW c \in Clients, LoadFails(c) PROVE Held(x)'
  <2>1. pc[c].h = NULL /\ x # NULL /\ Unread(pc[c].n) = {mem}
    BY <1>9, <1>f, LoadType DEF LoadFails, Unread
  <2>2. \/ CloseOpening(c, mem) /\ pc' = [pc EXCEPT ![c] = NULL]
        \/ mem' = mem /\ LetGo(libs[c]) /\ Gone(c)
    BY <1>9, <2>1 DEF LoadFails
  <2>3. mem[x] # NULL /\ (x \in listed => x \in listed') /\ pc' = [pc EXCEPT ![c] = NULL]
    <3>1. CASE CloseOpening(c, mem) /\ pc' = [pc EXCEPT ![c] = NULL]
      BY <3>1 DEF CloseOpening, LetGoRemoving, Remove
    <3>2. CASE mem' = mem /\ LetGo(libs[c]) /\ Gone(c)
      BY <3>2 DEF LetGo, Gone
    <3> QED BY <2>2, <3>1, <3>2
  <2> QED BY <1>0, <1>p, <2>1, <2>3 DEF Held
<1>10. ASSUME NEW c \in Clients, RegisterLib(c) PROVE Held(x)'
  <2>1. /\ IF pc[c].h \in libs[c] THEN UNCHANGED global ELSE RegisterObject(c, pc[c].h, pc[c].n)
        /\ mem' = mem /\ pc' = [pc EXCEPT ![c] = NULL]
        /\ pc[c].h \in Blocks /\ pc[c].n \in Names
    BY <1>10, <1>f DEF RegisterLib, Register, LoadInv, IInv, TypeOK
  <2>2. pc[c].h \in listed' /\ listed \subseteq listed'
    <3>1. CASE pc[c].h \in libs[c]
      BY <2>1, <3>1 DEF global, IInv, UsageExact
    <3>2. CASE pc[c].h \notin libs[c]
      BY <2>1, <3>2, EnvStays, GlobalStep DEF RegisterObject
    <3> QED BY <3>1, <3>2
  <2> QED BY <1>0, <1>p, <2>1, <2>2 DEF Held
<1>11. ASSUME NEW c \in Clients, NoData(c) \/ GenerateFails(c) PROVE FALSE
  BY <1>11, <1>f DEF NoData, GenerateFails
<1>12. ASSUME NEW c \in Clients, Generate(c) PROVE Held(x)'
  BY <1>1, <1>12 DEF Generate, global
<1>13. ASSUME NEW c \in Clients, DlClose(c) PROVE Held(x)'
  <2>1. PICK u \in opened[c] : DeregisterObject(c, u[2])
    BY <1>13 DEF DlClose
  <2>2. pc' = pc
    BY <1>13 DEF DlClose
  <2>3. mem[x] # NULL /\ (x \in listed => x \in listed')
    BY <2>1 DEF DeregisterObject, LetGo, Remove, Free, global
  <2> QED BY <1>0, <2>2, <2>3 DEF Held
<1>14. ASSUME NEW c \in Clients, RelocFails(c) PROVE Held(x)'
  <2>1. mem[x] # NULL /\ (x \in listed => x \in listed')
    BY <1>14 DEF RelocFails, LetGoRemoving, Remove, Free
  <2>2. pc[c] = NULL /\ pc' = [pc EXCEPT ![c] = NULL]
    BY <1>14 DEF RelocFails, Idle, Gone
  <2> QED BY <1>0, <1>p, <2>1, <2>2 DEF Held
<1>15. ASSUME NEW c \in Clients, Exit(c) PROVE Held(x)'
  <2>1. mem' = mem /\ listed' = listed /\ pc[c] = NULL /\ pc' = [pc EXCEPT ![c] = NULL]
    BY <1>15 DEF Exit, Idle, DeregisterClient, LetGo, Gone
  <2> QED BY <1>0, <1>p, <2>1 DEF Held
<1> QED
  BY <1>1, <1>2, <1>3, <1>4, <1>5, <1>6, <1>7, <1>8, <1>9, <1>10, <1>11, <1>12, <1>13, <1>14, <1>15
  DEF Next, vars, global, loader

(* som_register.c, readelflib1.c: memory that holds a library is on the    *)
(* list, or a loader is about to register it: none is lost, if every file  *)
(* can be read and there is memory for what is registered, whoever runs    *)
(* between the SWIs of a load and whatever program fails to start.         *)
THEOREM LostCorrect == Spec => []NothingLost
<1>1. Init => NothingLost
  BY DEF Init, NothingLost
<1> QED BY <1>1, LostStep, Invariant, PTL DEF Spec

-----------------------------------------------------------------------------
(* The array of a program has the data of its libraries.                   *)

LEMMA HandlesAdd ==
  ASSUME NEW S, NEW n, NEW h
  PROVE  Handles(S \cup {<<n, h>>}) = Handles(S) \cup {h}
<1>1. <<n, h>>[2] = h
  OBVIOUS
<1>2. ASSUME NEW x PROVE x \in Handles(S \cup {<<n, h>>}) <=> x \in Handles(S) \cup {h}
  BY <1>1, Zenon DEF Handles
<1> QED BY <1>2

InArray(c, b) == index[b] \in DOMAIN arr[c] /\ arr[c][index[b]] = b

(* Between two calls of som_generate_runtime_array only what the load in   *)
(* progress has added is missing from a program's array.                   *)
Covered(c) == arr[c] # NULL /\ \A b \in libs[c] : b \in Handles(opening[c]) \/ InArray(c, b)

ArraysCover == Registers => \A c \in booted : Covered(c)

(* som_generate_runtime_array puts each library where its index says.      *)
LEMMA RuntimeArrayRight ==
  ASSUME IInv, NEW c \in Clients, NEW b \in libs[c]
  PROVE  /\ index[b] \in DOMAIN RuntimeArray(libs[c], slots, index)
         /\ RuntimeArray(libs[c], slots, index)[index[b]] = b
<1>1. \A d \in libs[c] : /\ index[d] \in DOMAIN slots /\ slots[index[d]] = d
                         /\ d \in Blocks /\ d # NULL
  BY LoadType DEF IInv, TypeOK, UsageExact, SlotsExact
<1>2. \A d \in libs[c] : index[d] = index[b] => d = b
  BY <1>1
<1>3. (CHOOSE d \in libs[c] : index[d] = index[b]) = b
  BY <1>2
<1>4. slots[index[b]] # NULL /\ \E d \in libs[c] : index[d] = index[b]
  BY <1>1
<1> QED BY <1>1, <1>3, <1>4 DEF RuntimeArray

(* What others do to the list leaves the indices of a program's libraries. *)
LEMMA CoveredFrame ==
  ASSUME IInv, NEW c \in Clients, Covered(c), arr'[c] = arr[c], libs'[c] \subseteq libs[c],
         opening[c] \subseteq opening'[c], \A b \in libs[c] : index'[b] = index[b] \/ b \notin libs'[c]
  PROVE  Covered(c)'
BY DEF Covered, InArray, Handles

LEMMA GlobalIndex ==
  ASSUME IInv, NEW b \in Blocks, NEW n, Global(b, n)
  PROVE  \A d \in listed : index'[d] = index[d]
BY DEF Global, AddGlobal, IInv, TypeOK

LEMMA RemoveIndex ==
  ASSUME IInv, NEW S, Remove(S)
  PROVE  \A d \in Blocks : d \notin S => index'[d] = index[d]
BY DEF Remove

LEMMA ArraysStep ==
  ASSUME IInv, ArraysCover, [Next]_vars
  PROVE  ArraysCover'
<1> SUFFICES ASSUME Registers, NEW x \in booted' PROVE Covered(x)'
  BY EnvStays DEF ArraysCover, Registers
<1>f. "alloc" \notin env.fails /\ "malloc" \notin env.fails /\ "read" \notin env.fails
  BY DEF Registers
<1>0. x \in booted => Covered(x)
  BY DEF ArraysCover
<1>t. /\ libs \in [Clients -> SUBSET Blocks] /\ arr \in [Clients -> Seq(Blocks \cup {NULL}) \cup {NULL}]
      /\ opening \in [Clients -> SUBSET (Names \X Blocks)]
      /\ reg \subseteq Clients /\ booted \subseteq reg
      /\ \A d \in Clients : libs[d] \subseteq listed /\ libs[d] \subseteq Blocks
  BY DEF IInv, TypeOK, UsageExact
<1>1. ASSUME x \in booted, arr'[x] = arr[x], libs'[x] \subseteq libs[x], opening[x] \subseteq opening'[x],
             index' = index
      PROVE  Covered(x)'
  BY <1>0, <1>1, <1>t, CoveredFrame
<1>2. CASE UNCHANGED vars \/ Tick
  BY <1>1, <1>2 DEF vars, Tick, global, client, loader
<1>3. CASE CallBack
  <2>1. \A b \in libs[x] : b \notin Expired
    BY <1>3, <1>t, Unheld DEF Expired, CallBack, loader
  <2>2. \A b \in libs[x] : index'[b] = index[b]
    BY <1>3, <1>t, <2>1, RemoveIndex DEF CallBack, loader
  <2> QED BY <1>0, <1>3, <1>t, <2>2, CoveredFrame DEF CallBack, client, loader
<1>4. ASSUME NEW c \in Clients, Run(c) PROVE Covered(x)'
  <2>1. PICK b \in Blocks : RegisterObject(c, b, Loader)
    BY <1>4 DEF Run
  <2>2. c \notin reg /\ booted' = booted /\ x # c /\ x \in Clients
    BY <1>4, <1>t DEF Run
  <2>3. \A d \in listed : index'[d] = index[d]
    BY <2>1, GlobalIndex DEF RegisterObject
  <2>4. arr'[x] = arr[x] /\ libs'[x] = libs[x] /\ opening' = opening
    BY <1>4, <1>t, <2>1, <2>2 DEF Run, RegisterObject
  <2> QED BY <1>0, <1>t, <2>2, <2>3, <2>4, CoveredFrame
<1>5. ASSUME NEW c \in Clients, RunFails(c) PROVE Covered(x)'
  <2>1. \A d \in listed : index'[d] = index[d]
    BY <1>5 DEF RunFails, AddGlobal, IInv, TypeOK
  <2> QED BY <1>0, <1>5, <1>t, <2>1, CoveredFrame DEF RunFails, client, loader
<1>6. ASSUME NEW c \in Clients, (\E n \in Names : Find(c, n)) \/ Query(c) \/ LoadFile(c)
      PROVE  Covered(x)'
  BY <1>1, <1>6 DEF Find, Query, LoadFile, global, client
<1>7. ASSUME NEW c \in Clients, LoadFails(c) PROVE Covered(x)'
  <2>1. PICK m \in Unread(pc[c].n) :
          \/ c \in booted /\ CloseOpening(c, m) /\ UNCHANGED arr
          \/ LetGo(libs[c]) /\ Forget(c) /\ Gone(c)
    BY <1>7 DEF LoadFails
  <2>2. CASE CloseOpening(c, m) /\ UNCHANGED arr
    <3>1. /\ Remove(Bogus(c)) /\ libs' = [libs EXCEPT ![c] = @ \ Handles(opening[c])]
          /\ opening' = [opening EXCEPT ![c] = {}] /\ booted' = booted
      BY <2>2 DEF CloseOpening, LetGoRemoving
    <3>2. x \in booted /\ x \in Clients
      BY <1>t, <3>1
    <3>3. ASSUME NEW b \in libs'[x]
          PROVE  b \in libs[x] /\ index'[b] = index[b] /\ (x = c => b \notin Handles(opening[c]))
      <4>1. b \in libs[x] /\ b \in Blocks /\ (x = c => b \notin Handles(opening[c]))
        BY <1>t, <3>1, <3>2
      <4>2. b \notin Bogus(c)
        BY <3>2, <4>1, BogusAlone
      <4> QED BY <3>1, <4>1, <4>2, RemoveIndex
    <3>4. CASE x = c
      BY <1>0, <2>2, <3>2, <3>3, <3>4 DEF Covered, InArray
    <3>5. CASE x # c
      <4>1. libs'[x] = libs[x] /\ opening'[x] = opening[x] /\ arr'[x] = arr[x]
        BY <1>t, <2>2, <3>1, <3>2, <3>5
      <4> QED BY <1>0, <3>2, <3>3, <4>1, CoveredFrame
    <3> QED BY <3>4, <3>5
  <2>3. CASE LetGo(libs[c]) /\ Forget(c) /\ Gone(c)
    <3>1. x \in booted /\ x # c /\ index' = index
      BY <2>3 DEF Gone, LetGo
    <3> QED BY <1>1, <1>t, <2>3, <3>1 DEF Forget, Gone
  <2> QED BY <2>1, <2>2, <2>3
<1>8. ASSUME NEW c \in Clients, RegisterLib(c) PROVE Covered(x)'
  <2>1. /\ IF pc[c].h \in libs[c] THEN UNCHANGED <<global, libs>>
           ELSE RegisterObject(c, pc[c].h, pc[c].n)
        /\ opening' = [opening EXCEPT ![c] = @ \cup {<<pc[c].n, pc[c].h>>}]
        /\ pc[c].h \in Blocks /\ booted' = booted /\ arr' = arr
    BY <1>8, <1>f DEF RegisterLib, Register, LoadInv, IInv, TypeOK
  <2>2. \A d \in listed : index'[d] = index[d]
    BY <2>1, GlobalIndex DEF RegisterObject, global
  <2>3. CASE x # c
    <3>1. libs'[x] = libs[x] /\ opening'[x] = opening[x] /\ x \in Clients
      BY <1>t, <2>1, <2>3 DEF RegisterObject
    <3> QED BY <1>0, <1>t, <2>1, <2>2, <3>1, CoveredFrame
  <2>4. CASE x = c
    <3>1. libs'[c] \subseteq libs[c] \cup {pc[c].h}
      BY <1>t, <2>1 DEF RegisterObject
    <3>2. Handles(opening'[c]) = Handles(opening[c]) \cup {pc[c].h}
      <4>1. opening'[c] = opening[c] \cup {<<pc[c].n, pc[c].h>>}
        BY <1>t, <2>1
      <4>2. Handles(opening[c] \cup {<<pc[c].n, pc[c].h>>}) = Handles(opening[c]) \cup {pc[c].h}
        BY HandlesAdd, Zenon
      <4> QED BY <4>1, <4>2
    <3>3. ASSUME NEW b \in libs[c], InArray(c, b) PROVE InArray(c, b)'
      <4>1. index'[b] = index[b] /\ arr' = arr
        BY <1>t, <2>1, <2>2
      <4> QED BY <3>3, <4>1, Zenon DEF InArray
    <3>4. arr'[c] # NULL
      BY <1>0, <1>t, <2>1, <2>4 DEF Covered
    <3>5. ASSUME NEW b \in libs'[c] PROVE b \in Handles(opening'[c]) \/ InArray(c, b)'
      BY <1>0, <1>t, <2>1, <2>4, <3>1, <3>2, <3>3 DEF Covered
    <3> QED BY <2>4, <3>4, <3>5 DEF Covered
  <2> QED BY <2>3, <2>4
<1>9. ASSUME NEW c \in Clients, NoData(c) \/ GenerateFails(c) PROVE FALSE
  BY <1>9, <1>f DEF NoData, GenerateFails
<1>10. ASSUME NEW c \in Clients, Generate(c) PROVE Covered(x)'
  <2>1. /\ arr' = [arr EXCEPT ![c] = RuntimeArray(libs[c], slots, index)]
        /\ booted' = booted \cup {c} /\ opening' = [opening EXCEPT ![c] = {}]
        /\ index' = index /\ libs' = libs
    BY <1>10 DEF Generate, global
  <2>2. CASE x = c
    <3>1. RuntimeArray(libs[c], slots, index) # NULL
      <4>1. RuntimeArray(libs[c], slots, index) \in Seq(Blocks \cup {NULL})
        BY RuntimeArrayType DEF IInv, TypeOK
      <4> QED BY <4>1, SharedObjectsAssumption DEF SharedObjectsAssumption
    <3>2. arr'[c] = RuntimeArray(libs[c], slots, index)
      BY <1>t, <2>1
    <3> QED BY <2>1, <2>2, <3>1, <3>2, RuntimeArrayRight DEF Covered, InArray
  <2>3. CASE x # c
    BY <1>1, <1>t, <2>1, <2>3
  <2> QED BY <2>2, <2>3
<1>11. ASSUME NEW c \in Clients, DlClose(c) PROVE Covered(x)'
  <2>1. PICK u \in opened[c] : DeregisterObject(c, u[2])
    BY <1>11 DEF DlClose
  <2>2. u[2] \in Blocks /\ x \in booted /\ x \in Clients /\ arr' = arr /\ opening' = opening
    BY <1>11, <1>t DEF DlClose, IInv, TypeOK
  <2>3. libs'[x] \subseteq libs[x] /\ \A b \in libs[x] : index'[b] = index[b]
    <3>1. CASE LetGo({u[2]}) /\ libs' = [libs EXCEPT ![c] = @ \ {u[2]}]
      BY <1>t, <3>1 DEF LetGo
    <3>2. CASE usage[u[2]] = 0 /\ Remove({u[2]}) /\ libs' = libs
      BY <1>t, <2>2, <3>2, RemoveIndex, Unheld
    <3>3. CASE UNCHANGED <<global, libs>>
      BY <3>3 DEF global
    <3> QED BY <2>1, <3>1, <3>2, <3>3 DEF DeregisterObject
  <2> QED BY <1>0, <2>2, <2>3, CoveredFrame
<1>12. ASSUME NEW c \in Clients, RelocFails(c) PROVE Covered(x)'
  <2>1. Forget(c) /\ Gone(c)
    BY <1>12 DEF RelocFails
  <2>2. x # c /\ x \in booted /\ x \in Clients
    BY <1>t, <2>1 DEF Gone
  <2>3. arr'[x] = arr[x] /\ libs'[x] = libs[x] /\ opening'[x] = opening[x]
    BY <1>t, <2>1, <2>2 DEF Forget, Gone
  <2>4. PICK u \in opening[c] :
          Remove(IF IF u[2] \in libs[c] THEN usage[u[2]] = 1 ELSE u[2] \in listed /\ usage[u[2]] = 0
                 THEN {u[2]} ELSE {})
    BY <1>12 DEF RelocFails, LetGoRemoving
  <2>5. PICK S : Remove(S) /\ \A b \in S : b \in Blocks /\ b \notin libs[x]
    <3>1. u[2] \in Blocks
      BY <1>t
    <3>2. u[2] \in libs[c] /\ usage[u[2]] = 1 => u[2] \notin libs[x]
      BY <2>2, <3>1, OneHolder
    <3>3. usage[u[2]] = 0 => u[2] \notin libs[x]
      BY <2>2, <3>1, Unheld
    <3> QED BY <2>4, <3>1, <3>2, <3>3
  <2>6. \A b \in libs[x] : index'[b] = index[b]
    BY <1>t, <2>2, <2>5, RemoveIndex
  <2> QED BY <1>0, <2>2, <2>3, <2>6, CoveredFrame
<1>13. ASSUME NEW c \in Clients, Exit(c) PROVE Covered(x)'
  <2>1. /\ index' = index /\ Forget(c) /\ Gone(c)
    BY <1>13 DEF Exit, DeregisterClient, LetGo
  <2>2. x # c /\ x \in booted /\ x \in Clients
    BY <1>t, <2>1 DEF Gone
  <2> QED BY <1>1, <1>t, <2>1, <2>2 DEF Forget, Gone
<1> QED
  BY <1>2, <1>3, <1>4, <1>5, <1>6, <1>7, <1>8, <1>9, <1>10, <1>11, <1>12, <1>13 DEF Next

(* som_array.c: when a program runs, the array its code takes its data     *)
(* from is there and has, at the index of each library it uses, its own    *)
(* copy of that library's data, if every file can be read and there is     *)
(* memory for what is registered, whoever runs between the SWIs of a load. *)
THEOREM ArraysCorrect == Spec => []ArrayRight
<1>1. Init => ArraysCover
  BY DEF Init, ArraysCover
<1>2. IInv /\ ArraysCover => ArrayRight
  BY DEF IInv, TypeOK, ArraysCover, Covered, InArray, Handles, ArrayRight
<1> QED BY <1>1, <1>2, ArraysStep, Invariant, PTL DEF Spec
-----------------------------------------------------------------------------
(* The loaders: who loads, and what is among the modules of each.          *)

(* Others run between two SWIs of a load only where that is allowed.       *)
OneLoads == ~env.race => \A c, d \in Clients : c # d => pc[c] = NULL \/ pc[d] = NULL

(* A program that has not started has loaded nothing; what a load in       *)
(* progress has added did not come with an earlier dlopen; and ld.so loads *)
(* only what is not among its modules.                                     *)
LoaderList(c) ==
  /\ c \notin reg => using[c] = {} /\ opening[c] = {} /\ opened[c] = {}
  /\ opening[c] \subseteq using[c] /\ opened[c] \subseteq using[c]
  /\ opening[c] \cap opened[c] = {}
  /\ pc[c] # NULL => pc[c].n \notin Named(c)

LoaderLists == \A c \in Clients : LoaderList(c)

(* What is on the list has a name.                                         *)
ListedNamed == \A b \in listed : name[b] \in Names

LoadersInv == OneLoads /\ LoaderLists /\ ListedNamed

LEMMA OneLoadsStep ==
  ASSUME IInv, OneLoads, [Next]_vars
  PROVE  OneLoads'
<1> SUFFICES ASSUME ~env.race, NEW x \in Clients, NEW y \in Clients, x # y
             PROVE  pc'[x] = NULL \/ pc'[y] = NULL
  BY EnvStays DEF OneLoads
<1>0. pc[x] = NULL \/ pc[y] = NULL
  BY DEF OneLoads
<1>p. pc \in [Clients -> [n : Names, h : Blocks \cup {NULL}, at : {"found", "ready"}] \cup {NULL}]
  BY DEF IInv, TypeOK
<1>1. ASSUME NEW c \in Clients, \A d \in Clients \ {c} : pc'[d] = pc[d],
             pc[c] # NULL \/ pc'[c] = NULL
      PROVE  pc'[x] = NULL \/ pc'[y] = NULL
  BY <1>0, <1>1
<1>2. CASE pc' = pc
  BY <1>0, <1>2
<1>3. ASSUME NEW c \in Clients, NEW n \in Names, Find(c, n) PROVE pc'[x] = NULL \/ pc'[y] = NULL
  BY <1>3, <1>p DEF Find, Alone
<1>4. ASSUME NEW c \in Clients, Query(c) \/ LoadFile(c) PROVE pc'[x] = NULL \/ pc'[y] = NULL
  BY <1>1, <1>4, <1>p DEF Query, LoadFile
<1>5. ASSUME NEW c \in Clients, LoadFails(c) \/ RegisterLib(c) \/ NoData(c) \/ RelocFails(c) \/ Exit(c)
      PROVE  pc'[x] = NULL \/ pc'[y] = NULL
  BY <1>1, <1>5, <1>p DEF LoadFails, RegisterLib, NoData, RelocFails, Exit, DeregisterClient, Gone
<1> QED
  BY <1>2, <1>3, <1>4, <1>5
  DEF Next, vars, loader, CallBack, Tick, Run, RunFails, Generate, GenerateFails, DlClose

LEMMA ListedNamedStep ==
  ASSUME IInv, ListedNamed, [Next]_vars
  PROVE  ListedNamed'
<1> USE DEF ListedNamed
<1>0. Loader \in Names /\ name \in [Blocks -> Names \cup {NULL}] /\ listed \subseteq Blocks
  BY SharedObjectsAssumption DEF SharedObjectsAssumption, IInv, TypeOK
<1>1. CASE UNCHANGED <<listed, name>>
  BY <1>1
<1>2. ASSUME NEW b \in Blocks, NEW n \in Names, Global(b, n) \/ AddGlobal(b, n) PROVE ListedNamed'
  BY <1>0, <1>2 DEF Global, AddGlobal
<1>3. ASSUME NEW S, Remove(S) PROVE ListedNamed'
  BY <1>0, <1>3 DEF Remove
<1>4. ASSUME NEW c \in Clients, Run(c) \/ RunFails(c) PROVE ListedNamed'
  BY <1>0, <1>1, <1>2, <1>4 DEF Run, RunFails, RegisterObject
<1>5. ASSUME NEW c \in Clients, RegisterLib(c) PROVE ListedNamed'
  <2>1. pc[c].h \in Blocks /\ pc[c].n \in Names
    BY <1>5 DEF RegisterLib, LoadInv, IInv, TypeOK
  <2>2. UNCHANGED global \/ Register(c, pc[c].h, pc[c].n)
    BY <1>5 DEF RegisterLib
  <2> QED BY <1>1, <1>2, <2>1, <2>2 DEF Register, RegisterObject, RegisterHalf, RegisterNothing, global
<1>6. ASSUME NEW c \in Clients, LoadFails(c) \/ NoData(c) \/ GenerateFails(c) \/ Exit(c) PROVE ListedNamed'
  <2>1. (\E m : CloseOpening(c, m)) \/ LetGo(libs[c])
    BY <1>6 DEF LoadFails, NoData, GenerateFails, Exit, DeregisterClient
  <2>2. (\E S : Remove(S)) \/ UNCHANGED <<listed, name>>
    BY <2>1 DEF CloseOpening, LetGoRemoving, LetGo
  <2> QED BY <1>1, <1>3, <2>2
<1>7. ASSUME NEW c \in Clients, DlClose(c) PROVE ListedNamed'
  BY <1>1, <1>3, <1>7 DEF DlClose, DeregisterObject, LetGo, global
<1>8. ASSUME NEW c \in Clients, RelocFails(c) PROVE ListedNamed'
  BY <1>3, <1>8 DEF RelocFails, LetGoRemoving
<1> QED
  BY <1>1, <1>3, <1>4, <1>5, <1>6, <1>7, <1>8
  DEF Next, vars, global, CallBack, Tick, Find, Query, LoadFile, Generate

LEMMA LoaderListsStep ==
  ASSUME IInv, LoaderLists, [Next]_vars
  PROVE  LoaderLists'
<1> SUFFICES ASSUME NEW x \in Clients PROVE LoaderList(x)'
  BY DEF LoaderLists
<1>0. LoaderList(x)
  BY DEF LoaderLists
<1>t. /\ pc \in [Clients -> [n : Names, h : Blocks \cup {NULL}, at : {"found", "ready"}] \cup {NULL}]
      /\ using \in [Clients -> SUBSET (Names \X Blocks)]
      /\ opening \in [Clients -> SUBSET (Names \X Blocks)]
      /\ opened \in [Clients -> SUBSET (Names \X Blocks)]
      /\ reg \subseteq Clients /\ booted \subseteq reg
  BY DEF IInv, TypeOK
<1>1. ASSUME x \in reg' <=> x \in reg, using'[x] = using[x], opening'[x] = opening[x],
             opened'[x] = opened[x], pc'[x] = pc[x]
      PROVE  LoaderList(x)'
  BY <1>0, <1>1 DEF LoaderList, Named
<1>2. ASSUME using'[x] = {}, opening'[x] = {}, opened'[x] = {}, pc'[x] = NULL PROVE LoaderList(x)'
  BY <1>2 DEF LoaderList
<1>3. CASE UNCHANGED <<reg, using, opening, opened, pc>>
  BY <1>1, <1>3
<1>4. ASSUME NEW c \in Clients, Run(c) PROVE LoaderList(x)'
  <2>1. PICK u : using' = [using EXCEPT ![c] = {u}]
    BY <1>4 DEF Run
  <2>2. reg' = reg \cup {c} /\ c \notin reg /\ UNCHANGED <<opening, opened, pc>>
    BY <1>4 DEF Run
  <2>3. CASE x = c
    <3>1. pc[c] = NULL /\ opening[c] = {} /\ opened[c] = {}
      BY <1>0, <2>2, <2>3 DEF LoaderList, IInv, LoadInv
    <3> QED BY <2>2, <2>3, <3>1 DEF LoaderList
  <2> QED BY <1>1, <1>t, <2>1, <2>2, <2>3
<1>5. ASSUME NEW c \in Clients, NEW n \in Names, Find(c, n) PROVE LoaderList(x)'
  <2>1. PICK h : pc' = [pc EXCEPT ![c] = [n |-> n, h |-> h, at |-> "found"]]
    BY <1>5 DEF Find
  <2>2. n \notin Named(c) /\ UNCHANGED <<reg, using, opening, opened>>
    BY <1>5 DEF Find, client
  <2>3. CASE x = c
    <3>1. pc'[x].n = n
      BY <1>t, <2>1, <2>3
    <3> QED BY <1>0, <2>2, <2>3, <3>1 DEF LoaderList, Named
  <2> QED BY <1>1, <1>t, <2>1, <2>2, <2>3
<1>6. ASSUME NEW c \in Clients, Query(c) \/ LoadFile(c) PROVE LoaderList(x)'
  <2>1. UNCHANGED <<reg, using, opening, opened>> /\ pc[c] # NULL
    BY <1>6 DEF Query, LoadFile, client
  <2>2. pc'[c].n = pc[c].n /\ \A d \in Clients \ {c} : pc'[d] = pc[d]
    <3>1. pc[c] \in [n : Names, h : Blocks \cup {NULL}, at : {"found", "ready"}]
      BY <2>1, LoadType
    <3>2. CASE pc' = [pc EXCEPT ![c].at = "ready"]
      BY <1>t, <3>1, <3>2
    <3>3. CASE \E b \in Blocks : pc' = [pc EXCEPT ![c].h = b, ![c].at = "ready"]
      BY <1>t, <3>1, <3>3
    <3> QED BY <1>6, <3>2, <3>3 DEF Query, LoadFile
  <2>3. CASE x = c
    BY <1>0, <2>1, <2>2, <2>3 DEF LoaderList, Named
  <2> QED BY <1>1, <2>1, <2>2, <2>3
<1>7. ASSUME NEW c \in Clients, NEW m, CloseOpening(c, m), pc'[c] = NULL, \A d \in Clients \ {c} : pc'[d] = pc[d],
             opened[c] \subseteq using'[c], \A d \in Clients \ {c} : using'[d] = using[d], c \in reg
      PROVE  LoaderList(x)'
  <2>1. opening' = [opening EXCEPT ![c] = {}] /\ opened' = opened /\ reg' = reg
    BY <1>7 DEF CloseOpening
  <2>2. CASE x = c
    BY <1>t, <1>7, <2>1, <2>2 DEF LoaderList
  <2> QED BY <1>1, <1>t, <1>7, <2>1, <2>2
<1>8. ASSUME NEW c \in Clients, Forget(c), Gone(c) PROVE LoaderList(x)'
  BY <1>1, <1>2, <1>8, <1>t DEF Forget, Gone
<1>9. \A c \in Clients : opened[c] \subseteq using[c] \ opening[c]
  BY DEF LoaderLists, LoaderList
<1>10. ASSUME NEW c \in Clients, LoadFails(c) PROVE LoaderList(x)'
  <2>1. ASSUME NEW m, CloseOpening(c, m),
               using' = [using EXCEPT ![c] = @ \ opening[c]],
               pc' = [pc EXCEPT ![c] = NULL]
        PROVE  LoaderList(x)'
    <3>1. c \in reg
      BY <1>10, LoadType DEF LoadFails
    <3>2. using'[c] = using[c] \ opening[c] /\ \A d \in Clients \ {c} : using'[d] = using[d] /\ pc'[d] = pc[d]
      BY <1>t, <2>1
    <3>3. pc'[c] = NULL
      BY <1>t, <2>1
    <3> QED BY <1>7, <1>9, <2>1, <3>1, <3>2, <3>3
  <2> QED BY <1>8, <1>10, <2>1 DEF LoadFails
<1>11. ASSUME NEW c \in Clients, NoData(c) PROVE LoaderList(x)'
  <2>1. PICK u : using' = [using EXCEPT ![c] = (@ \cup {u}) \ opening[c]]
    BY <1>11 DEF NoData
  <2>2. c \in reg /\ CloseOpening(c, mem) /\ pc' = [pc EXCEPT ![c] = NULL]
    BY <1>11, LoadType DEF NoData
  <2>3. opened[c] \subseteq using'[c] /\ \A d \in Clients \ {c} : using'[d] = using[d] /\ pc'[d] = pc[d]
    BY <1>9, <1>t, <2>1, <2>2
  <2> QED BY <1>7, <1>t, <2>2, <2>3
<1>12. ASSUME NEW c \in Clients, GenerateFails(c) PROVE LoaderList(x)'
  <2>1. /\ pc' = pc /\ pc[c] = NULL /\ c \in reg /\ CloseOpening(c, mem)
        /\ using' = [using EXCEPT ![c] = @ \ opening[c]]
    BY <1>12 DEF GenerateFails, Idle
  <2>2. opened[c] \subseteq using'[c] /\ \A d \in Clients \ {c} : using'[d] = using[d]
    BY <1>9, <1>t, <2>1
  <2> QED BY <1>7, <2>1, <2>2
<1>13. ASSUME NEW c \in Clients, RegisterLib(c) PROVE LoaderList(x)'
  <2>1. PICK u : /\ u = <<pc[c].n, pc[c].h>>
                 /\ using' = [using EXCEPT ![c] = @ \cup {u}]
                 /\ opening' = [opening EXCEPT ![c] = @ \cup {u}]
    BY <1>13 DEF RegisterLib
  <2>2. reg' = reg /\ opened' = opened /\ pc[c] # NULL /\ pc' = [pc EXCEPT ![c] = NULL]
    BY <1>13 DEF RegisterLib
  <2>3. CASE x = c
    <3>1. x \in reg
      BY <2>2, <2>3, LoadType
    <3>2. u[1] = pc[c].n
      BY <2>1
    <3>3. u \notin using[c]
      BY <1>0, <2>2, <2>3, <3>2 DEF LoaderList, Named
    <3>4. using'[x] = using[x] \cup {u} /\ opening'[x] = opening[x] \cup {u} /\ pc'[x] = NULL
      BY <1>t, <2>1, <2>2, <2>3
    <3> QED BY <1>0, <2>2, <2>3, <3>1, <3>3, <3>4 DEF LoaderList
  <2> QED BY <1>1, <1>t, <2>1, <2>2, <2>3
<1>14. ASSUME NEW c \in Clients, Generate(c) PROVE LoaderList(x)'
  <2>1. /\ reg' = reg /\ using' = using /\ pc' = pc /\ c \in reg
        /\ opened' = [opened EXCEPT ![c] = IF c \in booted THEN @ \cup opening[c] ELSE @]
        /\ opening' = [opening EXCEPT ![c] = {}]
    BY <1>14 DEF Generate, Idle
  <2>2. CASE x = c
    BY <1>0, <1>t, <2>1, <2>2 DEF LoaderList, Named
  <2> QED BY <1>1, <1>t, <2>1, <2>2
<1>15. ASSUME NEW c \in Clients, DlClose(c) PROVE LoaderList(x)'
  <2>1. PICK u \in opened[c] : /\ using' = [using EXCEPT ![c] = @ \ {u}]
                               /\ opened' = [opened EXCEPT ![c] = @ \ {u}]
    BY <1>15 DEF DlClose
  <2>2. reg' = reg /\ opening' = opening /\ pc' = pc /\ opening[c] = {} /\ pc[c] = NULL /\ c \in reg
    BY <1>15 DEF DlClose, Idle
  <2>3. CASE x = c
    BY <1>0, <1>t, <2>1, <2>2, <2>3 DEF LoaderList
  <2> QED BY <1>1, <1>t, <2>1, <2>2, <2>3
<1>16. ASSUME NEW c \in Clients, RelocFails(c) \/ Exit(c) PROVE LoaderList(x)'
  BY <1>8, <1>16 DEF RelocFails, Exit, DeregisterClient
<1> QED
  BY <1>3, <1>4, <1>5, <1>6, <1>10, <1>11, <1>12, <1>13, <1>14, <1>15, <1>16
  DEF Next, vars, loader, client, CallBack, Tick, RunFails

LEMMA LoadersInvariant == Spec => []LoadersInv
<1>1. Init => LoadersInv
  BY DEF Init, LoadersInv, OneLoads, LoaderLists, LoaderList, ListedNamed
<1>2. IInv /\ LoadersInv /\ [Next]_vars => LoadersInv'
  BY OneLoadsStep, LoaderListsStep, ListedNamedStep DEF LoadersInv
<1> QED BY <1>1, <1>2, Invariant, PTL DEF Spec

-----------------------------------------------------------------------------
(* What is listed, found or used is in memory.                             *)

Found(c) == pc[c] # NULL /\ pc[c].h # NULL => mem[pc[c].h] = pc[c].n
Loaded(b) == b \in listed => mem[b] = name[b]

(* What ld.so has among its modules is registered, under the name it has   *)
(* there: so no two of them are in one block.                              *)
UsedNamed(c) == \A u \in using[c] : u[2] \in libs[c] /\ name[u[2]] = u[1]

AllFound == \A c \in Clients : Found(c)
AllLoaded == \A b \in Blocks : Loaded(b)
AllUsed == \A c \in Clients : UsedNamed(c)

\* The antecedent of UsedIsCounted.
Keeps == ~env.race /\ env.fails \subseteq {"read", "reloc"}

LoadedInv == (Undisturbed => AllFound /\ AllLoaded) /\ (Keeps => AllUsed)

(* A library that is not on the list comes with the name of what is in its *)
(* memory; one that is there keeps its name.                               *)
LEMMA GlobalNames ==
  ASSUME IInv, AllLoaded, NEW b \in Blocks, NEW n \in Names, Global(b, n), mem[b] = n,
         mem' = mem
  PROVE  AllLoaded' /\ b \in listed' /\ name'[b] = n /\ \A d \in listed : name'[d] = name[d]
<1>1. CASE b \in listed
  BY <1>1 DEF Global, AllLoaded, Loaded
<1>2. CASE b \notin listed
  <2>1. listed' = listed \cup {b} /\ name' = [name EXCEPT ![b] = n]
    BY <1>2 DEF Global, AddGlobal
  <2>2. name'[b] = n /\ \A d \in Blocks \ {b} : name'[d] = name[d]
    BY <2>1 DEF IInv, TypeOK
  <2> QED BY <1>2, <2>1, <2>2 DEF AllLoaded, Loaded, IInv, TypeOK
<1> QED BY <1>1, <1>2

(* No two of a loader's modules are in one block: what stays of them when  *)
(* some are given back is still registered.                                *)
LEMMA UsedApart ==
  ASSUME NEW c \in Clients, UsedNamed(c), NEW U \in SUBSET using[c], using[c] \subseteq Names \X Blocks
  PROVE  \A u \in using[c] \ U : u[2] \notin Handles(U)
<1> SUFFICES ASSUME NEW u \in using[c] \ U, u[2] \in Handles(U) PROVE FALSE
  OBVIOUS
<1>1. PICK v \in U : v[2] = u[2]
  BY DEF Handles
<1>2. v[1] = u[1]
  BY <1>1 DEF UsedNamed
<1>3. u \in Names \X Blocks /\ v \in Names \X Blocks
  OBVIOUS
<1>4. u = <<u[1], u[2]>> /\ v = <<v[1], v[2]>>
  BY <1>3
<1> QED BY <1>1, <1>2, <1>4

(* What leaves the list leaves memory, and what is read goes elsewhere.    *)
LEMMA LoadedRemove ==
  ASSUME IInv, ListedNamed, AllLoaded, NEW R, Remove(R), NEW m,
         \A b \in Blocks : m[b] = mem[b] \/ mem[b] = NULL,
         mem' = [b \in Blocks |-> IF b \in R THEN NULL ELSE m[b]]
  PROVE  AllLoaded'
<1>1. NULL \notin Names /\ listed \subseteq Blocks
  BY SharedObjectsAssumption DEF SharedObjectsAssumption, IInv, TypeOK
<1>2. ASSUME NEW b \in Blocks, b \in listed' PROVE mem'[b] = name'[b]
  <2>1. b \in listed /\ b \notin R /\ name'[b] = name[b]
    BY <1>2 DEF Remove
  <2>2. mem[b] = name[b] /\ mem[b] # NULL
    BY <1>1, <2>1 DEF AllLoaded, Loaded, ListedNamed
  <2> QED BY <2>1, <2>2
<1> QED BY <1>2 DEF AllLoaded, Loaded

LEMMA UnreadElsewhere ==
  ASSUME IInv, NEW n, NEW m \in Unread(n)
  PROVE  \A b \in Blocks : m[b] = mem[b] \/ mem[b] = NULL
BY DEF Unread, IInv, TypeOK

(* som_runcom.c, readelflib1.c, dlib.c: each step when nobody runs between *)
(* the SWIs of a load and no start fails.                                  *)
LEMMA LoadedStep ==
  ASSUME IInv, LoadersInv, Undisturbed, AllFound, AllLoaded, [Next]_vars
  PROVE  AllFound' /\ AllLoaded'
<1>c. ~env.race /\ "run" \notin env.fails
  BY DEF Undisturbed
<1>t. /\ pc \in [Clients -> [n : Names, h : Blocks \cup {NULL}, at : {"found", "ready"}] \cup {NULL}]
      /\ mem \in [Blocks -> Names \cup {NULL}] /\ name \in [Blocks -> Names \cup {NULL}]
      /\ listed \subseteq Blocks /\ NULL \notin Names /\ NULL \notin Blocks /\ Loader \in Names
  BY SharedObjectsAssumption DEF SharedObjectsAssumption, IInv, TypeOK
<1>l. \A c \in Clients : libs[c] \subseteq listed
  BY DEF IInv, UsageExact
<1>u. \A c \in Clients : Found(c)
  BY DEF AllFound
<1>n. ListedNamed
  BY DEF LoadersInv
<1>o. \A c, d \in Clients : c # d /\ pc[c] # NULL => pc[d] = NULL
  BY <1>c DEF LoadersInv, OneLoads
<1>1. ASSUME UNCHANGED <<mem, listed, name>>, \A d \in Clients : pc'[d] = pc[d] \/ pc'[d] = NULL
      PROVE  AllFound' /\ AllLoaded'
  BY <1>1 DEF AllFound, AllLoaded, Found, Loaded
<1>2. ASSUME AllLoaded', \A d \in Clients : pc'[d] = NULL PROVE AllFound' /\ AllLoaded'
  BY <1>2 DEF AllFound, Found
<1>3. CASE CallBack
  <2>1. Remove(Expired) /\ mem' = [b \in Blocks |-> IF b \in Expired THEN NULL ELSE mem[b]] /\ pc' = pc
    BY <1>3 DEF CallBack, Free, loader
  <2>2. \A c \in Clients : pc[c] = NULL
    BY <1>3, <1>c DEF CallBack
  <2>3. AllLoaded'
    BY <1>n, <2>1, LoadedRemove
  <2> QED BY <1>2, <2>1, <2>2, <2>3
<1>4. ASSUME NEW c \in Clients, Run(c) PROVE AllFound' /\ AllLoaded'
  <2>1. PICK b \in Blocks : /\ LoaderBlock(b)
                            /\ mem' = [mem EXCEPT ![b] = IF Fresh THEN Loader ELSE @]
                            /\ RegisterObject(c, b, Loader)
    BY <1>4 DEF Run
  <2>2. pc' = pc /\ \A d \in Clients : pc[d] = NULL
    BY <1>4, <1>c, LoadType DEF Run, Alone
  <2>3. Global(b, Loader)
    BY <2>1 DEF RegisterObject
  <2>4. AllLoaded'
    <3>1. CASE Fresh
      <4>1. mem[b] = NULL /\ mem' = [mem EXCEPT ![b] = Loader]
        BY <2>1, <3>1 DEF LoaderBlock
      <4>2. b \notin listed
        BY <1>t, <1>n, <4>1 DEF AllLoaded, Loaded, ListedNamed
      <4>3. listed' = listed \cup {b} /\ name' = [name EXCEPT ![b] = Loader]
        BY <2>3, <4>2 DEF Global, AddGlobal
      <4> QED BY <1>t, <4>1, <4>2, <4>3 DEF AllLoaded, Loaded
    <3>2. CASE ~Fresh
      <4>1. b \in listed /\ mem' = mem
        BY <1>t, <2>1, <3>2 DEF LoaderBlock, HandleFromName, Known, Fresh
      <4> QED BY <2>3, <4>1 DEF Global, AllLoaded, Loaded
    <3> QED BY <3>1, <3>2
  <2> QED BY <1>2, <2>2, <2>4
<1>5. ASSUME NEW c \in Clients, RunFails(c) PROVE FALSE
  BY <1>5, <1>c DEF RunFails
<1>6. ASSUME NEW c \in Clients, NEW n \in Names, Find(c, n) PROVE AllFound' /\ AllLoaded'
  <2>1. PICK h \in Blocks \cup {NULL} :
          HandleFromName(n, h) /\ pc' = [pc EXCEPT ![c] = [n |-> n, h |-> h, at |-> "found"]]
    BY <1>6 DEF Find
  <2>2. UNCHANGED <<mem, listed, name>>
    BY <1>6 DEF Find, global
  <2>3. h # NULL => mem[h] = n
    BY <1>t, <2>1 DEF HandleFromName, Known, AllLoaded, Loaded
  <2>4. pc'[c].n = n /\ pc'[c].h = h /\ \A d \in Clients \ {c} : pc'[d] = pc[d]
    BY <1>t, <2>1
  <2> QED BY <1>u, <2>2, <2>3, <2>4 DEF AllFound, Found, AllLoaded, Loaded
<1>7. ASSUME NEW c \in Clients, Query(c) PROVE AllFound' /\ AllLoaded'
  <2>1. UNCHANGED <<mem, listed, name>> /\ pc[c] # NULL /\ pc' = [pc EXCEPT ![c].at = "ready"]
    BY <1>7 DEF Query, global
  <2>2. pc[c] \in [n : Names, h : Blocks \cup {NULL}, at : {"found", "ready"}]
    BY <2>1, LoadType
  <2>3. pc'[c].n = pc[c].n /\ pc'[c].h = pc[c].h /\ \A d \in Clients \ {c} : pc'[d] = pc[d]
    BY <1>t, <2>1, <2>2
  <2> QED BY <1>u, <2>1, <2>3 DEF AllFound, Found, AllLoaded, Loaded
<1>8. ASSUME NEW c \in Clients, LoadFile(c) PROVE AllFound' /\ AllLoaded'
  <2>1. PICK b \in Blocks : /\ mem[b] = NULL
                            /\ mem' = [mem EXCEPT ![b] = pc[c].n]
                            /\ pc' = [pc EXCEPT ![c].h = b, ![c].at = "ready"]
    BY <1>8 DEF LoadFile
  <2>2. UNCHANGED <<listed, name>> /\ pc[c] # NULL
    BY <1>8 DEF LoadFile, global
  <2>3. pc[c] \in [n : Names, h : Blocks \cup {NULL}, at : {"found", "ready"}]
    BY <2>2, LoadType
  <2>4. pc'[c].n = pc[c].n /\ pc'[c].h = b /\ \A d \in Clients \ {c} : pc'[d] = pc[d]
    BY <1>t, <2>1, <2>3
  <2>5. mem'[b] = pc[c].n /\ \A d \in Blocks \ {b} : mem'[d] = mem[d]
    BY <1>t, <2>1
  <2>6. b \notin listed
    BY <1>t, <1>n, <2>1 DEF AllLoaded, Loaded, ListedNamed
  <2>7. AllLoaded'
    BY <1>t, <2>2, <2>5, <2>6 DEF AllLoaded, Loaded
  <2> QED BY <1>o, <2>2, <2>4, <2>5, <2>7 DEF AllFound, Found
<1>9. ASSUME NEW c \in Clients, NEW m, CloseOpening(c, m), \A b \in Blocks : m[b] = mem[b] \/ mem[b] = NULL
      PROVE  AllLoaded'
  <2>1. Remove(Bogus(c)) /\ mem' = [b \in Blocks |-> IF b \in Bogus(c) THEN NULL ELSE m[b]]
    BY <1>9 DEF CloseOpening, LetGoRemoving
  <2> QED BY <1>n, <1>9, <2>1, LoadedRemove
<1>10. ASSUME NEW c \in Clients, LoadFails(c) PROVE AllFound' /\ AllLoaded'
  <2>1. PICK m \in Unread(pc[c].n) :
          \/ CloseOpening(c, m) /\ pc' = [pc EXCEPT ![c] = NULL]
          \/ mem' = m /\ LetGo(libs[c]) /\ Gone(c)
    BY <1>10 DEF LoadFails
  <2>2. \A b \in Blocks : m[b] = mem[b] \/ mem[b] = NULL
    BY UnreadElsewhere
  <2>3. \A d \in Clients : pc'[d] = NULL
    BY <1>10, <1>o, <1>t, <2>1 DEF LoadFails, Gone
  <2>4. CASE mem' = m /\ LetGo(libs[c])
    <3>1. UNCHANGED <<listed, name>>
      BY <2>4 DEF LetGo
    <3> QED BY <1>2, <1>t, <1>n, <2>2, <2>3, <2>4, <3>1 DEF AllLoaded, Loaded, ListedNamed
  <2> QED BY <1>2, <1>9, <2>1, <2>2, <2>3, <2>4
<1>11. ASSUME NEW c \in Clients, RegisterLib(c) PROVE AllFound' /\ AllLoaded'
  <2> DEFINE n == pc[c].n
             h == pc[c].h
  <2>1. /\ UNCHANGED global \/ Register(c, h, n)
        /\ pc' = [pc EXCEPT ![c] = NULL] /\ mem' = mem
        /\ pc[c] # NULL /\ h \in Blocks /\ n \in Names
    BY <1>11 DEF RegisterLib, LoadInv, IInv, TypeOK
  <2>2. mem[h] = n
    BY <1>t, <1>u, <2>1 DEF Found
  <2> HIDE DEF n, h
  <2>3. AllLoaded'
    <3>1. CASE UNCHANGED global
      BY <2>1, <3>1 DEF global, AllLoaded, Loaded
    <3>2. CASE Global(h, n)
      BY <2>1, <2>2, <3>2, GlobalNames
    <3> QED BY <2>1, <3>1, <3>2 DEF Register, RegisterObject, RegisterHalf, RegisterNothing
  <2>4. \A d \in Clients : pc'[d] = NULL
    BY <1>o, <1>t, <2>1
  <2> QED BY <1>2, <2>3, <2>4
<1>12. ASSUME NEW c \in Clients, NoData(c) PROVE AllFound' /\ AllLoaded'
  <2>1. CloseOpening(c, mem) /\ \A d \in Clients : pc'[d] = NULL
    BY <1>12, <1>o, <1>t DEF NoData
  <2> QED BY <1>2, <1>9, <2>1
<1>13. ASSUME NEW c \in Clients, Generate(c) PROVE AllFound' /\ AllLoaded'
  BY <1>1, <1>13 DEF Generate, global
<1>14. ASSUME NEW c \in Clients, Idle(c) PROVE \A d \in Clients : pc[d] = NULL
  BY <1>c, <1>14 DEF Idle, Alone
<1>15. ASSUME NEW c \in Clients, GenerateFails(c) PROVE AllFound' /\ AllLoaded'
  <2>1. CloseOpening(c, mem) /\ pc' = pc /\ Idle(c)
    BY <1>15 DEF GenerateFails
  <2> QED BY <1>2, <1>9, <1>14, <2>1
<1>16. ASSUME NEW c \in Clients, DlClose(c) PROVE AllFound' /\ AllLoaded'
  <2>1. PICK u \in opened[c] : DeregisterObject(c, u[2])
    BY <1>16 DEF DlClose
  <2>2. Idle(c) /\ pc' = pc
    BY <1>16 DEF DlClose
  <2>3. CASE Remove({u[2]}) /\ Free({u[2]})
    <3>1. AllLoaded'
      BY <1>n, <2>3, LoadedRemove DEF Free
    <3> QED BY <1>2, <1>14, <2>2, <3>1
  <2>4. CASE UNCHANGED <<mem, listed, name>>
    BY <1>1, <2>2, <2>4
  <2> QED BY <2>1, <2>3, <2>4 DEF DeregisterObject, LetGo, global
<1>17. ASSUME NEW c \in Clients, RelocFails(c) PROVE AllFound' /\ AllLoaded'
  <2>1. (\E R : Remove(R) /\ Free(R)) /\ Idle(c) /\ Gone(c)
    BY <1>17 DEF RelocFails, LetGoRemoving
  <2>2. AllLoaded'
    BY <1>n, <2>1, LoadedRemove DEF Free
  <2> QED BY <1>2, <1>14, <1>t, <2>1, <2>2 DEF Gone
<1>18. ASSUME NEW c \in Clients, Exit(c) PROVE AllFound' /\ AllLoaded'
  BY <1>1, <1>18, <1>t DEF Exit, DeregisterClient, LetGo, Gone
<1>19. CASE UNCHANGED vars \/ Tick
  BY <1>1, <1>19 DEF vars, global, loader, Tick
<1> QED
  BY <1>3, <1>4, <1>5, <1>6, <1>7, <1>8, <1>10, <1>11, <1>12, <1>13, <1>15, <1>16, <1>17, <1>18, <1>19 DEF Next

(* som_runcom.c, readelflib1.c, dlib.c: what a loader keeps among its      *)
(* modules stays registered, although loads and relocations fail.          *)
LEMMA UsedStep ==
  ASSUME IInv, LoadersInv, Keeps, AllFound, AllLoaded, AllUsed, [Next]_vars
  PROVE  AllUsed'
<1> SUFFICES ASSUME NEW x \in Clients PROVE UsedNamed(x)'
  BY DEF AllUsed
<1>c. ~env.race /\ env.fails \subseteq {"read", "reloc"}
  BY DEF Keeps
<1>t. /\ pc \in [Clients -> [n : Names, h : Blocks \cup {NULL}, at : {"found", "ready"}] \cup {NULL}]
      /\ mem \in [Blocks -> Names \cup {NULL}] /\ name \in [Blocks -> Names \cup {NULL}]
      /\ libs \in [Clients -> SUBSET Blocks]
      /\ using \in [Clients -> SUBSET (Names \X Blocks)]
      /\ listed \subseteq Blocks /\ NULL \notin Names /\ NULL \notin Blocks /\ Loader \in Names
  BY SharedObjectsAssumption DEF SharedObjectsAssumption, IInv, TypeOK
<1>l. \A c \in Clients : libs[c] \subseteq listed
  BY DEF IInv, UsageExact
<1>u. \A c \in Clients : UsedNamed(c) /\ Found(c)
  BY DEF AllUsed, AllFound
\* What a loader keeps, its client keeps, under its name.
<1>1. ASSUME using'[x] \subseteq using[x], \A u \in using'[x] : u[2] \in libs'[x] /\ name'[u[2]] = name[u[2]]
      PROVE  UsedNamed(x)'
  BY <1>u, <1>1 DEF UsedNamed
<1>2. ASSUME using'[x] = {} PROVE UsedNamed(x)'
  BY <1>2 DEF UsedNamed
\* Others remove what this client does not have.
<1>3. ASSUME using'[x] = using[x], libs'[x] = libs[x], NEW R, Remove(R), \A b \in R : b \notin libs[x]
      PROVE  UsedNamed(x)'
  BY <1>t, <1>u, <1>3 DEF UsedNamed, Remove
<1>4. CASE UNCHANGED <<name, libs, using>>
  BY <1>1, <1>4, <1>u DEF UsedNamed
<1>5. CASE CallBack
  <2>1. \A b \in libs[x] : b \notin Expired
    BY <1>t, Unheld DEF Expired
  <2> QED BY <1>3, <1>5, <2>1 DEF CallBack, client, loader
<1>6. ASSUME NEW c \in Clients, Run(c) PROVE UsedNamed(x)'
  <2>1. PICK b \in Blocks : /\ LoaderBlock(b)
                            /\ RegisterObject(c, b, Loader)
                            /\ using' = [using EXCEPT ![c] = {<<Loader, b>>}]
    BY <1>6 DEF Run
  <2>2. Global(b, Loader) /\ libs' = [libs EXCEPT ![c] = @ \cup {b}]
    BY <2>1 DEF RegisterObject
  <2>3. name'[b] = Loader /\ \A d \in listed : name'[d] = name[d]
    <3>1. CASE Fresh
      <4>1. mem[b] = NULL
        BY <2>1, <3>1 DEF LoaderBlock
      <4>2. b \notin listed
        BY <1>t, <4>1 DEF AllLoaded, Loaded, LoadersInv, ListedNamed
      <4>3. name' = [name EXCEPT ![b] = Loader]
        BY <2>2, <4>2 DEF Global, AddGlobal
      <4> QED BY <1>t, <4>2, <4>3
    <3>2. CASE ~Fresh
      <4>1. b \in listed /\ name[b] = Loader
        BY <1>t, <2>1, <3>2 DEF LoaderBlock, HandleFromName, Known, Fresh
      <4> QED BY <2>2, <4>1 DEF Global
    <3> QED BY <3>1, <3>2
  <2>4. CASE x = c
    <3>1. using'[x] = {<<Loader, b>>} /\ b \in libs'[x]
      BY <1>t, <2>1, <2>2, <2>4
    <3> QED BY <2>3, <3>1 DEF UsedNamed
  <2>5. CASE x # c
    <3>1. using'[x] = using[x] /\ libs'[x] = libs[x]
      BY <1>t, <2>1, <2>2, <2>5
    <3> QED BY <1>l, <1>u, <2>3, <3>1 DEF UsedNamed
  <2> QED BY <2>4, <2>5
<1>7. ASSUME NEW c \in Clients, RunFails(c) \/ NoData(c) \/ GenerateFails(c) PROVE FALSE
  BY <1>7, <1>c DEF RunFails, NoData, GenerateFails
<1>8. ASSUME NEW c \in Clients, NEW U \in SUBSET using[c], libs' = [libs EXCEPT ![c] = @ \ Handles(U)],
             using' = [using EXCEPT ![c] = @ \ U],
             \A b \in listed : name'[b] = name[b] \/ (b \in Handles(U) /\ \A d \in Clients \ {c} : b \notin libs[d])
      PROVE  UsedNamed(x)'
  <2>1. CASE x = c
    <3>1. \A u \in using[c] \ U : u[2] \notin Handles(U)
      BY <1>t, <1>u, UsedApart
    <3>2. using'[c] = using[c] \ U /\ libs'[c] = libs[c] \ Handles(U)
      BY <1>t, <1>8
    <3> QED BY <1>l, <1>u, <1>8, <2>1, <3>1, <3>2 DEF UsedNamed
  <2>2. CASE x # c
    <3>1. using'[x] = using[x] /\ libs'[x] = libs[x]
      BY <1>t, <1>8, <2>2
    <3> QED BY <1>l, <1>u, <1>8, <2>2, <3>1 DEF UsedNamed
  <2> QED BY <2>1, <2>2
<1>9. ASSUME NEW c \in Clients, LetGo(libs[c]), Forget(c), Gone(c) PROVE UsedNamed(x)'
  <2>1. \/ using'[x] = {}
        \/ using'[x] = using[x] /\ libs'[x] = libs[x] /\ name' = name
    BY <1>9, <1>t DEF Forget, Gone, LetGo
  <2> QED BY <1>1, <1>2, <1>u, <2>1 DEF UsedNamed
<1>10. ASSUME NEW c \in Clients, LoadFails(c) PROVE UsedNamed(x)'
  <2>1. ASSUME NEW m, CloseOpening(c, m), using' = [using EXCEPT ![c] = @ \ opening[c]]
        PROVE  UsedNamed(x)'
    <3>1. opening[c] \in SUBSET using[c]
      BY DEF LoadersInv, LoaderLists, LoaderList
    <3>2. libs' = [libs EXCEPT ![c] = @ \ Handles(opening[c])] /\ Remove(Bogus(c))
      BY <2>1 DEF CloseOpening, LetGoRemoving
    <3>3. \A b \in listed : name'[b] = name[b] \/ b \in Bogus(c)
      BY <1>t, <3>2 DEF Remove
    <3>4. \A b \in Bogus(c) : b \in Handles(opening[c])
      BY DEF Bogus, Handles
    <3>5. \A b \in Bogus(c) : \A d \in Clients \ {c} : b \notin libs[d]
      BY BogusAlone
    <3>6. \A b \in listed :
            name'[b] = name[b] \/ (b \in Handles(opening[c]) /\ \A d \in Clients \ {c} : b \notin libs[d])
      BY <3>3, <3>4, <3>5
    <3> QED BY <1>8, <2>1, <3>1, <3>2, <3>6
  <2> QED BY <1>9, <1>10, <2>1 DEF LoadFails
<1>11. ASSUME NEW c \in Clients, RegisterLib(c) PROVE UsedNamed(x)'
  <2> DEFINE n == pc[c].n
             h == pc[c].h
  <2>1. /\ IF h \in libs[c] THEN UNCHANGED <<global, libs, idle>> ELSE RegisterObject(c, h, n)
        /\ using' = [using EXCEPT ![c] = @ \cup {<<n, h>>}] /\ mem' = mem
        /\ pc[c] # NULL /\ h \in Blocks /\ n \in Names
    BY <1>11, <1>c DEF RegisterLib, Register, LoadInv, IInv, TypeOK
  <2>2. mem[h] = n
    BY <1>t, <1>u, <2>1 DEF Found
  <2> HIDE DEF n, h
  <2>3. name'[h] = n /\ \A d \in listed : name'[d] = name[d]
    <3>1. CASE h \in libs[c]
      BY <1>l, <2>1, <2>2, <3>1 DEF global, AllLoaded, Loaded
    <3>2. CASE h \notin libs[c]
      BY <2>1, <2>2, <3>2, GlobalNames DEF RegisterObject
    <3> QED BY <3>1, <3>2
  <2>4. h \in libs'[c] /\ libs[c] \subseteq libs'[c] /\ \A d \in Clients \ {c} : libs'[d] = libs[d]
    BY <1>t, <2>1 DEF RegisterObject
  <2>5. CASE x = c
    <3>1. using'[c] = using[c] \cup {<<n, h>>}
      BY <1>t, <2>1
    <3>2. <<n, h>>[1] = n /\ <<n, h>>[2] = h
      OBVIOUS
    <3>3. \A u \in using[c] : u[2] \in libs'[c] /\ name'[u[2]] = u[1]
      BY <1>l, <1>u, <2>3, <2>4 DEF UsedNamed
    <3> QED BY <2>3, <2>4, <2>5, <3>1, <3>2, <3>3 DEF UsedNamed
  <2>6. CASE x # c
    <3>1. using'[x] = using[x] /\ libs'[x] = libs[x]
      BY <1>t, <2>1, <2>4, <2>6
    <3> QED BY <1>l, <1>u, <2>3, <3>1 DEF UsedNamed
  <2> QED BY <2>5, <2>6
<1>12. ASSUME NEW c \in Clients, DlClose(c) PROVE UsedNamed(x)'
  <2>1. PICK u \in opened[c] : DeregisterObject(c, u[2]) /\ using' = [using EXCEPT ![c] = @ \ {u}]
    BY <1>12 DEF DlClose
  <2>2. u \in using[c] /\ u[2] \in libs[c]
    BY <1>u DEF LoadersInv, LoaderLists, LoaderList, UsedNamed
  <2>3. name' = name /\ libs' = [libs EXCEPT ![c] = @ \ {u[2]}]
    BY <2>1, <2>2 DEF DeregisterObject, LetGo
  <2>4. Handles({u}) = {u[2]} /\ {u} \in SUBSET using[c]
    BY <2>2 DEF Handles
  <2>5. libs' = [libs EXCEPT ![c] = @ \ Handles({u})]
    BY <2>3, <2>4
  <2> QED BY <1>8, <2>1, <2>3, <2>4, <2>5
<1>13. ASSUME NEW c \in Clients, RelocFails(c) PROVE UsedNamed(x)'
  <2>1. Forget(c) /\ Gone(c)
    BY <1>13 DEF RelocFails
  <2>2. CASE x = c
    BY <1>2, <1>t, <2>1, <2>2 DEF Gone
  <2>3. CASE x # c
    <3>1. using'[x] = using[x] /\ libs'[x] = libs[x]
      BY <1>t, <2>1, <2>3 DEF Forget, Gone
    <3>2. PICK u \in opening[c] :
            Remove(IF IF u[2] \in libs[c] THEN usage[u[2]] = 1 ELSE u[2] \in listed /\ usage[u[2]] = 0
                   THEN {u[2]} ELSE {})
      BY <1>13 DEF RelocFails, LetGoRemoving
    <3>3. u[2] \in Blocks
      BY DEF IInv, TypeOK
    <3>4. u[2] \in libs[c] /\ usage[u[2]] = 1 => u[2] \notin libs[x]
      BY <2>3, <3>3, OneHolder
    <3>5. usage[u[2]] = 0 => u[2] \notin libs[x]
      BY <3>3, Unheld
    <3> QED BY <1>3, <3>1, <3>2, <3>4, <3>5
  <2> QED BY <2>2, <2>3
<1>14. ASSUME NEW c \in Clients, Exit(c) PROVE UsedNamed(x)'
  BY <1>9, <1>14 DEF Exit, DeregisterClient
<1> QED
  BY <1>4, <1>5, <1>6, <1>7, <1>10, <1>11, <1>12, <1>13, <1>14
  DEF Next, vars, global, client, loader, Tick, Find, Query, LoadFile, Generate

LEMMA LoadedInvariant == Spec => []LoadedInv
<1>1. Init => LoadedInv
  BY DEF Init, LoadedInv, AllFound, AllLoaded, AllUsed, Found, Loaded, UsedNamed
<1>2. [Next]_vars => (Undisturbed' <=> Undisturbed) /\ (Keeps' <=> Keeps)
  BY EnvStays DEF Undisturbed, Keeps
<1>3. Keeps => Undisturbed
  BY DEF Keeps, Undisturbed
<1>4. IInv /\ LoadersInv /\ LoadedInv /\ [Next]_vars => LoadedInv'
  BY <1>2, <1>3, LoadedStep, UsedStep DEF LoadedInv
<1> QED BY <1>1, <1>4, Invariant, LoadersInvariant, PTL DEF Spec

-----------------------------------------------------------------------------
(* How long an idle library stays.                                         *)

(* What a step other than the clock's or the callback's does to an idle    *)
(* library: nothing, or it has just become idle; or it came with a         *)
(* registration that failed, and has no due time.                          *)
Stays(b) == b \in listed /\ usage[b] = 0 /\ expire'[b] = expire[b] /\ idle'[b] = idle[b]
LeftNow(b) == expire'[b] = (now + MaxIdle) % Wrap /\ idle'[b] = 0
NoDueTime(b) == expire'[b] = 0 /\ idle'[b] = 0

IdleStep ==
  /\ UNCHANGED <<now, count, pending>>
  /\ \A b \in listed' : usage'[b] = 0 =>
       Stays(b) \/ LeftNow(b) \/ (NoDueTime(b) /\ env.fails \cap {"alloc", "run"} # {})

LEMMA IdleSteps ==
  ASSUME IInv, [Next]_vars
  PROVE  Tick \/ CallBack \/ IdleStep
<1> USE DEF IdleStep
<1>e. env' = env
  BY EnvStays
<1>t. /\ now \in 0 .. Wrap - 1 /\ listed \subseteq Blocks /\ libs \in [Clients -> SUBSET Blocks]
      /\ usage \in [Blocks -> Nat] /\ expire \in [Blocks -> 0 .. Wrap - 1]
      /\ idle \in [Blocks -> 0 .. MaxIdle + Period]
  BY DEF IInv, TypeOK
<1>1. ASSUME UNCHANGED <<global, idle, now, count, pending>> PROVE IdleStep
  BY <1>1 DEF global, Stays
<1>2. ASSUME NEW b \in Blocks, NEW n \in Names, Global(b, n), UNCHANGED <<now, count, pending>>,
             \/ usage' = [usage EXCEPT ![b] = @ + 1]
             \/ usage' = usage /\ env.fails \cap {"alloc", "run"} # {}
      PROVE  IdleStep
  <2>1. ASSUME NEW d \in listed', usage'[d] = 0
        PROVE  Stays(d) \/ LeftNow(d) \/ (NoDueTime(d) /\ env.fails \cap {"alloc", "run"} # {})
    <3>1. listed' = listed \cup {b}
      BY <1>2, <1>e, GlobalStep
    <3>2. CASE d # b
      BY <1>2, <1>t, <2>1, <3>1, <3>2 DEF Global, Stays
    <3>3. CASE d = b
      <4>1. usage' = usage /\ env.fails \cap {"alloc", "run"} # {}
        BY <1>2, <1>t, <2>1, <3>3
      <4> QED BY <1>2, <1>t, <2>1, <3>3, <4>1 DEF Global, Stays, NoDueTime
    <3> QED BY <3>2, <3>3
  <2> QED BY <1>2, <2>1
<1>3. ASSUME NEW c \in Clients, NEW S \in SUBSET libs[c], LetGo(S), UNCHANGED <<now, count, pending>>
      PROVE  IdleStep
  <2>1. ASSUME NEW b \in listed', usage'[b] = 0 PROVE Stays(b) \/ LeftNow(b)
    <3>1. b \in listed /\ b \in Blocks
      BY <1>3, <1>t, <2>1 DEF LetGo
    <3>2. CASE b \in S
      <4>1. usage[b] = 1
        BY <1>3, <1>t, <2>1, <3>1, <3>2 DEF LetGo
      <4> QED BY <1>3, <3>1, <3>2, <4>1 DEF LetGo, Unused, LeftNow
    <3>3. CASE b \notin S
      BY <1>3, <2>1, <3>1, <3>3 DEF LetGo, Unused, Stays
    <3> QED BY <3>2, <3>3
  <2> QED BY <1>3, <2>1
<1>4. ASSUME NEW c \in Clients, NEW S \in SUBSET libs[c], NEW R, LetGoRemoving(S, R),
             UNCHANGED <<now, count, pending>>
      PROVE  IdleStep
  <2>1. ASSUME NEW b \in listed', usage'[b] = 0 PROVE Stays(b) \/ LeftNow(b)
    <3>1. b \in listed /\ b \in Blocks /\ b \notin R
      BY <1>4, <1>t, <2>1 DEF LetGoRemoving, Remove
    <3>2. CASE b \in S
      <4>1. usage[b] = 1
        BY <1>4, <1>t, <2>1, <3>1, <3>2 DEF LetGoRemoving
      <4> QED BY <1>4, <3>1, <3>2, <4>1 DEF LetGoRemoving, Unused, LeftNow
    <3>3. CASE b \notin S
      BY <1>4, <2>1, <3>1, <3>3 DEF LetGoRemoving, Unused, Stays
    <3> QED BY <3>2, <3>3
  <2> QED BY <1>4, <2>1
<1> HIDE DEF IdleStep
<1>5. ASSUME NEW c \in Clients, Run(c) PROVE IdleStep
  <2>1. UNCHANGED <<now, count, pending>> /\ \E b \in Blocks : RegisterObject(c, b, Loader)
    BY <1>5 DEF Run, clock
  <2> QED BY <1>2, <2>1, SharedObjectsAssumption DEF SharedObjectsAssumption, RegisterObject
<1>6. ASSUME NEW c \in Clients, RunFails(c) PROVE IdleStep
  <2>1. PICK b \in Blocks, registered \in BOOLEAN :
           LET again == registered /\ usage[b] = 0
           IN  /\ IF b \in listed THEN UNCHANGED <<listed, name, index, slots>> ELSE AddGlobal(b, Loader)
               /\ expire' = [expire EXCEPT ![b] = IF again THEN (now + MaxIdle) % Wrap
                                                  ELSE IF b \in listed THEN @ ELSE 0]
               /\ idle' = [idle EXCEPT ![b] = IF again \/ b \notin listed THEN 0 ELSE @]
    BY <1>6 DEF RunFails
  <2>2. UNCHANGED <<now, count, pending>> /\ usage' = usage /\ env.fails \cap {"alloc", "run"} # {}
    BY <1>6 DEF RunFails, clock
  <2>3. listed' \subseteq listed \cup {b}
    BY <2>1 DEF AddGlobal
  <2>4. ASSUME NEW d \in listed', usage'[d] = 0 PROVE Stays(d) \/ LeftNow(d) \/ NoDueTime(d)
    <3>1. CASE d # b
      BY <1>t, <2>1, <2>2, <2>3, <2>4, <3>1 DEF Stays
    <3>2. CASE d = b /\ registered
      BY <1>t, <2>1, <2>2, <2>4, <3>2 DEF LeftNow
    <3>3. CASE d = b /\ ~registered /\ b \in listed
      BY <1>t, <2>1, <2>2, <2>4, <3>3 DEF Stays
    <3>4. CASE d = b /\ ~registered /\ b \notin listed
      BY <1>t, <2>1, <2>2, <2>4, <3>4 DEF NoDueTime
    <3> QED BY <3>1, <3>2, <3>3, <3>4
  <2> QED BY <2>2, <2>4 DEF IdleStep
<1>7. ASSUME NEW c \in Clients, NEW m, CloseOpening(c, m) PROVE IdleStep
  <2>1. UNCHANGED <<now, count, pending>> /\ \E S \in SUBSET libs[c] : LetGoRemoving(S, Bogus(c))
    BY <1>7 DEF CloseOpening, clock
  <2> QED BY <1>4, <2>1
<1>8. ASSUME NEW c \in Clients, LoadFails(c) PROVE IdleStep
  <2>1. (\E m : CloseOpening(c, m)) \/ (LetGo(libs[c]) /\ UNCHANGED <<now, count, pending>>)
    BY <1>8 DEF LoadFails, clock
  <2> QED BY <1>3, <1>7, <2>1
<1>9. ASSUME NEW c \in Clients, RegisterLib(c) PROVE IdleStep
  <2>1. pc[c].h \in Blocks /\ pc[c].n \in Names /\ UNCHANGED <<now, count, pending>>
    BY <1>9 DEF RegisterLib, LoadInv, IInv, TypeOK, clock
  <2>2. \/ UNCHANGED <<global, idle>>
        \/ RegisterObject(c, pc[c].h, pc[c].n)
        \/ "alloc" \in env.fails /\ RegisterHalf(c, pc[c].h, pc[c].n)
    BY <1>9 DEF RegisterLib, Register, RegisterNothing
  <2> QED BY <1>1, <1>2, <2>1, <2>2 DEF RegisterObject, RegisterHalf
<1>10. ASSUME NEW c \in Clients, NoData(c) \/ GenerateFails(c) PROVE IdleStep
  BY <1>7, <1>10 DEF NoData, GenerateFails
<1>11. ASSUME NEW c \in Clients, DlClose(c) PROVE IdleStep
  <2>1. PICK u \in opened[c] : DeregisterObject(c, u[2])
    BY <1>11 DEF DlClose
  <2>2. UNCHANGED <<now, count, pending>>
    BY <1>11 DEF DlClose, clock
  <2>3. CASE LetGo({u[2]}) /\ u[2] \in libs[c]
    BY <1>3, <2>2, <2>3
  <2>4. CASE /\ Remove({u[2]}) /\ usage' = usage
             /\ expire' = [expire EXCEPT ![u[2]] = 0]
             /\ idle' = [idle EXCEPT ![u[2]] = 0]
    <3>1. \A b \in listed' : b \in listed /\ b # u[2]
      BY <2>4 DEF Remove
    <3>2. \A b \in listed' : expire'[b] = expire[b] /\ idle'[b] = idle[b]
      BY <1>t, <2>4, <3>1
    <3> QED BY <2>2, <2>4, <3>1, <3>2 DEF IdleStep, Stays
  <2>5. CASE UNCHANGED <<global, idle>>
    BY <1>1, <2>2, <2>5
  <2> QED BY <2>1, <2>3, <2>4, <2>5 DEF DeregisterObject
<1>12. ASSUME NEW c \in Clients, RelocFails(c) PROVE IdleStep
  <2>1. UNCHANGED <<now, count, pending>> /\ \E R : LetGoRemoving(libs[c], R)
    BY <1>12 DEF RelocFails, clock
  <2> QED BY <1>4, <2>1
<1>13. ASSUME NEW c \in Clients, Exit(c) PROVE IdleStep
  <2>1. UNCHANGED <<now, count, pending>> /\ LetGo(libs[c])
    BY <1>13 DEF Exit, DeregisterClient, clock
  <2> QED BY <1>3, <2>1
<1> QED
  BY <1>1, <1>5, <1>6, <1>8, <1>9, <1>10, <1>11, <1>12, <1>13
  DEF Next, vars, clock, Find, Query, LoadFile, Generate

(* The clock stays below its end, and a callback that is asked for has yet *)
(* to come.  The expiry time and the time without clients add up to the    *)
(* time of now and max_idle_time at most: so the callback finds out of     *)
(* time what has been idle for so long.                                    *)
Timed(b) ==
  /\ expire[b] + idle[b] <= now + MaxIdle
  /\ idle[b] < MaxIdle + Period - (IF pending THEN 0 ELSE count)

TimeInv ==
  ~env.wraps /\ MaxIdle > 0 =>
    /\ now + MaxIdle < Wrap
    /\ pending => count = Period
    /\ \A b \in listed : usage[b] = 0 => Timed(b)

LEMMA TimeStep ==
  ASSUME IInv, TimeInv, [Next]_vars
  PROVE  TimeInv'
<1>e. env' = env
  BY EnvStays
<1>s. SUFFICES ASSUME ~env.wraps, MaxIdle > 0
               PROVE  /\ now' + MaxIdle < Wrap
                      /\ pending' => count' = Period
                      /\ \A b \in listed' : usage'[b] = 0 => Timed(b)'
  BY <1>e DEF TimeInv, Timed
<1>t. /\ MaxIdle \in Nat /\ Period \in Nat \ {0} /\ Wrap \in Nat \ {0}
      /\ now \in 0 .. Wrap - 1 /\ count \in 1 .. Period
      /\ listed \subseteq Blocks
      /\ usage \in [Blocks -> Nat] /\ expire \in [Blocks -> 0 .. Wrap - 1]
      /\ idle \in [Blocks -> 0 .. MaxIdle + Period]
  BY Times DEF IInv, TypeOK
<1>p. now + MaxIdle < Wrap /\ (pending => count = Period)
  BY <1>s DEF TimeInv
<1>b. \A b \in listed : usage[b] = 0 => Timed(b)
  BY <1>s DEF TimeInv
<1>1. CASE IdleStep
  <2>1. (now + MaxIdle) % Wrap = now + MaxIdle
    BY <1>p, <1>t
  <2>2. UNCHANGED <<now, count, pending>>
    BY <1>1 DEF IdleStep
  <2>3. ASSUME NEW b \in listed', usage'[b] = 0 PROVE Timed(b)'
    <3>1. CASE Stays(b)
      BY <1>b, <1>e, <2>2, <3>1 DEF Timed, Stays
    <3>2. CASE LeftNow(b) \/ NoDueTime(b)
      <4>1. expire'[b] + idle'[b] <= now + MaxIdle /\ idle'[b] = 0
        BY <1>t, <2>1, <3>2 DEF LeftNow, NoDueTime
      <4>2. 0 < MaxIdle + Period - (IF pending THEN 0 ELSE count)
        BY <1>s, <1>t
      <4> QED BY <1>e, <2>2, <4>1, <4>2 DEF Timed
    <3> QED BY <1>1, <2>3, <3>1, <3>2 DEF IdleStep
  <2> QED BY <1>e, <1>p, <2>2, <2>3
<1>2. CASE CallBack
  <2>1. /\ pending /\ ~pending' /\ now' = now /\ count' = count /\ usage' = usage
        /\ listed' = listed \ Expired
        /\ expire' = [b \in Blocks |-> IF b \in Expired THEN 0 ELSE expire[b]]
        /\ idle' = [b \in Blocks |-> IF b \in Expired THEN 0 ELSE idle[b]]
    BY <1>2 DEF CallBack, Remove
  <2>2. ASSUME NEW b \in listed', usage'[b] = 0 PROVE Timed(b)'
    <3>1. b \in listed /\ b \in Blocks /\ expire'[b] = expire[b] /\ idle'[b] = idle[b] /\ expire[b] > now
      BY <1>t, <2>1, <2>2 DEF Expired
    <3>2. expire[b] + idle[b] <= now + MaxIdle /\ count = Period
      BY <1>b, <1>p, <2>1, <2>2, <3>1 DEF Timed
    <3>3. idle[b] < MaxIdle + Period - Period
      BY <1>t, <3>1, <3>2
    <3> QED BY <1>e, <2>1, <3>1, <3>2, <3>3 DEF Timed
  <2> QED BY <1>e, <1>p, <2>1, <2>2
<1>3. CASE Tick
  <2>1. /\ now + MaxIdle + 1 < Wrap /\ ~pending /\ now' = (now + 1) % Wrap
        /\ count' = IF count = 1 THEN Period ELSE count - 1
        /\ pending' = (count = 1)
        /\ idle' = [b \in Blocks |-> IF b \in listed /\ usage[b] = 0 /\ idle[b] < MaxIdle + Period
                                     THEN idle[b] + 1 ELSE idle[b]]
        /\ listed' = listed /\ usage' = usage /\ expire' = expire
    BY <1>3, <1>s DEF Tick, global
  <2>2. now' = now + 1
    BY <1>t, <2>1
  <2>3. ASSUME NEW b \in listed', usage'[b] = 0 PROVE Timed(b)'
    <3>1. b \in listed /\ b \in Blocks /\ Timed(b)
      BY <1>b, <1>t, <2>1, <2>3
    <3>2. idle[b] < MaxIdle + Period - count /\ expire[b] + idle[b] <= now + MaxIdle
      BY <1>t, <2>1, <3>1 DEF Timed
    <3>3. idle'[b] = idle[b] + 1
      BY <1>t, <2>1, <2>3, <3>1, <3>2
    <3>4. /\ expire'[b] = expire[b] /\ expire[b] \in Nat /\ idle[b] \in Nat
          /\ now \in Nat /\ count \in Nat /\ count > 0
      BY <1>t, <2>1, <3>1
    <3>5. expire'[b] + idle'[b] <= now' + MaxIdle
      BY <1>t, <2>2, <3>2, <3>3, <3>4
    <3>6. idle'[b] < MaxIdle + Period - (IF pending' THEN 0 ELSE count')
      <4>1. CASE count = 1
        <5>1. pending'
          BY <2>1, <4>1, Zenon
        <5> QED BY <1>t, <3>2, <3>3, <3>4, <4>1, <5>1
      <4>2. CASE count # 1
        <5>1. ~pending' /\ count' = count - 1
          BY <2>1, <4>2
        <5> QED BY <1>t, <3>2, <3>3, <3>4, <5>1
      <4> QED BY <4>1, <4>2
    <3> QED BY <1>e, <3>5, <3>6 DEF Timed
  <2>4. pending' => count' = Period
    BY <2>1, Zenon
  <2>5. now' + MaxIdle < Wrap
    BY <1>t, <2>1, <2>2
  <2> QED BY <1>e, <2>3, <2>4, <2>5
<1> QED BY <1>1, <1>2, <1>3, IdleSteps

LEMMA TimeInvariant == Spec => []TimeInv
<1>1. Init => TimeInv
  <2> SUFFICES ASSUME Init PROVE now + MaxIdle < Wrap /\ (pending => count = Period)
    BY DEF Init, TimeInv
  <2>1. env \in Settings /\ now = 0 /\ count = Period
    BY DEF Init
  <2>2. MaxIdle < Wrap
    BY <2>1, SharedObjectsAssumption DEF SharedObjectsAssumption
  <2> QED BY <2>1, <2>2, Times
<1> QED BY <1>1, TimeStep, Invariant, PTL DEF Spec

(* The due time of an idle library, max_idle_time after it became idle, on *)
(* a clock that wraps.                                                     *)
OnClock(x) == IF x < Wrap THEN x ELSE x - Wrap
Due(b) == idle[b] <= MaxIdle => expire[b] = OnClock(now + (MaxIdle - idle[b]))
DueInv ==
  env.fails \cap {"alloc", "run"} = {} => \A b \in listed : usage[b] = 0 => Due(b)

LEMMA ClockWraps ==
  \A w \in Nat \ {0}, x \in Nat : x < w + w => x % w = IF x < w THEN x ELSE x - w
OBVIOUS

LEMMA DueStep ==
  ASSUME IInv, DueInv, [Next]_vars
  PROVE  DueInv'
<1>e. env' = env
  BY EnvStays
<1>s. SUFFICES ASSUME env.fails \cap {"alloc", "run"} = {}, NEW b \in listed', usage'[b] = 0
               PROVE  Due(b)'
  BY <1>e DEF DueInv
<1>t. /\ MaxIdle \in Nat /\ Period \in Nat \ {0} /\ Wrap \in Nat \ {0}
      /\ now \in 0 .. Wrap - 1
      /\ listed \subseteq Blocks /\ usage \in [Blocks -> Nat]
      /\ idle \in [Blocks -> 0 .. MaxIdle + Period]
  BY Times DEF IInv, TypeOK
<1>w. MaxIdle < Wrap
  BY SharedObjectsAssumption DEF SharedObjectsAssumption, IInv, TypeOK
<1>b. b \in listed /\ usage[b] = 0 => Due(b)
  BY <1>s DEF DueInv
<1>1. CASE IdleStep
  <2>1. now' = now
    BY <1>1 DEF IdleStep
  <2>2. CASE Stays(b)
    BY <1>b, <1>e, <2>1, <2>2 DEF Stays, Due, OnClock
  <2>3. CASE LeftNow(b)
    <3>1. expire'[b] = (now + MaxIdle) % Wrap /\ idle'[b] = 0
      BY <2>3 DEF LeftNow
    <3>2. (now + MaxIdle) % Wrap = OnClock(now + MaxIdle)
      <4>1. now + MaxIdle \in Nat /\ now + MaxIdle < Wrap + Wrap
        BY <1>t, <1>w
      <4> QED BY <1>t, <4>1, ClockWraps DEF OnClock
    <3>3. now + (MaxIdle - 0) = now + MaxIdle
      BY <1>t
    <3> QED BY <1>e, <2>1, <3>1, <3>2, <3>3 DEF Due, OnClock
  <2> QED BY <1>1, <1>s, <2>2, <2>3 DEF IdleStep
<1>2. CASE CallBack
  <2>1. /\ now' = now /\ usage' = usage /\ listed' = listed \ Expired
        /\ expire' = [d \in Blocks |-> IF d \in Expired THEN 0 ELSE expire[d]]
        /\ idle' = [d \in Blocks |-> IF d \in Expired THEN 0 ELSE idle[d]]
    BY <1>2 DEF CallBack, Remove
  <2>2. b \in listed /\ usage[b] = 0 /\ expire'[b] = expire[b] /\ idle'[b] = idle[b]
    BY <1>s, <1>t, <2>1
  <2> QED BY <1>b, <1>e, <2>1, <2>2 DEF Due, OnClock
<1>3. CASE Tick
  <2>1. /\ now' = (now + 1) % Wrap
        /\ idle' = [d \in Blocks |-> IF d \in listed /\ usage[d] = 0 /\ idle[d] < MaxIdle + Period
                                     THEN idle[d] + 1 ELSE idle[d]]
        /\ listed' = listed /\ usage' = usage /\ expire' = expire
    BY <1>3 DEF Tick, global
  <2>2. b \in listed /\ usage[b] = 0 /\ b \in Blocks /\ idle[b] \in Nat
    BY <1>s, <1>t, <2>1
  <2>3. idle'[b] = IF idle[b] < MaxIdle + Period THEN idle[b] + 1 ELSE idle[b]
    BY <2>1, <2>2
  <2>4. now' = IF now + 1 < Wrap THEN now + 1 ELSE now + 1 - Wrap
    <3>1. CASE now + 1 < Wrap
      <4>1. (now + 1) % Wrap = now + 1
        BY <1>t, <3>1
      <4> QED BY <2>1, <3>1, <4>1
    <3>2. CASE ~(now + 1 < Wrap)
      <4>1. now + 1 = Wrap
        BY <1>t, <3>2
      <4>2. (now + 1) % Wrap = 0 /\ now + 1 - Wrap = 0
        BY <1>t, <4>1
      <4> QED BY <2>1, <3>2, <4>2
    <3> QED BY <3>1, <3>2
  <2>5. SUFFICES ASSUME idle'[b] <= MaxIdle PROVE expire'[b] = OnClock(now' + (MaxIdle - idle'[b]))
    BY <1>e DEF Due, OnClock
  <2>6. idle'[b] = idle[b] + 1 /\ idle[b] < MaxIdle
    BY <1>t, <2>2, <2>3, <2>5
  <2>7. expire[b] = OnClock(now + (MaxIdle - idle[b]))
    BY <1>b, <1>t, <2>2, <2>6 DEF Due
  <2>8. OnClock(now' + (MaxIdle - idle'[b])) = OnClock(now + (MaxIdle - idle[b]))
    <3>1. CASE now + 1 < Wrap
      <4>1. now' + (MaxIdle - idle'[b]) = now + (MaxIdle - idle[b])
        BY <1>t, <2>2, <2>4, <2>6, <3>1
      <4> QED BY <4>1
    <3>2. CASE ~(now + 1 < Wrap)
      <4>1. now' = 0 /\ now = Wrap - 1
        BY <1>t, <2>4, <3>2
      <4>2. /\ now' + (MaxIdle - idle'[b]) = MaxIdle - idle[b] - 1 /\ MaxIdle - idle[b] - 1 < Wrap
            /\ now + (MaxIdle - idle[b]) = Wrap + (MaxIdle - idle[b] - 1)
            /\ MaxIdle - idle[b] - 1 \in Nat
        BY <1>t, <1>w, <2>2, <2>6, <4>1
      <4> QED BY <1>t, <4>2 DEF OnClock
    <3> QED BY <3>1, <3>2
  <2> QED BY <2>1, <2>7, <2>8
<1> QED BY <1>1, <1>2, <1>3, IdleSteps

LEMMA DueInvariant == Spec => []DueInv
<1>1. Init => DueInv
  BY DEF Init, DueInv
<1> QED BY <1>1, DueStep, Invariant, PTL DEF Spec

(* som_callback_handler: what it removes has been idle for max_idle_time,  *)
(* or its due time is past the last value of the clock.                    *)
LEMMA KeptIdleStep ==
  ASSUME IInv, DueInv, env.fails \cap {"alloc", "run"} = {}, CallBack, NEW b \in listed, b \notin listed'
  PROVE  idle[b] >= MaxIdle \/ now + (MaxIdle - idle[b]) >= Wrap
<1>1. usage[b] = 0 /\ expire[b] <= now
  BY DEF CallBack, Remove, Expired
<1>2. /\ MaxIdle \in Nat /\ Wrap \in Nat /\ now \in Nat /\ expire[b] \in Nat /\ idle[b] \in Nat
  BY Times DEF IInv, TypeOK
<1>3. SUFFICES ASSUME idle[b] < MaxIdle, now + (MaxIdle - idle[b]) < Wrap PROVE FALSE
  BY <1>2
<1>4. expire[b] = now + (MaxIdle - idle[b])
  BY <1>1, <1>2, <1>3 DEF DueInv, Due, OnClock
<1> QED BY <1>1, <1>2, <1>3, <1>4

-----------------------------------------------------------------------------
(* som_register.c, som_array.c, som_main.c, readelflib1.c: whatever        *)
(* programs start, load, close and exit.  A library that is listed or      *)
(* found is in memory, although files cannot be read, memory is short or   *)
(* relocations fail, if nobody runs between the SWIs of a load and no      *)
(* start fails; what a program uses is registered for it, although loads   *)
(* and relocations fail; no memory is lost and the arrays are right,       *)
(* whoever runs in between; and an idle library goes with the first        *)
(* callback after its time, whatever fails, while the clock does not wrap. *)
THEOREM LibrariesCorrect == Spec => []LibrariesInv
<1>1. LoadedInv /\ IInv => FoundIsThere /\ ListedIsLoaded /\ UsedIsCounted
  BY DEF LoadedInv, AllFound, AllLoaded, AllUsed, Found, Loaded, UsedNamed, Keeps,
         FoundIsThere, ListedIsLoaded, UsedIsCounted, IInv, TypeOK
<1>2. TimeInv /\ IInv => GoneInTime
  <2> SUFFICES ASSUME TimeInv, IInv, ~env.wraps, MaxIdle > 0, NEW b \in listed, usage[b] = 0, ~pending
               PROVE  idle[b] < MaxIdle + Period - 1
    BY DEF GoneInTime
  <2>1. idle[b] < MaxIdle + Period - count
    BY DEF TimeInv, Timed
  <2>2. idle[b] \in Nat /\ MaxIdle \in Nat /\ Period \in Nat /\ count \in 1 .. Period
    BY Times DEF IInv, TypeOK
  <2> QED BY <2>1, <2>2
<1> QED
  BY <1>1, <1>2, Invariant, LoadedInvariant, TimeInvariant, LostCorrect, ArraysCorrect, PTL DEF LibrariesInv

(* som_callback_handler: a library is removed by the callback only when    *)
(* nobody has used it for max_idle_time, or when that time ends past the   *)
(* last value of the clock.  The clock may wrap, others may run between    *)
(* the SWIs of a load, and loads, copies and relocations may fail; it is   *)
(* not said of starts and registrations that fail, which leave libraries   *)
(* without a due time.                                                     *)
THEOREM KeptCorrect == Spec => KeptIdle
<1>1. IInv /\ DueInv /\ [Next]_vars =>
        [env.fails \cap {"alloc", "run"} = {} =>
          \A b \in listed : CallBack /\ b \notin listed' =>
            idle[b] >= MaxIdle \/ now + (MaxIdle - idle[b]) >= Wrap]_vars
  BY KeptIdleStep
<1> QED BY <1>1, Invariant, DueInvariant, PTL DEF Spec, KeptIdle
=============================================================================
