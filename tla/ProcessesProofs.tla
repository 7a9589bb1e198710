--------------------------- MODULE ProcessesProofs ---------------------------
(***************************************************************************)
(* Proofs about Processes, for any process structures, handles, ttys,      *)
(* images and programs.                                                    *)
(***************************************************************************)
EXTENDS Processes, FiniteSetTheorems, SequenceTheorems, WellFoundedInduction, TLAPS

(* What descriptors, consoles and devices refer to.                        *)
Table == [p \in Procs |-> [f \in Fds |-> proc[p].fds[f].h]]
Console == [p \in Procs |-> proc[p].tty]
Image == [p \in Procs |-> proc[p].image]
Empty == [f \in Fds |-> NULL]

(* The descriptors of D that refer to h in the table T; how many there are *)
(* in all of the table.                                                    *)
Among(T, D, h) == {d \in D : T[d[1]][d[2]] = h}
Places(T, h) == Among(T, Procs \X Fds, h)
Count(T, h) == Cardinality(Places(T, h))

(* One when x is y.                                                        *)
Hit(x, y) == IF x = y THEN 1 ELSE 0

(* The elements, those of S, that the function F maps to x.                *)
AtOf(F, S, x) == {e \in S : F[e] = x}
At(F, x) == AtOf(F, DOMAIN F, x)

DupType == [p : Procs, f1 : Fds, f2 : Fds, got : Fds \cup {NULL, -1}]

Shape ==
  /\ prog \in Programs
  /\ cur \in Procs \cup {NULL}
  /\ proc \in [Procs -> ProcType]
  /\ dev \in [Handles -> {"free", "file", "pipe"} \cup Ttys]
  /\ refs \in [Handles -> Nat]
  /\ ttys \subseteq Ttys /\ ttyref \in [Ttys -> Int]
  /\ clients \subseteq Images /\ areas \subseteq Images
  /\ dref \in [Images -> Nat]
  /\ dup \in DupType \cup {NULL}

(* Every reference to a handle is counted, and every one to a tty.         *)
RefsInv == \A h \in Handles : refs[h] = Count(Table, h) /\ (dev[h] = "free" <=> refs[h] = 0)

TtysInv ==
  UnixLibOnly => \A t \in Ttys :
    /\ ttyref[t] = Cardinality(At(dev, t)) + Cardinality(At(Console, t))
    /\ t \in ttys <=> ttyref[t] # 0

(* What a structure holds that no program runs in.                         *)
EmptyInv ==
  \A p \in Procs :
    /\ UnixLibOnly => proc[p].run # "foreign"
    /\ proc[p].st = "free" => proc[p] = NoProc
    /\ proc[p].st = "zombie" /\ proc[p].run # "foreign" => Table[p] = Empty /\ proc[p].tty = NULL
    /\ proc[p].st = "live" /\ proc[p].ppid = NULL /\ proc[p].run # "unixlib" =>
         Table[p] = Empty /\ proc[p].tty = NULL /\ proc[p].kids = <<>>

(* s is the line of the live ones among the structures P, from the oldest  *)
(* process to c, the one that runs.                                        *)
Line(P, c, s) ==
  /\ \A i, j \in DOMAIN s : s[i] = s[j] => i = j
  /\ \A p \in Procs : P[p].st = "live" <=> \E i \in DOMAIN s : s[i] = p
  /\ c = IF Len(s) = 0 THEN NULL ELSE s[Len(s)]
  /\ \A i \in DOMAIN s : P[s[i]].ppid = IF i = 1 THEN NULL ELSE s[i - 1]
  /\ \A i \in DOMAIN s : \A n \in DOMAIN P[s[i]].kids :
       P[P[s[i]].kids[n]].st = "live" <=> n = 1 /\ i # Len(s)

(* Parents and children agree; the live processes are a line.              *)
Kin(P, c) ==
  /\ \A p \in Procs : P[p].kids \in Seq(Procs) /\ P[p].ppid \in Procs \cup {NULL}
  /\ \A p, q \in Procs : q \in Range(P[p].kids) <=> P[q].st # "free" /\ P[q].ppid = p
  /\ \A p \in Procs : \A m, n \in DOMAIN P[p].kids : P[p].kids[m] = P[p].kids[n] => m = n
  /\ \A p \in Procs : P[p].st = "zombie" => P[p].ppid # NULL
  /\ \E s \in Seq(Procs) : Line(P, c, s)

KinInv == Kin(proc, cur)

(* Who runs in which image.                                                *)
ImagesInv ==
  /\ \A p \in Procs : proc[p].image # NULL <=> proc[p].st = "live" /\ proc[p].run = "unixlib"
  /\ \A i \in Images : dref[i] = Cardinality(At(Image, i)) /\ (i \in areas => dref[i] > 0)
  /\ \A p \in Procs : proc[p].st = "live" /\ ~proc[p].forked => proc[p].ppid = NULL
  /\ \A p \in Procs : proc[p].st = "live" /\ proc[p].execed /\ proc[p].run # "foreign" =>
       "unixlib" \in prog.execs
  /\ ExecsAreLeaves => \A p, q \in Procs :
       /\ proc[p].image # NULL => proc[p].image \in clients
       /\ proc[p].image = proc[q].image /\ proc[p].image # NULL /\ proc[p].execed => p = q

Good == Shape /\ RefsInv /\ TtysInv /\ EmptyInv /\ KinInv /\ ImagesInv

(* A fork has failed halfway: nothing that matters happens any more.       *)
Stuck ==
  /\ ~ForksWhole /\ ~Intact /\ cur # NULL /\ told = NULL
  /\ me.run # "foreign" /\ (me.st = "live" => me.run = "unixlib")
  /\ Shape /\ CountsInv /\ FamilyInv /\ UsedIsKept

IInv == Good \/ Stuck

-----------------------------------------------------------------------------
(* Counting.                                                               *)

(* One element more, one less, or the same.                                *)
LEMMA CountChange ==
  ASSUME NEW A, NEW B, NEW e, IsFiniteSet(A), \A d : d # e => (d \in B <=> d \in A)
  PROVE  /\ IsFiniteSet(B) /\ Cardinality(A) \in Nat /\ Cardinality(B) \in Nat
         /\ Cardinality(B) = Cardinality(A) + (IF e \in B THEN 1 ELSE 0) - (IF e \in A THEN 1 ELSE 0)
<1>1. Cardinality(A) \in Nat
  BY FS_CardinalityType
<1>2. CASE e \in A /\ e \notin B
  <2>1. B = A \ {e}
    BY <1>2
  <2>2. IsFiniteSet(B) /\ Cardinality(B) = Cardinality(A) - 1
    BY <1>2, <2>1, FS_RemoveElement
  <2>3. Cardinality(B) \in Nat
    BY <2>2, FS_CardinalityType
  <2> QED
    BY <1>1, <1>2, <2>2, <2>3
<1>3. CASE e \notin A /\ e \in B
  <2>1. B = A \cup {e}
    BY <1>3
  <2>2. IsFiniteSet(B) /\ Cardinality(B) = Cardinality(A) + 1
    BY <1>3, <2>1, FS_AddElement
  <2> QED
    BY <1>1, <1>3, <2>2
<1>4. CASE e \in A <=> e \in B
  <2>1. B = A
    BY <1>4
  <2> QED
    BY <1>1, <1>4, <2>1
<1> QED
  BY <1>2, <1>3, <1>4

LEMMA FdsFinite ==
  /\ IsFiniteSet(Fds) /\ IsFiniteSet(Procs \X Fds)
  /\ Cardinality(Procs) \in Nat /\ Cardinality(Handles) \in Nat
  /\ Cardinality(Procs \X Fds) = MaxFd * Cardinality(Procs)
<1>1. IsFiniteSet(Fds) /\ Cardinality(Fds) = MaxFd
  <2>1. 0 \in Int /\ MaxFd - 1 \in Int /\ ~(0 > MaxFd - 1) /\ MaxFd - 1 - 0 + 1 = MaxFd
    BY ProcessesAssumption
  <2> QED
    BY <2>1, FS_Interval DEF Fds
<1>2. Cardinality(Procs) \in Nat /\ Cardinality(Handles) \in Nat
  BY FiniteAssumption, FS_CardinalityType
<1>3. IsFiniteSet(Procs \X Fds) /\ Cardinality(Procs \X Fds) = Cardinality(Procs) * MaxFd
  BY <1>1, FiniteAssumption, FS_Product
<1> QED
  BY <1>1, <1>2, <1>3, ProcessesAssumption

LEMMA PlacesFinite ==
  ASSUME NEW T, NEW h
  PROVE  /\ IsFiniteSet(Places(T, h)) /\ Count(T, h) \in Nat
         /\ Count(T, h) \in 0 .. MaxFd * Cardinality(Procs)
<1>1. Places(T, h) \subseteq Procs \X Fds
  BY DEF Places, Among
<1>2. IsFiniteSet(Places(T, h)) /\ Cardinality(Places(T, h)) <= Cardinality(Procs \X Fds)
  BY <1>1, FdsFinite, FS_Subset
<1>3. Cardinality(Places(T, h)) \in Nat
  BY <1>2, FS_CardinalityType
<1>4. Cardinality(Procs \X Fds) \in Nat
  BY FdsFinite, FS_CardinalityType
<1> QED
  BY <1>2, <1>3, <1>4, FdsFinite DEF Count

(* One descriptor changes.                                                 *)
LEMMA CountSet ==
  ASSUME NEW T, NEW U, NEW p \in Procs, NEW f \in Fds, NEW h,
         \A q \in Procs, g \in Fds : ~(q = p /\ g = f) => U[q][g] = T[q][g]
  PROVE  Count(U, h) = Count(T, h) + Hit(U[p][f], h) - Hit(T[p][f], h)
<1> DEFINE e == <<p, f>>
<1>1. \A d : d # e => (d \in Places(U, h) <=> d \in Places(T, h))
  <2> SUFFICES ASSUME NEW d \in Procs \X Fds, d # e PROVE U[d[1]][d[2]] = T[d[1]][d[2]]
    BY DEF Places, Among
  <2>1. d[1] \in Procs /\ d[2] \in Fds /\ d = <<d[1], d[2]>>
    OBVIOUS
  <2>2. ~(d[1] = p /\ d[2] = f)
    BY <2>1
  <2> QED
    BY <2>1, <2>2
<1>2. e \in Places(U, h) <=> U[p][f] = h
  BY DEF Places, Among
<1>3. e \in Places(T, h) <=> T[p][f] = h
  BY DEF Places, Among
<1> HIDE DEF e
<1>4. Cardinality(Places(U, h)) = Cardinality(Places(T, h)) + (IF e \in Places(U, h) THEN 1 ELSE 0)
                                    - (IF e \in Places(T, h) THEN 1 ELSE 0)
  BY <1>1, PlacesFinite, CountChange
<1> QED
  BY <1>2, <1>3, <1>4 DEF Count, Hit

(* The descriptors of D are closed.                                        *)
LEMMA CountAmong ==
  ASSUME NEW T, NEW D \in SUBSET (Procs \X Fds), NEW h
  PROVE  /\ IsFiniteSet(Among(T, D, h)) /\ Cardinality(Among(T, D, h)) \in Nat
         /\ Cardinality(Among(T, D, h)) <= Count(T, h)
<1>1. Among(T, D, h) \subseteq Places(T, h)
  BY DEF Places, Among
<1>2. IsFiniteSet(Among(T, D, h)) /\ Cardinality(Among(T, D, h)) <= Cardinality(Places(T, h))
  BY <1>1, PlacesFinite, FS_Subset
<1>3. Cardinality(Among(T, D, h)) \in Nat
  BY <1>2, FS_CardinalityType
<1> QED
  BY <1>2, <1>3 DEF Count

LEMMA CountClear ==
  ASSUME NEW T, NEW U, NEW D \in SUBSET (Procs \X Fds), NEW h \in Handles,
         \A d \in Procs \X Fds : U[d[1]][d[2]] = IF d \in D THEN NULL ELSE T[d[1]][d[2]]
  PROVE  Count(U, h) = Count(T, h) - Cardinality(Among(T, D, h))
<1>1. Places(U, h) = Places(T, h) \ Among(T, D, h)
  BY NullAssumption DEF Places, Among
<1>2. Places(T, h) \cap Among(T, D, h) = Among(T, D, h)
  BY DEF Places, Among
<1>3. Cardinality(Places(U, h)) = Cardinality(Places(T, h)) - Cardinality(Among(T, D, h))
  BY <1>1, <1>2, PlacesFinite, FS_Difference
<1> QED
  BY <1>3 DEF Count

(* A process gets a copy of the descriptors of another.                    *)
Copied(T, U, p, c) ==
  /\ \A g \in Fds : T[c][g] = NULL
  /\ \A q \in Procs, g \in Fds : U[q][g] = IF q = c THEN T[p][g] ELSE T[q][g]

LEMMA CountCopy ==
  ASSUME NEW T, NEW U, NEW p \in Procs, NEW c \in Procs, NEW h \in Handles, Copied(T, U, p, c)
  PROVE  Count(U, h) = Count(T, h) + Cardinality(Among(T, {p} \X Fds, h))
<1>a. /\ \A g \in Fds : T[c][g] = NULL
      /\ \A q \in Procs, g \in Fds : U[q][g] = IF q = c THEN T[p][g] ELSE T[q][g]
  BY DEF Copied
<1> DEFINE N == Among(T, {p} \X Fds, h)
           M == {d \in {c} \X Fds : T[p][d[2]] = h}
<1>1. IsFiniteSet(N)
  <2>1. N \subseteq Procs \X Fds
    BY DEF Among
  <2> QED
    BY <2>1, FdsFinite, FS_Subset
<1>2. IsFiniteSet(M) /\ Cardinality(M) = Cardinality(N)
  <2> DEFINE b == [d \in N |-> <<c, d[2]>>]
  <2>1. \A d \in N : d = <<p, d[2]>> /\ d[2] \in Fds /\ T[p][d[2]] = h
    BY DEF Among
  <2>2. \A d \in M : d = <<c, d[2]>> /\ d[2] \in Fds /\ T[p][d[2]] = h
    OBVIOUS
  <2>3. b \in [N -> M]
    BY <2>1
  <2>4. IsInjective(b)
    BY <2>1 DEF IsInjective
  <2>5. \A m \in M : \E d \in N : b[d] = m
    <3> SUFFICES ASSUME NEW m \in M PROVE \E d \in N : b[d] = m
      OBVIOUS
    <3>1. <<p, m[2]>> \in N
      BY <2>2 DEF Among
    <3>2. b[<<p, m[2]>>] = m
      BY <2>2, <3>1
    <3> QED
      BY <3>1, <3>2
  <2>6. b \in Bijection(N, M)
    BY <2>3, <2>4, <2>5 DEF Bijection, Injection, Surjection
  <2> HIDE DEF N, M, b
  <2> QED
    BY <1>1, <2>6, FS_Bijection DEF ExistsBijection
<1>3. Places(U, h) = Places(T, h) \cup M
  <2> SUFFICES ASSUME NEW d \in Procs \X Fds
               PROVE  U[d[1]][d[2]] = h <=> T[d[1]][d[2]] = h \/ d \in M
    BY DEF Places, Among
  <2>1. d[1] \in Procs /\ d[2] \in Fds /\ d = <<d[1], d[2]>>
    OBVIOUS
  <2>2. d \in M <=> d[1] = c /\ T[p][d[2]] = h
    BY <2>1
  <2>3. h # NULL
    BY NullAssumption
  <2> QED
    BY <1>a, <2>1, <2>2, <2>3
<1>4. Places(T, h) \cap M = {}
  <2> SUFFICES ASSUME NEW d \in M, d \in Places(T, h) PROVE FALSE
    OBVIOUS
  <2>1. d[1] = c /\ d[2] \in Fds /\ T[d[1]][d[2]] = h
    BY DEF Places, Among
  <2> QED
    BY <1>a, <2>1, NullAssumption
<1> HIDE DEF N, M
<1>5. Cardinality(Places(T, h) \cup M) = Cardinality(Places(T, h)) + Cardinality(M) - 0
  BY <1>2, <1>4, PlacesFinite, FS_Union, FS_EmptySet
<1>6. Cardinality(M) \in Nat /\ Count(T, h) \in Nat
  BY <1>2, PlacesFinite, FS_CardinalityType
<1> QED
  BY <1>2, <1>3, <1>5, <1>6 DEF Count, N

(* So there is room for them among the descriptors there can be.           *)
LEMMA CountMore ==
  ASSUME NEW T, NEW p \in Procs, NEW c \in Procs, NEW h \in Handles, \A g \in Fds : T[c][g] = NULL
  PROVE  Count(T, h) + Cardinality(Among(T, {p} \X Fds, h)) \in 0 .. MaxFd * Cardinality(Procs)
<1> DEFINE V == [q \in Procs |-> [g \in Fds |-> IF q = c THEN T[p][g] ELSE T[q][g]]]
<1>1. \A q \in Procs, g \in Fds : V[q][g] = IF q = c THEN T[p][g] ELSE T[q][g]
  OBVIOUS
<1> HIDE DEF V
<1>2. Copied(T, V, p, c)
  BY <1>1 DEF Copied
<1>3. Count(V, h) = Count(T, h) + Cardinality(Among(T, {p} \X Fds, h))
  BY <1>2, CountCopy
<1> QED
  BY <1>3, PlacesFinite

(* The function changes at one place, or is cleared on a set.              *)
LEMMA AtFinite ==
  ASSUME NEW F, IsFiniteSet(DOMAIN F), NEW y
  PROVE  IsFiniteSet(At(F, y)) /\ Cardinality(At(F, y)) \in Nat
  BY FS_Subset, FS_CardinalityType DEF At, AtOf

LEMMA AtSet ==
  ASSUME NEW F, NEW G, NEW e \in DOMAIN F, NEW y, IsFiniteSet(DOMAIN F),
         DOMAIN G = DOMAIN F, \A q \in DOMAIN F : q # e => G[q] = F[q]
  PROVE  Cardinality(At(G, y)) =
           Cardinality(At(F, y)) + Hit(G[e], y) - Hit(F[e], y)
<1>1. \A d : d # e => (d \in At(G, y) <=> d \in At(F, y))
  BY DEF At, AtOf
<1>2. (e \in At(G, y) <=> G[e] = y) /\ (e \in At(F, y) <=> F[e] = y)
  BY DEF At, AtOf
<1>3. Cardinality(At(G, y)) = Cardinality(At(F, y)) + (IF e \in At(G, y) THEN 1 ELSE 0)
                                - (IF e \in At(F, y) THEN 1 ELSE 0)
  BY <1>1, AtFinite, CountChange
<1> QED
  BY <1>2, <1>3 DEF Hit

LEMMA AtSome ==
  ASSUME NEW F, NEW S \in SUBSET DOMAIN F, NEW y, IsFiniteSet(DOMAIN F)
  PROVE  Cardinality(AtOf(F, S, y)) \in Nat /\ Cardinality(AtOf(F, S, y)) <= Cardinality(At(F, y))
<1>1. AtOf(F, S, y) \subseteq At(F, y)
  BY DEF At, AtOf
<1>2. IsFiniteSet(AtOf(F, S, y)) /\ Cardinality(AtOf(F, S, y)) <= Cardinality(At(F, y))
  BY <1>1, AtFinite, FS_Subset
<1> QED
  BY <1>2, FS_CardinalityType

LEMMA AtClear ==
  ASSUME NEW F, NEW G, NEW S \in SUBSET DOMAIN F, NEW y, IsFiniteSet(DOMAIN F), DOMAIN G = DOMAIN F,
         \A q \in DOMAIN F : IF q \in S THEN G[q] # y ELSE G[q] = F[q]
  PROVE  Cardinality(At(G, y)) = Cardinality(At(F, y)) - Cardinality(AtOf(F, S, y))
<1>1. At(G, y) = At(F, y) \ AtOf(F, S, y)
  BY DEF At, AtOf
<1>2. At(F, y) \cap AtOf(F, S, y) = AtOf(F, S, y)
  BY DEF At, AtOf
<1> QED
  BY <1>1, <1>2, AtFinite, FS_Difference

LEMMA TableIs ==
  /\ DOMAIN Table = Procs /\ \A p \in Procs, f \in Fds : Table[p][f] = proc[p].fds[f].h
  /\ DOMAIN Console = Procs /\ \A p \in Procs : Console[p] = proc[p].tty
  /\ DOMAIN Image = Procs /\ \A p \in Procs : Image[p] = proc[p].image
  BY DEF Table, Console, Image

LEMMA TableNext ==
  /\ DOMAIN Table' = Procs /\ \A p \in Procs, f \in Fds : Table'[p][f] = proc'[p].fds[f].h
  /\ DOMAIN Console' = Procs /\ \A p \in Procs : Console'[p] = proc'[p].tty
  /\ DOMAIN Image' = Procs /\ \A p \in Procs : Image'[p] = proc'[p].image
  BY DEF Table, Console, Image

LEMMA HeldIs ==
  ASSUME NEW D \in SUBSET (Procs \X Fds), NEW h
  PROVE  Held(h, D) = Cardinality(Among(Table, D, h))
<1>1. \A d \in D : HandleOf(d) = Table[d[1]][d[2]]
  BY TableIs DEF HandleOf
<1>2. {d \in D : HandleOf(d) = h} = Among(Table, D, h)
  BY <1>1 DEF Among
<1> QED
  BY <1>2 DEF Held

(* Descriptors are closed and processes leave their consoles: the counts   *)
(* stay right, and what nobody uses any more is given back.                *)
LEMMA ReleaseStep ==
  ASSUME Shape, RefsInv, TtysInv, UNCHANGED prog,
         NEW D \in SUBSET (Procs \X Fds), NEW S \in SUBSET Procs, Release(D, S),
         \A d \in Procs \X Fds : Table'[d[1]][d[2]] = IF d \in D THEN NULL ELSE Table[d[1]][d[2]],
         \A p \in Procs : Console'[p] = IF p \in S THEN NULL ELSE Console[p],
         UnixLibOnly => \A p \in S \ {cur} : Console[p] = NULL
  PROVE  /\ RefsInv' /\ TtysInv'
         /\ dev' \in [Handles -> {"free", "file", "pipe"} \cup Ttys] /\ refs' \in [Handles -> Nat]
         /\ ttys' \subseteq Ttys /\ ttyref' \in [Ttys -> Int]
<1> DEFINE n(h) == Cardinality(Among(Table, D, h))
           m(t) == Cardinality(AtOf(dev, LastRefs(D), t))
           k(t) == Cardinality(AtOf(Console, S, t))
           left == [t \in Ttys |-> ttyref[t]
                      - Cardinality({h \in LastRefs(D) : dev[h] = t})
                      - Cardinality({p \in S : proc[p].tty = t})]
           zero == {t \in ttys : left[t] = 0 /\ left[t] # ttyref[t]}
           wrong == {t \in zero : \E p \in S \ {cur} : proc[p].tty = t}
<1>1. /\ refs' = [h \in Handles |-> refs[h] - Held(h, D)]
      /\ dev' = [h \in Handles |-> IF h \in LastRefs(D) THEN "free" ELSE dev[h]]
      /\ ttyref' = left
  BY DEF Release
<1>2. ttys' = ttys \ ((zero \ wrong) \cup (IF wrong = {} \/ cur \in S THEN {} ELSE {me.tty}))
  BY DEF Release
<1>3. \A h \in Handles : Held(h, D) = n(h)
  BY HeldIs
<1>4. ASSUME NEW h \in Handles
      PROVE  n(h) \in Nat /\ n(h) <= Count(Table, h) /\ Count(Table', h) = Count(Table, h) - n(h)
  <2>1. \A d \in Procs \X Fds : Table'[d[1]][d[2]] = IF d \in D THEN NULL ELSE Table[d[1]][d[2]]
    OBVIOUS
  <2>2. Count(Table', h) = Count(Table, h) - Cardinality(Among(Table, D, h))
    BY ONLY <2>1, D \in SUBSET (Procs \X Fds), h \in Handles, CountClear
  <2>3. Cardinality(Among(Table, D, h)) \in Nat /\ Cardinality(Among(Table, D, h)) <= Count(Table, h)
    BY CountAmong
  <2> QED
    BY <2>2, <2>3
<1>5. \A h \in Handles : refs[h] \in Nat /\ refs[h] = Count(Table, h) /\ (dev[h] = "free" <=> refs[h] = 0)
  BY DEF Shape, RefsInv
<1>6. LastRefs(D) = {h \in Handles : n(h) > 0 /\ refs[h] = n(h)}
  BY <1>3 DEF LastRefs
<1>a. \A t \in Ttys : left[t] = ttyref[t] - m(t) - k(t)
  <2>1. \A t \in Ttys : {h \in LastRefs(D) : dev[h] = t} = AtOf(dev, LastRefs(D), t)
    BY DEF AtOf
  <2>2. \A t \in Ttys : {p \in S : proc[p].tty = t} = AtOf(Console, S, t)
    BY TableIs DEF AtOf
  <2> QED
    BY <2>1, <2>2
<1>b. DOMAIN left = Ttys /\ left = [t \in Ttys |-> left[t]]
  OBVIOUS
<1> HIDE DEF n, left, zero, wrong
<1>7. RefsInv' /\ refs' \in [Handles -> Nat]
  <2>1. \A h \in Handles : refs'[h] = refs[h] - n(h) /\ refs'[h] \in Nat /\ refs'[h] = Count(Table', h)
    BY <1>1, <1>3, <1>4, <1>5
  <2>2. \A h \in Handles : dev'[h] = IF n(h) > 0 /\ refs[h] = n(h) THEN "free" ELSE dev[h]
    BY <1>1, <1>6
  <2>3. \A h \in Handles : dev'[h] = "free" <=> refs'[h] = 0
    BY <2>1, <2>2, <1>4, <1>5
  <2> QED
    BY <1>1, <2>1, <2>3 DEF RefsInv
<1>8. dev' \in [Handles -> {"free", "file", "pipe"} \cup Ttys]
  BY <1>1 DEF Shape
<1>9. ASSUME NEW t \in Ttys
      PROVE  /\ m(t) \in Nat /\ m(t) <= Cardinality(At(dev, t)) /\ Cardinality(At(dev, t)) \in Nat
             /\ Cardinality(At(dev', t)) = Cardinality(At(dev, t)) - m(t)
  <2>1. DOMAIN dev = Handles /\ DOMAIN dev' = Handles /\ LastRefs(D) \in SUBSET Handles
    BY <1>1 DEF Shape, LastRefs
  <2>2. "free" # t
    BY DevicesAssumption
  <2>3. \A h \in Handles : IF h \in LastRefs(D) THEN dev'[h] # t ELSE dev'[h] = dev[h]
    BY <1>1, <2>2
  <2>4. Cardinality(At(dev', t)) = Cardinality(At(dev, t)) - Cardinality(AtOf(dev, LastRefs(D), t))
    BY ONLY <2>1, <2>3, FiniteAssumption, AtClear
  <2>5. /\ Cardinality(AtOf(dev, LastRefs(D), t)) \in Nat
        /\ Cardinality(AtOf(dev, LastRefs(D), t)) <= Cardinality(At(dev, t))
    BY ONLY <2>1, FiniteAssumption, AtSome
  <2>6. Cardinality(At(dev, t)) \in Nat
    BY ONLY <2>1, FiniteAssumption, AtFinite
  <2> QED
    BY <2>4, <2>5, <2>6
<1>10. ASSUME NEW t \in Ttys
       PROVE  /\ k(t) \in Nat /\ k(t) <= Cardinality(At(Console, t)) /\ Cardinality(At(Console, t)) \in Nat
              /\ Cardinality(At(Console', t)) = Cardinality(At(Console, t)) - k(t)
  <2>1. NULL # t
    BY NullAssumption
  <2>2. DOMAIN Console = Procs /\ DOMAIN Console' = Procs
    BY TableIs, TableNext
  <2>3. \A p \in Procs : IF p \in S THEN Console'[p] # t ELSE Console'[p] = Console[p]
    BY <2>1
  <2>4. Cardinality(At(Console', t)) = Cardinality(At(Console, t)) - Cardinality(AtOf(Console, S, t))
    BY ONLY <2>2, <2>3, S \in SUBSET Procs, FiniteAssumption, AtClear
  <2>5. /\ Cardinality(AtOf(Console, S, t)) \in Nat
        /\ Cardinality(AtOf(Console, S, t)) <= Cardinality(At(Console, t))
    BY ONLY <2>2, S \in SUBSET Procs, FiniteAssumption, AtSome
  <2>6. Cardinality(At(Console, t)) \in Nat
    BY ONLY <2>2, FiniteAssumption, AtFinite
  <2> QED
    BY <2>4, <2>5, <2>6
<1> HIDE DEF m, k
<1>11. \A t \in Ttys : left[t] \in Int
  <2>1. \A t \in Ttys : ttyref[t] \in Int
    BY DEF Shape
  <2> QED
    BY <1>9, <1>10, <1>a, <2>1
<1>12. ttyref' \in [Ttys -> Int]
  BY <1>1, <1>11, <1>b
<1>13. ASSUME UnixLibOnly, NEW t \in Ttys
       PROVE  /\ ttyref'[t] = Cardinality(At(dev', t)) + Cardinality(At(Console', t))
              /\ t \in ttys' <=> ttyref'[t] # 0
  <2>1. ttyref[t] = Cardinality(At(dev, t)) + Cardinality(At(Console, t)) /\ (t \in ttys <=> ttyref[t] # 0)
    BY <1>13 DEF TtysInv
  <2>2. left[t] = ttyref[t] - m(t) - k(t)
    BY <1>a
  <2>3. left[t] = Cardinality(At(dev', t)) + Cardinality(At(Console', t)) /\ left[t] <= ttyref[t]
        /\ left[t] \in Nat /\ ttyref[t] \in Nat
    BY <1>9, <1>10, <2>1, <2>2
  <2>4. wrong = {}
    <3>1. \A p \in S \ {cur} : proc[p].tty = NULL
      BY <1>13, TableIs
    <3>2. \A u \in zero : u # NULL
      BY NullAssumption DEF zero, Shape
    <3> QED
      BY <3>1, <3>2 DEF wrong
  <2>5. t \in ttys' <=> t \in ttys /\ ~(left[t] = 0 /\ left[t] # ttyref[t])
    BY <1>2, <2>4 DEF zero
  <2> QED
    BY <1>1, <2>1, <2>3, <2>5
<1>14. TtysInv'
  BY <1>13 DEF TtysInv, UnixLibOnly
<1> QED
  BY <1>2, <1>7, <1>8, <1>12, <1>14 DEF Shape
-----------------------------------------------------------------------------
(* The family.                                                             *)

LEMMA MinIn ==
  ASSUME NEW S \in SUBSET Nat, S # {}
  PROVE  Min(S) \in S
<1>1. \E i \in S : \A j \in S : ~(<<j, i>> \in OpToRel(<, Nat))
  BY NatLessThanWellFounded, WFMin
<1>2. ASSUME NEW i \in Nat, NEW j \in Nat, j < i PROVE <<j, i>> \in OpToRel(<, Nat)
  BY <1>2 DEF OpToRel
<1>3. PICK i \in S : \A j \in S : ~(<<j, i>> \in OpToRel(<, Nat))
  BY <1>1
<1>4. \A j \in S : ~(j < i)
  BY <1>2, <1>3
<1>5. \E x \in S : \A y \in S : x =< y
  BY <1>4
<1> QED
  BY ONLY <1>5, Zenon DEF Min

(* Removing the i-th element of a sequence: what is left, and where.       *)
LEMMA RemoveAtIndex ==
  ASSUME NEW S, NEW s \in Seq(S), NEW i \in 1 .. Len(s)
  PROVE  /\ RemoveAt(s, i) \in Seq(S)
         /\ Len(RemoveAt(s, i)) = Len(s) - 1
         /\ \A j \in 1 .. Len(s) - 1 :
              RemoveAt(s, i)[j] = IF j < i THEN s[j] ELSE s[j + 1]
<1> DEFINE a == SubSeq(s, 1, i - 1)
           b == SubSeq(s, i + 1, Len(s))
<1>1. a \in Seq(S) /\ Len(a) = i - 1 /\ \A j \in 1 .. i - 1 : a[j] = s[j]
  OBVIOUS
<1>2. b \in Seq(S) /\ Len(b) = Len(s) - i /\ \A j \in 1 .. Len(s) - i : b[j] = s[i + j]
  OBVIOUS
<1> HIDE DEF a, b
<1>3. /\ a \o b \in Seq(S)
      /\ Len(a \o b) = Len(a) + Len(b)
      /\ \A j \in 1 .. Len(a) + Len(b) :
           (a \o b)[j] = IF j <= Len(a) THEN a[j] ELSE b[j - Len(a)]
  BY <1>1, <1>2, ConcatProperties
<1>4. Len(s) \in Nat /\ Len(a) + Len(b) = Len(s) - 1
  BY <1>1, <1>2
<1>5. ASSUME NEW j \in 1 .. Len(s) - 1
      PROVE  (a \o b)[j] = IF j < i THEN s[j] ELSE s[j + 1]
  <2>1. (a \o b)[j] = IF j <= Len(a) THEN a[j] ELSE b[j - Len(a)]
    BY <1>3, <1>4
  <2> QED
    BY <2>1, <1>1, <1>2, <1>4
<1> QED
  BY <1>3, <1>4, <1>5 DEF RemoveAt, a, b

(* A list of children without its n-th entry.                              *)
LEMMA RemoveAtIs ==
  ASSUME NEW s \in Seq(Procs), NEW n \in DOMAIN s, \A i, j \in DOMAIN s : s[i] = s[j] => i = j
  PROVE  /\ RemoveAt(s, n) \in Seq(Procs)
         /\ Range(RemoveAt(s, n)) = Range(s) \ {s[n]}
         /\ \A i, j \in DOMAIN RemoveAt(s, n) : RemoveAt(s, n)[i] = RemoveAt(s, n)[j] => i = j
<1> DEFINE r == RemoveAt(s, n)
<1>1. r \in Seq(Procs) /\ Len(r) = Len(s) - 1 /\ n \in 1 .. Len(s) /\ Len(s) \in Nat
  BY RemoveAtIndex
<1>2. \A i \in 1 .. Len(r) : r[i] = IF i < n THEN s[i] ELSE s[i + 1]
  BY <1>1, RemoveAtIndex
<1> HIDE DEF r
<1>3. DOMAIN r = 1 .. Len(r) /\ DOMAIN s = 1 .. Len(s)
  BY <1>1
<1>4. ASSUME NEW x \in Range(r) PROVE x \in Range(s) /\ x # s[n]
  <2>1. PICK i \in 1 .. Len(r) : x = r[i]
    BY <1>3 DEF Range
  <2>2. \/ x = s[i] /\ i # n /\ i \in DOMAIN s
        \/ x = s[i + 1] /\ i + 1 # n /\ i + 1 \in DOMAIN s
    BY <1>1, <1>2, <1>3, <2>1
  <2> QED
    BY <1>1, <1>3, <2>2 DEF Range
<1>5. ASSUME NEW x \in Range(s), x # s[n] PROVE x \in Range(r)
  <2>1. PICK i \in 1 .. Len(s) : x = s[i]
    BY <1>3 DEF Range
  <2>2. CASE i < n
    <3>1. i \in 1 .. Len(r) /\ r[i] = x
      BY <1>1, <1>2, <2>1, <2>2
    <3> QED
      BY <1>3, <3>1 DEF Range
  <2>3. CASE i > n
    <3>1. i - 1 \in 1 .. Len(r) /\ r[i - 1] = s[i - 1 + 1] /\ i - 1 + 1 = i
      BY <1>1, <1>2, <2>1, <2>3
    <3> QED
      BY <1>3, <2>1, <3>1 DEF Range
  <2> QED
    BY <1>1, <1>5, <2>1, <2>2, <2>3
<1>6. ASSUME NEW i \in 1 .. Len(r), NEW j \in 1 .. Len(r), r[i] = r[j] PROVE i = j
  <2> DEFINE at(k) == IF k < n THEN k ELSE k + 1
  <2>1. \A k \in 1 .. Len(r) : at(k) \in DOMAIN s /\ r[k] = s[at(k)]
    BY <1>1, <1>2, <1>3
  <2>2. at(i) = at(j)
    BY <1>6, <2>1
  <2> QED
    BY <1>1, <2>2
<1> QED
  BY <1>1, <1>3, <1>4, <1>5, <1>6 DEF r

(* The zombies __free_process reaches are zombies, they are closed under   *)
(* zombie children, and each is the child of another or of the process     *)
(* that is freed.                                                          *)
LEMMA DoomedIs ==
  ASSUME NEW p \in Procs
  PROVE  /\ Doomed(p) \subseteq {c \in Procs : proc[c].st = "zombie"}
         /\ Doomed(p) = ZombieKids(Doomed(p) \cup {p})
<1> DEFINE D == Doomed(p)
           K == ZombieKids(D \cup {p})
           Z == {c \in Procs : proc[c].st = "zombie"}
<1>1. D \subseteq Z
  <2>1. Z \in SUBSET Procs /\ ZombieKids(Z \cup {p}) \subseteq Z
    BY DEF ZombieKids
  <2> HIDE DEF Z
  <2> QED
    BY <2>1 DEF Doomed
<1>2. K \subseteq D
  <2> SUFFICES ASSUME NEW c \in K, NEW S \in SUBSET Procs, ZombieKids(S \cup {p}) \subseteq S
               PROVE  c \in S
    BY DEF Doomed, ZombieKids
  <2>1. D \subseteq S
    BY DEF Doomed
  <2>2. c \in ZombieKids(S \cup {p})
    BY <2>1 DEF ZombieKids
  <2> QED
    BY <2>2
<1>3. D \subseteq K
  <2>1. ZombieKids(K \cup {p}) \subseteq K
    BY <1>2 DEF ZombieKids
  <2>2. K \in SUBSET Procs
    BY DEF ZombieKids
  <2> HIDE DEF K
  <2> QED
    BY <2>1, <2>2 DEF Doomed
<1> QED
  BY <1>1, <1>2, <1>3

(* Structures of whose families nothing changes.                           *)
LEMMA KinSame ==
  ASSUME NEW P, NEW Q, NEW c, Kin(P, c),
         \A p \in Procs : Q[p].st = P[p].st /\ Q[p].ppid = P[p].ppid /\ Q[p].kids = P[p].kids
  PROVE  Kin(Q, c)
<1>1. PICK s \in Seq(Procs) : Line(P, c, s)
  BY DEF Kin
<1>2. \A i \in DOMAIN s : s[i] \in Procs
  OBVIOUS
<1>3. \A p \in Procs : \A n \in DOMAIN P[p].kids : P[p].kids[n] \in Procs
  BY DEF Kin
<1>4. Line(Q, c, s)
  BY <1>1, <1>2, <1>3 DEF Line
<1>5. /\ \A p \in Procs : Q[p].kids \in Seq(Procs) /\ Q[p].ppid \in Procs \cup {NULL}
      /\ \A p, q \in Procs : q \in Range(Q[p].kids) <=> Q[q].st # "free" /\ Q[q].ppid = p
      /\ \A p \in Procs : Q[p].st = "zombie" => Q[p].ppid # NULL
  BY DEF Kin
<1>6. \A p \in Procs : \A m, n \in DOMAIN Q[p].kids : Q[p].kids[m] = Q[p].kids[n] => m = n
  BY DEF Kin
<1> QED
  BY <1>4, <1>5, <1>6 DEF Kin

(* The running process is live and the last of the line: its children are  *)
(* not live; without a parent it is the only one.                          *)
LEMMA KinFacts ==
  ASSUME NEW P, NEW c \in Procs, Kin(P, c)
  PROVE  /\ P[c].st = "live" /\ \A q \in Range(P[c].kids) : q \in Procs /\ P[q].st # "live"
         /\ \A q \in Procs : P[q].st = "live" /\ P[q].ppid # NULL =>
              P[P[q].ppid].st = "live" /\ P[q].ppid # c
         /\ P[c].ppid = NULL => \A q \in Procs : P[q].st = "live" => q = c
<1>1. PICK s \in Seq(Procs) : Line(P, c, s)
  BY DEF Kin
<1>2. Len(s) \in Nat /\ DOMAIN s = 1 .. Len(s) /\ \A i \in 1 .. Len(s) : s[i] \in Procs
  OBVIOUS
<1>3. Len(s) \in 1 .. Len(s) /\ c = s[Len(s)]
  BY <1>1, <1>2, NullAssumption DEF Line
<1>4. P[c].st = "live"
  BY <1>1, <1>2, <1>3 DEF Line
<1>5. \A q \in Range(P[c].kids) : q \in Procs /\ P[q].st # "live"
  <2>1. \A n \in DOMAIN P[c].kids : P[c].kids[n] \in Procs
    BY DEF Kin
  <2>2. \A n \in DOMAIN P[s[Len(s)]].kids : P[P[s[Len(s)]].kids[n]].st # "live"
    BY <1>1, <1>2, <1>3 DEF Line
  <2> QED
    BY <1>3, <2>1, <2>2 DEF Range
<1>6. ASSUME NEW q \in Procs, P[q].st = "live"
      PROVE  /\ P[q].ppid # NULL => P[P[q].ppid].st = "live" /\ P[q].ppid # c
             /\ P[c].ppid = NULL => q = c
  <2>1. PICK i \in 1 .. Len(s) : s[i] = q
    BY <1>1, <1>2, <1>6 DEF Line
  <2>2. P[q].ppid = IF i = 1 THEN NULL ELSE s[i - 1]
    BY <1>1, <1>2, <2>1 DEF Line
  <2>3. P[c].ppid = IF Len(s) = 1 THEN NULL ELSE s[Len(s) - 1]
    BY <1>1, <1>2, <1>3 DEF Line
  <2>4. i # 1 => i - 1 \in 1 .. Len(s) /\ P[s[i - 1]].st = "live"
    BY <1>1, <1>2 DEF Line
  <2>5. i # 1 => s[i - 1] # s[Len(s)]
    <3>1. i # 1 => i - 1 \in 1 .. Len(s) /\ i - 1 # Len(s)
      BY <1>2
    <3> QED
      BY <1>1, <1>2, <1>3, <3>1 DEF Line
  <2>6. P[c].ppid = NULL => Len(s) = 1
    <3>1. Len(s) # 1 => Len(s) - 1 \in 1 .. Len(s)
      BY <1>2, <1>3
    <3> QED
      BY <1>2, <2>3, <3>1, NullAssumption
  <2> QED
    BY <1>2, <1>3, <2>1, <2>2, <2>4, <2>5, <2>6
<1> QED
  BY <1>4, <1>5, <1>6

(* Zombies of the running process are dropped, with all below them.        *)
LEMMA KinDrop ==
  ASSUME NEW P, NEW Q, NEW c \in Procs, NEW Z \in SUBSET Procs, Kin(P, c),
         \A p \in Z : /\ P[p].st = "zombie" /\ P[p].ppid \in Z \cup {c} /\ Range(P[p].kids) \subseteq Z
                      /\ Q[p].st = "free" /\ Q[p].kids = <<>> /\ Q[p].ppid = NULL,
         \A p \in Procs \ Z : Q[p].st = P[p].st /\ Q[p].ppid = P[p].ppid
                              /\ (p # c => Q[p].kids = P[p].kids),
         Q[c].kids \in Seq(Procs), Range(Q[c].kids) = Range(P[c].kids) \ Z,
         \A m, n \in DOMAIN Q[c].kids : Q[c].kids[m] = Q[c].kids[n] => m = n
  PROVE  Kin(Q, c)
<1>1. P[c].st = "live" /\ c \notin Z /\ \A q \in Range(P[c].kids) : q \in Procs /\ P[q].st # "live"
  BY KinFacts
<1>2. ASSUME NEW p \in Procs PROVE Q[p].kids \in Seq(Procs) /\ Q[p].ppid \in Procs \cup {NULL}
  <2>1. P[p].kids \in Seq(Procs) /\ P[p].ppid \in Procs \cup {NULL}
    BY DEF Kin
  <2>2. <<>> \in Seq(Procs)
    OBVIOUS
  <2>3. CASE p \in Z
    BY <2>2, <2>3
  <2>4. CASE p \notin Z
    BY <2>1, <2>4
  <2> QED
    BY <2>3, <2>4
<1>3. ASSUME NEW p \in Procs, NEW q \in Procs
      PROVE  q \in Range(Q[p].kids) <=> Q[q].st # "free" /\ Q[q].ppid = p
  <2>1. q \in Range(P[p].kids) <=> P[q].st # "free" /\ P[q].ppid = p
    BY DEF Kin
  <2>2. CASE p \in Z
    <3>1. Range(Q[p].kids) = {}
      BY <2>2 DEF Range
    <3> QED
      BY <2>1, <2>2, <3>1
  <2>3. CASE p = c
    BY <1>1, <2>1, <2>3, NullAssumption
  <2>4. CASE p \notin Z \cup {c}
    BY <2>1, <2>4, NullAssumption
  <2> QED
    BY <2>2, <2>3, <2>4
<1>4. ASSUME NEW p \in Procs, NEW m \in DOMAIN Q[p].kids, NEW n \in DOMAIN Q[p].kids,
             Q[p].kids[m] = Q[p].kids[n]
      PROVE  m = n
  <2>1. CASE p \in Z
    BY <1>4, <2>1
  <2>2. CASE p = c
    BY <1>4, <2>2
  <2>3. CASE p \notin Z \cup {c}
    BY <1>4, <2>3 DEF Kin
  <2> QED
    BY <2>1, <2>2, <2>3
<1>5. \A p \in Procs : Q[p].st = "zombie" => Q[p].ppid # NULL
  BY DEF Kin
<1>6. PICK s \in Seq(Procs) : Line(P, c, s)
  BY DEF Kin
<1>7. Len(s) \in Nat /\ DOMAIN s = 1 .. Len(s) /\ \A i \in 1 .. Len(s) : s[i] \in Procs
  OBVIOUS
<1>8. \A p \in Procs : Q[p].st = "live" <=> P[p].st = "live"
  OBVIOUS
<1>9. \A i \in 1 .. Len(s) : P[s[i]].st = "live" /\ s[i] \notin Z
  BY <1>6, <1>7 DEF Line
<1>10. ASSUME NEW i \in 1 .. Len(s), NEW n \in DOMAIN Q[s[i]].kids
       PROVE  Q[Q[s[i]].kids[n]].st = "live" <=> n = 1 /\ i # Len(s)
  <2>1. CASE s[i] = c
    <3>1. i = Len(s)
      BY <1>6, <1>7, <2>1, NullAssumption DEF Line
    <3>2. Q[c].kids[n] \in Range(Q[c].kids)
      BY <2>1 DEF Range
    <3>3. Q[c].kids[n] \in Procs /\ P[Q[c].kids[n]].st # "live"
      BY <1>1, <3>2
    <3> QED
      BY <1>8, <2>1, <3>1, <3>3
  <2>2. CASE s[i] # c
    <3>1. Q[s[i]].kids = P[s[i]].kids
      BY <1>7, <1>9, <2>2
    <3>2. P[s[i]].kids[n] \in Procs
      BY <1>7, <3>1 DEF Kin
    <3>3. P[P[s[i]].kids[n]].st = "live" <=> n = 1 /\ i # Len(s)
      BY <1>6, <1>7, <3>1 DEF Line
    <3> QED
      BY <1>8, <3>1, <3>2, <3>3
  <2> QED
    BY <2>1, <2>2
<1>11. Line(Q, c, s)
  <2>1. \A i \in DOMAIN s : Q[s[i]].ppid = IF i = 1 THEN NULL ELSE s[i - 1]
    BY <1>6, <1>7, <1>9 DEF Line
  <2> QED
    BY <1>6, <1>7, <1>8, <1>10, <2>1 DEF Line
<1>12. \A p \in Procs : \A m, n \in DOMAIN Q[p].kids : Q[p].kids[m] = Q[p].kids[n] => m = n
  BY <1>4
<1>13. \A p, q \in Procs : q \in Range(Q[p].kids) <=> Q[q].st # "free" /\ Q[q].ppid = p
  BY <1>3
<1> QED
  BY ONLY <1>2, <1>5, <1>11, <1>12, <1>13, s \in Seq(Procs) DEF Kin

(* The running process ends, and its parent runs again.                    *)
LEMMA KinEnd ==
  ASSUME NEW P, NEW Q, NEW c \in Procs, Kin(P, c),
         \A p \in Procs \ {c} : Q[p].st = P[p].st,
         \A p \in Procs : Q[p].ppid = P[p].ppid /\ Q[p].kids = P[p].kids,
         Q[c].st = IF P[c].ppid = NULL THEN "free" ELSE "zombie"
  PROVE  Kin(Q, P[c].ppid)
<1>1. PICK s \in Seq(Procs) : Line(P, c, s)
  BY DEF Kin
<1>2. Len(s) \in Nat /\ DOMAIN s = 1 .. Len(s) /\ \A i \in 1 .. Len(s) : s[i] \in Procs
  OBVIOUS
<1>3. Len(s) \in 1 .. Len(s) /\ c = s[Len(s)] /\ P[c].st = "live"
  BY <1>1, <1>2, NullAssumption, KinFacts DEF Line
<1> DEFINE t == [i \in 1 .. Len(s) - 1 |-> s[i]]
<1>4. t \in Seq(Procs) /\ Len(t) = Len(s) - 1 /\ DOMAIN t = 1 .. Len(s) - 1
  <2>1. Len(s) - 1 \in Nat /\ \A i \in 1 .. Len(s) - 1 : s[i] \in Procs
    BY <1>2, <1>3
  <2> QED
    BY <2>1
<1>5. \A i \in 1 .. Len(s) - 1 : t[i] = s[i] /\ i \in 1 .. Len(s) /\ s[i] # c
  BY <1>1, <1>2, <1>3 DEF Line
<1> HIDE DEF t
<1>6. \A i, j \in DOMAIN t : t[i] = t[j] => i = j
  BY <1>1, <1>2, <1>4, <1>5 DEF Line
<1>7. ASSUME NEW p \in Procs PROVE Q[p].st = "live" <=> \E i \in DOMAIN t : t[i] = p
  <2>1. Q[p].st = "live" <=> P[p].st = "live" /\ p # c
    BY <1>7
  <2>2. P[p].st = "live" <=> \E i \in 1 .. Len(s) : s[i] = p
    BY <1>1, <1>2 DEF Line
  <2>3. Len(s) \in Nat /\ \A i \in 1 .. Len(s) : i \in 1 .. Len(s) - 1 \/ i = Len(s)
    BY ONLY Len(s) \in Nat
  <2> QED
    BY <1>3, <1>4, <1>5, <2>1, <2>2, <2>3
<1>8. \A i \in 1 .. Len(s) : P[s[i]].ppid = IF i = 1 THEN NULL ELSE s[i - 1]
  BY <1>1, <1>2 DEF Line
<1>9. P[c].ppid = IF Len(t) = 0 THEN NULL ELSE t[Len(t)]
  <2>1. Len(t) # 0 => Len(t) \in 1 .. Len(s) - 1
    BY <1>2, <1>4
  <2> QED
    BY <1>2, <1>3, <1>4, <1>5, <1>8, <2>1
<1>10. \A i \in DOMAIN t : Q[t[i]].ppid = IF i = 1 THEN NULL ELSE t[i - 1]
  <2>1. \A i \in 1 .. Len(s) - 1 : i # 1 => i - 1 \in 1 .. Len(s) - 1
    BY <1>2
  <2> QED
    BY <1>2, <1>4, <1>5, <1>8, <2>1
<1>11. ASSUME NEW i \in 1 .. Len(s) - 1, NEW n \in DOMAIN P[s[i]].kids
       PROVE  Q[P[s[i]].kids[n]].st = "live" <=> n = 1 /\ i # Len(t)
  <2> DEFINE k == P[s[i]].kids[n]
  <2>1. i \in 1 .. Len(s) /\ s[i] \in Procs /\ P[s[i]].kids \in Seq(Procs)
    BY <1>2, <1>5 DEF Kin
  <2>2. k \in Procs /\ k \in Range(P[s[i]].kids)
    BY <2>1 DEF Range
  <2>3. P[k].ppid = s[i]
    BY <2>1, <2>2 DEF Kin
  <2>4. P[k].st = "live" <=> n = 1
    BY <1>1, <1>2, <2>1 DEF Line
  <2> HIDE DEF k
  <2>5. ASSUME P[k].st = "live" PROVE k = s[i + 1] /\ i + 1 \in 1 .. Len(s)
    <3>1. PICK j \in 1 .. Len(s) : s[j] = k
      BY <1>1, <1>2, <2>2, <2>5 DEF Line
    <3>2. j # 1 /\ s[j - 1] = s[i] /\ j - 1 \in 1 .. Len(s)
      BY <1>2, <1>8, <2>1, <2>3, <3>1, NullAssumption
    <3>3. j - 1 = i
      BY <1>1, <1>2, <2>1, <3>2 DEF Line
    <3> QED
      BY <1>2, <3>1, <3>3
  <2>6. s[i + 1] = c /\ i + 1 \in 1 .. Len(s) => i + 1 = Len(s)
    BY <1>1, <1>2, <1>3 DEF Line
  <2>7. k = c <=> P[k].st = "live" /\ i = Len(t)
    <3>1. i + 1 = Len(s) <=> i = Len(t)
      BY <1>2, <1>4
    <3>2. CASE P[k].st = "live" /\ i = Len(t)
      BY <1>3, <2>5, <3>1, <3>2
    <3>3. CASE k = c
      BY <1>3, <2>5, <2>6, <3>1, <3>3
    <3> QED
      BY <3>2, <3>3
  <2>8. Q[k].st = "live" <=> P[k].st = "live" /\ k # c
    BY <2>2
  <2>9. Q[k].st = "live" <=> n = 1 /\ i # Len(t)
    BY <2>4, <2>7, <2>8
  <2> QED
    BY <2>9 DEF k
<1>12. Line(Q, P[c].ppid, t)
  <2>1. \A i \in DOMAIN t : \A n \in DOMAIN Q[t[i]].kids :
          Q[Q[t[i]].kids[n]].st = "live" <=> n = 1 /\ i # Len(t)
    <3> SUFFICES ASSUME NEW i \in DOMAIN t, NEW n \in DOMAIN Q[t[i]].kids
                 PROVE  Q[Q[t[i]].kids[n]].st = "live" <=> n = 1 /\ i # Len(t)
      OBVIOUS
    <3>1. Q[t[i]].kids = P[s[i]].kids /\ i \in 1 .. Len(s) - 1
      BY <1>2, <1>4, <1>5
    <3> QED
      BY ONLY <1>11, <3>1, n \in DOMAIN Q[t[i]].kids
  <2> QED
    BY <1>6, <1>7, <1>9, <1>10, <2>1 DEF Line
<1>13. ASSUME NEW p \in Procs
       PROVE  /\ Q[p].kids \in Seq(Procs) /\ Q[p].ppid \in Procs \cup {NULL}
              /\ Q[p].st = "zombie" => Q[p].ppid # NULL
              /\ \A m, n \in DOMAIN Q[p].kids : Q[p].kids[m] = Q[p].kids[n] => m = n
  BY DEF Kin
<1>14. ASSUME NEW p \in Procs, NEW q \in Procs
       PROVE  q \in Range(Q[p].kids) <=> Q[q].st # "free" /\ Q[q].ppid = p
  <2>1. q \in Range(P[p].kids) <=> P[q].st # "free" /\ P[q].ppid = p
    BY DEF Kin
  <2>2. Q[q].st = "free" /\ P[q].st # "free" => P[q].ppid = NULL
    BY <1>3
  <2>3. P[q].st = "free" => Q[q].st = "free"
    BY <1>3
  <2> QED
    BY <2>1, <2>2, <2>3, NullAssumption
<1>15. /\ \A p \in Procs : Q[p].kids \in Seq(Procs) /\ Q[p].ppid \in Procs \cup {NULL}
       /\ \A p \in Procs : Q[p].st = "zombie" => Q[p].ppid # NULL
  BY <1>13
<1>16. \A p \in Procs : \A m, n \in DOMAIN Q[p].kids : Q[p].kids[m] = Q[p].kids[n] => m = n
  BY <1>13
<1>17. \A p, q \in Procs : q \in Range(Q[p].kids) <=> Q[q].st # "free" /\ Q[q].ppid = p
  BY <1>14
<1> QED
  BY ONLY <1>4, <1>12, <1>15, <1>16, <1>17 DEF Kin

(* A free structure becomes a child of the running process, and runs.      *)
First(d, kids) == <<d>> \o kids

LEMMA KinFork ==
  ASSUME NEW P, NEW Q, NEW c \in Procs, NEW d \in Procs, Kin(P, c),
         P[d].st = "free" /\ P[d].kids = <<>>,
         Q[d].st = "live" /\ Q[d].ppid = c /\ Q[d].kids = <<>>,
         Q[c].kids = First(d, P[c].kids),
         \A p \in Procs \ {d} : Q[p].st = P[p].st /\ Q[p].ppid = P[p].ppid
                                /\ (p # c => Q[p].kids = P[p].kids)
  PROVE  Kin(Q, d)
<1>1. PICK s \in Seq(Procs) : Line(P, c, s)
  BY DEF Kin
<1>2. Len(s) \in Nat /\ DOMAIN s = 1 .. Len(s) /\ \A i \in 1 .. Len(s) : s[i] \in Procs
  OBVIOUS
<1>3. /\ Len(s) \in 1 .. Len(s) /\ c = s[Len(s)] /\ P[c].st = "live" /\ c # d
      /\ \A q \in Range(P[c].kids) : q \in Procs /\ P[q].st # "live"
  BY <1>1, <1>2, NullAssumption, KinFacts DEF Line
<1>4. \A p \in Procs : P[p].kids \in Seq(Procs) /\ d \notin Range(P[p].kids)
  BY DEF Kin
<1> DEFINE t == Append(s, d)
<1>5. t \in Seq(Procs) /\ Len(t) = Len(s) + 1 /\ DOMAIN t = 1 .. Len(s) + 1 /\ t[Len(t)] = d
  BY <1>2
<1>6. \A i \in 1 .. Len(s) : t[i] = s[i] /\ P[s[i]].st = "live" /\ s[i] # d
  BY <1>1, <1>2 DEF Line
<1> HIDE DEF t
<1>7. \A i \in 1 .. Len(s) + 1 : i \in 1 .. Len(s) \/ i = Len(s) + 1
  BY <1>2
<1>8. \A i, j \in DOMAIN t : t[i] = t[j] => i = j
  BY <1>1, <1>2, <1>5, <1>6, <1>7 DEF Line
<1>9. ASSUME NEW p \in Procs PROVE Q[p].st = "live" <=> \E i \in DOMAIN t : t[i] = p
  <2>1. Q[p].st = "live" <=> P[p].st = "live" \/ p = d
    OBVIOUS
  <2>2. P[p].st = "live" <=> \E i \in 1 .. Len(s) : s[i] = p
    BY <1>1, <1>2 DEF Line
  <2>3. Len(t) \in DOMAIN t /\ \A i \in 1 .. Len(s) : i \in DOMAIN t
    BY <1>2, <1>5
  <2>4. \A i \in DOMAIN t : i \in 1 .. Len(s) \/ t[i] = d
    BY <1>5, <1>7
  <2> QED
    BY ONLY <1>5, <1>6, <2>1, <2>2, <2>3, <2>4
<1>10. \A i \in 1 .. Len(s) : P[s[i]].ppid = IF i = 1 THEN NULL ELSE s[i - 1]
  BY <1>1, <1>2 DEF Line
<1>11. ASSUME NEW i \in DOMAIN t PROVE Q[t[i]].ppid = IF i = 1 THEN NULL ELSE t[i - 1]
  <2>1. CASE i = Len(s) + 1
    <3>1. i # 1 /\ i - 1 = Len(s)
      BY <1>2, <1>3, <2>1
    <3> QED
      BY <1>3, <1>5, <1>6, <2>1, <3>1
  <2>2. CASE i \in 1 .. Len(s)
    <3>1. i # 1 => i - 1 \in 1 .. Len(s)
      BY <1>2, <2>2
    <3> QED
      BY <1>2, <1>6, <1>10, <2>2, <3>1
  <2> QED
    BY <1>5, <1>7, <2>1, <2>2
<1>12. /\ DOMAIN Q[c].kids = 1 .. Len(P[c].kids) + 1 /\ Q[c].kids[1] = d /\ Q[c].kids \in Seq(Procs)
       /\ DOMAIN P[c].kids = 1 .. Len(P[c].kids) /\ Len(P[c].kids) \in Nat
       /\ \A n \in 2 .. Len(P[c].kids) + 1 : Q[c].kids[n] = P[c].kids[n - 1] /\ n - 1 \in DOMAIN P[c].kids
  BY <1>4 DEF First
<1>13. \A n \in DOMAIN Q[c].kids : n = 1 \/ n \in 2 .. Len(P[c].kids) + 1
  BY <1>12
<1>14. \A n \in 2 .. Len(P[c].kids) + 1 : Q[c].kids[n] \in Range(P[c].kids)
  BY <1>12 DEF Range
<1>15. ASSUME NEW i \in DOMAIN t, NEW n \in DOMAIN Q[t[i]].kids
       PROVE  Q[Q[t[i]].kids[n]].st = "live" <=> n = 1 /\ i # Len(t)
  <2>1. CASE i = Len(s) + 1
    BY <1>5, <2>1
  <2>2. CASE i = Len(s)
    <3>1. t[i] = c /\ i # Len(t)
      BY <1>2, <1>3, <1>5, <1>6, <2>2
    <3>2. CASE n = 1
      BY <1>12, <3>1, <3>2
    <3>3. CASE n \in 2 .. Len(P[c].kids) + 1
      <4>1. Q[c].kids[n] \in Procs /\ P[Q[c].kids[n]].st # "live" /\ Q[c].kids[n] # d
        BY <1>3, <1>4, <1>14, <3>3
      <4>2. Q[Q[c].kids[n]].st = P[Q[c].kids[n]].st
        BY <4>1
      <4> QED
        BY ONLY <3>1, <3>3, <4>1, <4>2
    <3> QED
      BY <1>13, <3>1, <3>2, <3>3
  <2>3. CASE i \in 1 .. Len(s) /\ i # Len(s)
    <3>1. s[i] # c /\ t[i] = s[i] /\ s[i] \in Procs /\ s[i] # d
      BY <1>1, <1>2, <1>3, <1>6, <2>3 DEF Line
    <3>2. Q[s[i]].kids = P[s[i]].kids
      BY <3>1
    <3>3. P[s[i]].kids[n] \in Range(P[s[i]].kids) /\ P[s[i]].kids[n] \in Procs
      BY <1>4, <3>1, <3>2 DEF Range
    <3>4. P[P[s[i]].kids[n]].st = "live" <=> n = 1 /\ i # Len(s)
      BY <1>1, <1>2, <2>3, <3>1, <3>2 DEF Line
    <3>5. i # Len(t)
      BY <1>2, <1>5, <2>3
    <3> QED
      BY <1>4, <2>3, <3>1, <3>2, <3>3, <3>4, <3>5
  <2> QED
    BY <1>5, <1>7, <2>1, <2>2, <2>3
<1>16. Line(Q, d, t)
  <2>1. d = IF Len(t) = 0 THEN NULL ELSE t[Len(t)]
    BY <1>2, <1>5
  <2> QED
    BY <1>8, <1>9, <1>11, <1>15, <2>1 DEF Line
<1>17. ASSUME NEW p \in Procs
       PROVE  /\ Q[p].kids \in Seq(Procs) /\ Q[p].ppid \in Procs \cup {NULL}
              /\ Q[p].st = "zombie" => Q[p].ppid # NULL
  <2>1. /\ P[p].kids \in Seq(Procs) /\ P[p].ppid \in Procs \cup {NULL}
        /\ P[p].st = "zombie" => P[p].ppid # NULL
    BY DEF Kin
  <2>2. CASE p = d
    <3>1. <<>> \in Seq(Procs)
      OBVIOUS
    <3> QED
      BY <2>2, <3>1
  <2>3. CASE p = c
    BY <1>3, <1>12, <2>1, <2>3
  <2>4. CASE p # c /\ p # d
    BY <2>1, <2>4
  <2> QED
    BY <2>2, <2>3, <2>4
<1>18. ASSUME NEW p \in Procs, NEW m \in DOMAIN Q[p].kids, NEW n \in DOMAIN Q[p].kids,
              Q[p].kids[m] = Q[p].kids[n]
       PROVE  m = n
  <2>1. CASE p = c
    <3>1. \A i \in 2 .. Len(P[c].kids) + 1 : Q[c].kids[i] # d
      BY <1>4, <1>14
    <3>2. CASE m = 1 \/ n = 1
      BY <1>12, <1>13, <1>18, <2>1, <3>1, <3>2
    <3>3. CASE m \in 2 .. Len(P[c].kids) + 1 /\ n \in 2 .. Len(P[c].kids) + 1
      <4>1. /\ m - 1 \in DOMAIN P[c].kids /\ n - 1 \in DOMAIN P[c].kids
            /\ P[c].kids[m - 1] = P[c].kids[n - 1]
        BY <1>12, <1>18, <2>1, <3>3
      <4>2. \A k, l \in DOMAIN P[c].kids : P[c].kids[k] = P[c].kids[l] => k = l
        BY DEF Kin
      <4> QED
        BY ONLY <1>12, <3>3, <4>1, <4>2
    <3> QED
      BY <1>13, <2>1, <3>2, <3>3
  <2>2. CASE p = d
    BY <1>18, <2>2
  <2>3. CASE p # c /\ p # d
    <3>1. Q[p].kids = P[p].kids
      BY <2>3
    <3>2. \A k, l \in DOMAIN P[p].kids : P[p].kids[k] = P[p].kids[l] => k = l
      BY DEF Kin
    <3> QED
      BY ONLY <1>18, <3>1, <3>2
  <2> QED
    BY <2>1, <2>2, <2>3
<1>19. ASSUME NEW p \in Procs, NEW q \in Procs
       PROVE  q \in Range(Q[p].kids) <=> Q[q].st # "free" /\ Q[q].ppid = p
  <2>1. q \in Range(P[p].kids) <=> P[q].st # "free" /\ P[q].ppid = p
    BY DEF Kin
  <2>2. CASE p = c
    <3>1. Range(Q[c].kids) = {d} \cup Range(P[c].kids)
      <4>1. d \in Range(Q[c].kids)
        <5>1. 1 \in DOMAIN Q[c].kids
          BY <1>12
        <5> QED
          BY ONLY <1>12, <5>1 DEF Range
      <4>2. ASSUME NEW n \in DOMAIN P[c].kids PROVE P[c].kids[n] \in Range(Q[c].kids)
        <5>1. n + 1 \in 2 .. Len(P[c].kids) + 1 /\ n + 1 - 1 = n /\ n + 1 \in DOMAIN Q[c].kids
          BY <1>12
        <5>2. Q[c].kids[n + 1] = P[c].kids[n]
          BY <1>12, <5>1
        <5> QED
          BY ONLY <5>1, <5>2 DEF Range
      <4>3. \A n \in DOMAIN Q[c].kids : Q[c].kids[n] \in {d} \cup Range(P[c].kids)
        BY ONLY <1>12, <1>13, <1>14
      <4> QED
        BY ONLY <4>1, <4>2, <4>3 DEF Range
    <3> QED
      BY <1>3, <2>1, <2>2, <3>1
  <2>3. CASE p = d
    <3>1. Range(<<>>) = {}
      BY DEF Range
    <3> QED
      BY <1>3, <2>1, <2>3, <3>1
  <2>4. CASE p # c /\ p # d
    BY <2>1, <2>4
  <2> QED
    BY <2>2, <2>3, <2>4
<1>20. /\ \A p \in Procs : Q[p].kids \in Seq(Procs) /\ Q[p].ppid \in Procs \cup {NULL}
       /\ \A p \in Procs : Q[p].st = "zombie" => Q[p].ppid # NULL
  BY <1>17
<1>21. \A p \in Procs : \A m, n \in DOMAIN Q[p].kids : Q[p].kids[m] = Q[p].kids[n] => m = n
  BY <1>18
<1>22. \A p, q \in Procs : q \in Range(Q[p].kids) <=> Q[q].st # "free" /\ Q[q].ppid = p
  BY <1>19
<1> QED
  BY ONLY <1>5, <1>16, <1>20, <1>21, <1>22 DEF Kin

-----------------------------------------------------------------------------
(* Steps on descriptors.                                                   *)

LEMMA GoodFacts ==
  ASSUME Good
  PROVE  /\ cur # NULL => cur \in Procs /\ me \in ProcType /\ me.st = "live"
         /\ \A p \in Procs : proc[p] \in ProcType
         /\ Intact
<1>1. \A p \in Procs : proc[p] \in ProcType
  BY DEF Good, Shape
<1>2. cur # NULL => cur \in Procs /\ me \in ProcType /\ me.st = "live"
  BY <1>1, KinFacts DEF Good, Shape, KinInv, me
<1>3. ASSUME NEW p \in Procs, NEW c \in Range(proc[p].kids) PROVE proc[c].st # "free"
  <2>1. c \in Procs
    BY DEF Good, KinInv, Kin, Range
  <2> QED
    BY <2>1 DEF Good, KinInv, Kin
<1>4. Intact
  BY <1>2, <1>3 DEF Intact
<1> QED
  BY <1>1, <1>2, <1>4

LEMMA Typed ==
  /\ Shut \in FdType /\ NoTable \in [Fds -> FdType]
  /\ \A h \in Handles, w \in BOOLEAN : Desc(h, w) \in FdType
  /\ NoProc \in ProcType
<1>1. Shut \in FdType /\ NoTable \in [Fds -> FdType]
  BY DEF Shut, NoTable, FdType
<1>2. \A h \in Handles, w \in BOOLEAN : Desc(h, w) \in FdType
  BY DEF Desc, FdType
<1>3. <<>> \in Seq(Procs)
  OBVIOUS
<1>4. NoProc \in ProcType
  BY <1>1, <1>3 DEF NoProc, FreshProc, ProcType
<1> QED
  BY <1>1, <1>2, <1>4

(* The running process changes nothing of itself but its descriptors and   *)
(* its console.                                                            *)
Quiet ==
  /\ UNCHANGED <<prog, cur, imgs>>
  /\ proc' \in [Procs -> ProcType]
  /\ \A p \in Procs :
       /\ p # cur => proc'[p] = proc[p]
       /\ proc'[p].st = proc[p].st /\ proc'[p].ppid = proc[p].ppid /\ proc'[p].kids = proc[p].kids
       /\ proc'[p].run = proc[p].run /\ proc'[p].image = proc[p].image
       /\ proc'[p].forked = proc[p].forked /\ proc'[p].execed = proc[p].execed

LEMMA QuietStep ==
  ASSUME Good, Running, Quiet
  PROVE  EmptyInv' /\ KinInv' /\ ImagesInv'
<1>1. cur \in Procs /\ me.st = "live" /\ me.run = "unixlib"
  BY GoodFacts DEF Running
<1>2. KinInv'
  BY KinSame DEF Good, KinInv, Quiet
<1>3. EmptyInv'
  <2> SUFFICES ASSUME NEW p \in Procs
               PROVE  /\ UnixLibOnly => proc'[p].run # "foreign"
                      /\ proc'[p].st = "free" => proc'[p] = NoProc
                      /\ proc'[p].st = "zombie" /\ proc'[p].run # "foreign" =>
                           Table'[p] = Empty /\ proc'[p].tty = NULL
                      /\ proc'[p].st = "live" /\ proc'[p].ppid = NULL /\ proc'[p].run # "unixlib" =>
                           Table'[p] = Empty /\ proc'[p].tty = NULL /\ proc'[p].kids = <<>>
    BY DEF EmptyInv, UnixLibOnly, Quiet
  <2>1. CASE p = cur
    BY <1>1, <2>1 DEF Good, EmptyInv, Quiet, me
  <2>2. CASE p # cur
    <3>1. proc'[p] = proc[p] /\ Table'[p] = Table[p]
      BY <2>2 DEF Quiet, Table
    <3> QED
      BY <3>1 DEF Good, EmptyInv
  <2> QED
    BY <2>1, <2>2
<1>4. ImagesInv'
  <2>1. Image' = Image
    BY DEF Image, Quiet
  <2> QED
    BY <2>1 DEF Good, ImagesInv, Quiet, imgs, ExecsAreLeaves
<1> QED
  BY <1>2, <1>3, <1>4

(* What descriptors and consoles refer to is as it was.                    *)
LEMMA SameRefs ==
  ASSUME RefsInv, TtysInv, UNCHANGED <<prog, devs>>,
         \A p \in Procs : proc'[p].tty = proc[p].tty
                          /\ \A f \in Fds : proc'[p].fds[f].h = proc[p].fds[f].h
  PROVE  RefsInv' /\ TtysInv'
<1>1. Table' = Table /\ Console' = Console
  BY DEF Table, Console
<1> QED
  BY <1>1 DEF RefsInv, TtysInv, devs, UnixLibOnly

(* The running process has the table t and the console y now.              *)
LEMMA FitStep ==
  ASSUME Good, Running, NEW t \in [Fds -> FdType], NEW y \in Ttys \cup {NULL},
         proc' = [proc EXCEPT ![cur] = [me EXCEPT !.fds = t, !.tty = y]],
         UNCHANGED <<prog, cur, imgs>>
  PROVE  /\ Quiet /\ EmptyInv' /\ KinInv' /\ ImagesInv'
         /\ \A p \in Procs, g \in Fds : Table'[p][g] = IF p = cur THEN t[g].h ELSE Table[p][g]
         /\ \A p \in Procs : Console'[p] = IF p = cur THEN y ELSE Console[p]
<1>1. cur \in Procs /\ me \in ProcType
  BY GoodFacts DEF Running
<1> DEFINE r == [me EXCEPT !.fds = t, !.tty = y]
<1>2. r \in ProcType
  BY <1>1 DEF ProcType
<1>3. /\ r.fds = t /\ r.tty = y /\ r.st = me.st /\ r.ppid = me.ppid /\ r.kids = me.kids
      /\ r.run = me.run /\ r.image = me.image /\ r.forked = me.forked /\ r.execed = me.execed
  BY <1>1 DEF ProcType
<1> HIDE DEF r
<1>4. proc' = [proc EXCEPT ![cur] = r] /\ proc \in [Procs -> ProcType]
  BY DEF r, Good, Shape
<1>5. proc' \in [Procs -> ProcType] /\ \A p \in Procs : proc'[p] = IF p = cur THEN r ELSE proc[p]
  BY <1>1, <1>2, <1>4
<1>6. Quiet
  BY <1>1, <1>3, <1>5 DEF Quiet, me
<1>7. /\ \A p \in Procs, g \in Fds : Table'[p][g] = IF p = cur THEN t[g].h ELSE Table[p][g]
      /\ \A p \in Procs : Console'[p] = IF p = cur THEN y ELSE Console[p]
  BY <1>3, <1>5, TableIs, TableNext
<1> QED
  BY <1>6, <1>7, QuietStep

(* One of its descriptors is d now.                                        *)
LEMMA FdStep ==
  ASSUME Good, Running, NEW f \in Fds, NEW d \in FdType,
         proc' = [proc EXCEPT ![cur].fds[f] = d], UNCHANGED <<prog, cur, imgs>>
  PROVE  /\ Quiet /\ EmptyInv' /\ KinInv' /\ ImagesInv'
         /\ \A p \in Procs, g \in Fds :
              Table'[p][g] = IF p = cur /\ g = f THEN d.h ELSE Table[p][g]
         /\ \A p \in Procs : Console'[p] = Console[p]
<1>1. cur \in Procs /\ me \in ProcType
  BY GoodFacts DEF Running
<1> DEFINE t == [me.fds EXCEPT ![f] = d]
<1>2. t \in [Fds -> FdType] /\ \A g \in Fds : t[g].h = IF g = f THEN d.h ELSE Table[cur][g]
  BY <1>1, TableIs DEF ProcType, me
<1>3. me.tty \in Ttys \cup {NULL} /\ me.tty = Console[cur]
  BY <1>1, TableIs DEF ProcType, me
<1>4. [proc EXCEPT ![cur].fds[f] = d] = [proc EXCEPT ![cur] = [me EXCEPT !.fds = t, !.tty = me.tty]]
  BY <1>1 DEF ProcType, me, Good, Shape
<1> HIDE DEF t
<1>5. /\ Quiet /\ EmptyInv' /\ KinInv' /\ ImagesInv'
      /\ \A p \in Procs, g \in Fds : Table'[p][g] = IF p = cur THEN t[g].h ELSE Table[p][g]
      /\ \A p \in Procs : Console'[p] = IF p = cur THEN me.tty ELSE Console[p]
  BY <1>2, <1>3, <1>4, FitStep
<1> QED
  BY <1>2, <1>3, <1>5

LEMMA SetFdStep ==
  ASSUME Good, NEW f \in Fds, SetFd(f)
  PROVE  Good'
<1>1. cur \in Procs /\ me \in ProcType /\ Running
  BY GoodFacts DEF SetFd, Calls, Running
<1> DEFINE d == [me.fds[f] EXCEPT !.x = ~@]
<1>2. d \in FdType /\ d.h = me.fds[f].h
  BY <1>1 DEF ProcType, FdType
<1>3. proc' = [proc EXCEPT ![cur].fds[f] = d]
  BY <1>1 DEF SetFd, me, Good, Shape
<1> HIDE DEF d
<1>4. /\ Quiet /\ EmptyInv' /\ KinInv' /\ ImagesInv'
      /\ \A p \in Procs, g \in Fds : Table'[p][g] = IF p = cur /\ g = f THEN d.h ELSE Table[p][g]
      /\ \A p \in Procs : Console'[p] = Console[p]
  BY <1>1, <1>2, <1>3, FdStep DEF SetFd
<1>5. \A p \in Procs : proc'[p].tty = proc[p].tty
                       /\ \A g \in Fds : proc'[p].fds[g].h = proc[p].fds[g].h
  BY <1>2, <1>4, TableIs, TableNext DEF me
<1>6. RefsInv' /\ TtysInv'
  BY <1>5, SameRefs DEF Good, SetFd
<1>7. Shape'
  BY <1>4 DEF Good, Shape, Quiet, SetFd, devs, imgs
<1> QED
  BY <1>4, <1>6, <1>7 DEF Good

LEMMA CountPositive ==
  ASSUME NEW T, NEW h
  PROVE  /\ Count(T, h) \in Nat
         /\ Count(T, h) # 0 <=> \E p \in Procs, f \in Fds : T[p][f] = h
<1>1. Count(T, h) # 0 <=> Places(T, h) # {}
  BY PlacesFinite, FS_EmptySet DEF Count
<1>2. Places(T, h) # {} <=> \E d \in Procs \X Fds : T[d[1]][d[2]] = h
  BY DEF Places, Among
<1>3. (\E d \in Procs \X Fds : T[d[1]][d[2]] = h) <=> \E p \in Procs, f \in Fds : T[p][f] = h
  <2>1. ASSUME NEW d \in Procs \X Fds, T[d[1]][d[2]] = h PROVE \E p \in Procs, f \in Fds : T[p][f] = h
    <3>1. d[1] \in Procs /\ d[2] \in Fds
      OBVIOUS
    <3> QED
      BY <2>1, <3>1
  <2>2. ASSUME NEW p \in Procs, NEW f \in Fds, T[p][f] = h
        PROVE  \E d \in Procs \X Fds : T[d[1]][d[2]] = h
    <3>1. <<p, f>> \in Procs \X Fds /\ <<p, f>>[1] = p /\ <<p, f>>[2] = f
      OBVIOUS
    <3> QED
      BY <2>2, <3>1
  <2> QED
    BY <2>1, <2>2
<1> QED
  BY <1>1, <1>2, <1>3, PlacesFinite

LEMMA FreeFdsIs ==
  ASSUME NEW t, NEW start \in Fds, FreeFds(t, start) # {}
  PROVE  Min(FreeFds(t, start)) \in Fds /\ t[Min(FreeFds(t, start))].h = NULL
<1>1. FreeFds(t, start) \in SUBSET Nat /\ FreeFds(t, start) \subseteq Fds
  BY ProcessesAssumption DEF FreeFds, Fds
<1>2. Min(FreeFds(t, start)) \in FreeFds(t, start)
  BY <1>1, MinIn
<1> QED
  BY <1>1, <1>2 DEF FreeFds

LEMMA CloseFdStep ==
  ASSUME Good, Running, NEW f \in Fds, CloseFd(f), UNCHANGED <<prog, cur, imgs>>,
         dup' \in DupType \cup {NULL}
  PROVE  Good'
<1>1. cur \in Procs
  BY GoodFacts DEF Running
<1>2. /\ Quiet /\ EmptyInv' /\ KinInv' /\ ImagesInv'
      /\ \A p \in Procs, g \in Fds : Table'[p][g] = IF p = cur /\ g = f THEN NULL ELSE Table[p][g]
      /\ \A p \in Procs : Console'[p] = Console[p]
  <2>1. Shut \in FdType /\ Shut.h = NULL
    BY Typed DEF Shut
  <2>2. proc' = [proc EXCEPT ![cur].fds[f] = Shut]
    BY DEF CloseFd
  <2>3. /\ Quiet /\ EmptyInv' /\ KinInv' /\ ImagesInv'
        /\ \A p \in Procs, g \in Fds :
             Table'[p][g] = IF p = cur /\ g = f THEN Shut.h ELSE Table[p][g]
        /\ \A p \in Procs : Console'[p] = Console[p]
    BY <2>1, <2>2, FdStep
  <2> QED
    BY <2>1, <2>3
<1> DEFINE D == {<<cur, f>>}
           S == {}
<1>3. D \in SUBSET (Procs \X Fds) /\ S \in SUBSET Procs
  BY <1>1
<1>4. \A d \in Procs \X Fds : Table'[d[1]][d[2]] = IF d \in D THEN NULL ELSE Table[d[1]][d[2]]
  <2> SUFFICES ASSUME NEW d \in Procs \X Fds
               PROVE  Table'[d[1]][d[2]] = IF d \in D THEN NULL ELSE Table[d[1]][d[2]]
    OBVIOUS
  <2>1. d = <<d[1], d[2]>> /\ d[1] \in Procs /\ d[2] \in Fds
    OBVIOUS
  <2>2. d \in D <=> d[1] = cur /\ d[2] = f
    BY <2>1
  <2> QED
    BY <1>2, <2>1, <2>2
<1>5. Release(D, S)
  BY DEF CloseFd
<1>6. /\ \A p \in Procs : Console'[p] = IF p \in S THEN NULL ELSE Console[p]
      /\ UnixLibOnly => \A p \in S \ {cur} : Console[p] = NULL
  BY <1>2
<1> HIDE DEF D, S
<1>7. /\ RefsInv' /\ TtysInv'
      /\ dev' \in [Handles -> {"free", "file", "pipe"} \cup Ttys] /\ refs' \in [Handles -> Nat]
      /\ ttys' \subseteq Ttys /\ ttyref' \in [Ttys -> Int]
  BY <1>3, <1>4, <1>5, <1>6, ReleaseStep DEF Good
<1>8. Shape'
  BY <1>2, <1>7 DEF Good, Shape, Quiet, imgs
<1> QED
  BY <1>2, <1>7, <1>8 DEF Good

LEMMA CopyStep ==
  ASSUME Good, Running, NEW f1 \in Fds, NEW f2 \in Fds, Copy(f1, f2),
         me.fds[f1].h # NULL, me.fds[f2].h = NULL, UNCHANGED <<prog, cur, imgs>>,
         dup' \in DupType \cup {NULL}
  PROVE  Good'
<1> DEFINE h == me.fds[f1].h
           d == [me.fds[f1] EXCEPT !.x = FALSE]
<1>1. cur \in Procs /\ me \in ProcType
  BY GoodFacts DEF Running
<1>2. d \in FdType /\ d.h = h /\ h \in Handles
  BY <1>1 DEF ProcType, FdType
<1>3. Table[cur][f1] = h /\ Table[cur][f2] = NULL
  BY <1>1, TableIs DEF me
<1>4. proc' = [proc EXCEPT ![cur].fds[f2] = d] /\ refs' = [refs EXCEPT ![h] = @ + 1]
      /\ UNCHANGED <<dev, ttys, ttyref>>
  BY DEF Copy
<1> HIDE DEF h, d
<1>5. /\ Quiet /\ EmptyInv' /\ KinInv' /\ ImagesInv'
      /\ \A p \in Procs, g \in Fds : Table'[p][g] = IF p = cur /\ g = f2 THEN h ELSE Table[p][g]
      /\ \A p \in Procs : Console'[p] = Console[p]
  <2>1. /\ Quiet /\ EmptyInv' /\ KinInv' /\ ImagesInv'
        /\ \A p \in Procs, g \in Fds :
             Table'[p][g] = IF p = cur /\ g = f2 THEN d.h ELSE Table[p][g]
        /\ \A p \in Procs : Console'[p] = Console[p]
    BY <1>2, <1>4, FdStep
  <2> QED
    BY <1>2, <2>1
<1>6. ASSUME NEW k \in Handles
      PROVE  /\ refs'[k] \in Nat /\ refs'[k] = Count(Table', k)
             /\ dev'[k] = "free" <=> refs'[k] = 0
  <2>1. Count(Table', k) = Count(Table, k) + Hit(Table'[cur][f2], k) - Hit(Table[cur][f2], k)
    <3>1. \A q \in Procs, g \in Fds : ~(q = cur /\ g = f2) => Table'[q][g] = Table[q][g]
      BY <1>5
    <3>2. cur \in Procs /\ f2 \in Fds
      BY <1>1
    <3> QED
      BY ONLY <3>1, <3>2, CountSet
  <2>2. NULL # k
    BY NullAssumption
  <2>3. refs[k] \in Nat /\ refs[k] = Count(Table, k) /\ (dev[k] = "free" <=> refs[k] = 0)
    BY DEF Good, Shape, RefsInv
  <2>4. refs'[k] = IF h = k THEN refs[k] + 1 ELSE refs[k]
    BY <1>2, <1>4 DEF Good, Shape
  <2>5. h = k => Count(Table, k) # 0
    BY <1>1, <1>3, CountPositive
  <2>6. Table'[cur][f2] = h
    BY <1>1, <1>5
  <2> QED
    BY <1>3, <1>4, <2>1, <2>2, <2>3, <2>4, <2>5, <2>6 DEF Hit
<1>7. RefsInv'
  BY <1>6 DEF RefsInv
<1>8. refs' \in [Handles -> Nat]
  BY <1>2, <1>4, <1>6 DEF Good, Shape
<1>9. TtysInv'
  <2>1. Console' = Console
    BY <1>5 DEF Console
  <2> QED
    BY <1>4, <2>1 DEF Good, TtysInv, UnixLibOnly
<1>10. Shape'
  BY <1>4, <1>5, <1>8 DEF Good, Shape, Quiet, imgs
<1> QED
  BY <1>5, <1>7, <1>9, <1>10 DEF Good

LEMMA CloseStep ==
  ASSUME Good, NEW f \in Fds, Close(f)
  PROVE  Good'
  BY CloseFdStep DEF Close, Calls, Good, Shape

LEMMA DupFdStep ==
  ASSUME Good, NEW f \in Fds, NEW start \in Fds, DupFd(f, start)
  PROVE  Good'
<1>1. Min(FreeFds(me.fds, start)) \in Fds /\ me.fds[Min(FreeFds(me.fds, start))].h = NULL
  BY FreeFdsIs DEF DupFd
<1> QED
  BY <1>1, CopyStep DEF DupFd, Calls, Good, Shape

LEMMA Dup2Step ==
  ASSUME Good, NEW f1 \in Fds, NEW f2 \in Fds, Dup2(f1, f2)
  PROVE  Good'
<1>1. cur \in Procs /\ Running
  BY GoodFacts DEF Dup2, Calls, Running
<1>2. dup' \in DupType \cup {NULL}
  BY <1>1 DEF Dup2, DupType
<1>3. CASE CloseFd(f2)
  BY <1>1, <1>2, <1>3, CloseFdStep DEF Dup2
<1>4. CASE UNCHANGED <<devs, proc>>
  <2>1. RefsInv' /\ TtysInv'
    BY <1>4, SameRefs DEF Good, Dup2
  <2>2. Shape'
    BY <1>2, <1>4 DEF Good, Shape, Dup2, devs, imgs
  <2>3. Quiet
    BY <1>4 DEF Quiet, Dup2, Good, Shape
  <2> QED
    BY <1>1, <2>1, <2>2, <2>3, QuietStep DEF Good
<1> QED
  BY <1>3, <1>4 DEF Dup2

LEMMA Dup2CopyStep ==
  ASSUME Good, Dup2Copy
  PROVE  Good'
<1>1. cur \in Procs /\ Running /\ dup \in DupType /\ dup.f1 \in Fds /\ dup.f2 \in Fds
  BY GoodFacts DEF Dup2Copy, Running, Good, Shape, DupType
<1>2. CASE me.fds[dup.f1].h = NULL \/ FreeFds(me.fds, dup.f2) = {}
  <2>1. dup' \in DupType /\ UNCHANGED <<devs, proc, prog, cur, imgs>>
    BY <1>1, <1>2 DEF Dup2Copy, DupType
  <2>2. RefsInv' /\ TtysInv'
    BY <2>1, SameRefs DEF Good
  <2>3. Shape'
    BY <2>1 DEF Good, Shape, devs, imgs
  <2>4. Quiet
    BY <2>1 DEF Quiet, Good, Shape
  <2> QED
    BY <1>1, <2>2, <2>3, <2>4, QuietStep DEF Good
<1>3. CASE ~(me.fds[dup.f1].h = NULL \/ FreeFds(me.fds, dup.f2) = {})
  <2> DEFINE f == Min(FreeFds(me.fds, dup.f2))
  <2>1. f \in Fds /\ me.fds[f].h = NULL
    BY <1>1, <1>3, FreeFdsIs
  <2>2. Copy(dup.f1, f) /\ dup' = [dup EXCEPT !.got = f] /\ UNCHANGED <<prog, cur, imgs>>
    BY <1>3 DEF Dup2Copy
  <2> HIDE DEF f
  <2>3. dup' \in DupType
    BY <1>1, <2>1, <2>2 DEF DupType
  <2> QED
    BY <1>1, <1>3, <2>1, <2>2, <2>3, CopyStep
<1> QED
  BY <1>2, <1>3

LEMMA StillStep ==
  ASSUME Good, UNCHANGED <<prog, cur, proc, devs, imgs>>, dup' \in {dup, NULL}
  PROVE  Good'
<1>1. UNCHANGED <<prog, cur, proc, devs, imgs>> /\ dup' \in {dup, NULL}
  OBVIOUS
<1>2. RefsInv' /\ TtysInv'
  BY <1>1, SameRefs DEF Good
<1>3. Shape'
  BY <1>1 DEF Good, Shape, devs, imgs
<1>4. Table' = Table /\ Image' = Image /\ KinInv'
  BY <1>1 DEF Table, Image, Good, KinInv
<1>5. EmptyInv' /\ ImagesInv'
  BY <1>1, <1>4 DEF Good, EmptyInv, ImagesInv, UnixLibOnly, ExecsAreLeaves, imgs
<1> QED
  BY <1>2, <1>3, <1>4, <1>5 DEF Good

LEMMA ReturnsStep ==
  ASSUME Good, Dup2Returns \/ WaitReturns \/ Over \/ UNCHANGED vars
  PROVE  Good'
<1>1. UNCHANGED <<prog, cur, proc, devs, imgs>> /\ dup' \in {dup, NULL}
  BY DEF Dup2Returns, WaitReturns, Over, vars, devs, imgs
<1> QED
  BY <1>1, StillStep

LEMMA UnusedIs ==
  ASSUME Good, NEW h \in Unused
  PROVE  /\ h \in Handles /\ dev[h] = "free" /\ refs[h] = 0 /\ Count(Table, h) = 0
         /\ \A p \in Procs, f \in Fds : Table[p][f] # h
<1>1. h \in Handles /\ dev[h] = "free" /\ refs[h] = 0 /\ Count(Table, h) = 0
  BY DEF Unused, Good, RefsInv
<1> QED
  BY <1>1, CountPositive

LEMMA HitIs ==
  /\ \A x, y : Hit(x, y) \in {0, 1} /\ (x = y <=> Hit(x, y) = 1)
  /\ \A h \in Handles : Hit(NULL, h) = 0
  /\ \A t \in Ttys : Hit(NULL, t) = 0 /\ Hit("free", t) = 0 /\ Hit("file", t) = 0 /\ Hit("pipe", t) = 0
  BY NullAssumption, DevicesAssumption DEF Hit

(* A handle is opened and n descriptors refer to it.                       *)
LEMMA NewHandle ==
  ASSUME Good, NEW h \in Unused, NEW n \in Nat, n # 0, NEW x \in {"file", "pipe"} \cup Ttys,
         refs' = [refs EXCEPT ![h] = n], dev' = [dev EXCEPT ![h] = x],
         Count(Table', h) = n, \A k \in Handles \ {h} : Count(Table', k) = Count(Table, k)
  PROVE  /\ RefsInv' /\ dev' \in [Handles -> {"free", "file", "pipe"} \cup Ttys]
         /\ refs' \in [Handles -> Nat]
         /\ \A t \in Ttys : Cardinality(At(dev', t)) = Cardinality(At(dev, t)) + Hit(x, t)
<1>1. h \in Handles /\ dev[h] = "free"
  BY UnusedIs
<1>2. x # "free"
  BY DevicesAssumption
<1>3. ASSUME NEW k \in Handles
      PROVE  refs'[k] = Count(Table', k) /\ (dev'[k] = "free" <=> refs'[k] = 0)
  <2>1. CASE k = h
    BY <1>1, <1>2, <2>1 DEF Good, Shape
  <2>2. CASE k # h
    BY <1>1, <2>2 DEF Good, Shape, RefsInv
  <2> QED
    BY <2>1, <2>2
<1>4. RefsInv'
  BY <1>3 DEF RefsInv
<1>5. dev' \in [Handles -> {"free", "file", "pipe"} \cup Ttys] /\ refs' \in [Handles -> Nat]
  BY DEF Good, Shape
<1>6. ASSUME NEW t \in Ttys
      PROVE  Cardinality(At(dev', t)) = Cardinality(At(dev, t)) + Hit(x, t)
  <2>1. DOMAIN dev = Handles /\ DOMAIN dev' = Handles /\ h \in DOMAIN dev /\ dev'[h] = x
    BY <1>1 DEF Good, Shape
  <2>2. \A q \in DOMAIN dev : q # h => dev'[q] = dev[q]
    BY <2>1
  <2>3. Cardinality(At(dev', t)) = Cardinality(At(dev, t)) + Hit(dev'[h], t) - Hit(dev[h], t)
    BY ONLY <2>1, <2>2, FiniteAssumption, AtSet
  <2>4. Cardinality(At(dev, t)) \in Nat
    BY ONLY <2>1, FiniteAssumption, AtFinite
  <2> QED
    BY <1>1, <2>1, <2>3, <2>4, HitIs
<1> QED
  BY <1>4, <1>5, <1>6

(* The console of the running process changes, or stays.                   *)
LEMMA NewConsole ==
  ASSUME Good, cur \in Procs, \A p \in Procs \ {cur} : Console'[p] = Console[p], NEW t \in Ttys
  PROVE  /\ Cardinality(At(Console', t)) =
              Cardinality(At(Console, t)) + Hit(Console'[cur], t) - Hit(Console[cur], t)
         /\ Cardinality(At(Console, t)) \in Nat /\ Cardinality(At(Console', t)) \in Nat
         /\ Cardinality(At(dev, t)) \in Nat
         /\ Cardinality(At(Console, t)) = 0 => Console[cur] # t
<1>1. DOMAIN Console = Procs /\ DOMAIN Console' = Procs
  BY TableIs, TableNext
<1>2. \A q \in DOMAIN Console : q # cur => Console'[q] = Console[q]
  BY <1>1
<1>3. Cardinality(At(Console', t)) =
        Cardinality(At(Console, t)) + Hit(Console'[cur], t) - Hit(Console[cur], t)
  BY ONLY <1>1, <1>2, cur \in Procs, FiniteAssumption, AtSet
<1>4. Cardinality(At(Console, t)) \in Nat /\ Cardinality(At(Console', t)) \in Nat
      /\ IsFiniteSet(At(Console, t))
  BY ONLY <1>1, FiniteAssumption, AtFinite
<1>5. DOMAIN dev = Handles
  BY DEF Good, Shape
<1>6. Cardinality(At(dev, t)) \in Nat
  BY ONLY <1>5, FiniteAssumption, AtFinite
<1>7. Cardinality(At(Console, t)) = 0 => At(Console, t) = {}
  BY <1>4, FS_EmptySet
<1>8. Console[cur] = t => cur \in At(Console, t)
  BY <1>1 DEF At, AtOf
<1> QED
  BY <1>3, <1>4, <1>6, <1>7, <1>8

LEMMA OpenFdStep ==
  ASSUME Good, NEW k \in {"file", "pipe", "tty"}, OpenFd(k)
  PROVE  Good'
<1>1. cur \in Procs /\ me \in ProcType /\ Running
  BY GoodFacts DEF OpenFd, Calls, Running
<1> DEFINE f == Min(FreeFds(me.fds, 0))
<1>2. f \in Fds /\ me.fds[f].h = NULL
  <2>1. 0 \in Fds
    BY ProcessesAssumption DEF Fds
  <2> QED
    BY <2>1, FreeFdsIs DEF OpenFd
<1>3. PICK h \in Unused :
        LET to == [proc EXCEPT ![cur].fds[f] = Desc(h, FALSE)]
        IN  /\ refs' = [refs EXCEPT ![h] = 1]
            /\ IF k = "file"
                 THEN /\ dev' = [dev EXCEPT ![h] = "file"]
                      /\ proc' = to
                      /\ UNCHANGED <<ttys, ttyref>>
                 ELSE \E t \in IF me.tty # NULL THEN {me.tty} ELSE Ttys \ ttys :
                        /\ dev' = [dev EXCEPT ![h] = t]
                        /\ ttys' = ttys \cup {t}
                        /\ ttyref' = [ttyref EXCEPT
                             ![t] = IF me.tty # NULL THEN @ + 1 ELSE NewTtyRefs]
                        /\ proc' = [to EXCEPT ![cur].tty = t]
  BY DEF OpenFd
<1> HIDE DEF f
<1>4. h \in Handles /\ refs[h] = 0 /\ Count(Table, h) = 0 /\ Table[cur][f] = NULL
      /\ Desc(h, FALSE) \in FdType /\ Desc(h, FALSE).h = h
  BY <1>1, <1>2, UnusedIs, Typed, TableIs DEF Desc, me
<1> DEFINE tab == [me.fds EXCEPT ![f] = Desc(h, FALSE)]
           fits(y) == [proc EXCEPT ![cur] = [me EXCEPT !.fds = tab, !.tty = y]]
           pays(x, y) == UnixLibOnly => \A t \in Ttys :
             /\ ttyref'[t] = ttyref[t] + Hit(x, t) + Hit(y, t) - Hit(me.tty, t)
             /\ t \in ttys' <=> ttyref'[t] # 0
<1>5. tab \in [Fds -> FdType] /\ \A g \in Fds : tab[g].h = IF g = f THEN h ELSE Table[cur][g]
  BY <1>1, <1>2, <1>4, TableIs DEF ProcType, me
<1>6. [proc EXCEPT ![cur].fds[f] = Desc(h, FALSE)] = fits(me.tty)
  BY <1>1 DEF ProcType, me, Good, Shape
<1>7. \A y \in Ttys : [[proc EXCEPT ![cur].fds[f] = Desc(h, FALSE)] EXCEPT ![cur].tty = y] = fits(y)
  BY <1>1 DEF ProcType, me, Good, Shape
<1> HIDE DEF tab
<1>8. ASSUME NEW y \in Ttys \cup {NULL}, proc' = fits(y), NEW x \in {"file"} \cup Ttys,
             dev' = [dev EXCEPT ![h] = x],
             ttys' \subseteq Ttys, ttyref' \in [Ttys -> Int], pays(x, y)
      PROVE  Good'
  <2>0. UNCHANGED <<prog, cur, imgs, dup>>
    BY DEF OpenFd
  <2>1. /\ Quiet /\ EmptyInv' /\ KinInv' /\ ImagesInv'
        /\ \A p \in Procs, g \in Fds : Table'[p][g] = IF p = cur THEN tab[g].h ELSE Table[p][g]
        /\ \A p \in Procs : Console'[p] = IF p = cur THEN y ELSE Console[p]
    BY <1>1, <1>5, <1>8, <2>0, FitStep
  <2>2. \A p \in Procs, g \in Fds : ~(p = cur /\ g = f) => Table'[p][g] = Table[p][g]
    BY <1>5, <2>1
  <2>3. Table'[cur][f] = h
    BY <1>1, <1>2, <1>5, <2>1
  <2>4. ASSUME NEW j \in Handles PROVE Count(Table', j) = Count(Table, j) + Hit(h, j)
    <3>1. Count(Table', j) = Count(Table, j) + Hit(Table'[cur][f], j) - Hit(Table[cur][f], j)
      BY ONLY <1>1, <1>2, <2>2, CountSet
    <3> QED
      BY <1>4, <2>3, <3>1, HitIs, CountPositive
  <2>5. Count(Table', h) = 1 /\ \A j \in Handles \ {h} : Count(Table', j) = Count(Table, j)
    BY <1>4, <2>4, HitIs, CountPositive
  <2>6. refs' = [refs EXCEPT ![h] = 1]
    BY <1>3
  <2>7. /\ RefsInv' /\ dev' \in [Handles -> {"free", "file", "pipe"} \cup Ttys]
        /\ refs' \in [Handles -> Nat]
        /\ \A t \in Ttys : Cardinality(At(dev', t)) = Cardinality(At(dev, t)) + Hit(x, t)
    <3>1. 1 \in Nat /\ 1 # 0 /\ x \in {"file", "pipe"} \cup Ttys /\ h \in Unused
      OBVIOUS
    <3>2. dev' = [dev EXCEPT ![h] = x]
      BY <1>8
    <3> QED
      BY ONLY Good, <2>5, <2>6, <3>1, <3>2, NewHandle
  <2>8. TtysInv'
    <3> SUFFICES ASSUME UnixLibOnly, NEW t \in Ttys
                 PROVE  /\ ttyref'[t] = Cardinality(At(dev', t)) + Cardinality(At(Console', t))
                        /\ t \in ttys' <=> ttyref'[t] # 0
      BY <2>0 DEF TtysInv, UnixLibOnly
    <3>1. Console[cur] = me.tty /\ Console'[cur] = y
      BY <1>1, <2>1, TableIs DEF me
    <3>2. \A p \in Procs \ {cur} : Console'[p] = Console[p]
      BY <2>1
    <3>3. /\ Cardinality(At(Console', t)) =
               Cardinality(At(Console, t)) + Hit(Console'[cur], t) - Hit(Console[cur], t)
          /\ Cardinality(At(Console, t)) \in Nat /\ Cardinality(At(dev, t)) \in Nat
      BY <1>1, <3>2, NewConsole
    <3>4. ttyref[t] = Cardinality(At(dev, t)) + Cardinality(At(Console, t))
      BY DEF Good, TtysInv
    <3>5. /\ ttyref'[t] = ttyref[t] + Hit(x, t) + Hit(y, t) - Hit(me.tty, t)
          /\ t \in ttys' <=> ttyref'[t] # 0
      BY <1>8
    <3>6. Cardinality(At(dev', t)) = Cardinality(At(dev, t)) + Hit(x, t)
      BY <2>7
    <3>7. Hit(x, t) \in Int /\ Hit(y, t) \in Int /\ Hit(me.tty, t) \in Int
      BY HitIs
    <3> QED
      BY ONLY <3>1, <3>3, <3>4, <3>5, <3>6, <3>7
  <2>9. Shape'
    BY <1>8, <2>0, <2>1, <2>7 DEF Good, Shape, Quiet, imgs
  <2> QED
    BY <2>1, <2>7, <2>8, <2>9 DEF Good
<1>9. me.tty \in Ttys \cup {NULL}
  BY <1>1 DEF ProcType
<1>10. CASE k = "file"
  <2>1. /\ proc' = fits(me.tty) /\ dev' = [dev EXCEPT ![h] = "file"]
        /\ ttys' = ttys /\ ttyref' = ttyref
    BY <1>3, <1>6, <1>10
  <2> HIDE DEF fits
  <2>2. pays("file", me.tty)
    BY <2>1, HitIs DEF Good, TtysInv, Shape
  <2> HIDE DEF pays
  <2>3. ttys' \subseteq Ttys /\ ttyref' \in [Ttys -> Int]
    BY <2>1 DEF Good, Shape
  <2> QED
    BY <1>8, <1>9, <2>1, <2>2, <2>3
<1>11. CASE k # "file"
  <2>1. PICK t \in IF me.tty # NULL THEN {me.tty} ELSE Ttys \ ttys :
          /\ dev' = [dev EXCEPT ![h] = t] /\ ttys' = ttys \cup {t}
          /\ ttyref' = [ttyref EXCEPT ![t] = IF me.tty # NULL THEN @ + 1 ELSE NewTtyRefs]
          /\ proc' = [[proc EXCEPT ![cur].fds[f] = Desc(h, FALSE)] EXCEPT ![cur].tty = t]
    BY <1>3, <1>11
  <2>2. t \in Ttys
    BY <1>9, <2>1
  <2>3. proc' = fits(t)
    BY <1>7, <2>1, <2>2
  <2> HIDE DEF fits
  <2>4. ttys' \subseteq Ttys /\ ttyref' \in [Ttys -> Int]
    BY <2>1, <2>2 DEF Good, Shape, NewTtyRefs
  <2>5. ASSUME UnixLibOnly, NEW u \in Ttys
        PROVE  /\ ttyref'[u] = ttyref[u] + Hit(t, u) + Hit(t, u) - Hit(me.tty, u)
               /\ u \in ttys' <=> ttyref'[u] # 0
    <3>1. /\ ttyref[u] = Cardinality(At(dev, u)) + Cardinality(At(Console, u))
          /\ u \in ttys <=> ttyref[u] # 0
      BY <2>5 DEF Good, TtysInv
    <3>2. IsFiniteSet(At(Console, u)) /\ Cardinality(At(Console, u)) \in Nat
      BY TableIs, FiniteAssumption, AtFinite
    <3>3. DOMAIN dev = Handles
      BY DEF Good, Shape
    <3>4. Cardinality(At(dev, u)) \in Nat
      BY ONLY <3>3, FiniteAssumption, AtFinite
    <3>5. me.tty = u => Cardinality(At(Console, u)) # 0
      <4>1. me.tty = u => cur \in At(Console, u)
        BY <1>1, TableIs DEF At, AtOf, me
      <4> QED
        BY <3>2, <4>1, FS_EmptySet
    <3>6. CASE u = t
      <4>1. ttyref'[u] = IF me.tty # NULL THEN ttyref[u] + 1 ELSE 2
        BY <2>1, <2>2, <3>6 DEF Good, Shape, NewTtyRefs
      <4>2. me.tty = NULL => ttyref[u] = 0
        BY <2>1, <3>1, <3>6
      <4>3. me.tty # NULL => me.tty = u
        BY <2>1, <3>6
      <4>4. u \in ttys'
        BY <2>1, <3>6
      <4> QED
        BY <3>1, <3>2, <3>4, <3>5, <3>6, <4>1, <4>2, <4>3, <4>4, HitIs
    <3>7. CASE u # t
      <4>1. ttyref'[u] = ttyref[u] /\ me.tty # u /\ (u \in ttys' <=> u \in ttys)
        BY <2>1, <2>2, <3>7, NullAssumption DEF Good, Shape
      <4> QED
        BY <3>1, <3>2, <3>4, <3>7, <4>1, HitIs
    <3> QED
      BY <3>6, <3>7
  <2>6. pays(t, t)
    BY <2>5
  <2> HIDE DEF pays
  <2> QED
    BY <1>8, <2>1, <2>2, <2>3, <2>4, <2>6
<1> QED
  BY <1>10, <1>11

LEMMA PipeStep ==
  ASSUME Good, Pipe
  PROVE  Good'
<1>1. cur \in Procs /\ me \in ProcType /\ Running
  BY GoodFacts DEF Pipe, Calls, Running
<1>2. UNCHANGED <<prog, cur, ttys, ttyref, imgs, dup>>
  BY DEF Pipe
<1> DEFINE F == FreeFds(me.fds, 0)
           f0 == Min(F)
           f1 == Min(F \ {f0})
<1>3. f0 \in Fds /\ f1 \in Fds /\ f0 # f1 /\ me.fds[f0].h = NULL /\ me.fds[f1].h = NULL
  <2>1. F \in SUBSET Nat /\ F \subseteq Fds /\ \A f \in F : me.fds[f].h = NULL
    BY ProcessesAssumption DEF FreeFds, Fds
  <2>2. Cardinality(F) >= 2
    BY DEF Pipe
  <2> HIDE DEF F
  <2>3. IsFiniteSet(F)
    BY <2>1, FdsFinite, FS_Subset
  <2>4. F # {}
    BY <2>2, FS_EmptySet
  <2>5. f0 \in F
    BY <2>1, <2>4, MinIn
  <2>6. Cardinality(F \ {f0}) = Cardinality(F) - 1
    BY <2>3, <2>5, FS_RemoveElement
  <2>7. F \ {f0} # {}
    <3>1. Cardinality(F) \in Nat
      BY <2>3, FS_CardinalityType
    <3>2. Cardinality(F \ {f0}) # 0
      BY <2>2, <2>6, <3>1
    <3> QED
      BY <3>2, FS_EmptySet
  <2>8. f1 \in F \ {f0}
    BY <2>1, <2>7, MinIn
  <2> QED
    BY <2>1, <2>5, <2>8
<1>4. PICK h \in Unused :
        /\ proc' = [proc EXCEPT ![cur].fds[f0] = Desc(h, FALSE), ![cur].fds[f1] = Desc(h, TRUE)]
        /\ refs' = [refs EXCEPT ![h] = PipeRefs]
        /\ dev' = [dev EXCEPT ![h] = "pipe"]
  BY DEF Pipe
<1> HIDE DEF F, f0, f1
<1>5. h \in Handles /\ refs[h] = 0 /\ Count(Table, h) = 0
  BY UnusedIs
<1>6. /\ Desc(h, FALSE) \in FdType /\ Desc(h, FALSE).h = h
      /\ Desc(h, TRUE) \in FdType /\ Desc(h, TRUE).h = h
  BY <1>5, Typed DEF Desc
<1> DEFINE tab == [[me.fds EXCEPT ![f0] = Desc(h, FALSE)] EXCEPT ![f1] = Desc(h, TRUE)]
<1>7. tab \in [Fds -> FdType]
      /\ \A g \in Fds : tab[g].h = IF g \in {f0, f1} THEN h ELSE Table[cur][g]
  BY <1>1, <1>3, <1>6, TableIs DEF ProcType, me
<1>8. proc' = [proc EXCEPT ![cur] = [me EXCEPT !.fds = tab, !.tty = me.tty]]
  BY <1>1, <1>4 DEF ProcType, me, Good, Shape
<1>9. me.tty \in Ttys \cup {NULL}
  BY <1>1 DEF ProcType
<1> HIDE DEF tab
<1>10. /\ Quiet /\ EmptyInv' /\ KinInv' /\ ImagesInv'
       /\ \A p \in Procs, g \in Fds : Table'[p][g] = IF p = cur THEN tab[g].h ELSE Table[p][g]
       /\ \A p \in Procs : Console'[p] = IF p = cur THEN me.tty ELSE Console[p]
  BY <1>1, <1>2, <1>7, <1>8, <1>9, FitStep
<1> DEFINE U == [p \in Procs |-> [g \in Fds |-> IF p = cur /\ g = f0 THEN h ELSE Table[p][g]]]
<1>11. ASSUME NEW j \in Handles PROVE Count(Table', j) = Count(Table, j) + Hit(h, j) + Hit(h, j)
  <2>0. cur \in Procs /\ f0 \in Fds /\ f1 \in Fds
    BY <1>1, <1>3
  <2>1. \A p \in Procs, g \in Fds : ~(p = cur /\ g = f0) => U[p][g] = Table[p][g]
    OBVIOUS
  <2>2. U[cur][f0] = h /\ U[cur][f1] = Table[cur][f1]
    BY <1>1, <1>3
  <2>3. \A p \in Procs, g \in Fds : ~(p = cur /\ g = f1) => Table'[p][g] = U[p][g]
    BY <1>7, <1>10
  <2>4. Table'[cur][f1] = h
    BY <1>1, <1>3, <1>7, <1>10
  <2>5. Table[cur][f0] = NULL /\ Table[cur][f1] = NULL
    BY <1>1, <1>3, TableIs DEF me
  <2> HIDE DEF U
  <2>6. Count(U, j) = Count(Table, j) + Hit(U[cur][f0], j) - Hit(Table[cur][f0], j)
    BY ONLY <2>0, <2>1, CountSet
  <2>7. Count(Table', j) = Count(U, j) + Hit(Table'[cur][f1], j) - Hit(U[cur][f1], j)
    BY ONLY <2>0, <2>3, CountSet
  <2>8. Count(Table, j) \in Nat /\ Count(U, j) \in Nat /\ Hit(h, j) \in Int /\ Hit(NULL, j) = 0
    BY CountPositive, HitIs
  <2> QED
    BY ONLY <2>2, <2>4, <2>5, <2>6, <2>7, <2>8
<1>12. Count(Table', h) = 2 /\ \A j \in Handles \ {h} : Count(Table', j) = Count(Table, j)
  BY <1>5, <1>11, HitIs, CountPositive
<1>13. /\ RefsInv' /\ dev' \in [Handles -> {"free", "file", "pipe"} \cup Ttys]
       /\ refs' \in [Handles -> Nat]
       /\ \A t \in Ttys : Cardinality(At(dev', t)) = Cardinality(At(dev, t)) + Hit("pipe", t)
  <2>1. 2 \in Nat /\ 2 # 0 /\ "pipe" \in {"file", "pipe"} \cup Ttys /\ h \in Unused
    OBVIOUS
  <2>2. refs' = [refs EXCEPT ![h] = 2] /\ dev' = [dev EXCEPT ![h] = "pipe"]
    BY <1>4 DEF PipeRefs
  <2> QED
    BY ONLY Good, <1>12, <2>1, <2>2, NewHandle
<1>14. TtysInv'
  <2>1. Console' = Console
    BY <1>1, <1>10, TableIs DEF Console, me
  <2>2. \A t \in Ttys : Cardinality(At(dev', t)) = Cardinality(At(dev, t))
    <3>1. DOMAIN dev = Handles
      BY DEF Good, Shape
    <3>2. \A t \in Ttys : Cardinality(At(dev, t)) \in Nat
      BY ONLY <3>1, FiniteAssumption, AtFinite
    <3> QED
      BY <1>13, <3>2, HitIs
  <2> QED
    BY <1>2, <2>1, <2>2 DEF Good, TtysInv, UnixLibOnly
<1>15. Shape'
  BY <1>2, <1>10, <1>13 DEF Good, Shape, Quiet, imgs
<1> QED
  BY <1>10, <1>13, <1>14, <1>15 DEF Good

-----------------------------------------------------------------------------
(* Steps on processes.                                                     *)

(* What a program that starts does but for its descriptors: nobody else    *)
(* runs in its image.                                                      *)
LEMMA Started ==
  ASSUME Good, cur \in Procs, me.st = "live", me.run = "starting", NEW i \in FreeImages,
         NEW t \in [Fds -> FdType], NEW y \in Ttys \cup {NULL},
         proc' = [proc EXCEPT ![cur] =
                    [me EXCEPT !.run = "unixlib", !.image = i, !.fds = t, !.tty = y]],
         clients' = clients \cup {i}, dref' = [dref EXCEPT ![i] = 1],
         areas' \in {areas, areas \cup {i}}, UNCHANGED <<prog, cur>>
  PROVE  /\ proc' \in [Procs -> ProcType] /\ EmptyInv' /\ KinInv' /\ ImagesInv'
         /\ \A p \in Procs, g \in Fds : Table'[p][g] = IF p = cur THEN t[g].h ELSE Table[p][g]
         /\ \A p \in Procs : Console'[p] = IF p = cur THEN y ELSE Console[p]
<1>1. me \in ProcType /\ i \in Images /\ dref[i] = 0 /\ i # NULL
  BY GoodFacts, NullAssumption DEF FreeImages
<1> DEFINE r == [me EXCEPT !.run = "unixlib", !.image = i, !.fds = t, !.tty = y]
<1>2. r \in ProcType
  BY <1>1 DEF ProcType
<1>3. /\ r.fds = t /\ r.tty = y /\ r.st = "live" /\ r.ppid = me.ppid /\ r.kids = me.kids
      /\ r.run = "unixlib" /\ r.image = i /\ r.forked = me.forked /\ r.execed = me.execed
  BY <1>1 DEF ProcType
<1> HIDE DEF r
<1>4. proc' = [proc EXCEPT ![cur] = r] /\ proc \in [Procs -> ProcType]
  BY DEF r, Good, Shape
<1>5. proc' \in [Procs -> ProcType] /\ \A p \in Procs : proc'[p] = IF p = cur THEN r ELSE proc[p]
  BY <1>2, <1>4
<1>6. KinInv'
  <2>1. \A p \in Procs : proc'[p].st = proc[p].st /\ proc'[p].ppid = proc[p].ppid
                         /\ proc'[p].kids = proc[p].kids
    BY <1>3, <1>5 DEF me
  <2>2. Kin(proc, cur)
    BY DEF Good, KinInv
  <2>3. Kin(proc', cur)
    BY ONLY <2>1, <2>2, KinSame
  <2> QED
    BY <2>3 DEF KinInv
<1>7. /\ \A p \in Procs, g \in Fds : Table'[p][g] = IF p = cur THEN t[g].h ELSE Table[p][g]
      /\ \A p \in Procs : Console'[p] = IF p = cur THEN y ELSE Console[p]
      /\ \A p \in Procs : Image'[p] = IF p = cur THEN i ELSE Image[p]
      /\ \A p \in Procs \ {cur} : Table'[p] = Table[p]
  BY <1>3, <1>5, TableIs, TableNext DEF Table
<1>8. EmptyInv'
  <2> SUFFICES ASSUME NEW p \in Procs
               PROVE  /\ UnixLibOnly => proc'[p].run # "foreign"
                      /\ proc'[p].st = "free" => proc'[p] = NoProc
                      /\ proc'[p].st = "zombie" /\ proc'[p].run # "foreign" =>
                           Table'[p] = Empty /\ proc'[p].tty = NULL
                      /\ proc'[p].st = "live" /\ proc'[p].ppid = NULL /\ proc'[p].run # "unixlib" =>
                           Table'[p] = Empty /\ proc'[p].tty = NULL /\ proc'[p].kids = <<>>
    BY DEF EmptyInv, UnixLibOnly
  <2>1. CASE p = cur
    BY <1>3, <1>5, <2>1
  <2>2. CASE p # cur
    BY <1>5, <1>7, <2>2 DEF Good, EmptyInv
  <2> QED
    BY <2>1, <2>2
<1>9. me.image = NULL /\ \A p \in Procs : proc[p].image # i
  <2>1. DOMAIN Image = Procs /\ \A p \in Procs : Image[p] = proc[p].image
    BY TableIs
  <2>2. IsFiniteSet(At(Image, i))
    BY ONLY <2>1, FiniteAssumption, AtFinite
  <2>3. At(Image, i) = {}
    BY <1>1, <2>2, FS_EmptySet DEF Good, ImagesInv
  <2>4. me.image = NULL
    BY DEF Good, ImagesInv, me
  <2> QED
    BY <2>1, <2>3, <2>4 DEF At, AtOf
<1>10. ASSUME NEW j \in Images
       PROVE  dref'[j] = Cardinality(At(Image', j)) /\ (j \in areas' => dref'[j] > 0)
  <2>1. DOMAIN Image = Procs /\ DOMAIN Image' = Procs
    BY TableIs, TableNext
  <2>2. \A q \in DOMAIN Image : q # cur => Image'[q] = Image[q]
    BY <1>7, <2>1
  <2>3. Cardinality(At(Image', j)) =
          Cardinality(At(Image, j)) + Hit(Image'[cur], j) - Hit(Image[cur], j)
    BY ONLY <2>1, <2>2, cur \in Procs, FiniteAssumption, AtSet
  <2>4. Image'[cur] = i /\ Image[cur] = NULL /\ NULL # j
    BY <1>7, <1>9, TableIs, NullAssumption DEF me
  <2>5. dref[j] \in Nat /\ dref[j] = Cardinality(At(Image, j)) /\ (j \in areas => dref[j] > 0)
    BY DEF Good, ImagesInv, Shape
  <2>6. dref'[j] = IF i = j THEN 1 ELSE dref[j]
    BY DEF Good, Shape
  <2>7. j \in areas' => j \in areas \/ j = i
    OBVIOUS
  <2> QED
    BY <1>1, <2>3, <2>4, <2>5, <2>6, <2>7 DEF Hit
<1>11. ImagesInv'
  <2>1. \A p \in Procs : proc'[p].image # NULL <=> proc'[p].st = "live" /\ proc'[p].run = "unixlib"
    BY <1>1, <1>3, <1>5 DEF Good, ImagesInv
  <2>2. \A p \in Procs : proc'[p].st = "live" /\ ~proc'[p].forked => proc'[p].ppid = NULL
    BY <1>3, <1>5 DEF Good, ImagesInv, me
  <2>3. \A p \in Procs : proc'[p].st = "live" /\ proc'[p].execed /\ proc'[p].run # "foreign" =>
          "unixlib" \in prog.execs
    BY <1>3, <1>5 DEF Good, ImagesInv, me
  <2>4. ASSUME ExecsAreLeaves, NEW p \in Procs, NEW q \in Procs
        PROVE  /\ proc'[p].image # NULL => proc'[p].image \in clients'
               /\ proc'[p].image = proc'[q].image /\ proc'[p].image # NULL /\ proc'[p].execed => p = q
    <3>1. /\ proc[p].image # NULL => proc[p].image \in clients
          /\ proc[p].image = proc[q].image /\ proc[p].image # NULL /\ proc[p].execed => p = q
      BY <2>4 DEF Good, ImagesInv
    <3>2. /\ proc'[p].image = IF p = cur THEN i ELSE proc[p].image
          /\ proc'[q].image = IF q = cur THEN i ELSE proc[q].image
          /\ proc'[p].execed = proc[p].execed
      BY <1>3, <1>5 DEF me
    <3> QED
      BY <1>9, <3>1, <3>2
  <2>5. ExecsAreLeaves' = ExecsAreLeaves
    BY DEF ExecsAreLeaves
  <2> QED
    BY <1>10, <2>1, <2>2, <2>3, <2>4, <2>5 DEF ImagesInv
<1> QED
  BY <1>5, <1>6, <1>7, <1>8, <1>11

LEMMA StartStep ==
  ASSUME Good, Start
  PROVE  Good'
<1>1. /\ cur \in Procs /\ me \in ProcType /\ me.st = "live" /\ me.run = "starting"
      /\ UNCHANGED <<prog, cur, dup, told>>
  BY GoodFacts DEF Start
<1>2. PICK i \in FreeImages :
        /\ clients' = clients \cup {i}
        /\ dref' = [dref EXCEPT ![i] = 1]
        /\ \E a \in prog.areas : areas' = IF a THEN areas \cup {i} ELSE areas
        /\ LET on == [proc EXCEPT ![cur].run = "unixlib", ![cur].image = i]
           IN  IF me.ppid # NULL
                 THEN proc' = on /\ UNCHANGED devs
                 ELSE \E h0, h1 \in Unused :
                        /\ h0 # h1
                        /\ refs' = [refs EXCEPT ![h0] = 1, ![h1] = 2]
                        /\ LET std == [[[NoTable EXCEPT ![0] = Desc(h0, FALSE)]
                                           EXCEPT ![1] = Desc(h1, TRUE)]
                                           EXCEPT ![2] = Desc(h1, TRUE)]
                               fit == [on EXCEPT ![cur].fds = std]
                           IN  IF prog.redirected
                                 THEN /\ dev' = [dev EXCEPT ![h0] = "file", ![h1] = "file"]
                                      /\ proc' = fit
                                      /\ UNCHANGED <<ttys, ttyref>>
                                 ELSE \E t \in Ttys \ ttys :
                                        /\ dev' = [dev EXCEPT ![h0] = t, ![h1] = t]
                                        /\ ttys' = ttys \cup {t}
                                        /\ ttyref' = [ttyref EXCEPT ![t] = NewTtyRefs + 1]
                                        /\ proc' = [fit EXCEPT ![cur].tty = t]
  BY DEF Start
<1>3. /\ areas' \in {areas, areas \cup {i}} /\ i \in Images
      /\ clients' = clients \cup {i} /\ dref' = [dref EXCEPT ![i] = 1]
  BY <1>2 DEF FreeImages
<1> DEFINE fits(t, y) == [proc EXCEPT ![cur] =
                            [me EXCEPT !.run = "unixlib", !.image = i, !.fds = t, !.tty = y]]
<1>4. me.fds \in [Fds -> FdType] /\ me.tty \in Ttys \cup {NULL}
  BY <1>1 DEF ProcType
<1>5. [proc EXCEPT ![cur].run = "unixlib", ![cur].image = i] = fits(me.fds, me.tty)
  BY <1>1 DEF ProcType, me, Good, Shape
<1>6. \A t \in [Fds -> FdType] :
        [[proc EXCEPT ![cur].run = "unixlib", ![cur].image = i] EXCEPT ![cur].fds = t] = fits(t, me.tty)
  BY <1>1 DEF ProcType, me, Good, Shape
<1>7. \A t \in [Fds -> FdType], y \in Ttys :
        [[[proc EXCEPT ![cur].run = "unixlib", ![cur].image = i] EXCEPT ![cur].fds = t]
            EXCEPT ![cur].tty = y] = fits(t, y)
  BY <1>1 DEF ProcType, me, Good, Shape
<1>8. ASSUME NEW t \in [Fds -> FdType], NEW y \in Ttys \cup {NULL}, proc' = fits(t, y)
      PROVE  /\ proc' \in [Procs -> ProcType] /\ EmptyInv' /\ KinInv' /\ ImagesInv'
             /\ \A p \in Procs, g \in Fds : Table'[p][g] = IF p = cur THEN t[g].h ELSE Table[p][g]
             /\ \A p \in Procs : Console'[p] = IF p = cur THEN y ELSE Console[p]
  BY ONLY Good, i \in FreeImages, t \in [Fds -> FdType], y \in Ttys \cup {NULL},
          <1>1, <1>3, <1>8, Started
<1>9. /\ clients' \subseteq Images /\ areas' \subseteq Images /\ dref' \in [Images -> Nat]
  BY <1>3 DEF Good, Shape
<1> HIDE DEF fits
<1>10. CASE me.ppid # NULL
  <2>1. proc' = fits(me.fds, me.tty) /\ UNCHANGED devs
    BY <1>2, <1>5, <1>10
  <2>2. /\ proc' \in [Procs -> ProcType] /\ EmptyInv' /\ KinInv' /\ ImagesInv'
        /\ \A p \in Procs, g \in Fds :
             Table'[p][g] = IF p = cur THEN me.fds[g].h ELSE Table[p][g]
        /\ \A p \in Procs : Console'[p] = IF p = cur THEN me.tty ELSE Console[p]
    BY <1>4, <1>8, <2>1
  <2>3. \A p \in Procs : proc'[p].tty = proc[p].tty
                         /\ \A g \in Fds : proc'[p].fds[g].h = proc[p].fds[g].h
    BY <2>2, TableIs, TableNext DEF me
  <2>4. RefsInv' /\ TtysInv'
    BY <1>1, <2>1, <2>3, SameRefs DEF Good
  <2>5. Shape'
    BY <1>1, <1>9, <2>1, <2>2 DEF Good, Shape, devs
  <2> QED
    BY <2>2, <2>4, <2>5 DEF Good
<1>11. CASE me.ppid = NULL
  <2> DEFINE std(h0, h1) == [[[NoTable EXCEPT ![0] = Desc(h0, FALSE)]
                                EXCEPT ![1] = Desc(h1, TRUE)]
                                EXCEPT ![2] = Desc(h1, TRUE)]
  <2>1. PICK h0, h1 \in Unused :
          /\ h0 # h1
          /\ refs' = [refs EXCEPT ![h0] = 1, ![h1] = 2]
          /\ LET fit == [[proc EXCEPT ![cur].run = "unixlib", ![cur].image = i]
                           EXCEPT ![cur].fds = std(h0, h1)]
             IN  IF prog.redirected
                   THEN /\ dev' = [dev EXCEPT ![h0] = "file", ![h1] = "file"]
                        /\ proc' = fit
                        /\ UNCHANGED <<ttys, ttyref>>
                   ELSE \E t \in Ttys \ ttys :
                          /\ dev' = [dev EXCEPT ![h0] = t, ![h1] = t]
                          /\ ttys' = ttys \cup {t}
                          /\ ttyref' = [ttyref EXCEPT ![t] = NewTtyRefs + 1]
                          /\ proc' = [fit EXCEPT ![cur].tty = t]
    BY <1>2, <1>11
  <2>2. /\ h0 \in Handles /\ dev[h0] = "free" /\ Count(Table, h0) = 0
        /\ h1 \in Handles /\ dev[h1] = "free" /\ Count(Table, h1) = 0
    BY UnusedIs
  <2>3. 0 \in Fds /\ 1 \in Fds /\ 2 \in Fds
    BY ProcessesAssumption DEF Fds
  <2> DEFINE tab == std(h0, h1)
  <2>4. /\ tab \in [Fds -> FdType]
        /\ \A g \in Fds : tab[g].h = IF g = 0 THEN h0 ELSE IF g \in {1, 2} THEN h1 ELSE NULL
    <3>1. /\ Desc(h0, FALSE) \in FdType /\ Desc(h0, FALSE).h = h0
          /\ Desc(h1, TRUE) \in FdType /\ Desc(h1, TRUE).h = h1
      BY <2>2, Typed DEF Desc
    <3>2. NoTable \in [Fds -> FdType] /\ \A g \in Fds : NoTable[g].h = NULL
      BY Typed DEF NoTable, Shut
    <3> DEFINE A == [NoTable EXCEPT ![0] = Desc(h0, FALSE)]
               B == [A EXCEPT ![1] = Desc(h1, TRUE)]
    <3>3. A \in [Fds -> FdType] /\ \A g \in Fds : A[g].h = IF g = 0 THEN h0 ELSE NULL
      BY <2>3, <3>1, <3>2
    <3> HIDE DEF A
    <3>4. /\ B \in [Fds -> FdType]
          /\ \A g \in Fds : B[g].h = IF g = 1 THEN h1 ELSE IF g = 0 THEN h0 ELSE NULL
      BY <2>3, <3>1, <3>3
    <3>5. tab = [B EXCEPT ![2] = Desc(h1, TRUE)]
      BY DEF A
    <3> HIDE DEF B, tab, std
    <3>6. tab \in [Fds -> FdType]
      BY ONLY <2>3, <3>1, <3>4, <3>5
    <3>7. \A g \in Fds : tab[g] = IF g = 2 THEN Desc(h1, TRUE) ELSE B[g]
      BY ONLY <3>4, <3>5
    <3>8. ASSUME NEW g \in Fds
          PROVE  tab[g].h = IF g = 0 THEN h0 ELSE IF g \in {1, 2} THEN h1 ELSE NULL
      <4>1. CASE g = 2
        <5>1. tab[g] = Desc(h1, TRUE)
          BY ONLY <3>7, <4>1, g \in Fds
        <5>2. tab[g].h = h1
          BY ONLY <3>1, <5>1
        <5> QED
          BY ONLY <4>1, <5>2
      <4>2. CASE g # 2
        BY <3>4, <3>7, <4>2
      <4> QED
        BY <4>1, <4>2
    <3> QED
      BY <3>6, <3>8
  <2>5. /\ \A g \in Fds : Table[cur][g] = NULL
        /\ me.tty = NULL /\ Console[cur] = NULL
    <3>1. Table[cur] = Empty /\ me.tty = NULL
      BY <1>1, <1>11 DEF Good, EmptyInv, me
    <3> QED
      BY <1>1, <3>1, TableIs DEF Empty, me
  <2>6. ASSUME NEW y \in Ttys \cup {NULL}, proc' = fits(tab, y), NEW x \in {"file"} \cup Ttys,
               dev' = [dev EXCEPT ![h0] = x, ![h1] = x],
               ttys' \subseteq Ttys, ttyref' \in [Ttys -> Int],
               UnixLibOnly => \A t \in Ttys :
                 /\ ttyref'[t] = ttyref[t] + Hit(x, t) + Hit(x, t) + Hit(y, t)
                 /\ t \in ttys' <=> ttyref'[t] # 0
        PROVE  Good'
    <3> HIDE DEF tab, std
    <3>1. /\ proc' \in [Procs -> ProcType] /\ EmptyInv' /\ KinInv' /\ ImagesInv'
          /\ \A p \in Procs, g \in Fds : Table'[p][g] = IF p = cur THEN tab[g].h ELSE Table[p][g]
          /\ \A p \in Procs : Console'[p] = IF p = cur THEN y ELSE Console[p]
      BY <1>8, <2>4, <2>6
    <3> DEFINE z == 0
               o == 1
               w == 2
               U == [p \in Procs |-> [g \in Fds |-> IF p = cur /\ g = z THEN h0 ELSE Table[p][g]]]
               V == [p \in Procs |-> [g \in Fds |-> IF p = cur /\ g = o THEN h1 ELSE U[p][g]]]
    <3>2. ASSUME NEW j \in Handles
          PROVE  Count(Table', j) = Count(Table, j) + Hit(h0, j) + Hit(h1, j) + Hit(h1, j)
      <4>0. cur \in Procs /\ z \in Fds /\ o \in Fds /\ w \in Fds /\ z # o /\ z # w /\ o # w
        BY <1>1, <2>3
      <4>12. \A g \in Fds : tab[g].h = IF g = z THEN h0 ELSE IF g \in {o, w} THEN h1 ELSE NULL
        BY <2>4
      <4> HIDE DEF z, o, w
      <4>1. \A p \in Procs, g \in Fds : ~(p = cur /\ g = z) => U[p][g] = Table[p][g]
        OBVIOUS
      <4>2. U[cur][z] = h0 /\ U[cur][o] = NULL /\ U[cur][w] = NULL
        BY <2>5, <4>0
      <4> HIDE DEF U
      <4>3. \A p \in Procs, g \in Fds : ~(p = cur /\ g = o) => V[p][g] = U[p][g]
        OBVIOUS
      <4>4. V[cur][z] = h0 /\ V[cur][o] = h1 /\ V[cur][w] = NULL
        BY <4>0, <4>2
      <4> HIDE DEF V
      <4>5. Table'[cur][z] = h0 /\ Table'[cur][o] = h1 /\ Table'[cur][w] = h1
        BY <4>12, <3>1, <4>0
      <4>6. ASSUME NEW p \in Procs, NEW g \in Fds, ~(p = cur /\ g = w)
            PROVE  Table'[p][g] = V[p][g]
        <5>1. CASE p # cur
          BY <3>1, <4>1, <4>3, <5>1
        <5>2. CASE p = cur /\ g \in {z, o}
          BY <4>4, <4>5, <5>2
        <5>3. CASE p = cur /\ g \notin {z, o, w}
          BY <2>5, <3>1, <4>1, <4>3, <4>12, <5>3
        <5> QED
          BY <4>6, <5>1, <5>2, <5>3
      <4>7. \A p \in Procs, g \in Fds : ~(p = cur /\ g = w) => Table'[p][g] = V[p][g]
        BY ONLY <4>6
      <4>8. Count(U, j) = Count(Table, j) + Hit(U[cur][z], j) - Hit(Table[cur][z], j)
        <5>1. cur \in Procs /\ z \in Fds
          BY <4>0
        <5> QED
          BY ONLY <4>1, <5>1, CountSet
      <4>9. Count(V, j) = Count(U, j) + Hit(V[cur][o], j) - Hit(U[cur][o], j)
        BY ONLY <4>0, <4>3, CountSet
      <4>10. Count(Table', j) = Count(V, j) + Hit(Table'[cur][w], j) - Hit(V[cur][w], j)
        BY ONLY <4>0, <4>7, CountSet
      <4>11. /\ Count(Table, j) \in Nat /\ Hit(h0, j) \in Int /\ Hit(h1, j) \in Int /\ Hit(NULL, j) = 0
             /\ Table[cur][z] = NULL
        BY <2>5, <4>0, CountPositive, HitIs
      <4> QED
        BY ONLY <4>2, <4>4, <4>5, <4>8, <4>9, <4>10, <4>11
    <3> HIDE DEF U, V
    <3>3. ASSUME NEW j \in Handles
          PROVE  /\ refs'[j] \in Nat /\ refs'[j] = Count(Table', j)
                 /\ dev'[j] = "free" <=> refs'[j] = 0
      <4>1. refs[j] \in Nat /\ refs[j] = Count(Table, j) /\ (dev[j] = "free" <=> refs[j] = 0)
        BY DEF Good, Shape, RefsInv
      <4>2. refs'[j] = IF j = h1 THEN 2 ELSE IF j = h0 THEN 1 ELSE refs[j]
        BY <2>1, <2>2 DEF Good, Shape
      <4>3. dev'[j] = IF j \in {h0, h1} THEN x ELSE dev[j]
        BY <2>2, <2>6 DEF Good, Shape
      <4>4. x # "free"
        BY DevicesAssumption
      <4> QED
        BY <2>1, <2>2, <3>2, <4>1, <4>2, <4>3, <4>4 DEF Hit
    <3>4. RefsInv'
      BY <3>3 DEF RefsInv
    <3>5. /\ refs' \in [Handles -> Nat]
          /\ dev' \in [Handles -> {"free", "file", "pipe"} \cup Ttys]
      BY <2>1, <2>6 DEF Good, Shape
    <3>6. ASSUME UnixLibOnly, NEW t \in Ttys
          PROVE  /\ ttyref'[t] = Cardinality(At(dev', t)) + Cardinality(At(Console', t))
                 /\ t \in ttys' <=> ttyref'[t] # 0
      <4> DEFINE G == [dev EXCEPT ![h0] = x]
      <4>1. /\ DOMAIN dev = Handles /\ DOMAIN dev' = Handles /\ DOMAIN G = Handles
            /\ G[h0] = x /\ G[h1] = "free" /\ dev'[h1] = x
        BY <2>1, <2>2, <2>6 DEF Good, Shape
      <4>2. \A q \in DOMAIN dev : q # h0 => G[q] = dev[q]
        BY <4>1
      <4>3. \A q \in DOMAIN G : q # h1 => dev'[q] = G[q]
        BY <2>2, <2>6, <4>1
      <4> HIDE DEF G
      <4>4. Cardinality(At(G, t)) = Cardinality(At(dev, t)) + Hit(G[h0], t) - Hit(dev[h0], t)
        BY ONLY <2>2, <4>1, <4>2, FiniteAssumption, AtSet
      <4>5. Cardinality(At(dev', t)) = Cardinality(At(G, t)) + Hit(dev'[h1], t) - Hit(G[h1], t)
        BY ONLY <2>2, <4>1, <4>3, FiniteAssumption, AtSet
      <4>6. \A p \in Procs \ {cur} : Console'[p] = Console[p]
        BY <3>1
      <4>7. /\ Cardinality(At(Console', t)) =
                 Cardinality(At(Console, t)) + Hit(Console'[cur], t) - Hit(Console[cur], t)
            /\ Cardinality(At(Console, t)) \in Nat /\ Cardinality(At(dev, t)) \in Nat
        BY <1>1, <4>6, NewConsole
      <4>8. ttyref[t] = Cardinality(At(dev, t)) + Cardinality(At(Console, t))
        BY <3>6 DEF Good, TtysInv
      <4>9. Console'[cur] = y
        BY <1>1, <3>1
      <4>10. /\ ttyref'[t] = ttyref[t] + Hit(x, t) + Hit(x, t) + Hit(y, t)
             /\ t \in ttys' <=> ttyref'[t] # 0
        BY <2>6, <3>6
      <4>11. Hit(x, t) \in Int /\ Hit(y, t) \in Int /\ Hit("free", t) = 0 /\ Hit(NULL, t) = 0
        BY HitIs
      <4> QED
        BY ONLY <2>2, <2>5, <4>1, <4>4, <4>5, <4>7, <4>8, <4>9, <4>10, <4>11
    <3>7. TtysInv'
      BY <1>1, <3>6 DEF TtysInv, UnixLibOnly
    <3>8. Shape'
      BY <1>1, <1>9, <2>6, <3>1, <3>5 DEF Good, Shape
    <3> QED
      BY <3>1, <3>4, <3>7, <3>8 DEF Good
  <2>7. CASE prog.redirected
    <3>1. /\ proc' = fits(tab, me.tty) /\ dev' = [dev EXCEPT ![h0] = "file", ![h1] = "file"]
          /\ ttys' = ttys /\ ttyref' = ttyref
      BY <1>6, <2>1, <2>4, <2>7
    <3>2. UnixLibOnly => \A t \in Ttys :
            /\ ttyref'[t] = ttyref[t] + Hit("file", t) + Hit("file", t) + Hit(me.tty, t)
            /\ t \in ttys' <=> ttyref'[t] # 0
      BY <2>5, <3>1, HitIs DEF Good, TtysInv, Shape
    <3>3. ttys' \subseteq Ttys /\ ttyref' \in [Ttys -> Int]
      BY <3>1 DEF Good, Shape
    <3> HIDE DEF tab, std
    <3> QED
      BY <1>4, <2>6, <3>1, <3>2, <3>3
  <2>8. CASE ~prog.redirected
    <3>1. PICK t \in Ttys \ ttys :
            /\ dev' = [dev EXCEPT ![h0] = t, ![h1] = t] /\ ttys' = ttys \cup {t}
            /\ ttyref' = [ttyref EXCEPT ![t] = NewTtyRefs + 1]
            /\ proc' = [[[proc EXCEPT ![cur].run = "unixlib", ![cur].image = i]
                            EXCEPT ![cur].fds = tab] EXCEPT ![cur].tty = t]
      BY <2>1, <2>8
    <3>2. proc' = fits(tab, t)
      BY <1>7, <2>4, <3>1
    <3> HIDE DEF tab, std
    <3>3. ttys' \subseteq Ttys /\ ttyref' \in [Ttys -> Int]
      BY <3>1 DEF Good, Shape, NewTtyRefs
    <3>4. ASSUME UnixLibOnly, NEW u \in Ttys
          PROVE  /\ ttyref'[u] = ttyref[u] + Hit(t, u) + Hit(t, u) + Hit(t, u)
                 /\ u \in ttys' <=> ttyref'[u] # 0
      <4>1. ttyref[u] \in Int /\ (u \in ttys <=> ttyref[u] # 0)
        BY <3>4 DEF Good, Shape, TtysInv
      <4>2. ttyref'[u] = IF u = t THEN 3 ELSE ttyref[u]
        BY <3>1 DEF Good, Shape, NewTtyRefs
      <4> QED
        BY <3>1, <4>1, <4>2 DEF Hit
    <3> QED
      BY <2>6, <3>1, <3>2, <3>3, <3>4
  <2> QED
    BY <2>7, <2>8
<1> QED
  BY <1>10, <1>11

(* A child shares the descriptors and the console of its parent.           *)
LEMMA Shared ==
  ASSUME Shape, cur \in Procs, NEW c \in Procs, c # cur, ShareFds,
         \A g \in Fds : Table[c][g] = NULL, Console[c] = NULL,
         \A q \in Procs, g \in Fds : Table'[q][g] = IF q = c THEN Table[cur][g] ELSE Table[q][g],
         \A q \in Procs : Console'[q] = IF q = c THEN Console[cur] ELSE Console[q],
         UNCHANGED <<prog, dev, ttys>>
  PROVE  /\ RefsInv => RefsInv'
         /\ TtysInv => TtysInv'
         /\ refs' \in [Handles -> Nat] /\ ttyref' \in [Ttys -> Int]
<1> DEFINE n(h) == Cardinality(Among(Table, {cur} \X Fds, h))
<1>1. ASSUME NEW h \in Handles
      PROVE  n(h) \in Nat /\ Count(Table', h) = Count(Table, h) + n(h)
  <2>1. \A g \in Fds : Table[c][g] = NULL
    OBVIOUS
  <2>2. \A q \in Procs, g \in Fds : Table'[q][g] = IF q = c THEN Table[cur][g] ELSE Table[q][g]
    OBVIOUS
  <2>3. cur \in Procs /\ c \in Procs /\ h \in Handles
    OBVIOUS
  <2>4. Count(Table', h) = Count(Table, h) + Cardinality(Among(Table, {cur} \X Fds, h))
    <3>1. Copied(Table, Table', cur, c)
      BY <2>1, <2>2 DEF Copied
    <3> QED
      BY ONLY <2>3, <3>1, CountCopy
  <2>5. {cur} \X Fds \in SUBSET (Procs \X Fds)
    OBVIOUS
  <2>6. Cardinality(Among(Table, {cur} \X Fds, h)) \in Nat
    BY <2>5, CountAmong
  <2> QED
    BY <2>4, <2>6
<1>2. \A h \in Handles : refs'[h] = refs[h] + n(h)
  <2> SUFFICES ASSUME NEW h \in Handles PROVE Held(h, Open({cur})) = n(h)
    BY DEF ShareFds
  <2>1. \A d \in {cur} \X Fds : d[1] \in Procs /\ d[2] \in Fds /\ HandleOf(d) = Table[d[1]][d[2]]
    BY TableIs DEF HandleOf
  <2>2. {d \in Open({cur}) : HandleOf(d) = h} = Among(Table, {cur} \X Fds, h)
    BY <2>1, NullAssumption DEF Open, Among, HandleOf
  <2> QED
    BY <2>2 DEF Held
<1>3. \A h \in Handles : Count(Table, h) = 0 => n(h) = 0
  <2> SUFFICES ASSUME NEW h \in Handles, Count(Table, h) = 0 PROVE n(h) = 0
    OBVIOUS
  <2>1. {cur} \X Fds \in SUBSET (Procs \X Fds)
    OBVIOUS
  <2>2. n(h) \in Nat /\ n(h) <= Count(Table, h)
    BY <2>1, CountAmong
  <2> QED
    BY <2>2
<1> HIDE DEF n
<1>4. refs' \in [Handles -> Nat]
  <2>1. DOMAIN refs' = Handles /\ refs' = [h \in Handles |-> refs'[h]]
    BY DEF ShareFds
  <2>2. \A h \in Handles : refs'[h] \in Nat
    BY <1>1, <1>2 DEF Shape
  <2> QED
    BY <2>1, <2>2
<1>5. RefsInv => RefsInv'
  <2> SUFFICES ASSUME RefsInv, NEW h \in Handles
               PROVE  refs'[h] = Count(Table', h) /\ (dev'[h] = "free" <=> refs'[h] = 0)
    BY DEF RefsInv
  <2>1. refs[h] = Count(Table, h) /\ (dev[h] = "free" <=> refs[h] = 0) /\ dev'[h] = dev[h]
    BY DEF RefsInv
  <2>2. n(h) \in Nat /\ Count(Table', h) = Count(Table, h) + n(h) /\ Count(Table, h) \in Nat
    BY <1>1, CountPositive
  <2>3. refs'[h] = refs[h] + n(h) /\ (Count(Table, h) = 0 => n(h) = 0)
    BY <1>2, <1>3
  <2> QED
    BY ONLY <2>1, <2>2, <2>3
<1>6. \A t \in Ttys : ttyref'[t] = ttyref[t] + Hit(Console[cur], t)
  BY TableIs DEF ShareFds, Hit, me
<1>7. ttyref' \in [Ttys -> Int]
  BY DEF ShareFds, Shape
<1>8. TtysInv => TtysInv'
  <2> SUFFICES ASSUME TtysInv, UnixLibOnly, NEW t \in Ttys
               PROVE  /\ ttyref'[t] = Cardinality(At(dev', t)) + Cardinality(At(Console', t))
                      /\ t \in ttys' <=> ttyref'[t] # 0
    BY DEF TtysInv, UnixLibOnly
  <2>1. DOMAIN Console = Procs /\ DOMAIN Console' = Procs /\ DOMAIN dev = Handles
    BY TableIs, TableNext DEF Shape
  <2>2. \A q \in DOMAIN Console : q # c => Console'[q] = Console[q]
    BY <2>1
  <2>3. Cardinality(At(Console', t)) = Cardinality(At(Console, t)) + Hit(Console'[c], t) - Hit(Console[c], t)
    BY ONLY <2>1, <2>2, c \in Procs, FiniteAssumption, AtSet
  <2>4. IsFiniteSet(At(Console, t)) /\ Cardinality(At(Console, t)) \in Nat /\ Cardinality(At(dev, t)) \in Nat
    BY ONLY <2>1, FiniteAssumption, AtFinite
  <2>5. Console[cur] = t => Cardinality(At(Console, t)) # 0
    <3>1. Console[cur] = t => cur \in At(Console, t)
      BY <2>1 DEF At, AtOf
    <3> QED
      BY <2>4, <3>1, FS_EmptySet
  <2>6. ttyref[t] = Cardinality(At(dev, t)) + Cardinality(At(Console, t)) /\ (t \in ttys <=> ttyref[t] # 0)
    BY DEF TtysInv
  <2>7. Console'[c] = Console[cur]
    OBVIOUS
  <2>8. Hit(Console[cur], t) \in {0, 1} /\ (Console[cur] = t <=> Hit(Console[cur], t) = 1)
        /\ Hit(Console[c], t) = 0
    BY HitIs
  <2>9. dev' = dev /\ ttys' = ttys /\ ttyref'[t] = ttyref[t] + Hit(Console[cur], t)
    BY <1>6
  <2> QED
    BY ONLY <2>3, <2>4, <2>5, <2>6, <2>7, <2>8, <2>9
<1> QED
  BY <1>4, <1>5, <1>7, <1>8

(* A structure that is free holds nothing.                                 *)
LEMMA FreeIs ==
  ASSUME Good, NEW c \in Procs, proc[c].st = "free"
  PROVE  /\ proc[c] = NoProc /\ c # cur
         /\ proc[c].kids = <<>> /\ proc[c].image = NULL /\ Console[c] = NULL
         /\ \A g \in Fds : Table[c][g] = NULL
<1>1. proc[c] = NoProc
  BY DEF Good, EmptyInv
<1>2. NoProc.kids = <<>> /\ NoProc.image = NULL /\ NoProc.tty = NULL
      /\ \A g \in Fds : NoProc.fds[g].h = NULL
  BY DEF NoProc, FreshProc, NoTable, Shut
<1>3. c # cur
  BY GoodFacts, NullAssumption DEF me
<1> QED
  BY <1>1, <1>2, <1>3, TableIs

LEMMA ForkStep ==
  ASSUME Good, NEW how, Fork(how)
  PROVE  Good'
<1>1. cur \in Procs /\ me \in ProcType /\ Running /\ me.st = "live" /\ me.run = "unixlib"
  BY GoodFacts DEF Fork, MayFork, Calls, Running
<1>2. PICK c \in Procs :
        proc[c].st = "free" /\ proc' = Linked(c, Child(how)) /\ cur' = c
  BY DEF Fork
<1>3. ShareFds /\ JoinArea /\ UNCHANGED <<prog, dev, ttys, clients, areas, dup, told>>
  BY DEF Fork
<1>4. /\ proc[c] = NoProc /\ c # cur /\ proc[c].kids = <<>> /\ proc[c].image = NULL
      /\ Console[c] = NULL /\ \A g \in Fds : Table[c][g] = NULL
  BY <1>2, FreeIs
<1> DEFINE r == Child(how)
           m == [me EXCEPT !.kids = <<c>> \o me.kids]
<1>5. r \in ProcType /\ m \in ProcType
  <2>1. <<>> \in Seq(Procs) /\ me.kids \in Seq(Procs) /\ <<c>> \o me.kids \in Seq(Procs)
    BY <1>1 DEF ProcType
  <2>2. r \in ProcType
    BY <1>1, <2>1 DEF ProcType, Child
  <2>3. m \in ProcType
    BY <1>1, <2>1 DEF ProcType
  <2> QED
    BY <2>2, <2>3
<1>6. /\ r.st = "live" /\ r.ppid = cur /\ r.kids = <<>> /\ r.fds = me.fds /\ r.tty = me.tty
      /\ r.run = "unixlib" /\ r.image = me.image /\ r.forked = TRUE /\ r.execed = me.execed
      /\ m.st = me.st /\ m.ppid = me.ppid /\ m.kids = <<c>> \o me.kids /\ m.fds = me.fds
      /\ m.tty = me.tty /\ m.run = me.run /\ m.image = me.image /\ m.forked = me.forked
      /\ m.execed = me.execed
  BY <1>1 DEF ProcType, Child
<1>7. proc' = [proc EXCEPT ![c] = r, ![cur] = m]
  BY <1>1, <1>2, <1>4 DEF Linked, me, Good, Shape
<1> HIDE DEF r, m
<1>8. /\ proc' \in [Procs -> ProcType] /\ proc'[c] = r /\ proc'[cur] = m
      /\ \A p \in Procs \ {c, cur} : proc'[p] = proc[p]
  BY <1>1, <1>4, <1>5, <1>7 DEF Good, Shape
<1>9. KinInv'
  <2>1. Kin(proc, cur) /\ cur \in Procs
    BY <1>1 DEF Good, KinInv
  <2>2. /\ proc[c].st = "free" /\ proc[c].kids = <<>> /\ proc'[c].st = "live" /\ proc'[c].ppid = cur
        /\ proc'[c].kids = <<>> /\ proc'[cur].kids = First(c, proc[cur].kids)
    BY <1>2, <1>4, <1>6, <1>8, <2>1 DEF First, me
  <2>3. \A p \in Procs \ {c} : proc'[p].st = proc[p].st /\ proc'[p].ppid = proc[p].ppid
                               /\ (p # cur => proc'[p].kids = proc[p].kids)
    BY <1>6, <1>8 DEF me
  <2>4. Kin(proc', c)
    BY ONLY c \in Procs, <2>1, <2>2, <2>3, KinFork
  <2> QED
    BY <1>2, <2>4 DEF KinInv
<1>10. /\ \A q \in Procs, g \in Fds : Table'[q][g] = IF q = c THEN Table[cur][g] ELSE Table[q][g]
       /\ \A q \in Procs : Console'[q] = IF q = c THEN Console[cur] ELSE Console[q]
       /\ \A q \in Procs : Image'[q] = IF q = c THEN Image[cur] ELSE Image[q]
       /\ \A q \in Procs \ {c, cur} : Table'[q] = Table[q]
  BY <1>1, <1>6, <1>8, TableIs, TableNext DEF me, Table
<1>11. RefsInv' /\ TtysInv' /\ refs' \in [Handles -> Nat] /\ ttyref' \in [Ttys -> Int]
  BY <1>1, <1>3, <1>4, <1>10, Shared DEF Good
<1>12. EmptyInv'
  <2> SUFFICES ASSUME NEW p \in Procs
               PROVE  /\ UnixLibOnly => proc'[p].run # "foreign"
                      /\ proc'[p].st = "free" => proc'[p] = NoProc
                      /\ proc'[p].st = "zombie" /\ proc'[p].run # "foreign" =>
                           Table'[p] = Empty /\ proc'[p].tty = NULL
                      /\ proc'[p].st = "live" /\ proc'[p].ppid = NULL /\ proc'[p].run # "unixlib" =>
                           Table'[p] = Empty /\ proc'[p].tty = NULL /\ proc'[p].kids = <<>>
    BY <1>3 DEF EmptyInv, UnixLibOnly
  <2>1. CASE p \in {c, cur}
    BY <1>1, <1>6, <1>8, <2>1
  <2>2. CASE p \notin {c, cur}
    BY <1>8, <1>10, <2>2 DEF Good, EmptyInv
  <2> QED
    BY <2>1, <2>2
<1>13. me.image \in Images /\ me.image # NULL /\ Image[cur] = me.image
  BY <1>1, TableIs DEF Good, ImagesInv, ProcType, me
<1>14. ASSUME NEW j \in Images
       PROVE  dref'[j] = Cardinality(At(Image', j)) /\ (j \in areas' => dref'[j] > 0)
  <2>1. DOMAIN Image = Procs /\ DOMAIN Image' = Procs
    BY TableIs, TableNext
  <2>2. \A q \in DOMAIN Image : q # c => Image'[q] = Image[q]
    BY <1>10, <2>1
  <2>3. Cardinality(At(Image', j)) = Cardinality(At(Image, j)) + Hit(Image'[c], j) - Hit(Image[c], j)
    BY ONLY <2>1, <2>2, c \in Procs, FiniteAssumption, AtSet
  <2>4. Image'[c] = me.image /\ Image[c] = NULL /\ NULL # j
    BY <1>4, <1>10, <1>13, TableIs, NullAssumption
  <2>5. dref[j] \in Nat /\ dref[j] = Cardinality(At(Image, j)) /\ (j \in areas => dref[j] > 0)
    BY DEF Good, ImagesInv, Shape
  <2>6. dref'[j] = IF me.image = j THEN dref[j] + 1 ELSE dref[j]
    BY <1>3, <1>13 DEF JoinArea, Good, Shape
  <2>7. areas' = areas
    BY <1>3
  <2> QED
    BY ONLY <2>3, <2>4, <2>5, <2>6, <2>7 DEF Hit
<1>15. ImagesInv'
  <2>1. \A p \in Procs : proc'[p].image # NULL <=> proc'[p].st = "live" /\ proc'[p].run = "unixlib"
    BY <1>1, <1>6, <1>8, <1>13 DEF Good, ImagesInv
  <2>2. \A p \in Procs : proc'[p].st = "live" /\ ~proc'[p].forked => proc'[p].ppid = NULL
    BY <1>6, <1>8 DEF Good, ImagesInv, me
  <2>3. me.execed => "unixlib" \in prog.execs
    BY <1>1 DEF Good, ImagesInv, me
  <2>4. \A p \in Procs : proc'[p].st = "live" /\ proc'[p].execed /\ proc'[p].run # "foreign" =>
          "unixlib" \in prog.execs
    BY <1>6, <1>8, <2>3 DEF Good, ImagesInv
  <2>5. ASSUME ExecsAreLeaves, NEW p \in Procs, NEW q \in Procs
        PROVE  /\ proc'[p].image # NULL => proc'[p].image \in clients
               /\ proc'[p].image = proc'[q].image /\ proc'[p].image # NULL /\ proc'[p].execed => p = q
    <3>1. ~me.execed
      BY <2>3, <2>5 DEF Fork, MayFork, ExecsAreLeaves
    <3>2. \A a, b \in Procs :
            /\ proc[a].image # NULL => proc[a].image \in clients
            /\ proc[a].image = proc[b].image /\ proc[a].image # NULL /\ proc[a].execed => a = b
      BY <2>5 DEF Good, ImagesInv
    <3>3. /\ proc'[p].image = IF p = c THEN proc[cur].image ELSE proc[p].image
          /\ proc'[q].image = IF q = c THEN proc[cur].image ELSE proc[q].image
          /\ proc'[p].execed = IF p = c THEN proc[cur].execed ELSE proc[p].execed
      BY <1>6, <1>8 DEF me
    <3>4. ~proc[cur].execed /\ cur \in Procs
      BY <1>1, <3>1 DEF me
    <3> QED
      BY ONLY p \in Procs, q \in Procs, <3>2, <3>3, <3>4
  <2>6. ExecsAreLeaves' = ExecsAreLeaves /\ clients' = clients /\ prog' = prog
    BY <1>3 DEF ExecsAreLeaves
  <2> QED
    BY <1>14, <2>1, <2>2, <2>4, <2>5, <2>6 DEF ImagesInv
<1>16. dref' \in [Images -> Nat]
  BY <1>3, <1>13 DEF JoinArea, Good, Shape
<1>17. Shape'
  BY <1>2, <1>3, <1>8, <1>11, <1>16 DEF Good, Shape
<1> QED
  BY <1>9, <1>11, <1>12, <1>15, <1>17 DEF Good

(* What __free_process (p) does to the structures, when p is the running   *)
(* process or a zombie: no process that still runs is below it.            *)
Gone(p) == Doomed(p) \cup {q \in {p} : proc[q].st = "zombie"}
Cleared(p) == [proc[p] EXCEPT !.fds = NoTable, !.tty = NULL, !.kids = <<>>]

LEMMA GoneIs ==
  ASSUME Good, NEW p \in Procs, p = cur \/ (proc[p].st = "zombie" /\ proc[p].ppid = cur)
  PROVE  /\ Gone(p) \subseteq Procs /\ cur \in Procs /\ cur \notin Gone(p)
         /\ Gone(p) \cup {p} = Doomed(p) \cup {p}
         /\ \A z \in Gone(p) : /\ proc[z].st = "zombie" /\ proc[z].ppid \in Gone(p) \cup {cur}
                               /\ Range(proc[z].kids) \subseteq Gone(p)
         /\ \A q \in Range(proc[cur].kids) : p = cur => q \in Gone(p)
<1>1. Doomed(p) \subseteq {c \in Procs : proc[c].st = "zombie"} /\ Doomed(p) = ZombieKids(Doomed(p) \cup {p})
  BY DoomedIs
<1>2. Gone(p) \subseteq {c \in Procs : proc[c].st = "zombie"} /\ Gone(p) \cup {p} = Doomed(p) \cup {p}
  BY <1>1 DEF Gone
<1>3. cur \in Procs
  BY DEF Good, KinInv, Kin
<1>4. proc[cur].st = "live" /\ \A q \in Range(proc[cur].kids) : q \in Procs /\ proc[q].st # "live"
  BY <1>3, KinFacts DEF Good, KinInv
<1>5. \A a, c \in Procs : c \in Range(proc[a].kids) <=> proc[c].st # "free" /\ proc[c].ppid = a
  BY DEF Good, KinInv, Kin
<1>6. \A c \in Procs : proc[c].st \in {"free", "live", "zombie"}
  BY GoodFacts DEF ProcType
<1>7. ASSUME NEW z \in Gone(p)
      PROVE  proc[z].ppid \in Gone(p) \cup {cur} /\ Range(proc[z].kids) \subseteq Gone(p)
  <2>1. z \in Procs /\ proc[z].st = "zombie"
    BY <1>2
  <2>2. proc[z].ppid \in Gone(p) \cup {cur}
    <3>1. CASE z \in Doomed(p)
      <4>1. PICK a \in Doomed(p) \cup {p} : z \in Range(proc[a].kids)
        BY <1>1, <3>1 DEF ZombieKids
      <4>2. a \in Procs /\ proc[z].ppid = a
        BY <1>1, <1>5, <2>1, <4>1
      <4> QED
        BY <1>2, <4>1, <4>2 DEF Gone
    <3>2. CASE z = p
      BY <1>4, <2>1, <3>2
    <3> QED
      BY <3>1, <3>2 DEF Gone
  <2>3. ASSUME NEW k \in Range(proc[z].kids) PROVE k \in Gone(p)
    <3>1. k \in Procs /\ proc[k].st # "free" /\ proc[k].ppid = z
      BY <1>5, <2>1 DEF Good, KinInv, Kin, Range
    <3>2. proc[k].st # "live"
      <4>1. proc[k].st = "live" /\ proc[k].ppid # NULL => proc[proc[k].ppid].st = "live"
        BY <1>3, <3>1, KinFacts DEF Good, KinInv
      <4> QED
        BY <2>1, <3>1, <4>1, NullAssumption
    <3>3. k \in ZombieKids(Doomed(p) \cup {p})
      BY <1>2, <1>6, <3>1, <3>2 DEF ZombieKids
    <3> QED
      BY <1>1, <3>3 DEF Gone
  <2> QED
    BY <2>2, <2>3
<1>8. ASSUME NEW q \in Range(proc[cur].kids), p = cur PROVE q \in Gone(p)
  <2>1. q \in Procs /\ proc[q].st # "live" /\ proc[q].st # "free"
    BY <1>3, <1>4, <1>5
  <2>2. q \in ZombieKids(Doomed(p) \cup {p})
    BY <1>6, <1>8, <2>1 DEF ZombieKids
  <2> QED
    BY <1>1, <2>2 DEF Gone
<1> QED
  BY <1>2, <1>3, <1>4, <1>7, <1>8

LEMMA FreedIs ==
  ASSUME Good, NEW p \in Procs, p = cur \/ (proc[p].st = "zombie" /\ proc[p].ppid = cur)
  PROVE  /\ Freed(p) \in [Procs -> ProcType]
         /\ \A q \in Procs : Freed(p)[q] = IF q \in Gone(p) THEN NoProc
                                           ELSE IF q = p THEN Cleared(p) ELSE proc[q]
<1>1. /\ Gone(p) \subseteq Procs /\ cur \in Procs /\ cur \notin Gone(p)
      /\ Gone(p) \cup {p} = Doomed(p) \cup {p}
      /\ \A z \in Gone(p) : Range(proc[z].kids) \subseteq Gone(p)
      /\ \A q \in Range(proc[cur].kids) : p = cur => q \in Gone(p)
  BY GoneIs
<1>2. \A q \in Procs : q \in Gone(p) <=> q \in Doomed(p) \/ (q = p /\ proc[p].st = "zombie")
  BY DEF Gone
<1>3. p # cur => p \in Gone(p)
  BY DEF Gone
<1>4. ASSUME NEW q \in Procs
      PROVE  Freed(p)[q] = IF q \in Gone(p) THEN NoProc ELSE IF q = p THEN Cleared(p) ELSE proc[q]
  <2>1. CASE q \in Gone(p)
    <3>1. q \in Doomed(p) \/ (q = p /\ proc[p].st = "zombie")
      BY <1>2, <2>1
    <3>2. q = p => proc[p].st = "zombie"
      BY <1>2, <2>1, DoomedIs
    <3>3. q \in Doomed(p) \cup {p}
      BY <3>1
    <3>4. Freed(p)[q] = NoProc
      BY <3>1, <3>2, <3>3 DEF Freed
    <3> QED
      BY <2>1, <3>4
  <2>2. CASE q \notin Gone(p) /\ q = p
    BY <1>2, <2>2 DEF Freed, Cleared
  <2>3. CASE q \notin Gone(p) /\ q # p
    <3>1. ~(q \in Doomed(p) \/ (q = p /\ proc[p].st = "zombie"))
      BY <1>2, <2>3
    <3>2. ASSUME NEW l \in Doomed(p) \cup {p}, q \in Range(proc[l].kids) PROVE FALSE
      <4>1. l \in Gone(p) \/ l = cur
        BY <1>1, <1>3
      <4>2. l = cur => p = cur
        BY <1>1, <1>3
      <4> QED
        BY <1>1, <2>3, <3>2, <4>1, <4>2
    <3>3. ~(q \notin Doomed(p) \cup {p} /\ (\E l \in Doomed(p) \cup {p} : q \in Range(proc[l].kids)))
      BY <3>2
    <3>4. Freed(p)[q] = proc[q]
      BY <2>3, <3>1, <3>3 DEF Freed
    <3> QED
      BY <2>3, <3>4
  <2> QED
    BY <2>1, <2>2, <2>3
<1>5. Cleared(p) \in ProcType
  <2>1. proc[p] \in ProcType /\ <<>> \in Seq(Procs)
    BY GoodFacts
  <2> QED
    BY <2>1, Typed DEF Cleared, ProcType
<1>6. \A q \in Procs : Freed(p)[q] \in ProcType
  BY <1>4, <1>5, Typed, GoodFacts
<1>7. Freed(p) = [q \in Procs |-> Freed(p)[q]]
  BY DEF Freed
<1> QED
  BY <1>4, <1>6, <1>7

LEMMA FreeStep ==
  ASSUME Good, NEW p \in Procs, p = cur \/ (proc[p].st = "zombie" /\ proc[p].ppid = cur),
         FreeProcess(p), UNCHANGED prog,
         \A q \in Procs, f \in Fds : Table'[q][f] = IF q \in Gone(p) \cup {p} THEN NULL ELSE Table[q][f],
         \A q \in Procs : Console'[q] = IF q \in Gone(p) \cup {p} THEN NULL ELSE Console[q]
  PROVE  /\ RefsInv' /\ TtysInv'
         /\ dev' \in [Handles -> {"free", "file", "pipe"} \cup Ttys] /\ refs' \in [Handles -> Nat]
         /\ ttys' \subseteq Ttys /\ ttyref' \in [Ttys -> Int]
<1> DEFINE S == Gone(p) \cup {p}
           D == Open(S)
<1>1. S \in SUBSET Procs /\ S = Doomed(p) \cup {p} /\ \A q \in S \ {cur} : proc[q].st = "zombie"
  BY GoneIs
<1> HIDE DEF S
<1>2. D \in SUBSET (Procs \X Fds)
  BY <1>1 DEF Open
<1>3. Release(D, S)
  BY <1>1 DEF FreeProcess
<1>4. ASSUME NEW d \in Procs \X Fds
      PROVE  Table'[d[1]][d[2]] = IF d \in D THEN NULL ELSE Table[d[1]][d[2]]
  <2>1. d[1] \in Procs /\ d[2] \in Fds /\ d = <<d[1], d[2]>>
    OBVIOUS
  <2>2. d \in D <=> d[1] \in S /\ Table[d[1]][d[2]] # NULL
    BY <2>1, TableIs DEF Open
  <2>3. Table'[d[1]][d[2]] = IF d[1] \in S THEN NULL ELSE Table[d[1]][d[2]]
    BY <2>1 DEF S
  <2> QED
    BY <2>2, <2>3
<1>5. \A q \in Procs : Console'[q] = IF q \in S THEN NULL ELSE Console[q]
  BY DEF S
<1>6. UnixLibOnly => \A q \in S \ {cur} : Console[q] = NULL
  BY <1>1, TableIs DEF Good, EmptyInv
<1>7. Shape /\ RefsInv /\ TtysInv /\ UNCHANGED prog
  BY DEF Good
<1> HIDE DEF D
<1> QED
  BY ONLY <1>1, <1>2, <1>3, <1>4, <1>5, <1>6, <1>7, ReleaseStep

(* The running process leaves its image.                                   *)
LEMMA LeaveStep ==
  ASSUME Good, cur \in Procs, me.st = "live", me.run = "unixlib", LeaveArea,
         \A q \in Procs : Image'[q] = IF q = cur THEN NULL ELSE Image[q]
  PROVE  /\ \A j \in Images : dref'[j] = Cardinality(At(Image', j)) /\ (j \in areas' => dref'[j] > 0)
         /\ areas' \subseteq Images /\ dref' \in [Images -> Nat]
<1>1. me.image \in Images /\ Image[cur] = me.image
  BY TableIs, GoodFacts DEF Good, ImagesInv, ProcType, me
<1>2. ASSUME NEW j \in Images
      PROVE  dref'[j] = Cardinality(At(Image', j)) /\ (j \in areas' => dref'[j] > 0) /\ dref'[j] \in Nat
  <2>1. DOMAIN Image = Procs /\ DOMAIN Image' = Procs
    BY TableIs, TableNext
  <2>2. \A q \in DOMAIN Image : q # cur => Image'[q] = Image[q]
    BY <2>1
  <2>3. cur \in Procs
    OBVIOUS
  <2>4. Cardinality(At(Image', j)) = Cardinality(At(Image, j)) + Hit(Image'[cur], j) - Hit(Image[cur], j)
    BY ONLY <2>1, <2>2, <2>3, FiniteAssumption, AtSet
  <2>5. Cardinality(At(Image', j)) \in Nat
    BY ONLY <2>1, FiniteAssumption, AtFinite
  <2>6. Image'[cur] = NULL /\ NULL # j
    BY NullAssumption
  <2>7. dref[j] \in Nat /\ dref[j] = Cardinality(At(Image, j)) /\ (j \in areas => dref[j] > 0)
    BY DEF Good, ImagesInv, Shape
  <2>8. dref'[j] = IF me.image = j THEN dref[j] - 1 ELSE dref[j]
    BY <1>1 DEF LeaveArea, Good, Shape
  <2>9. j \in areas' => j \in areas /\ ~(me.image = j /\ dref[j] = 1)
    BY DEF LeaveArea
  <2> QED
    BY ONLY <1>1, <2>4, <2>5, <2>6, <2>7, <2>8, <2>9 DEF Hit
<1>3. dref' \in [Images -> Nat]
  <2>1. DOMAIN dref' = Images /\ dref' = [j \in Images |-> dref'[j]]
    BY DEF LeaveArea, Good, Shape
  <2> QED
    BY <1>2, <2>1
<1>4. areas' \subseteq Images
  BY DEF LeaveArea, Good, Shape
<1> QED
  BY <1>2, <1>3, <1>4

(* A process that ends, or runs another program, leaves the structures as  *)
(* __free_process left them but for its own, which becomes r.              *)
LEMMA FreedCur ==
  ASSUME Good, cur \in Procs, NEW r \in ProcType,
         proc' = [Freed(cur) EXCEPT ![cur] = r],
         \A f \in Fds : r.fds[f].h = NULL, r.tty = NULL
  PROVE  /\ proc' \in [Procs -> ProcType] /\ proc'[cur] = r
         /\ Gone(cur) \subseteq Procs /\ cur \notin Gone(cur)
         /\ \A q \in Procs \ {cur} : proc'[q] = IF q \in Gone(cur) THEN NoProc ELSE proc[q]
         /\ \A q \in Procs, f \in Fds : Table'[q][f] = IF q \in Gone(cur) \cup {cur} THEN NULL ELSE Table[q][f]
         /\ \A q \in Procs : Console'[q] = IF q \in Gone(cur) \cup {cur} THEN NULL ELSE Console[q]
<1>1. Gone(cur) \subseteq Procs /\ cur \notin Gone(cur)
  BY GoneIs
<1>2. /\ Freed(cur) \in [Procs -> ProcType]
      /\ \A q \in Procs : Freed(cur)[q] = IF q \in Gone(cur) THEN NoProc
                                          ELSE IF q = cur THEN Cleared(cur) ELSE proc[q]
  BY FreedIs
<1>3. proc' \in [Procs -> ProcType] /\ proc'[cur] = r
  BY <1>2
<1>4. \A q \in Procs \ {cur} : proc'[q] = IF q \in Gone(cur) THEN NoProc ELSE proc[q]
  BY <1>2
<1>5. NoProc.tty = NULL /\ \A f \in Fds : NoProc.fds[f].h = NULL
  BY DEF NoProc, FreshProc, NoTable, Shut
<1>6. \A q \in Procs, f \in Fds : Table'[q][f] = IF q \in Gone(cur) \cup {cur} THEN NULL ELSE Table[q][f]
  BY <1>3, <1>4, <1>5, TableIs, TableNext
<1>7. \A q \in Procs : Console'[q] = IF q \in Gone(cur) \cup {cur} THEN NULL ELSE Console[q]
  BY <1>3, <1>4, <1>5, TableIs, TableNext
<1> QED
  BY <1>1, <1>3, <1>4, <1>6, <1>7

(* The families when the running process has lost its zombies.             *)
LEMMA FreedKin ==
  ASSUME Good, cur \in Procs, NEW Q,
         \A q \in Procs \ {cur} : Q[q] = IF q \in Gone(cur) THEN NoProc ELSE proc[q],
         Q[cur].st = me.st, Q[cur].ppid = me.ppid, Q[cur].kids = <<>>
  PROVE  Kin(Q, cur)
<1>1. /\ Gone(cur) \in SUBSET Procs /\ cur \notin Gone(cur)
      /\ \A z \in Gone(cur) : /\ proc[z].st = "zombie" /\ proc[z].ppid \in Gone(cur) \cup {cur}
                              /\ Range(proc[z].kids) \subseteq Gone(cur)
      /\ \A q \in Range(proc[cur].kids) : q \in Gone(cur)
  BY GoneIs
<1>2. NoProc.st = "free" /\ NoProc.kids = <<>> /\ NoProc.ppid = NULL
  BY DEF NoProc, FreshProc
<1> DEFINE Z == Gone(cur)
<1>3. \A p \in Z : /\ proc[p].st = "zombie" /\ proc[p].ppid \in Z \cup {cur} /\ Range(proc[p].kids) \subseteq Z
                   /\ Q[p].st = "free" /\ Q[p].kids = <<>> /\ Q[p].ppid = NULL
  BY <1>1, <1>2
<1>4. \A p \in Procs \ Z : Q[p].st = proc[p].st /\ Q[p].ppid = proc[p].ppid
                           /\ (p # cur => Q[p].kids = proc[p].kids)
  BY DEF me
<1>5. Q[cur].kids \in Seq(Procs) /\ Range(Q[cur].kids) = Range(proc[cur].kids) \ Z
      /\ \A m, n \in DOMAIN Q[cur].kids : Q[cur].kids[m] = Q[cur].kids[n] => m = n
  <2>1. <<>> \in Seq(Procs) /\ Range(<<>>) = {}
    BY DEF Range
  <2> QED
    BY <1>1, <2>1
<1>6. Kin(proc, cur) /\ cur \in Procs /\ Z \in SUBSET Procs
  BY <1>1 DEF Good, KinInv
<1> HIDE DEF Z
<1> QED
  BY ONLY <1>3, <1>4, <1>5, <1>6, KinDrop

(* Nobody else runs in the image of a process that leaves the Shared       *)
(* Object Manager.                                                         *)
LEMMA LastClient ==
  ASSUME Good, cur \in Procs, me.run = "unixlib", ExecsAreLeaves, me.execed \/ ~me.forked \/ me.ppid = NULL,
         NEW p \in Procs \ {cur}, proc[p].image # NULL
  PROVE  proc[p].image # me.image
<1>1. proc[cur].st = "live" /\ (proc[cur].ppid = NULL => \A q \in Procs : proc[q].st = "live" => q = cur)
  BY KinFacts DEF Good, KinInv
<1>2. proc[p].st = "live"
  BY DEF Good, ImagesInv
<1>3. proc[cur].ppid # NULL
  BY <1>1, <1>2
<1>4. proc[cur].forked
  BY <1>1, <1>3 DEF Good, ImagesInv
<1>5. proc[cur].execed
  BY <1>3, <1>4 DEF me
<1> QED
  BY <1>5 DEF Good, ImagesInv, me

(* The running process has ended or execs, and what is left of it is r.    *)
LEMMA LeftStep ==
  ASSUME Good, cur \in Procs, me.run = "unixlib", NEW r \in ProcType,
         FreeProcess(cur), LeaveArea, UNCHANGED prog,
         proc' = [Freed(cur) EXCEPT ![cur] = r],
         r.fds = NoTable, r.tty = NULL, r.kids = <<>>, r.image = NULL, r.run # "unixlib" \/ r.st # "live",
         r.st = "live" => "unixlib" \in prog.execs \/ r.run = "foreign",
         r.st = "free" => r = NoProc, UnixLibOnly => r.run # "foreign",
         r.st = "live" /\ ~r.forked => r.ppid = NULL,
         clients' = clients \/ (clients' = clients \ {me.image} /\ (me.execed \/ ~me.forked \/ me.ppid = NULL))
  PROVE  /\ RefsInv' /\ TtysInv' /\ EmptyInv' /\ ImagesInv'
         /\ dev' \in [Handles -> {"free", "file", "pipe"} \cup Ttys] /\ refs' \in [Handles -> Nat]
         /\ ttys' \subseteq Ttys /\ ttyref' \in [Ttys -> Int] /\ proc' \in [Procs -> ProcType]
         /\ areas' \subseteq Images /\ dref' \in [Images -> Nat] /\ clients' \subseteq Images
<1>1. \A f \in Fds : r.fds[f].h = NULL
  BY DEF NoTable, Shut
<1>2. /\ proc' \in [Procs -> ProcType] /\ proc'[cur] = r
      /\ Gone(cur) \subseteq Procs /\ cur \notin Gone(cur)
      /\ \A q \in Procs \ {cur} : proc'[q] = IF q \in Gone(cur) THEN NoProc ELSE proc[q]
      /\ \A q \in Procs, f \in Fds : Table'[q][f] = IF q \in Gone(cur) \cup {cur} THEN NULL ELSE Table[q][f]
      /\ \A q \in Procs : Console'[q] = IF q \in Gone(cur) \cup {cur} THEN NULL ELSE Console[q]
  BY <1>1, FreedCur
<1>3. /\ RefsInv' /\ TtysInv'
      /\ dev' \in [Handles -> {"free", "file", "pipe"} \cup Ttys] /\ refs' \in [Handles -> Nat]
      /\ ttys' \subseteq Ttys /\ ttyref' \in [Ttys -> Int]
  <2>1. /\ \A q \in Procs, f \in Fds : Table'[q][f] = IF q \in Gone(cur) \cup {cur} THEN NULL ELSE Table[q][f]
        /\ \A q \in Procs : Console'[q] = IF q \in Gone(cur) \cup {cur} THEN NULL ELSE Console[q]
    BY <1>2
  <2>2. Good /\ cur \in Procs /\ FreeProcess(cur) /\ UNCHANGED prog
    OBVIOUS
  <2> QED
    BY ONLY <2>1, <2>2, FreeStep
<1>4. NoProc.st = "free" /\ NoProc.image = NULL /\ NoProc.run = "starting"
  BY DEF NoProc, FreshProc
<1>5. \A z \in Gone(cur) : proc[z].st = "zombie"
  BY GoneIs
<1>6. \A q \in Procs : Image'[q] = IF q = cur THEN NULL ELSE Image[q]
  BY <1>2, <1>4, <1>5, TableIs, TableNext DEF Good, ImagesInv
<1>7. me.st = "live"
  BY GoodFacts, NullAssumption
<1>8. /\ \A j \in Images : dref'[j] = Cardinality(At(Image', j)) /\ (j \in areas' => dref'[j] > 0)
      /\ areas' \subseteq Images /\ dref' \in [Images -> Nat]
  BY <1>6, <1>7, LeaveStep
<1>9. EmptyInv'
  <2> SUFFICES ASSUME NEW p \in Procs
               PROVE  /\ UnixLibOnly => proc'[p].run # "foreign"
                      /\ proc'[p].st = "free" => proc'[p] = NoProc
                      /\ proc'[p].st = "zombie" /\ proc'[p].run # "foreign" =>
                           Table'[p] = Empty /\ proc'[p].tty = NULL
                      /\ proc'[p].st = "live" /\ proc'[p].ppid = NULL /\ proc'[p].run # "unixlib" =>
                           Table'[p] = Empty /\ proc'[p].tty = NULL /\ proc'[p].kids = <<>>
    BY DEF EmptyInv, UnixLibOnly
  <2>1. CASE p = cur
    <3>1. Table'[p] = Empty
      BY <1>1, <1>2, <2>1 DEF Table, Empty
    <3> QED
      BY <1>2, <2>1, <3>1
  <2>2. CASE p \in Gone(cur)
    BY <1>2, <1>4, <2>2
  <2>3. CASE p \notin Gone(cur) \cup {cur}
    <3>1. proc'[p] = proc[p] /\ Table'[p] = Table[p]
      BY <1>2, <2>3 DEF Table
    <3> QED
      BY <3>1 DEF Good, EmptyInv
  <2> QED
    BY <2>1, <2>2, <2>3
<1>10. ImagesInv'
  <2>1. \A p \in Procs : proc'[p].image # NULL <=> proc'[p].st = "live" /\ proc'[p].run = "unixlib"
    BY <1>2, <1>4 DEF Good, ImagesInv
  <2>2. \A p \in Procs : proc'[p].st = "live" /\ ~proc'[p].forked => proc'[p].ppid = NULL
    BY <1>2, <1>4 DEF Good, ImagesInv
  <2>3. \A p \in Procs : proc'[p].st = "live" /\ proc'[p].execed /\ proc'[p].run # "foreign" =>
          "unixlib" \in prog.execs
    BY <1>2, <1>4 DEF Good, ImagesInv
  <2>4. ASSUME ExecsAreLeaves, NEW p \in Procs, NEW q \in Procs
        PROVE  /\ proc'[p].image # NULL => proc'[p].image \in clients'
               /\ proc'[p].image = proc'[q].image /\ proc'[p].image # NULL /\ proc'[p].execed => p = q
    <3>1. \A a \in Procs : proc'[a].image # NULL => a # cur /\ proc'[a] = proc[a]
      BY <1>2, <1>4
    <3>2. ASSUME proc'[p].image # NULL, me.execed \/ ~me.forked \/ me.ppid = NULL
          PROVE  proc[p].image # me.image
      <4>1. p \in Procs \ {cur} /\ proc[p].image # NULL
        BY <3>1, <3>2
      <4> QED
        BY <2>4, <3>2, <4>1, LastClient
    <3> QED
      BY <2>4, <3>1, <3>2 DEF Good, ImagesInv
  <2>5. ExecsAreLeaves' = ExecsAreLeaves /\ prog' = prog
    BY DEF ExecsAreLeaves
  <2> QED
    BY <1>8, <2>1, <2>2, <2>3, <2>4, <2>5 DEF ImagesInv
<1>11. clients' \subseteq Images
  BY DEF Good, Shape
<1> QED
  BY <1>2, <1>3, <1>8, <1>9, <1>10, <1>11

LEMMA ExitStep ==
  ASSUME Good, NEW how, Exit(how)
  PROVE  Good'
<1>1. /\ cur \in Procs /\ me \in ProcType /\ me.st = "live" /\ me.run = "unixlib"
      /\ prog \in ProgramType /\ how \in prog.ends
  BY GoodFacts, ProcessesAssumption DEF Exit, Calls, Running, Good, Shape
<1>2. /\ FreeProcess(cur) /\ LeaveArea /\ UNCHANGED <<prog, told>> /\ cur' = me.ppid
      /\ clients' = IF LeavesSom THEN clients \ {me.image} ELSE clients
      /\ dup' = IF dup # NULL /\ dup.p = cur THEN NULL ELSE dup
  BY DEF Exit, SulExit
<1> DEFINE r == IF me.ppid = NULL THEN NoProc
                ELSE [Cleared(cur) EXCEPT !.st = "zombie", !.end = how, !.image = NULL]
<1>3. proc' = [Freed(cur) EXCEPT ![cur] = r]
  <2>1. Freed(cur)[cur] = Cleared(cur)
    BY <1>1, FreedIs, GoneIs
  <2> QED
    BY <2>1 DEF Exit, SulExit
<1>4. Cleared(cur) = [me EXCEPT !.fds = NoTable, !.tty = NULL, !.kids = <<>>]
  BY DEF Cleared, me
<1>5. /\ r \in ProcType /\ r.fds = NoTable /\ r.tty = NULL /\ r.kids = <<>> /\ r.image = NULL
      /\ r.ppid = me.ppid /\ r.run # "foreign" /\ (r.st = "free" => r = NoProc)
      /\ r.st = IF me.ppid = NULL THEN "free" ELSE "zombie"
  <2>1. CASE me.ppid = NULL
    BY <2>1, Typed DEF NoProc, FreshProc
  <2>2. CASE me.ppid # NULL
    <3>1. <<>> \in Seq(Procs) /\ how \in {"exit", "signal", "core"}
      BY <1>1 DEF ProgramType
    <3> QED
      BY <1>1, <1>4, <2>2, <3>1, Typed DEF ProcType
  <2> QED
    BY <2>1, <2>2
<1> HIDE DEF r
<1>6. /\ RefsInv' /\ TtysInv' /\ EmptyInv' /\ ImagesInv'
      /\ dev' \in [Handles -> {"free", "file", "pipe"} \cup Ttys] /\ refs' \in [Handles -> Nat]
      /\ ttys' \subseteq Ttys /\ ttyref' \in [Ttys -> Int] /\ proc' \in [Procs -> ProcType]
      /\ areas' \subseteq Images /\ dref' \in [Images -> Nat] /\ clients' \subseteq Images
  <2>1. clients' = clients \/ (clients' = clients \ {me.image} /\ (me.execed \/ ~me.forked \/ me.ppid = NULL))
    BY <1>2 DEF LeavesSom
  <2>2. UNCHANGED prog /\ r.st # "live"
    BY <1>2, <1>5
  <2>3. FreeProcess(cur) /\ LeaveArea
    BY <1>2
  <2> QED
    BY <1>1, <1>3, <1>5, <2>1, <2>2, <2>3, LeftStep
<1>7. KinInv'
  <2> DEFINE Q == [q \in Procs |-> IF q = cur THEN Cleared(cur) ELSE proc'[q]]
  <2>1. /\ proc'[cur] = r
        /\ \A q \in Procs \ {cur} : proc'[q] = IF q \in Gone(cur) THEN NoProc ELSE proc[q]
    <3>1. \A f \in Fds : r.fds[f].h = NULL
      BY <1>5 DEF NoTable, Shut
    <3> QED
      BY <1>1, <1>3, <1>5, <3>1, FreedCur
  <2>2. /\ Q[cur].st = me.st /\ Q[cur].ppid = me.ppid /\ Q[cur].kids = <<>>
        /\ \A q \in Procs \ {cur} : Q[q] = proc'[q]
    BY <1>1, <1>4 DEF ProcType
  <2> HIDE DEF Q
  <2>3. \A q \in Procs \ {cur} : Q[q] = IF q \in Gone(cur) THEN NoProc ELSE proc[q]
    BY <2>1, <2>2
  <2>4. Kin(Q, cur)
    BY <1>1, <2>2, <2>3, FreedKin
  <2>5. \A p \in Procs \ {cur} : proc'[p].st = Q[p].st
    BY <2>2
  <2>6. \A p \in Procs : proc'[p].ppid = Q[p].ppid /\ proc'[p].kids = Q[p].kids
    BY <1>5, <2>1, <2>2
  <2>7. proc'[cur].st = IF Q[cur].ppid = NULL THEN "free" ELSE "zombie"
    BY <1>5, <2>1, <2>2
  <2>8. cur \in Procs
    BY <1>1
  <2>9. Kin(proc', Q[cur].ppid)
    BY ONLY <2>4, <2>5, <2>6, <2>7, <2>8, KinEnd
  <2> QED
    BY <1>2, <2>2, <2>9 DEF KinInv
<1>8. Shape'
  <2>1. cur' \in Procs \cup {NULL}
    BY <1>1, <1>2 DEF ProcType
  <2> QED
    BY <1>2, <1>6, <2>1 DEF Good, Shape
<1> QED
  BY <1>6, <1>7, <1>8 DEF Good

LEMMA ForeignExitStep ==
  ASSUME Good, ForeignExit
  PROVE  Good'
<1>1. cur \in Procs /\ me \in ProcType /\ me.st = "live" /\ me.run = "foreign" /\ me = proc[cur]
  BY GoodFacts DEF ForeignExit, me
<1>2. UNCHANGED <<prog, devs, imgs, dup, told>> /\ cur' = me.ppid
  BY DEF ForeignExit, SulExit
<1> DEFINE r == IF me.ppid = NULL THEN NoProc
                ELSE [me EXCEPT !.st = "zombie", !.end = "exit", !.image = NULL]
<1>3. proc' = [proc EXCEPT ![cur] = r]
  BY <1>1 DEF ForeignExit, SulExit
<1>4. /\ me.image = NULL /\ ~UnixLibOnly
      /\ me.ppid = NULL => Table[cur] = Empty /\ me.tty = NULL /\ me.kids = <<>>
  BY <1>1 DEF Good, EmptyInv, ImagesInv
<1>5. /\ r \in ProcType /\ r.tty = me.tty /\ r.kids = me.kids /\ r.image = NULL /\ r.ppid = me.ppid
      /\ \A f \in Fds : r.fds[f].h = me.fds[f].h
      /\ r.st = IF me.ppid = NULL THEN "free" ELSE "zombie"
      /\ (r.st = "free" => r = NoProc) /\ (r.st = "zombie" => r.run = "foreign")
  <2>1. CASE me.ppid = NULL
    <3>1. \A f \in Fds : me.fds[f].h = NULL
      BY <1>1, <1>4, <2>1, TableIs DEF Empty
    <3> QED
      BY <1>4, <2>1, <3>1, Typed DEF NoProc, FreshProc, NoTable, Shut
  <2>2. CASE me.ppid # NULL
    BY <1>1, <1>4, <2>2 DEF ProcType
  <2> QED
    BY <2>1, <2>2
<1> HIDE DEF r
<1>6. proc' \in [Procs -> ProcType] /\ proc'[cur] = r /\ \A p \in Procs \ {cur} : proc'[p] = proc[p]
  BY <1>1, <1>3, <1>5 DEF Good, Shape
<1>7. RefsInv' /\ TtysInv'
  <2>1. \A p \in Procs : proc'[p].tty = proc[p].tty /\ \A f \in Fds : proc'[p].fds[f].h = proc[p].fds[f].h
    BY <1>1, <1>5, <1>6
  <2> QED
    BY <1>2, <2>1, SameRefs DEF Good
<1>8. KinInv'
  <2>1. Kin(proc, cur) /\ cur \in Procs
    BY <1>1 DEF Good, KinInv
  <2>2. \A p \in Procs \ {cur} : proc'[p].st = proc[p].st
    BY <1>6
  <2>3. \A p \in Procs : proc'[p].ppid = proc[p].ppid /\ proc'[p].kids = proc[p].kids
    BY <1>1, <1>5, <1>6
  <2>4. proc'[cur].st = IF proc[cur].ppid = NULL THEN "free" ELSE "zombie"
    BY <1>1, <1>5, <1>6
  <2>5. Kin(proc', proc[cur].ppid)
    BY ONLY <2>1, <2>2, <2>3, <2>4, KinEnd
  <2> QED
    BY <1>1, <1>2, <2>5 DEF KinInv
<1>9. Image' = Image /\ \A p \in Procs \ {cur} : Table'[p] = Table[p]
  BY <1>1, <1>4, <1>5, <1>6 DEF Image, Table
<1>10. EmptyInv'
  BY <1>2, <1>4, <1>5, <1>6, <1>9 DEF Good, EmptyInv, UnixLibOnly
<1>11. ImagesInv'
  BY <1>1, <1>2, <1>4, <1>5, <1>6, <1>9 DEF Good, ImagesInv, ExecsAreLeaves, imgs
<1>12. Shape'
  BY <1>1, <1>2, <1>6 DEF Good, Shape, devs, imgs, ProcType
<1> QED
  BY <1>7, <1>8, <1>10, <1>11, <1>12 DEF Good

LEMMA ExecStep ==
  ASSUME Good, NEW what, Exec(what)
  PROVE  Good'
<1>1. /\ cur \in Procs /\ me \in ProcType /\ me.st = "live" /\ me.run = "unixlib" /\ me = proc[cur]
      /\ prog \in ProgramType /\ what \in prog.execs
  BY GoodFacts, ProcessesAssumption DEF Exec, Calls, Running, Good, Shape, me
<1>2. /\ LeaveArea /\ UNCHANGED <<prog, cur, told>>
      /\ clients' = IF me.ppid = NULL THEN clients \ {me.image} ELSE clients
      /\ dup' = IF dup # NULL /\ dup.p = cur THEN NULL ELSE dup
      /\ IF me.ppid = NULL THEN FreeProcess(cur) ELSE Release({cur} \X {}, {})
  BY DEF Exec, ExecCloses
<1> DEFINE next == IF what = "unixlib" THEN "starting" ELSE "foreign"
           from == IF me.ppid = NULL THEN Freed(cur) ELSE [proc EXCEPT ![cur].fds = [f \in Fds |-> me.fds[f]]]
           base == IF me.ppid = NULL THEN Cleared(cur) ELSE me
           r == [base EXCEPT !.run = next, !.execed = TRUE, !.image = NULL, !.shares = FALSE]
<1>3. proc' = [from EXCEPT ![cur].run = next, ![cur].execed = TRUE,
                           ![cur].image = NULL, ![cur].shares = FALSE]
  BY DEF Exec, ExecCloses
<1>4. what \in {"unixlib", "foreign"} /\ (UnixLibOnly => what # "foreign")
  BY <1>1 DEF ProgramType, UnixLibOnly
<1>5. Cleared(cur) = [me EXCEPT !.fds = NoTable, !.tty = NULL, !.kids = <<>>]
  BY <1>1 DEF Cleared
<1>6. from \in [Procs -> ProcType] /\ from[cur] = base
  <2>1. CASE me.ppid = NULL
    BY <1>1, <2>1, FreedIs, GoneIs
  <2>2. CASE me.ppid # NULL
    <3>1. me.fds = [f \in Fds |-> me.fds[f]] /\ [me EXCEPT !.fds = me.fds] = me
      BY <1>1 DEF ProcType
    <3>2. from = [proc EXCEPT ![cur].fds = me.fds]
      BY <2>2, <3>1
    <3>3. from = [proc EXCEPT ![cur] = me]
      BY <1>1, <3>1, <3>2 DEF Good, Shape
    <3> QED
      BY <1>1, <2>2, <3>3 DEF Good, Shape
  <2> QED
    BY <2>1, <2>2
<1>7. proc' = [from EXCEPT ![cur] = r]
  <2> HIDE DEF from, base, next
  <2>1. DOMAIN from = Procs
    BY <1>6
  <2> QED
    BY <1>1, <1>3, <1>6, <2>1
<1>8. /\ base \in ProcType /\ base.image = me.image /\ base.st = "live" /\ base.ppid = me.ppid
      /\ base.forked = me.forked
      /\ me.ppid = NULL => base.fds = NoTable /\ base.tty = NULL /\ base.kids = <<>>
  BY <1>1, <1>5, <1>6 DEF ProcType
<1>9. /\ r \in ProcType /\ r.st = "live" /\ r.ppid = me.ppid /\ r.kids = base.kids /\ r.fds = base.fds
      /\ r.tty = base.tty /\ r.run = next /\ r.image = NULL /\ r.forked = me.forked
  <2>1. next \in {"starting", "unixlib", "foreign"}
    OBVIOUS
  <2> HIDE DEF base, next
  <2>2. r \in ProcType
    BY <1>8, <2>1 DEF ProcType
  <2>3. base.image = me.image /\ base.st = "live" /\ base.ppid = me.ppid /\ base.forked = me.forked
    BY <1>8
  <2> QED
    BY <1>8, <2>2, <2>3 DEF ProcType
<1>10. /\ next # "unixlib" /\ ("unixlib" \in prog.execs \/ next = "foreign")
       /\ (UnixLibOnly => next # "foreign")
  BY <1>1, <1>4
<1>11. CASE me.ppid = NULL
  <2>1. proc' = [Freed(cur) EXCEPT ![cur] = r] /\ FreeProcess(cur)
    <3>1. from = Freed(cur)
      BY <1>11
    <3> HIDE DEF from, r
    <3> QED
      BY <1>2, <1>7, <1>11, <3>1
  <2>2. r.fds = NoTable /\ r.tty = NULL /\ r.kids = <<>>
    BY <1>8, <1>9, <1>11
  <2> HIDE DEF r, base, from, next
  <2>3. /\ RefsInv' /\ TtysInv' /\ EmptyInv' /\ ImagesInv'
        /\ dev' \in [Handles -> {"free", "file", "pipe"} \cup Ttys] /\ refs' \in [Handles -> Nat]
        /\ ttys' \subseteq Ttys /\ ttyref' \in [Ttys -> Int] /\ proc' \in [Procs -> ProcType]
        /\ areas' \subseteq Images /\ dref' \in [Images -> Nat] /\ clients' \subseteq Images
    <3>1. clients' = clients \/ (clients' = clients \ {me.image} /\ (me.execed \/ ~me.forked \/ me.ppid = NULL))
      BY <1>2, <1>11
    <3>2. UNCHANGED prog /\ r.run # "unixlib" /\ r.ppid = NULL /\ r.st = "live"
      BY <1>2, <1>9, <1>10, <1>11
    <3> QED
      BY <1>1, <1>2, <1>9, <1>10, <2>1, <2>2, <3>1, <3>2, LeftStep
  <2>4. KinInv'
    <3>1. /\ proc'[cur] = r
          /\ \A q \in Procs \ {cur} : proc'[q] = IF q \in Gone(cur) THEN NoProc ELSE proc[q]
      <4>1. \A f \in Fds : r.fds[f].h = NULL
        BY <2>2 DEF NoTable, Shut
      <4> QED
        BY <1>1, <1>9, <2>1, <2>2, <4>1, FreedCur
    <3>2. proc'[cur].st = me.st /\ proc'[cur].ppid = me.ppid /\ proc'[cur].kids = <<>>
      BY <1>1, <1>9, <2>2, <3>1
    <3>3. Kin(proc', cur)
      BY <1>1, <3>1, <3>2, FreedKin
    <3> QED
      BY <1>2, <3>3 DEF KinInv
  <2>5. Shape'
    BY <1>2, <2>3 DEF Good, Shape
  <2> QED
    BY <2>3, <2>4, <2>5 DEF Good
<1>12. CASE me.ppid # NULL
  <2>1. r.kids = me.kids /\ r.fds = me.fds /\ r.tty = me.tty
    BY <1>9, <1>12
  <2>2. proc' \in [Procs -> ProcType] /\ proc'[cur] = r /\ \A p \in Procs \ {cur} : proc'[p] = proc[p]
    <3>1. \A p \in Procs \ {cur} : from[p] = proc[p]
      BY <1>1, <1>12 DEF Good, Shape
    <3> HIDE DEF from, r
    <3> QED
      BY <1>1, <1>6, <1>7, <1>9, <3>1
  <2> HIDE DEF r, base, from, next
  <2>3. /\ Table' = Table /\ Console' = Console
        /\ \A q \in Procs : Image'[q] = IF q = cur THEN NULL ELSE Image[q]
    BY <1>1, <1>9, <2>1, <2>2 DEF Table, Console, Image
  <2>4. /\ RefsInv' /\ TtysInv'
        /\ dev' \in [Handles -> {"free", "file", "pipe"} \cup Ttys] /\ refs' \in [Handles -> Nat]
        /\ ttys' \subseteq Ttys /\ ttyref' \in [Ttys -> Int]
    <3> DEFINE D == {}
               S == {}
    <3>1. Release(D, S) /\ D \in SUBSET (Procs \X Fds) /\ S \in SUBSET Procs
      <4>1. {cur} \X {} = {}
        OBVIOUS
      <4> QED
        BY <1>2, <1>12, <4>1
    <3>2. /\ \A d \in Procs \X Fds : Table'[d[1]][d[2]] = IF d \in D THEN NULL ELSE Table[d[1]][d[2]]
          /\ \A p \in Procs : Console'[p] = IF p \in S THEN NULL ELSE Console[p]
          /\ UnixLibOnly => \A p \in S \ {cur} : Console[p] = NULL
      BY <2>3
    <3>3. Shape /\ RefsInv /\ TtysInv /\ UNCHANGED prog
      BY <1>2 DEF Good
    <3> HIDE DEF D, S
    <3> QED
      BY ONLY <3>1, <3>2, <3>3, ReleaseStep
  <2>5. /\ \A j \in Images : dref'[j] = Cardinality(At(Image', j)) /\ (j \in areas' => dref'[j] > 0)
        /\ areas' \subseteq Images /\ dref' \in [Images -> Nat]
    BY <1>1, <1>2, <2>3, LeaveStep
  <2>6. clients' = clients
    BY <1>2, <1>12
  <2>7. KinInv'
    <3>1. Kin(proc, cur)
      BY DEF Good, KinInv
    <3>2. \A p \in Procs : proc'[p].st = proc[p].st /\ proc'[p].ppid = proc[p].ppid
                           /\ proc'[p].kids = proc[p].kids
      BY <1>1, <1>9, <2>1, <2>2
    <3>3. Kin(proc', cur)
      BY ONLY <3>1, <3>2, KinSame
    <3> QED
      BY <1>2, <3>3 DEF KinInv
  <2>8. EmptyInv'
    BY <1>2, <1>9, <1>10, <1>12, <2>2, <2>3 DEF Good, EmptyInv, UnixLibOnly
  <2>9. ImagesInv'
    <3>1. \A p \in Procs : /\ proc'[p].image # NULL <=> proc'[p].st = "live" /\ proc'[p].run = "unixlib"
                           /\ proc'[p].st = "live" /\ ~proc'[p].forked => proc'[p].ppid = NULL
                           /\ proc'[p].st = "live" /\ proc'[p].execed /\ proc'[p].run # "foreign" =>
                                "unixlib" \in prog.execs
      BY <1>1, <1>9, <1>10, <2>2 DEF Good, ImagesInv
    <3>2. ExecsAreLeaves => \A p, q \in Procs :
            /\ proc'[p].image # NULL => proc'[p].image \in clients
            /\ proc'[p].image = proc'[q].image /\ proc'[p].image # NULL /\ proc'[p].execed => p = q
      BY <1>9, <2>2 DEF Good, ImagesInv
    <3>3. ExecsAreLeaves' = ExecsAreLeaves /\ prog' = prog
      BY <1>2 DEF ExecsAreLeaves
    <3> QED
      BY <2>5, <2>6, <3>1, <3>2, <3>3 DEF ImagesInv
  <2>10. Shape'
    BY <1>2, <2>2, <2>4, <2>5, <2>6 DEF Good, Shape
  <2> QED
    BY <2>4, <2>7, <2>8, <2>9, <2>10 DEF Good
<1> QED
  BY <1>11, <1>12

(* Only one child of the running process goes with the zombie c: c.        *)
LEMMA GoneChild ==
  ASSUME Good, cur \in Procs, NEW c \in Procs, NEW q \in Gone(c), q \in Procs, proc[c].st = "zombie",
         proc[q].st # "free", proc[q].ppid = cur
  PROVE  q = c
<1>1. \A a, b \in Procs : b \in Range(proc[a].kids) <=> proc[b].st # "free" /\ proc[b].ppid = a
  BY DEF Good, KinInv, Kin
<1>2. proc[cur].st = "live"
  BY GoodFacts, NullAssumption DEF me
<1>3. CASE q \in Doomed(c)
  <2>1. PICK a \in Doomed(c) \cup {c} : q \in Range(proc[a].kids)
    BY <1>3, DoomedIs DEF ZombieKids
  <2>2. a \in Procs /\ proc[a].st = "zombie"
    BY DoomedIs
  <2>3. proc[q].ppid = a
    BY <1>1, <2>1, <2>2
  <2> QED
    BY <1>2, <2>2, <2>3
<1> QED
  BY <1>3 DEF Gone

(* A zombie that the running process waits for, the n-th of its children,  *)
(* is freed and taken off the list.                                        *)
LEMMA ReapStep ==
  ASSUME Good, cur \in Procs, NEW c \in Procs, NEW n \in DOMAIN me.kids, me.kids[n] = c, proc[c].st = "zombie",
         FreeProcess(c), proc' = [Freed(c) EXCEPT ![cur].kids = RemoveAt(@, n)],
         UNCHANGED <<prog, cur, imgs, dup>>
  PROVE  Good'
<1>1. me \in ProcType /\ me.st = "live" /\ me = proc[cur] /\ me.kids \in Seq(Procs)
  BY GoodFacts, NullAssumption DEF me, ProcType
<1>2. /\ \A a, q \in Procs : q \in Range(proc[a].kids) <=> proc[q].st # "free" /\ proc[q].ppid = a
      /\ \A i, j \in DOMAIN proc[cur].kids : proc[cur].kids[i] = proc[cur].kids[j] => i = j
  BY DEF Good, KinInv, Kin
<1>3. c \in Range(proc[cur].kids)
  BY <1>1 DEF Range
<1>4. proc[c].ppid = cur
  BY <1>2, <1>3
<1>5. /\ Gone(c) \in SUBSET Procs /\ cur \notin Gone(c) /\ c \in Gone(c) /\ c # cur
      /\ \A z \in Gone(c) : /\ proc[z].st = "zombie" /\ proc[z].ppid \in Gone(c) \cup {cur}
                            /\ Range(proc[z].kids) \subseteq Gone(c)
  <2>1. c \in Gone(c)
    BY DEF Gone
  <2> QED
    BY <1>4, <2>1, GoneIs
<1>6. /\ Freed(c) \in [Procs -> ProcType]
      /\ \A q \in Procs : Freed(c)[q] = IF q \in Gone(c) THEN NoProc ELSE proc[q]
  BY <1>4, <1>5, FreedIs
<1> DEFINE l == RemoveAt(me.kids, n)
           r == [me EXCEPT !.kids = l]
<1>7. /\ l \in Seq(Procs) /\ Range(l) = Range(me.kids) \ {c}
      /\ \A i, j \in DOMAIN l : l[i] = l[j] => i = j
  <2>1. \A i, j \in DOMAIN me.kids : me.kids[i] = me.kids[j] => i = j
    BY <1>1, <1>2
  <2> QED
    BY <1>1, <2>1, RemoveAtIs
<1>8. proc' = [Freed(c) EXCEPT ![cur] = r]
  <2>1. Freed(c)[cur] = me
    BY <1>1, <1>5, <1>6
  <2> QED
    BY <1>6, <2>1
<1> HIDE DEF l
<1>9. /\ r \in ProcType /\ r.st = me.st /\ r.ppid = me.ppid /\ r.kids = l /\ r.fds = me.fds /\ r.tty = me.tty
      /\ r.run = me.run /\ r.image = me.image /\ r.forked = me.forked /\ r.execed = me.execed
  BY <1>1, <1>7 DEF ProcType
<1> HIDE DEF r
<1>10. /\ proc' \in [Procs -> ProcType] /\ proc'[cur] = r
       /\ \A q \in Procs \ {cur} : proc'[q] = IF q \in Gone(c) THEN NoProc ELSE proc[q]
  BY <1>6, <1>8, <1>9
<1>11. KinInv'
  <2> DEFINE Z == Gone(c)
  <2>1. NoProc.st = "free" /\ NoProc.kids = <<>> /\ NoProc.ppid = NULL
    BY DEF NoProc, FreshProc
  <2>2. \A p \in Z : /\ proc[p].st = "zombie" /\ proc[p].ppid \in Z \cup {cur} /\ Range(proc[p].kids) \subseteq Z
                     /\ proc'[p].st = "free" /\ proc'[p].kids = <<>> /\ proc'[p].ppid = NULL
    BY <1>5, <1>10, <2>1
  <2>3. \A p \in Procs \ Z : proc'[p].st = proc[p].st /\ proc'[p].ppid = proc[p].ppid
                             /\ (p # cur => proc'[p].kids = proc[p].kids)
    BY <1>1, <1>9, <1>10
  <2>4. ASSUME NEW q \in Range(proc[cur].kids), q \in Z PROVE q = c
    <3>1. q \in Procs /\ proc[q].ppid = cur
      BY <1>2, <1>5, <2>4
    <3>2. q \in Gone(c) /\ proc[q].st # "free"
      BY <1>5, <2>4
    <3> QED
      BY <3>1, <3>2, GoneChild
  <2>5. proc'[cur].kids \in Seq(Procs) /\ Range(proc'[cur].kids) = Range(proc[cur].kids) \ Z
        /\ \A i, j \in DOMAIN proc'[cur].kids : proc'[cur].kids[i] = proc'[cur].kids[j] => i = j
    <3>1. proc'[cur].kids = l /\ proc[cur].kids = me.kids
      BY <1>1, <1>9, <1>10
    <3>2. Range(l) = Range(proc[cur].kids) \ Z
      BY <1>5, <1>7, <2>4, <3>1
    <3> QED
      BY <1>7, <3>1, <3>2
  <2>6. Kin(proc, cur) /\ cur \in Procs /\ Z \in SUBSET Procs
    BY <1>5 DEF Good, KinInv
  <2> HIDE DEF Z
  <2>7. Kin(proc', cur)
    BY ONLY <2>2, <2>3, <2>5, <2>6, KinDrop
  <2> QED
    BY <2>7 DEF KinInv
<1>12. NoProc.tty = NULL /\ NoProc.image = NULL /\ NoProc.st = "free" /\ NoProc.run = "starting"
       /\ \A f \in Fds : NoProc.fds[f].h = NULL
  BY DEF NoProc, FreshProc, NoTable, Shut
<1>13. /\ \A q \in Procs, f \in Fds : Table'[q][f] = IF q \in Gone(c) \cup {c} THEN NULL ELSE Table[q][f]
       /\ \A q \in Procs : Console'[q] = IF q \in Gone(c) \cup {c} THEN NULL ELSE Console[q]
       /\ \A q \in Procs \ Gone(c) : Table'[q] = Table[q] /\ Console'[q] = Console[q]
  <2>1. \A q \in Procs \ Gone(c) : proc'[q].fds = proc[q].fds /\ proc'[q].tty = proc[q].tty
    BY <1>1, <1>9, <1>10
  <2>2. \A q \in Procs \ Gone(c) : Table'[q] = Table[q] /\ Console'[q] = Console[q]
    BY <2>1 DEF Table, Console
  <2>3. \A q \in Gone(c) : proc'[q] = NoProc
    BY <1>5, <1>10
  <2> QED
    BY <1>5, <1>12, <2>2, <2>3, TableIs, TableNext
<1>14. /\ RefsInv' /\ TtysInv'
       /\ dev' \in [Handles -> {"free", "file", "pipe"} \cup Ttys] /\ refs' \in [Handles -> Nat]
       /\ ttys' \subseteq Ttys /\ ttyref' \in [Ttys -> Int]
  <2>1. Good /\ c \in Procs /\ (proc[c].st = "zombie" /\ proc[c].ppid = cur) /\ FreeProcess(c) /\ UNCHANGED prog
    BY <1>4
  <2>2. /\ \A q \in Procs, f \in Fds : Table'[q][f] = IF q \in Gone(c) \cup {c} THEN NULL ELSE Table[q][f]
        /\ \A q \in Procs : Console'[q] = IF q \in Gone(c) \cup {c} THEN NULL ELSE Console[q]
    BY <1>13
  <2> QED
    BY ONLY <2>1, <2>2, FreeStep
<1>15. Image' = Image
  <2>1. \A q \in Gone(c) : proc[q].image = NULL /\ proc'[q].image = NULL
    BY <1>5, <1>10, <1>12 DEF Good, ImagesInv
  <2>2. \A q \in Procs \ Gone(c) : proc'[q].image = proc[q].image
    BY <1>1, <1>9, <1>10
  <2>3. \A q \in Procs : proc'[q].image = proc[q].image
    BY <2>1, <2>2
  <2> QED
    BY <2>3 DEF Image
<1>16. EmptyInv'
  <2> SUFFICES ASSUME NEW p \in Procs
               PROVE  /\ UnixLibOnly => proc'[p].run # "foreign"
                      /\ proc'[p].st = "free" => proc'[p] = NoProc
                      /\ proc'[p].st = "zombie" /\ proc'[p].run # "foreign" =>
                           Table'[p] = Empty /\ proc'[p].tty = NULL
                      /\ proc'[p].st = "live" /\ proc'[p].ppid = NULL /\ proc'[p].run # "unixlib" =>
                           Table'[p] = Empty /\ proc'[p].tty = NULL /\ proc'[p].kids = <<>>
    BY DEF EmptyInv, UnixLibOnly
  <2>1. CASE p \in Gone(c)
    BY <1>5, <1>10, <1>12, <2>1
  <2>2. CASE p \notin Gone(c) /\ p # cur
    BY <1>10, <1>13, <2>2 DEF Good, EmptyInv
  <2>3. CASE p = cur
    <3>1. proc'[p] = r /\ Table'[p] = Table[cur]
      BY <1>5, <1>10, <1>13, <2>3
    <3>2. me.kids # <<>>
      BY <1>1
    <3> QED
      BY <1>1, <1>9, <2>3, <3>1, <3>2 DEF Good, EmptyInv
  <2> QED
    BY <2>1, <2>2, <2>3
<1>17. ImagesInv'
  <2>1. \A p \in Gone(c) : proc[p].image = NULL /\ proc[p].st # "live"
                            /\ proc'[p].image = NULL /\ proc'[p].st # "live"
    BY <1>5, <1>10, <1>12 DEF Good, ImagesInv
  <2>3. \A p \in Procs \ Gone(c) :
          /\ proc'[p].image = proc[p].image /\ proc'[p].st = proc[p].st /\ proc'[p].run = proc[p].run
          /\ proc'[p].forked = proc[p].forked /\ proc'[p].execed = proc[p].execed
          /\ proc'[p].ppid = proc[p].ppid
    BY <1>1, <1>9, <1>10
  <2>2. UNCHANGED <<prog, clients, dref, areas>> /\ ExecsAreLeaves' = ExecsAreLeaves
    BY DEF imgs, ExecsAreLeaves
  <2>4. \A i \in Images : dref'[i] = Cardinality(At(Image', i)) /\ (i \in areas' => dref'[i] > 0)
    BY <1>15, <2>2 DEF Good, ImagesInv
  <2>5. /\ \A p \in Procs : proc'[p].image # NULL <=> proc'[p].st = "live" /\ proc'[p].run = "unixlib"
        /\ \A p \in Procs : proc'[p].st = "live" /\ ~proc'[p].forked => proc'[p].ppid = NULL
        /\ \A p \in Procs : proc'[p].st = "live" /\ proc'[p].execed /\ proc'[p].run # "foreign" =>
             "unixlib" \in prog.execs
    BY <2>1, <2>3 DEF Good, ImagesInv
  <2>6. ExecsAreLeaves => \A p, q \in Procs :
          /\ proc'[p].image # NULL => proc'[p].image \in clients
          /\ proc'[p].image = proc'[q].image /\ proc'[p].image # NULL /\ proc'[p].execed => p = q
    BY <2>1, <2>3 DEF Good, ImagesInv
  <2> QED
    BY <2>2, <2>4, <2>5, <2>6 DEF ImagesInv
<1>18. Shape'
  BY <1>10, <1>14 DEF Good, Shape, imgs
<1> QED
  BY <1>11, <1>14, <1>16, <1>17, <1>18 DEF Good

LEMMA Wait4Step ==
  ASSUME Good, NEW pid, NEW nohang, Wait4(pid, nohang)
  PROVE  Good'
<1>1. cur \in Procs /\ me = proc[cur] /\ me.kids \in Seq(Procs)
  BY GoodFacts DEF Wait4, Calls, Running, me, ProcType
<1> DEFINE ready == {n \in DOMAIN me.kids : WaitType(pid, me.kids[n]) /\ proc[me.kids[n]].st = "zombie"}
           n == Min(ready)
           c == me.kids[n]
<1>2. CASE ready # {}
  <2>1. FreeProcess(c) /\ proc' = [Freed(c) EXCEPT ![cur].kids = RemoveAt(@, n)] /\ UNCHANGED <<prog, cur, imgs, dup>>
    BY <1>2 DEF Wait4
  <2>2. n \in ready
    <3>1. ready \in SUBSET Nat
      BY <1>1
    <3> HIDE DEF ready
    <3> QED
      BY <1>2, <3>1, MinIn
  <2>3. n \in DOMAIN me.kids /\ proc[c].st = "zombie"
    BY <2>2
  <2> HIDE DEF n
  <2>4. c \in Procs
    BY <1>1, <2>3
  <2>5. cur \in Procs /\ me.kids[n] = c
    BY <1>1
  <2> HIDE DEF c
  <2> QED
    BY ONLY Good, <2>1, <2>3, <2>4, <2>5, ReapStep
<1>3. CASE ready = {}
  <2>1. UNCHANGED <<prog, cur, proc, devs, imgs>> /\ dup' \in {dup, NULL}
    BY <1>3 DEF Wait4
  <2> QED
    BY <2>1, StillStep
<1> QED
  BY <1>2, <1>3

-----------------------------------------------------------------------------
(* What the invariant says of the properties.                              *)

LEMMA GoodCounts ==
  ASSUME Good
  PROVE  CountsInv
<1>1. \A h \in Handles : refs[h] = Count(Table, h) /\ (dev[h] = "free" <=> refs[h] = 0)
  BY DEF Good, RefsInv
<1>2. refs \in [Handles -> 0 .. MaxFd * Cardinality(Procs)]
  <2>1. \A h \in Handles : refs[h] \in 0 .. MaxFd * Cardinality(Procs)
    BY <1>1, PlacesFinite
  <2> QED
    BY <2>1 DEF Good, Shape
<1>3. \A i \in Images : Cardinality(At(Image, i)) \in 0 .. Cardinality(Procs)
  <2> SUFFICES ASSUME NEW i \in Images PROVE Cardinality(At(Image, i)) \in 0 .. Cardinality(Procs)
    OBVIOUS
  <2>1. At(Image, i) \subseteq Procs
    BY TableIs DEF At, AtOf
  <2>2. /\ IsFiniteSet(At(Image, i)) /\ Cardinality(At(Image, i)) <= Cardinality(Procs)
        /\ Cardinality(Procs) \in Nat
    BY <2>1, FiniteAssumption, FS_Subset, FS_CardinalityType
  <2>3. Cardinality(At(Image, i)) \in Nat
    BY <2>2, FS_CardinalityType
  <2> QED
    BY <2>2, <2>3
<1>4. \A i \in Images : dref[i] = Cardinality(At(Image, i)) /\ (i \in areas => dref[i] > 0)
  BY DEF Good, ImagesInv
<1>5. dref \in [Images -> 0 .. Cardinality(Procs)]
  BY <1>3, <1>4 DEF Good, Shape
<1>6. TypeOK
  BY <1>2, <1>5 DEF Good, Shape, TypeOK
<1>7. RefcountExact
  <2> SUFFICES ASSUME NEW h \in Handles PROVE Held(h, Open(Procs)) = Count(Table, h)
    BY <1>1 DEF RefcountExact
  <2>1. \A d \in Procs \X Fds : HandleOf(d) = Table[d[1]][d[2]]
    BY TableIs DEF HandleOf
  <2>2. {d \in Open(Procs) : HandleOf(d) = h} = Places(Table, h)
    BY <2>1, NullAssumption DEF Open, Places, Among, HandleOf
  <2> QED
    BY <2>2 DEF Held, Count
<1>8. TtyCountExact
  <2> SUFFICES ASSUME UnixLibOnly, NEW t \in Ttys
               PROVE  ttyref[t] = Cardinality({h \in Handles : dev[h] = t})
                                  + Cardinality({p \in Procs : proc[p].tty = t})
    BY DEF TtyCountExact
  <2>1. {h \in Handles : dev[h] = t} = At(dev, t)
    BY DEF At, AtOf, Good, Shape
  <2>2. {p \in Procs : proc[p].tty = t} = At(Console, t)
    BY TableIs DEF At, AtOf
  <2> QED
    BY <2>1, <2>2 DEF Good, TtysInv
<1>9. AreaShared
  <2> SUFFICES ASSUME NEW i \in Images PROVE {p \in Live : proc[p].image = i} = At(Image, i)
    BY <1>4 DEF AreaShared
  <2>1. \A p \in Procs : proc[p].image = i => proc[p].st = "live"
    BY NullAssumption DEF Good, ImagesInv
  <2> QED
    BY <2>1, TableIs DEF At, AtOf, Live
<1> QED
  BY <1>6, <1>7, <1>8, <1>9 DEF CountsInv

LEMMA GoodFamily ==
  ASSUME Good
  PROVE  FamilyInv
<1>1. /\ \A p \in Procs : proc[p].kids \in Seq(Procs) /\ proc[p].ppid \in Procs \cup {NULL}
      /\ \A p, q \in Procs : q \in Range(proc[p].kids) <=> proc[q].st # "free" /\ proc[q].ppid = p
      /\ \A p \in Procs : \A m, n \in DOMAIN proc[p].kids : proc[p].kids[m] = proc[p].kids[n] => m = n
      /\ \A p \in Procs : proc[p].st = "zombie" => proc[p].ppid # NULL
  BY DEF Good, KinInv, Kin
<1>2. PICK s \in Seq(Procs) : Line(proc, cur, s)
  BY DEF Good, KinInv, Kin
<1>3. Len(s) \in Nat /\ DOMAIN s = 1 .. Len(s) /\ \A i \in 1 .. Len(s) : s[i] \in Procs
  OBVIOUS
<1>4. ASSUME NEW p \in Procs PROVE Cardinality(Range(proc[p].kids)) = Len(proc[p].kids)
  <2> DEFINE k == proc[p].kids
  <2>1. k \in Seq(Procs) /\ \A m, n \in DOMAIN k : k[m] = k[n] => m = n
    BY <1>1
  <2> HIDE DEF k
  <2>2. Len(k) \in Nat /\ DOMAIN k = 1 .. Len(k) /\ k = [i \in 1 .. Len(k) |-> k[i]]
    BY <2>1
  <2>3. k \in [1 .. Len(k) -> Range(k)]
    BY <2>2 DEF Range
  <2>4. IsInjective(k)
    BY <2>1 DEF IsInjective
  <2>5. \A x \in Range(k) : \E i \in 1 .. Len(k) : k[i] = x
    BY <2>2 DEF Range
  <2>6. k \in Bijection(1 .. Len(k), Range(k))
    BY <2>3, <2>4, <2>5 DEF Bijection, Injection, Surjection
  <2>7. ExistsBijection(1 .. Len(k), Range(k))
    BY <2>6 DEF ExistsBijection
  <2>8. Cardinality(Range(k)) = Len(k)
    BY ONLY <2>2, <2>7, FS_CountingElements
  <2> QED
    BY <2>8 DEF k
<1>5. \A p \in Procs : proc[p].st \in {"free", "live", "zombie"}
  BY GoodFacts DEF ProcType
<1>6. \A p \in Procs : proc[p].st = "live" <=> \E i \in 1 .. Len(s) : s[i] = p
  BY <1>2, <1>3 DEF Line
<1>7. cur = NULL => Live = {}
  <2>1. cur = NULL => Len(s) = 0
    <3>1. Len(s) # 0 => Len(s) \in 1 .. Len(s)
      BY <1>3
    <3> QED
      BY <1>2, <1>3, <3>1, NullAssumption DEF Line
  <2> QED
    BY <1>6, <2>1 DEF Live
<1>8. FamilyTree
  <2>1. \A p \in Procs : proc[p].st # "free" /\ proc[p].ppid = NULL => p \in Live
    BY <1>1, <1>5 DEF Live
  <2> QED
    BY <1>1, <1>4, <1>7, <2>1 DEF FamilyTree
<1>9. ASSUME NEW p \in Live
      PROVE  /\ \A n \in DOMAIN proc[p].kids : proc[p].kids[n] \in Live <=> (n = 1 /\ p # cur)
             /\ proc[p].ppid # NULL => proc[p].ppid \in Live
  <2>1. PICK i \in 1 .. Len(s) : s[i] = p
    BY <1>6 DEF Live
  <2>2. p = cur <=> i = Len(s)
    <3>1. Len(s) \in 1 .. Len(s) /\ cur = s[Len(s)]
      BY <1>2, <1>3, <2>1 DEF Line
    <3> QED
      BY <1>2, <1>3, <2>1, <3>1 DEF Line
  <2>3. \A n \in DOMAIN proc[p].kids : proc[proc[p].kids[n]].st = "live" <=> n = 1 /\ i # Len(s)
    BY <1>2, <1>3, <2>1 DEF Line
  <2>4. \A n \in DOMAIN proc[p].kids : proc[p].kids[n] \in Procs
    BY <1>1 DEF Live
  <2>5. cur \in Procs
    BY <1>2, <1>3, <2>1 DEF Line
  <2>6. proc[p].ppid # NULL => proc[p].ppid \in Procs /\ proc[proc[p].ppid].st = "live"
    BY <1>1, <2>5, KinFacts DEF Live, Good, KinInv
  <2> QED
    BY <2>2, <2>3, <2>4, <2>6 DEF Live
<1>10. Chain
  <2>1. cur # NULL => cur \in Live
    BY GoodFacts DEF Live, me
  <2> QED
    BY <1>9, <2>1 DEF Chain
<1> QED
  BY <1>8, <1>10 DEF FamilyInv

(* A pipe with a reader and a writer counts two.                           *)
LEMMA TwoEnds ==
  ASSUME RefsInv
  PROVE  NoEarlyEof
<1> SUFFICES ASSUME NEW h \in Handles, NEW d \in Open(Procs), NEW e \in Open(Procs),
                    HandleOf(d) = h, ~proc[d[1]].fds[d[2]].w, HandleOf(e) = h, proc[e[1]].fds[e[2]].w
             PROVE  ~AtEof(h)
  BY DEF NoEarlyEof
<1>1. d # e /\ d \in Procs \X Fds /\ e \in Procs \X Fds
  BY DEF Open
<1>2. d \in Places(Table, h) /\ e \in Places(Table, h)
  BY <1>1, TableIs DEF HandleOf, Places, Among
<1>3. Cardinality({d, e}) = 2 /\ {d, e} \subseteq Places(Table, h)
  <2>1. IsFiniteSet({d}) /\ Cardinality({d}) = 1 /\ {d, e} = {d} \cup {e}
    BY FS_Singleton
  <2>2. Cardinality({d} \cup {e}) = Cardinality({d}) + 1
    BY <1>1, <2>1, FS_AddElement
  <2> QED
    BY <1>2, <2>1, <2>2
<1>4. 2 <= Count(Table, h) /\ Count(Table, h) \in Nat
  BY <1>3, PlacesFinite, FS_Subset DEF Count
<1> QED
  BY <1>4 DEF RefsInv, AtEof

(* A tty somebody has as console is allocated.                             *)
LEMMA ConsoleKept ==
  ASSUME TtysInv, UnixLibOnly, DOMAIN dev = Handles, NEW p \in Procs, proc[p].tty \in Ttys
  PROVE  proc[p].tty \in ttys
<1> DEFINE t == proc[p].tty
<1>1. p \in At(Console, t) /\ DOMAIN Console = Procs
  BY TableIs DEF At, AtOf
<1> HIDE DEF t
<1>2. IsFiniteSet(At(Console, t)) /\ Cardinality(At(Console, t)) \in Nat /\ Cardinality(At(dev, t)) \in Nat
  BY <1>1, FiniteAssumption, AtFinite
<1>3. Cardinality(At(Console, t)) # 0
  BY <1>1, <1>2, FS_EmptySet
<1>4. t \in Ttys
  BY DEF t
<1>5. t \in ttys
  BY <1>2, <1>3, <1>4 DEF TtysInv
<1> QED
  BY <1>5 DEF t

LEMMA GoodUsed ==
  ASSUME Good
  PROVE  UsedIsKept
<1>1. NoEarlyEof
  BY TwoEnds DEF Good
<1>2. TtyKept
  <2> SUFFICES ASSUME UnixLibOnly, NEW p \in Procs, proc[p].tty # NULL PROVE proc[p].tty \in ttys
    BY DEF TtyKept
  <2>1. proc[p].tty \in Ttys /\ DOMAIN dev = Handles
    BY GoodFacts DEF ProcType, Good, Shape
  <2> QED
    BY <2>1, ConsoleKept DEF Good
<1>3. TtysEnd
  <2> SUFFICES ASSUME UnixLibOnly, cur = NULL, NEW t \in ttys PROVE FALSE
    BY DEF TtysEnd
  <2>1. \A p \in Procs : proc[p].st # "live"
    <3>1. PICK s \in Seq(Procs) : Line(proc, cur, s)
      BY DEF Good, KinInv, Kin
    <3>2. Len(s) \in Nat /\ DOMAIN s = 1 .. Len(s) /\ \A i \in 1 .. Len(s) : s[i] \in Procs
      OBVIOUS
    <3>3. Len(s) = 0
      <4>1. Len(s) # 0 => Len(s) \in 1 .. Len(s)
        BY <3>2
      <4> QED
        BY <3>1, <3>2, <4>1, NullAssumption DEF Line
    <3> QED
      BY <3>1, <3>2, <3>3 DEF Line
  <2>2. NoProc.tty = NULL /\ \A f \in Fds : NoProc.fds[f].h = NULL
    BY DEF NoProc, FreshProc, NoTable, Shut
  <2>3. \A p \in Procs : Console[p] = NULL /\ \A f \in Fds : Table[p][f] = NULL
    <3> SUFFICES ASSUME NEW p \in Procs
                 PROVE  Console[p] = NULL /\ \A f \in Fds : Table[p][f] = NULL
      OBVIOUS
    <3>1. CASE proc[p].st = "free"
      BY <2>2, <3>1, TableIs DEF Good, EmptyInv
    <3>2. CASE proc[p].st = "zombie"
      BY <3>2, TableIs DEF Good, EmptyInv, Empty
    <3>3. proc[p].st \in {"free", "live", "zombie"}
      BY GoodFacts DEF ProcType
    <3> QED
      BY <2>1, <3>1, <3>2, <3>3
  <2>4. \A h \in Handles : dev[h] = "free"
    <3> SUFFICES ASSUME NEW h \in Handles PROVE Count(Table, h) = 0
      BY DEF Good, RefsInv
    <3>1. ~ \E p \in Procs, f \in Fds : Table[p][f] = h
      BY <2>3, NullAssumption
    <3> QED
      BY <3>1, CountPositive
  <2>5. t \in Ttys
    BY DEF Good, Shape
  <2>6. At(dev, t) = {} /\ At(Console, t) = {}
    <3>1. DOMAIN dev = Handles /\ DOMAIN Console = Procs
      BY TableIs DEF Good, Shape
    <3> QED
      BY <2>3, <2>4, <2>5, <3>1, NullAssumption, DevicesAssumption DEF At, AtOf
  <2>7. ttyref[t] = 0
    BY <2>5, <2>6, FS_EmptySet DEF Good, TtysInv
  <2> QED
    BY <2>5, <2>7 DEF Good, TtysInv
<1>4. ClientKept
  BY DEF ClientKept, Live, Good, ImagesInv
<1> QED
  BY <1>1, <1>2, <1>3, <1>4 DEF UsedIsKept

-----------------------------------------------------------------------------
(* A fork that fails halfway.                                              *)

LEMMA HalfFork ==
  ASSUME Good, NEW how, NEW why, why # "struct", ForkFails(how, why)
  PROVE  Stuck'
<1>1. /\ cur \in Procs /\ me \in ProcType /\ me.st = "live" /\ me.run = "unixlib" /\ me = proc[cur]
      /\ told = NULL /\ why \in prog.faults
  BY GoodFacts DEF ForkFails, MayFork, Calls, Running, me
<1>2. UNCHANGED <<prog, dev, ttys, imgs, dup, told>>
  BY DEF ForkFails
<1>3. PICK c \in Procs :
        /\ proc[c].st = "free"
        /\ proc' = Linked(c, NoProc)
        /\ IF why = "slot" THEN ShareFds /\ cur' = c ELSE UNCHANGED <<refs, ttyref, cur>>
  BY DEF ForkFails
<1>4. proc[c] = NoProc /\ c # cur /\ \A g \in Fds : Table[c][g] = NULL
  BY <1>3, FreeIs
<1> DEFINE l == First(c, me.kids)
           m == [me EXCEPT !.kids = l]
<1>5. l \in Seq(Procs) /\ c \in Range(l)
  <2>1. me.kids \in Seq(Procs)
    BY <1>1 DEF ProcType
  <2>2. l \in Seq(Procs) /\ 1 \in DOMAIN l /\ l[1] = c
    BY <2>1 DEF First
  <2> QED
    BY <2>2 DEF Range
<1>6. proc' = [proc EXCEPT ![cur] = m]
  <2>1. [proc EXCEPT ![c] = NoProc] = proc
    BY <1>4 DEF Good, Shape
  <2> QED
    BY <1>1, <1>3, <1>4, <2>1 DEF Linked, First, Good, Shape
<1> HIDE DEF l
<1>7. /\ m \in ProcType /\ m.st = me.st /\ m.kids = l /\ m.fds = me.fds /\ m.tty = me.tty
      /\ m.run = me.run /\ m.image = me.image
  BY <1>1, <1>5 DEF ProcType
<1> HIDE DEF m
<1>8. proc' \in [Procs -> ProcType] /\ proc'[cur] = m /\ \A p \in Procs \ {cur} : proc'[p] = proc[p]
  BY <1>1, <1>6, <1>7 DEF Good, Shape
<1>9. \A p \in Procs : /\ proc'[p].st = proc[p].st /\ proc'[p].fds = proc[p].fds /\ proc'[p].tty = proc[p].tty
                       /\ proc'[p].image = proc[p].image
  BY <1>1, <1>7, <1>8
<1>10. cur' \in Procs /\ cur' \in {c, cur}
  BY <1>1, <1>3
<1>11. ~ForksWhole' /\ ~Intact' /\ cur' # NULL /\ told' = NULL
  <2>1. ~ForksWhole'
    BY <1>1, <1>2 DEF ForksWhole
  <2>2. c \in Range(proc'[cur].kids) /\ proc'[c].st = "free"
    BY <1>3, <1>5, <1>7, <1>8, <1>9
  <2>3. ~Intact'
    BY <1>1, <2>2 DEF Intact
  <2> QED
    BY <1>1, <1>2, <1>10, <2>1, <2>3, NullAssumption
<1>12. me'.run # "foreign" /\ (me'.st = "live" => me'.run = "unixlib")
  <2>1. me' = proc'[cur']
    BY DEF me
  <2>2. NoProc.run = "starting" /\ NoProc.st = "free"
    BY DEF NoProc, FreshProc
  <2> QED
    BY <1>1, <1>4, <1>7, <1>8, <1>10, <2>1, <2>2
<1>13. ASSUME NEW h \in Handles
       PROVE  refs'[h] \in 0 .. MaxFd * Cardinality(Procs) /\ refs[h] \in Nat /\ refs[h] <= refs'[h]
  <2>1. refs[h] \in Nat /\ refs[h] = Count(Table, h)
    BY DEF Good, Shape, RefsInv
  <2>2. CASE why # "slot"
    BY <1>3, <2>1, <2>2, PlacesFinite
  <2>3. CASE why = "slot"
    <3>1. \A g \in Fds : Table[c][g] = NULL
      BY <1>4
    <3>2. Count(Table, h) + Cardinality(Among(Table, {cur} \X Fds, h)) \in 0 .. MaxFd * Cardinality(Procs)
      BY <1>1, <3>1, CountMore
    <3>5. {cur} \X Fds \in SUBSET (Procs \X Fds)
      BY <1>1
    <3>6. Cardinality(Among(Table, {cur} \X Fds, h)) \in Nat
      BY <3>5, CountAmong
    <3>7. refs'[h] = refs[h] + Cardinality(Among(Table, {cur} \X Fds, h))
      <4>1. Held(h, Open({cur})) = Cardinality(Among(Table, {cur} \X Fds, h))
        <5>1. \A d \in {cur} \X Fds : d[1] \in Procs /\ d[2] \in Fds /\ HandleOf(d) = Table[d[1]][d[2]]
          BY <1>1, TableIs DEF HandleOf
        <5>2. {d \in Open({cur}) : HandleOf(d) = h} = Among(Table, {cur} \X Fds, h)
          BY <5>1, NullAssumption DEF Open, Among, HandleOf
        <5> QED
          BY <5>2 DEF Held
      <4> QED
        BY <1>3, <2>3, <4>1 DEF ShareFds
    <3> QED
      BY <2>1, <3>2, <3>6, <3>7
  <2> QED
    BY <2>2, <2>3
<1>14. /\ refs' \in [Handles -> 0 .. MaxFd * Cardinality(Procs)]
       /\ refs' \in [Handles -> Nat] /\ ttyref' \in [Ttys -> Int]
  <2>1. DOMAIN refs' = Handles /\ refs' = [h \in Handles |-> refs'[h]] /\ ttyref' \in [Ttys -> Int]
    <3>1. CASE why = "slot"
      BY <1>3, <3>1 DEF ShareFds, Good, Shape
    <3>2. CASE why # "slot"
      BY <1>3, <3>2 DEF Good, Shape
    <3> QED
      BY <3>1, <3>2
  <2>2. MaxFd * Cardinality(Procs) \in Nat
    BY FdsFinite, ProcessesAssumption
  <2>3. \A h \in Handles : refs'[h] \in 0 .. MaxFd * Cardinality(Procs) /\ refs'[h] \in Nat
    BY <1>13, <2>2
  <2> QED
    BY <2>1, <2>3
<1>15. Shape'
  BY <1>2, <1>8, <1>10, <1>14 DEF Good, Shape, imgs
<1>16. CountsInv /\ UsedIsKept
  BY GoodCounts, GoodUsed
<1>17. Live' = Live /\ \A p \in Procs : proc'[p].image = proc[p].image
  BY <1>9 DEF Live
<1>18. CountsInv'
  <2>1. TypeOK'
    <3>1. dref' \in [Images -> 0 .. Cardinality(Procs)]
      BY <1>2, <1>16 DEF CountsInv, TypeOK, imgs
    <3> QED
      BY <1>14, <1>15, <3>1 DEF Shape, TypeOK
  <2>2. RefcountExact' /\ TtyCountExact'
    BY <1>11 DEF RefcountExact, TtyCountExact
  <2>3. AreaShared'
    <3>1. \A i \in Images : {p \in Live : proc'[p].image = i} = {p \in Live : proc[p].image = i}
      BY <1>17 DEF Live
    <3> QED
      BY <1>2, <1>16, <1>17, <3>1 DEF CountsInv, AreaShared, imgs
  <2> QED
    BY <2>1, <2>2, <2>3 DEF CountsInv
<1>19. FamilyInv'
  BY <1>11 DEF FamilyInv, FamilyTree, Chain
<1>20. UsedIsKept'
  <2>1. NoEarlyEof'
    <3>1. Open(Procs)' = Open(Procs) /\ \A d \in Open(Procs) : /\ HandleOf(d)' = HandleOf(d)
                                                              /\ proc'[d[1]].fds = proc[d[1]].fds
      BY <1>9 DEF Open, HandleOf
    <3>2. \A h \in Handles : AtEof(h)' => AtEof(h)
      BY <1>13, ProcessesAssumption, FdsFinite DEF AtEof
    <3> QED
      BY <1>2, <1>16, <3>1, <3>2 DEF UsedIsKept, NoEarlyEof
  <2>2. TtyKept' /\ TtysEnd' /\ ClientKept'
    BY <1>2, <1>9, <1>11, <1>16, <1>17
       DEF UsedIsKept, TtyKept, TtysEnd, ClientKept, UnixLibOnly, ExecsAreLeaves, imgs, Live
  <2> QED
    BY <2>1, <2>2 DEF UsedIsKept
<1> QED
  BY <1>11, <1>12, <1>15, <1>18, <1>19, <1>20 DEF Stuck

LEMMA ForkFailsStep ==
  ASSUME Good, NEW how, NEW why, ForkFails(how, why)
  PROVE  Good' \/ Stuck'
<1>1. CASE why = "struct"
  <2>1. UNCHANGED <<prog, cur, proc, devs, imgs>> /\ dup' \in {dup, NULL}
    BY <1>1 DEF ForkFails, devs
  <2> QED
    BY <2>1, StillStep
<1>2. CASE why # "struct"
  BY <1>2, HalfFork
<1> QED
  BY <1>1, <1>2

(* Nothing happens then but the return of a dup2.                          *)
LEMMA StuckSpares ==
  ASSUME Stuck, [Next]_vars
  PROVE  UNCHANGED <<prog, cur, proc, devs, imgs, told>> /\ dup' \in {dup, NULL}
<1>1. ~Calls /\ ~Running /\ cur # NULL /\ told = NULL
  BY DEF Stuck, Calls, Running
<1>2. ~Start /\ ~ForeignExit
  BY DEF Stuck, Start, ForeignExit
<1>3. CASE UNCHANGED vars
  BY <1>3 DEF vars, devs, imgs
<1>4. CASE Dup2Returns
  BY <1>1, <1>4 DEF Dup2Returns
<1>5. CASE Over
  BY <1>5 DEF Over, vars, devs, imgs
<1>6. /\ \A k : ~OpenFd(k)
      /\ ~Pipe /\ ~Dup2Copy /\ ~WaitReturns
      /\ \A f : ~Close(f) /\ ~SetFd(f)
      /\ \A f, s : ~DupFd(f, s) /\ ~Dup2(f, s)
      /\ \A how : ~Fork(how) /\ ~Exec(how) /\ ~Exit(how)
      /\ \A how, why : ~ForkFails(how, why)
      /\ \A pid, nohang : ~Wait4(pid, nohang)
  BY <1>1 DEF OpenFd, Pipe, Dup2Copy, WaitReturns, Close, SetFd, DupFd, Dup2, Fork, Exec, Exit, ForkFails,
              MayFork, Wait4
<1> QED
  BY <1>2, <1>3, <1>4, <1>5, <1>6 DEF Next

LEMMA StuckStep ==
  ASSUME Stuck, [Next]_vars
  PROVE  Stuck'
<1>1. UNCHANGED <<prog, cur, proc, devs, imgs, told>> /\ dup' \in {dup, NULL}
  BY StuckSpares
<1>2. Shape'
  BY <1>1 DEF Stuck, Shape, devs, imgs
<1>3. /\ UNCHANGED <<prog, cur, proc, dev, refs, ttys, ttyref, clients, dref, areas, told>>
      /\ CountsInv /\ FamilyInv /\ UsedIsKept
  BY <1>1 DEF devs, imgs, Stuck
<1>4. CountsInv'
  BY <1>3 DEF CountsInv, TypeOK, RefcountExact, TtyCountExact, AreaShared, Live, Held, HandleOf, Open,
              ForksWhole, UnixLibOnly
<1>5. FamilyInv'
  BY <1>3 DEF FamilyInv, FamilyTree, Chain, Live, ForksWhole
<1>6. UsedIsKept'
  BY <1>3 DEF UsedIsKept, NoEarlyEof, TtyKept, TtysEnd, ClientKept, Live, HandleOf, Open, AtEof,
              ExecsAreLeaves, UnixLibOnly
<1> QED
  BY <1>2, <1>3, <1>4, <1>5, <1>6 DEF Stuck, ForksWhole, Intact, me

-----------------------------------------------------------------------------
(* The theorems.                                                           *)

LEMMA GoodInit ==
  ASSUME Init
  PROVE  Good
<1>1. PICK p \in Procs : cur = p /\ proc = [q \in Procs |-> IF q = p THEN FreshProc ELSE NoProc]
  BY DEF Init
<1>2. /\ prog \in Programs /\ dev = [h \in Handles |-> "free"] /\ refs = [h \in Handles |-> 0]
      /\ ttys = {} /\ ttyref = [t \in Ttys |-> 0] /\ clients = {} /\ dref = [i \in Images |-> 0]
      /\ areas = {} /\ dup = NULL
  BY DEF Init
<1>3. <<>> \in Seq(Procs) /\ Range(<<>>) = {} /\ DOMAIN <<>> = {}
  BY DEF Range
<1>4. /\ FreshProc \in ProcType /\ NoProc \in ProcType
      /\ FreshProc.st = "live" /\ FreshProc.ppid = NULL /\ FreshProc.kids = <<>> /\ FreshProc.fds = NoTable
      /\ FreshProc.tty = NULL /\ FreshProc.run = "starting" /\ FreshProc.image = NULL
      /\ ~FreshProc.forked /\ ~FreshProc.execed
      /\ NoProc.st = "free" /\ NoProc.ppid = NULL /\ NoProc.kids = <<>> /\ NoProc.fds = NoTable
      /\ NoProc.tty = NULL /\ NoProc.run = "starting" /\ NoProc.image = NULL
  <2>1. FreshProc \in ProcType
    BY <1>3, Typed DEF FreshProc, ProcType
  <2> QED
    BY <2>1, Typed DEF FreshProc, NoProc
<1>5. \A q \in Procs : /\ proc[q] = IF q = p THEN FreshProc ELSE NoProc
                       /\ proc[q].ppid = NULL /\ proc[q].kids = <<>> /\ proc[q].fds = NoTable
                       /\ proc[q].tty = NULL /\ proc[q].run = "starting" /\ proc[q].image = NULL
                       /\ proc[q].st = IF q = p THEN "live" ELSE "free"
  BY <1>1, <1>4
<1>6. Shape
  BY <1>1, <1>2, <1>4 DEF Shape
<1>7. \A q \in Procs : Table[q] = Empty /\ Console[q] = NULL /\ Image[q] = NULL
                       /\ \A f \in Fds : Table[q][f] = NULL
  BY <1>5 DEF Table, Console, Image, Empty, NoTable, Shut
<1>8. RefsInv
  <2> SUFFICES ASSUME NEW h \in Handles PROVE Count(Table, h) = 0
    BY <1>2 DEF RefsInv
  <2>1. ~ \E q \in Procs, f \in Fds : Table[q][f] = h
    BY <1>7, NullAssumption
  <2> QED
    BY <2>1, CountPositive
<1>9. TtysInv
  <2> SUFFICES ASSUME NEW t \in Ttys PROVE At(dev, t) = {} /\ At(Console, t) = {}
    BY <1>2, FS_EmptySet DEF TtysInv
  <2>1. \A h \in Handles : dev[h] # t
    BY <1>2, DevicesAssumption
  <2> QED
    BY <1>2, <1>7, <2>1, TableIs, NullAssumption DEF At, AtOf
<1>10. EmptyInv
  BY <1>5, <1>7 DEF EmptyInv
<1>11. KinInv
  <2> DEFINE s == <<p>>
  <2>1. s \in Seq(Procs) /\ Len(s) = 1 /\ DOMAIN s = {1} /\ s[1] = p
    OBVIOUS
  <2> HIDE DEF s
  <2>2. Line(proc, cur, s)
    BY <1>1, <1>3, <1>5, <2>1 DEF Line
  <2>3. \A q \in Procs : Range(proc[q].kids) = {} /\ DOMAIN proc[q].kids = {}
    BY <1>3, <1>5
  <2>4. \A q \in Procs : proc[q].ppid \notin Procs
    BY <1>5, NullAssumption
  <2>5. /\ \A q \in Procs : proc[q].kids \in Seq(Procs) /\ proc[q].ppid \in Procs \cup {NULL}
        /\ \A q \in Procs : proc[q].st # "zombie"
    BY <1>3, <1>5
  <2> QED
    BY <2>1, <2>2, <2>3, <2>4, <2>5 DEF KinInv, Kin
<1>12. ImagesInv
  <2>1. \A i \in Images : At(Image, i) = {}
    BY <1>7, TableIs, NullAssumption DEF At, AtOf
  <2>2. \A i \in Images : dref[i] = Cardinality(At(Image, i)) /\ (i \in areas => dref[i] > 0)
    BY <1>2, <2>1, FS_EmptySet
  <2> QED
    BY <1>1, <1>4, <1>5, <2>2 DEF ImagesInv
<1> QED
  BY <1>6, <1>8, <1>9, <1>10, <1>11, <1>12 DEF Good

(* Every step keeps the invariant.                                         *)
LEMMA InvNext ==
  ASSUME IInv, [Next]_vars
  PROVE  IInv'
<1>1. CASE Stuck
  BY <1>1, StuckStep DEF IInv
<1>2. CASE Good
  <2>1. ASSUME NEW k \in prog.kinds, OpenFd(k) PROVE Good'
    <3>1. k \in {"file", "pipe", "tty"}
      BY <1>2, ProcessesAssumption DEF Good, Shape, ProgramType
    <3> QED
      BY <1>2, <2>1, <3>1, OpenFdStep
  <2>2. CASE Pipe
    BY <1>2, <2>2, PipeStep DEF IInv
  <2>3. ASSUME NEW f \in Fds, Close(f) \/ SetFd(f) PROVE Good'
    BY <1>2, <2>3, CloseStep, SetFdStep
  <2>4. ASSUME NEW f \in Fds, NEW s \in Fds, DupFd(f, s) PROVE Good'
    BY <1>2, <2>4, DupFdStep
  <2>5. ASSUME NEW f1 \in Fds, NEW f2 \in Fds, Dup2(f1, f2) PROVE Good'
    BY <1>2, <2>5, Dup2Step
  <2>6. CASE Dup2Copy
    BY <1>2, <2>6, Dup2CopyStep DEF IInv
  <2>7. CASE Dup2Returns \/ WaitReturns \/ Over \/ UNCHANGED vars
    BY <1>2, <2>7, ReturnsStep DEF IInv
  <2>8. ASSUME NEW how \in prog.forks, Fork(how) PROVE Good'
    BY <1>2, <2>8, ForkStep
  <2>9. ASSUME NEW how \in prog.forks, NEW why \in prog.faults, ForkFails(how, why) PROVE Good' \/ Stuck'
    BY <1>2, <2>9, ForkFailsStep
  <2>10. ASSUME NEW what \in prog.execs, Exec(what) PROVE Good'
    BY <1>2, <2>10, ExecStep
  <2>11. CASE Start
    BY <1>2, <2>11, StartStep DEF IInv
  <2>12. ASSUME NEW how \in prog.ends, Exit(how) PROVE Good'
    BY <1>2, <2>12, ExitStep
  <2>13. CASE ForeignExit
    BY <1>2, <2>13, ForeignExitStep DEF IInv
  <2>14. ASSUME NEW pid, NEW nohang, Wait4(pid, nohang) PROVE Good'
    BY <1>2, <2>14, Wait4Step
  <2> QED
    BY <2>1, <2>2, <2>3, <2>4, <2>5, <2>6, <2>7, <2>8, <2>9, <2>10, <2>11, <2>12, <2>13, <2>14 DEF Next, IInv
<1> QED
  BY <1>1, <1>2 DEF IInv

LEMMA InvProperties ==
  ASSUME IInv
  PROVE  CountsInv /\ FamilyInv /\ UsedIsKept
BY GoodCounts, GoodFamily, GoodUsed DEF IInv, Stuck

LEMMA InvAlways == Spec => []IInv
<1>1. Init => IInv
  BY GoodInit DEF IInv
<1>2. IInv /\ [Next]_vars => IInv'
  BY InvNext
<1> QED
  BY <1>1, <1>2, PTL DEF Spec

(* A handle's count is the number of descriptors that refer to it, over    *)
(* running and suspended processes and zombies; a tty's the number of its  *)
(* handles and consoles; a dynamic area's the number of live processes in  *)
(* it: however opens, dup2s of other threads, forks, execs, ends and waits *)
(* follow each other (__close, sul_fork, __free_process, execve, _exit).   *)
THEOREM CountsCorrect == Spec => []CountsInv
<1>1. IInv => CountsInv
  BY InvProperties
<1> QED
  BY <1>1, InvAlways, PTL

(* Parents and lists of children agree, no structure is lost, and the live *)
(* processes are one chain that ends in the one that runs (sul_fork,       *)
(* sul_exit, __free_process, wait4).                                       *)
THEOREM FamilyCorrect == Spec => []FamilyInv
<1>1. IInv => FamilyInv
  BY InvProperties
<1> QED
  BY <1>1, InvAlways, PTL

(* No pipe reads as ended while somebody can write to it, no console is a  *)
(* tty that was freed, no tty outlives the last process, and no live       *)
(* process has lost its Shared Object Manager client.                      *)
THEOREM UsedCorrect == Spec => []UsedIsKept
<1>1. IInv => UsedIsKept
  BY InvProperties
<1> QED
  BY <1>1, InvAlways, PTL

(* How a zombie goes: with its parent, or when that one is told.           *)
Reaped(c) ==
  \/ told' # NULL /\ told'.ret = c /\ proc[c].ppid = cur
  \/ proc'[proc[c].ppid].st # "live"
  \/ proc'[proc[c].ppid].run # "unixlib"

LEMMA WaitReaps ==
  ASSUME Good, NEW c \in Procs, proc[c].st = "zombie", proc'[c].st = "free",
         NEW pid, NEW nohang, Wait4(pid, nohang)
  PROVE  Reaped(c)
<1>1. cur \in Procs /\ me = proc[cur] /\ me.kids \in Seq(Procs) /\ c # cur
  BY GoodFacts DEF Wait4, Calls, Running, me, ProcType
<1> DEFINE ready == {n \in DOMAIN me.kids : WaitType(pid, me.kids[n]) /\ proc[me.kids[n]].st = "zombie"}
           n == Min(ready)
           k == me.kids[n]
<1>2. ready # {}
  BY DEF Wait4
<1>3. /\ proc' = [Freed(k) EXCEPT ![cur].kids = RemoveAt(@, n)]
      /\ told' = Said(k, Converted(proc[k].end))
  BY <1>2 DEF Wait4
<1>4. n \in ready
  <2>1. ready \in SUBSET Nat
    BY <1>1
  <2> HIDE DEF ready
  <2> QED
    BY <1>2, <2>1, MinIn
<1>5. n \in DOMAIN me.kids /\ proc[k].st = "zombie"
  BY <1>4
<1> HIDE DEF n
<1>6. k \in Procs /\ k \in Range(proc[cur].kids)
  BY <1>1, <1>5 DEF Range
<1> HIDE DEF k
<1>7. proc[k].ppid = cur
  BY <1>1, <1>6 DEF Good, KinInv, Kin
<1>8. /\ cur \notin Gone(k) /\ Gone(k) \subseteq Procs
      /\ \A z \in Gone(k) : proc[z].ppid \in Gone(k) \cup {cur}
  BY <1>5, <1>6, <1>7, GoneIs
<1>9. /\ Freed(k) \in [Procs -> ProcType] /\ k \in Gone(k)
      /\ \A q \in Procs : Freed(k)[q] = IF q \in Gone(k) THEN NoProc ELSE IF q = k THEN Cleared(k) ELSE proc[q]
  <2>1. k \in Gone(k)
    BY <1>5 DEF Gone
  <2> QED
    BY <1>5, <1>6, <1>7, <2>1, FreedIs
<1>10. \A q \in Procs \ {cur} : proc'[q] = IF q \in Gone(k) THEN NoProc ELSE proc[q]
  BY <1>3, <1>9
<1>11. c \in Gone(k)
  BY <1>1, <1>10
<1>12. CASE proc[c].ppid = cur
  <2>1. c = k
    BY <1>1, <1>5, <1>6, <1>11, <1>12, GoneChild
  <2>2. told' \in [ret : Procs, end : {"none", "exit", "signal", "core"}] /\ told'.ret = k
    <3>1. proc[k].end \in {"none", "exit", "signal", "core"}
      BY <1>6, GoodFacts DEF ProcType
    <3> QED
      BY <1>3, <1>6, <3>1 DEF Said, Converted
  <2> QED
    BY <1>12, <2>1, <2>2, NullAssumption DEF Reaped
<1>13. CASE proc[c].ppid # cur
  <2>1. proc[c].ppid \in Gone(k) /\ proc[c].ppid \in Procs \ {cur}
    BY <1>8, <1>11, <1>13
  <2>2. proc'[proc[c].ppid] = NoProc
    BY <1>10, <2>1
  <2> QED
    BY <2>2 DEF Reaped, NoProc, FreshProc
<1> QED
  BY <1>12, <1>13

(* A process that ends, or execs without a parent, takes its zombies along.*)
LEMMA EndReaps ==
  ASSUME Good, NEW c \in Procs, proc[c].st = "zombie", proc'[c].st = "free", cur \in Procs,
         NEW r \in ProcType, proc' = [Freed(cur) EXCEPT ![cur] = r], r.st # "live" \/ r.run # "unixlib"
  PROVE  Reaped(c)
<1>1. proc[cur].st = "live"
  BY GoodFacts, NullAssumption DEF me
<1>2. /\ cur \notin Gone(cur) /\ Gone(cur) \subseteq Procs
      /\ \A z \in Gone(cur) : proc[z].ppid \in Gone(cur) \cup {cur}
  BY GoneIs
<1>3. /\ Freed(cur) \in [Procs -> ProcType]
      /\ \A q \in Procs : Freed(cur)[q] = IF q \in Gone(cur) THEN NoProc
                                          ELSE IF q = cur THEN Cleared(cur) ELSE proc[q]
  BY FreedIs
<1>4. /\ proc'[cur] = r
      /\ \A q \in Procs \ {cur} : proc'[q] = IF q \in Gone(cur) THEN NoProc ELSE proc[q]
  BY <1>3
<1>5. c \in Gone(cur)
  BY <1>1, <1>4
<1>6. CASE proc[c].ppid = cur
  BY <1>4, <1>6 DEF Reaped
<1>7. CASE proc[c].ppid # cur
  <2>1. proc[c].ppid \in Gone(cur) /\ proc[c].ppid \in Procs \ {cur}
    BY <1>2, <1>5, <1>7
  <2>2. proc'[proc[c].ppid] = NoProc
    BY <1>4, <2>1
  <2> QED
    BY <2>2 DEF Reaped, NoProc, FreshProc
<1> QED
  BY <1>6, <1>7

LEMMA ExitReaps ==
  ASSUME Good, NEW c \in Procs, proc[c].st = "zombie", proc'[c].st = "free", NEW how, Exit(how)
  PROVE  Reaped(c)
<1>1. /\ cur \in Procs /\ me \in ProcType /\ me = proc[cur]
      /\ prog \in ProgramType /\ how \in prog.ends
  BY GoodFacts, ProcessesAssumption DEF Exit, Calls, Running, Good, Shape, me
<1> DEFINE r == IF me.ppid = NULL THEN NoProc
                ELSE [Cleared(cur) EXCEPT !.st = "zombie", !.end = how, !.image = NULL]
<1>2. proc' = [Freed(cur) EXCEPT ![cur] = r]
  <2>1. Freed(cur)[cur] = Cleared(cur)
    BY <1>1, FreedIs, GoneIs
  <2> QED
    BY <2>1 DEF Exit, SulExit
<1>3. r \in ProcType /\ r.st # "live"
  <2>1. NoProc \in ProcType /\ NoProc.st = "free"
    BY Typed DEF NoProc, FreshProc
  <2>2. Cleared(cur) \in ProcType
    <3>1. <<>> \in Seq(Procs)
      OBVIOUS
    <3> QED
      BY <1>1, <3>1, Typed DEF Cleared, ProcType
  <2>3. how \in {"exit", "signal", "core"}
    BY <1>1 DEF ProgramType
  <2>4. [Cleared(cur) EXCEPT !.st = "zombie", !.end = how, !.image = NULL] \in ProcType
    BY <2>2, <2>3 DEF ProcType
  <2>5. [Cleared(cur) EXCEPT !.st = "zombie", !.end = how, !.image = NULL].st = "zombie"
    BY <2>2 DEF ProcType
  <2> QED
    BY <2>1, <2>4, <2>5
<1> HIDE DEF r
<1> QED
  BY <1>1, <1>2, <1>3, EndReaps

LEMMA ExecReaps ==
  ASSUME Good, NEW c \in Procs, proc[c].st = "zombie", proc'[c].st = "free", NEW what, Exec(what)
  PROVE  Reaped(c)
<1>1. cur \in Procs /\ me \in ProcType /\ me.st = "live" /\ me = proc[cur]
  BY GoodFacts DEF Exec, Calls, Running, me
<1> DEFINE next == IF what = "unixlib" THEN "starting" ELSE "foreign"
           from == IF me.ppid = NULL THEN Freed(cur) ELSE [proc EXCEPT ![cur].fds = [f \in Fds |-> me.fds[f]]]
<1>2. proc' = [from EXCEPT ![cur].run = next, ![cur].execed = TRUE,
                           ![cur].image = NULL, ![cur].shares = FALSE]
  BY DEF Exec, ExecCloses
<1>3. CASE me.ppid # NULL
  <2>1. \A q \in Procs \ {cur} : from[q] = proc[q]
    BY <1>3 DEF Good, Shape
  <2>2. DOMAIN from = Procs
    BY <1>3 DEF Good, Shape
  <2> HIDE DEF from
  <2>3. \A q \in Procs \ {cur} : proc'[q] = proc[q]
    BY <1>2, <2>1, <2>2
  <2> QED
    BY <1>1, <2>3
<1>4. CASE me.ppid = NULL
  <2>1. /\ Freed(cur) \in [Procs -> ProcType] /\ Freed(cur)[cur] = Cleared(cur)
        /\ from = Freed(cur) /\ Cleared(cur) \in ProcType
    BY <1>1, <1>4, FreedIs, GoneIs
  <2> DEFINE r == [Cleared(cur) EXCEPT !.run = next, !.execed = TRUE, !.image = NULL, !.shares = FALSE]
  <2>2. next \in {"starting", "foreign"}
    OBVIOUS
  <2> HIDE DEF from, next
  <2>3. proc' = [Freed(cur) EXCEPT ![cur] = r]
    BY <1>1, <1>2, <2>1
  <2>4. r \in ProcType /\ r.run # "unixlib"
    BY <2>1, <2>2 DEF ProcType
  <2> HIDE DEF r
  <2> QED
    BY <1>1, <2>3, <2>4, EndReaps
<1> QED
  BY <1>3, <1>4

(* No other step touches a zombie.                                         *)
LEMMA OthersSpare ==
  ASSUME Good, NEW c \in Procs, proc[c].st = "zombie",
         \/ \E k \in prog.kinds : OpenFd(k)
         \/ Pipe
         \/ \E f \in Fds : Close(f) \/ SetFd(f)
         \/ \E f, s \in Fds : DupFd(f, s)
         \/ \E f1, f2 \in Fds : Dup2(f1, f2)
         \/ Dup2Copy \/ Start \/ ForeignExit
         \/ Dup2Returns \/ WaitReturns \/ Over \/ UNCHANGED vars
         \/ \E how \in prog.forks : Fork(how) \/ (\E why \in prog.faults : ForkFails(how, why))
  PROVE  proc'[c].st = "zombie"
<1>1. /\ c # cur /\ DOMAIN proc = Procs
  BY GoodFacts, NullAssumption DEF me, Good, Shape
<1>2. CASE \E k \in prog.kinds : OpenFd(k)
  BY <1>1, <1>2 DEF OpenFd
<1>3. CASE Pipe
  BY <1>1, <1>3 DEF Pipe
<1>4. CASE \E f \in Fds : Close(f) \/ SetFd(f)
  BY <1>1, <1>4 DEF Close, CloseFd, SetFd
<1>5. CASE \E f, s \in Fds : DupFd(f, s)
  BY <1>1, <1>5 DEF DupFd, Copy
<1>6. CASE \E f1, f2 \in Fds : Dup2(f1, f2)
  BY <1>1, <1>6 DEF Dup2, CloseFd
<1>7. CASE Dup2Copy
  BY <1>1, <1>7 DEF Dup2Copy, Copy
<1>8. CASE Start
  <2> DEFINE std(h0, h1) == [[[NoTable EXCEPT ![0] = Desc(h0, FALSE)]
                                EXCEPT ![1] = Desc(h1, TRUE)]
                                EXCEPT ![2] = Desc(h1, TRUE)]
  <2>1. PICK i \in FreeImages :
          LET on == [proc EXCEPT ![cur].run = "unixlib", ![cur].image = i]
          IN  IF me.ppid # NULL
                THEN proc' = on /\ UNCHANGED devs
                ELSE \E h0, h1 \in Unused :
                       /\ h0 # h1
                       /\ refs' = [refs EXCEPT ![h0] = 1, ![h1] = 2]
                       /\ LET fit == [on EXCEPT ![cur].fds = std(h0, h1)]
                          IN  IF prog.redirected
                                THEN /\ dev' = [dev EXCEPT ![h0] = "file", ![h1] = "file"]
                                     /\ proc' = fit
                                     /\ UNCHANGED <<ttys, ttyref>>
                                ELSE \E t \in Ttys \ ttys :
                                       /\ dev' = [dev EXCEPT ![h0] = t, ![h1] = t]
                                       /\ ttys' = ttys \cup {t}
                                       /\ ttyref' = [ttyref EXCEPT ![t] = NewTtyRefs + 1]
                                       /\ proc' = [fit EXCEPT ![cur].tty = t]
    BY <1>8 DEF Start
  <2> HIDE DEF std
  <2>2. CASE me.ppid # NULL
    BY <1>1, <2>1, <2>2
  <2>3. CASE me.ppid = NULL
    <3>1. PICK h0, h1 \in Unused :
            /\ h0 # h1
            /\ refs' = [refs EXCEPT ![h0] = 1, ![h1] = 2]
            /\ LET fit == [[proc EXCEPT ![cur].run = "unixlib", ![cur].image = i]
                             EXCEPT ![cur].fds = std(h0, h1)]
               IN  IF prog.redirected
                     THEN /\ dev' = [dev EXCEPT ![h0] = "file", ![h1] = "file"]
                          /\ proc' = fit
                          /\ UNCHANGED <<ttys, ttyref>>
                     ELSE \E t \in Ttys \ ttys :
                            /\ dev' = [dev EXCEPT ![h0] = t, ![h1] = t]
                            /\ ttys' = ttys \cup {t}
                            /\ ttyref' = [ttyref EXCEPT ![t] = NewTtyRefs + 1]
                            /\ proc' = [fit EXCEPT ![cur].tty = t]
      BY <2>1, <2>3
    <3> DEFINE fit == [[proc EXCEPT ![cur].run = "unixlib", ![cur].image = i]
                         EXCEPT ![cur].fds = std(h0, h1)]
    <3>2. proc' = fit \/ \E t : proc' = [fit EXCEPT ![cur].tty = t]
      <4> HIDE DEF fit
      <4>1. IF prog.redirected THEN proc' = fit ELSE \E t \in Ttys \ ttys : proc' = [fit EXCEPT ![cur].tty = t]
        BY <3>1 DEF fit
      <4> QED
        BY <4>1
    <3>3. fit[c] = proc[c] /\ DOMAIN fit = Procs
      BY <1>1
    <3> HIDE DEF fit
    <3> QED
      BY <1>1, <3>2, <3>3
  <2> QED
    BY <2>2, <2>3
<1>9. CASE ForeignExit
  BY <1>1, <1>9 DEF ForeignExit, SulExit
<1>10. CASE Dup2Returns \/ WaitReturns \/ Over \/ UNCHANGED vars
  BY <1>10 DEF Dup2Returns, WaitReturns, Over, vars
<1>11. CASE \E how \in prog.forks : Fork(how)
  BY <1>1, <1>11 DEF Fork, Linked
<1>12. CASE \E how \in prog.forks : \E why \in prog.faults : ForkFails(how, why)
  BY <1>1, <1>12 DEF ForkFails, Linked
<1> QED
  BY <1>2, <1>3, <1>4, <1>5, <1>6, <1>7, <1>8, <1>9, <1>10, <1>11, <1>12

(* A zombie is freed when its parent is told how it ended, or with that    *)
(* parent, when it ends or execs (wait4, __free_process).                  *)
THEOREM ReapedCorrect == Spec => ReapedByParent
<1>1. ASSUME IInv, [Next]_vars, NEW c \in Procs, proc[c].st = "zombie", proc'[c].st = "free"
      PROVE  Reaped(c)
  <2>1. CASE Stuck
    <3>1. UNCHANGED proc
      BY <1>1, <2>1, StuckSpares
    <3> QED
      BY <1>1, <3>1
  <2>2. CASE Good
    <3>1. ASSUME NEW pid, NEW nohang, Wait4(pid, nohang) PROVE Reaped(c)
      BY <1>1, <2>2, <3>1, WaitReaps
    <3>2. ASSUME NEW how, Exit(how) PROVE Reaped(c)
      BY <1>1, <2>2, <3>2, ExitReaps
    <3>3. ASSUME NEW what, Exec(what) PROVE Reaped(c)
      BY <1>1, <2>2, <3>3, ExecReaps
    <3>4. \/ \E k \in prog.kinds : OpenFd(k)
          \/ Pipe
          \/ \E f \in Fds : Close(f) \/ SetFd(f)
          \/ \E f, s \in Fds : DupFd(f, s)
          \/ \E f1, f2 \in Fds : Dup2(f1, f2)
          \/ Dup2Copy \/ Start \/ ForeignExit
          \/ Dup2Returns \/ WaitReturns \/ Over \/ UNCHANGED vars
          \/ \E how \in prog.forks : Fork(how) \/ (\E why \in prog.faults : ForkFails(how, why))
          \/ \E pid, nohang : Wait4(pid, nohang)
          \/ \E how : Exit(how)
          \/ \E what : Exec(what)
      BY <1>1 DEF Next
    <3> QED
      BY <1>1, <2>2, <3>1, <3>2, <3>3, <3>4, OthersSpare
  <2> QED
    BY <1>1, <2>1, <2>2 DEF IInv
<1>2. IInv /\ [Next]_vars =>
        [\A c \in Procs :
           proc[c].st = "zombie" /\ proc'[c].st = "free" =>
             \/ told' # NULL /\ told'.ret = c /\ proc[c].ppid = cur
             \/ proc'[proc[c].ppid].st # "live"
             \/ proc'[proc[c].ppid].run # "unixlib"]_vars
  BY <1>1 DEF Reaped
<1> QED
  BY <1>2, InvAlways, PTL DEF Spec, ReapedByParent
=============================================================================
