------------------------- MODULE PthreadCondProofs -------------------------
(***************************************************************************)
(* Condition variables, for any finite set of threads and any conditions:  *)
(* the waiting lists that cond.c threads through the nodes are lists, who  *)
(* wakes up has a reason, and the code implements the queues of CondSpec.  *)
(*                                                                         *)
(* A list is a head and links; the proofs speak of it as of a sequence.    *)
(***************************************************************************)
EXTENDS PthreadCond, TLAPS, FiniteSetTheorems, FunctionTheorems, SequenceTheorems,
        WellFoundedInduction

-----------------------------------------------------------------------------
\* From the head h the links give s, one thread after the other.
Chain(h, s, link) ==
  /\ s \in Seq(Threads)
  /\ \A i, j \in 1 .. Len(s) : s[i] = s[j] => i = j
  /\ h = IF Len(s) = 0 THEN NULL ELSE s[1]
  /\ \A i \in 1 .. Len(s) : link[s[i]] = IF i = Len(s) THEN NULL ELSE s[i + 1]

Elements(s) == {s[i] : i \in 1 .. Len(s)}

\* A set of positions has a first.
LEMMA FirstPosition ==
  ASSUME NEW S \in SUBSET Nat, S # {}
  PROVE  \E i \in S : \A j \in S : i <= j
<1>1. \E i \in S : \A j \in S : ~(<<j, i>> \in OpToRel(<, Nat))
  BY NatLessThanWellFounded, WFMin
<1>2. ASSUME NEW i \in Nat, NEW j \in Nat, j < i PROVE <<j, i>> \in OpToRel(<, Nat)
  BY <1>2 DEF OpToRel
<1>3. PICK i \in S : \A j \in S : ~(<<j, i>> \in OpToRel(<, Nat))
  BY <1>1
<1>4. \A j \in S : ~(j < i)
  BY <1>2, <1>3
<1> QED
  BY <1>4

\* A list in which no thread is twice is no longer than there are threads.
LEMMA ChainLength ==
  ASSUME NEW h, NEW s, Chain(h, s, nextwait)
  PROVE  /\ Cardinality(Threads) \in Nat /\ Len(s) \in Nat
         /\ Len(s) <= Cardinality(Threads)
         /\ Cardinality(Elements(s)) = Len(s)
<1>1. s \in Seq(Threads) /\ Len(s) \in Nat /\ DOMAIN s = 1 .. Len(s)
  BY DEF Chain
<1>2. IsFiniteSet(1 .. Len(s)) /\ Cardinality(1 .. Len(s)) = Len(s)
  BY <1>1, FS_Interval
<1>3. s \in [1 .. Len(s) -> Threads]
  BY <1>1
<1>4. s \in Injection(1 .. Len(s), Threads)
  BY <1>3 DEF Chain, Injection, IsInjective
<1>5. Cardinality(Threads) \in Nat /\ Cardinality(1 .. Len(s)) <= Cardinality(Threads)
  BY <1>4, ThreadsAssumption, FS_Injection, FS_CardinalityType
<1>6. s \in Bijection(1 .. Len(s), Elements(s))
  BY <1>3 DEF Chain, Bijection, Injection, Surjection, IsInjective, Elements
<1>7. ExistsBijection(1 .. Len(s), Elements(s))
  BY <1>6 DEF ExistsBijection
<1>8. Cardinality(Elements(s)) = Len(s)
  BY <1>1, <1>7, FS_CountingElements
<1> QED
  BY <1>1, <1>2, <1>5, <1>8

\* Following the links of a list gives its elements one after the other.
LEMMA ChainNode ==
  ASSUME NEW h, NEW s, Chain(h, s, nextwait), NEW n \in 0 .. Cardinality(Threads)
  PROVE  Node(h, n) = IF n < Len(s) THEN s[n + 1] ELSE NULL
<1> DEFINE N == Cardinality(Threads)
           step(f) == [k \in 0 .. N |->
                         IF k = 0 THEN h
                         ELSE IF f[k - 1] = NULL THEN NULL ELSE nextwait[f[k - 1]]]
           g == [k \in 0 .. N |-> IF k < Len(s) THEN s[k + 1] ELSE NULL]
           f == CHOOSE x : x = step(x)
<1>0. N \in Nat /\ Len(s) \in Nat /\ Len(s) <= N
  BY ChainLength
<1>a. \A i \in 1 .. Len(s) : s[i] # NULL
  BY NullAssumption DEF Chain
<1> HIDE DEF N
<1>1. ASSUME NEW k \in 0 .. N
      PROVE  g[k] = IF k = 0 THEN h ELSE IF g[k - 1] = NULL THEN NULL ELSE nextwait[g[k - 1]]
  <2>1. CASE k = 0
    BY <1>0, <2>1 DEF Chain
  <2>2. CASE k # 0 /\ k - 1 < Len(s)
    <3>1. k \in 1 .. Len(s) /\ g[k - 1] = s[k] /\ g[k - 1] # NULL
      BY <1>0, <1>a, <2>2
    <3>2. nextwait[s[k]] = IF k = Len(s) THEN NULL ELSE s[k + 1]
      BY <3>1 DEF Chain
    <3> QED
      BY <1>0, <2>2, <3>1, <3>2
  <2>3. CASE k # 0 /\ ~(k - 1 < Len(s))
    BY <1>0, <2>3
  <2> QED
    BY <2>1, <2>2, <2>3
<1>2. g = step(g)
  BY <1>1
<1> HIDE DEF g
<1>3. f = step(f)
  BY <1>2
<1>4. Node(h, n) = f[n]
  BY DEF Node, N
<1>5. ASSUME NEW k \in 0 .. N
      PROVE  f[k] = IF k = 0 THEN h ELSE IF f[k - 1] = NULL THEN NULL ELSE nextwait[f[k - 1]]
  BY <1>3
<1> HIDE DEF f
<1>6. \A k \in 0 .. N : f[k] = g[k]
  <2> DEFINE B == {k \in 0 .. N : f[k] # g[k]}
  <2> SUFFICES ASSUME B # {} PROVE FALSE
    OBVIOUS
  <2>1. B \in SUBSET Nat
    BY <1>0
  <2>2. PICK k \in B : \A j \in B : k <= j
    BY <2>1, FirstPosition
  <2>3. k \in 0 .. N /\ f[k] # g[k]
    BY <2>2
  <2>4. CASE k = 0
    BY <1>1, <1>5, <2>3, <2>4
  <2>5. CASE k # 0
    <3>1. k - 1 \in 0 .. N /\ ~(k <= k - 1)
      BY <1>0, <2>3, <2>5
    <3>2. f[k - 1] = g[k - 1]
      BY <2>2, <3>1
    <3> QED
      BY <1>1, <1>5, <2>3, <2>5, <3>2
  <2> QED
    BY <2>4, <2>5
<1> QED
  BY <1>4, <1>6 DEF g, N

\* So it ends, and Members and List are what they are meant to be.
LEMMA ChainList ==
  ASSUME NEW h, NEW s, Chain(h, s, nextwait)
  PROVE  Ends(h) /\ Members(h) = Elements(s) /\ List(h) = s
<1>0. /\ Cardinality(Threads) \in Nat /\ Len(s) \in Nat /\ Len(s) <= Cardinality(Threads)
      /\ Cardinality(Elements(s)) = Len(s)
  BY ChainLength
<1>1. \A n \in 0 .. Cardinality(Threads) : Node(h, n) = IF n < Len(s) THEN s[n + 1] ELSE NULL
  BY ChainNode
<1>2. Ends(h)
  BY <1>0, <1>1 DEF Ends
<1>3. s \in Seq(Threads) /\ \A i \in 1 .. Len(s) : s[i] \in Threads /\ s[i] # NULL
  BY NullAssumption DEF Chain
<1>4. Members(h) = Elements(s)
  <2>1. ASSUME NEW x \in Members(h) PROVE x \in Elements(s)
    <3>1. PICK n \in 0 .. Cardinality(Threads) : x = Node(h, n) /\ x # NULL
      BY <2>1 DEF Members
    <3>2. n < Len(s) /\ x = s[n + 1] /\ n + 1 \in 1 .. Len(s)
      BY <1>0, <1>1, <3>1
    <3> QED
      BY <3>2 DEF Elements
  <2>2. ASSUME NEW x \in Elements(s) PROVE x \in Members(h)
    <3>1. PICK i \in 1 .. Len(s) : x = s[i]
      BY <2>2 DEF Elements
    <3>2. i - 1 \in 0 .. Cardinality(Threads) /\ i - 1 < Len(s) /\ (i - 1) + 1 = i
      BY <1>0
    <3>3. Node(h, i - 1) = s[i]
      BY <1>1, <3>2
    <3> QED
      BY <1>3, <3>1, <3>2, <3>3 DEF Members
  <2> QED
    BY <2>1, <2>2
<1>5. List(h) = [i \in 1 .. Len(s) |-> Node(h, i - 1)]
  BY <1>0, <1>4 DEF List
<1>6. \A i \in 1 .. Len(s) : Node(h, i - 1) = s[i]
  <2> TAKE i \in 1 .. Len(s)
  <2>1. i - 1 \in 0 .. Cardinality(Threads) /\ i - 1 < Len(s) /\ (i - 1) + 1 = i
    BY <1>0
  <2> QED
    BY <1>1, <2>1
<1>7. s = [i \in 1 .. Len(s) |-> s[i]]
  BY <1>3
<1> QED
  BY <1>2, <1>4, <1>5, <1>6, <1>7

\* A list is not changed by a change of other threads' links.
LEMMA ChainFrame ==
  ASSUME NEW h, NEW s, NEW link, NEW new, Chain(h, s, link),
         \A u \in Elements(s) : new[u] = link[u]
  PROVE  Chain(h, s, new)
BY DEF Chain, Elements

\* Appending a thread that is not in the list.
LEMMA ChainAppend ==
  ASSUME NEW h, NEW s, NEW t \in Threads, Chain(h, s, nextwait), t \notin Elements(s)
  PROVE  /\ Chain(NewHead(h, t), Append(s, t), NewLinks(h, t))
         /\ Elements(Append(s, t)) = Elements(s) \cup {t}
         /\ \A u \in Threads : u \notin Elements(s) /\ u # t => NewLinks(h, t)[u] = nextwait[u]
<1> DEFINE r == Append(s, t)
<1>0. s \in Seq(Threads) /\ Len(s) \in Nat /\ \A i \in 1 .. Len(s) : s[i] \in Threads
  BY DEF Chain
<1>1. /\ r \in Seq(Threads) /\ Len(r) = Len(s) + 1 /\ r[Len(s) + 1] = t
      /\ \A i \in 1 .. Len(s) : r[i] = s[i]
  BY <1>0
<1>2. Members(h) = Elements(s)
  BY ChainList
<1>3. \A u \in Threads : u \notin Elements(s) /\ u # t => NewLinks(h, t)[u] = nextwait[u]
  BY <1>2 DEF NewLinks
<1>4. \A i \in 1 .. Len(s) : s[i] # t /\ s[i] \in Elements(s)
  BY DEF Elements
<1> HIDE DEF r
<1>5. Elements(r) = Elements(s) \cup {t}
  <2>1. ASSUME NEW x \in Elements(r) PROVE x \in Elements(s) \cup {t}
    <3>1. PICK i \in 1 .. Len(r) : x = r[i]
      BY DEF Elements
    <3>2. i = Len(s) + 1 \/ i \in 1 .. Len(s)
      BY <1>0, <1>1
    <3> QED
      BY <1>1, <1>4, <3>1, <3>2
  <2>2. ASSUME NEW x \in Elements(s) \cup {t} PROVE x \in Elements(r)
    <3>1. CASE x = t
      BY <1>0, <1>1, <3>1 DEF Elements
    <3>2. CASE x \in Elements(s)
      <4>1. PICK i \in 1 .. Len(s) : x = s[i]
        BY <3>2 DEF Elements
      <4>2. i \in 1 .. Len(r) /\ x = r[i]
        BY <1>0, <1>1, <4>1
      <4> QED
        BY <4>2 DEF Elements
    <3> QED
      BY <3>1, <3>2
  <2> QED
    BY <2>1, <2>2
<1>6. ASSUME NEW i \in 1 .. Len(r), NEW j \in 1 .. Len(r), r[i] = r[j] PROVE i = j
  <2>1. i \in 1 .. Len(s) /\ j \in 1 .. Len(s) => i = j
    BY <1>1, <1>6 DEF Chain
  <2> QED
    BY <1>0, <1>1, <1>4, <1>6, <2>1
<1>7. NewHead(h, t) = r[1]
  <2>1. CASE Len(s) = 0
    BY <1>1, <2>1 DEF Chain, NewHead
  <2>2. CASE Len(s) # 0
    <3>1. 1 \in 1 .. Len(s) /\ h = s[1] /\ h # NULL
      BY <1>0, <2>2, NullAssumption DEF Chain
    <3> QED
      BY <1>1, <3>1 DEF NewHead
  <2> QED
    BY <2>1, <2>2
<1>8. ASSUME NEW i \in 1 .. Len(r)
      PROVE  NewLinks(h, t)[r[i]] = IF i = Len(r) THEN NULL ELSE r[i + 1]
  <2>1. CASE i = Len(s) + 1
    BY <1>1, <2>1 DEF NewLinks
  <2>2. CASE i = Len(s)
    <3>1. i \in 1 .. Len(s) /\ nextwait[s[i]] = NULL /\ i # Len(r) /\ r[i + 1] = t /\ r[i] = s[i]
      BY <1>0, <1>1, <2>2 DEF Chain
    <3>2. NewLinks(h, t)[s[i]] = t
      BY <1>0, <1>2, <1>4, <3>1 DEF NewLinks
    <3> QED
      BY <3>1, <3>2
  <2>3. CASE i < Len(s)
    <3>1. i \in 1 .. Len(s) /\ i + 1 \in 1 .. Len(s) /\ i # Len(r) /\ r[i + 1] = s[i + 1] /\ r[i] = s[i]
      BY <1>0, <1>1, <2>3
    <3>2. nextwait[s[i]] = s[i + 1] /\ s[i + 1] # NULL
      BY <1>0, <2>3, <3>1, NullAssumption DEF Chain
    <3>3. NewLinks(h, t)[s[i]] = nextwait[s[i]]
      BY <1>0, <1>4, <3>1, <3>2 DEF NewLinks
    <3> QED
      BY <3>1, <3>2, <3>3
  <2> QED
    BY <1>0, <1>1, <2>1, <2>2, <2>3
<1>9. Chain(NewHead(h, t), r, NewLinks(h, t))
  BY <1>0, <1>1, <1>6, <1>7, <1>8 DEF Chain
<1> QED
  BY <1>3, <1>5, <1>9 DEF r

\* The list s without its p-th element.
Without(s, p) == SubSeq(s, 1, p - 1) \o SubSeq(s, p + 1, Len(s))

\* Its elements are those of s up to p, and the next ones after it.
LEMMA WithoutIndex ==
  ASSUME NEW S, NEW s \in Seq(S), NEW p \in 1 .. Len(s)
  PROVE  /\ Without(s, p) \in Seq(S) /\ Len(s) \in Nat /\ Len(Without(s, p)) = Len(s) - 1
         /\ \A i \in 1 .. Len(s) - 1 : Without(s, p)[i] = IF i < p THEN s[i] ELSE s[i + 1]
<1> DEFINE a == SubSeq(s, 1, p - 1)
           b == SubSeq(s, p + 1, Len(s))
<1>0. Len(s) \in Nat
  OBVIOUS
<1>1. a \in Seq(S) /\ Len(a) = p - 1 /\ \A i \in 1 .. p - 1 : a[i] = s[i]
  OBVIOUS
<1>2. b \in Seq(S) /\ Len(b) = Len(s) - p /\ \A i \in 1 .. Len(s) - p : b[i] = s[p + i]
  OBVIOUS
<1> HIDE DEF a, b
<1>3. /\ a \o b \in Seq(S) /\ Len(a \o b) = Len(s) - 1
      /\ \A i \in 1 .. Len(s) - 1 : (a \o b)[i] = IF i <= p - 1 THEN a[i] ELSE b[i - (p - 1)]
  <2>1. /\ a \o b \in Seq(S) /\ Len(a \o b) = Len(a) + Len(b)
        /\ \A i \in 1 .. Len(a) + Len(b) : (a \o b)[i] = IF i <= Len(a) THEN a[i] ELSE b[i - Len(a)]
    BY <1>1, <1>2, ConcatProperties
  <2>2. Len(a) + Len(b) = Len(s) - 1
    BY <1>0, <1>1, <1>2
  <2> QED
    BY <1>1, <2>1, <2>2
<1>4. ASSUME NEW i \in 1 .. Len(s) - 1
      PROVE  (a \o b)[i] = IF i < p THEN s[i] ELSE s[i + 1]
  <2>1. CASE i < p
    BY <1>0, <1>1, <1>3, <2>1
  <2>2. CASE ~(i < p)
    <3>1. i - (p - 1) \in 1 .. Len(s) - p /\ p + (i - (p - 1)) = i + 1
      BY <1>0, <2>2
    <3> QED
      BY <1>0, <1>2, <1>3, <2>2, <3>1
  <2> QED
    BY <2>1, <2>2
<1> QED
  BY <1>0, <1>3, <1>4 DEF Without, a, b

\* Taking a thread out of its list.
LEMMA ChainWithout ==
  ASSUME NEW h, NEW s, Chain(h, s, nextwait), NEW p \in 1 .. Len(s), NEW t, t = s[p]
  PROVE  /\ Chain(HeadWithout(h, t), Without(s, p), LinksWithout(h, t))
         /\ Elements(Without(s, p)) = Elements(s) \ {t}
         /\ \A u \in Threads : u \notin Elements(s) \/ u = t => LinksWithout(h, t)[u] = nextwait[u]
<1> DEFINE r == Without(s, p)
<1>0. s \in Seq(Threads) /\ Len(s) \in Nat /\ \A i \in 1 .. Len(s) : s[i] \in Threads
  BY DEF Chain
<1>1. /\ r \in Seq(Threads) /\ Len(r) = Len(s) - 1
      /\ \A i \in 1 .. Len(s) - 1 : r[i] = IF i < p THEN s[i] ELSE s[i + 1]
  BY <1>0, WithoutIndex
<1>2. Members(h) = Elements(s)
  BY ChainList
<1>a. \A i \in 1 .. Len(s) : s[i] = t => i = p
  BY DEF Chain
<1>b. \A i \in 1 .. Len(s) : nextwait[s[i]] = t => i + 1 = p
  <2> SUFFICES ASSUME NEW i \in 1 .. Len(s), nextwait[s[i]] = t PROVE i + 1 = p
    OBVIOUS
  <2>1. t # NULL
    BY <1>0, NullAssumption
  <2>2. i # Len(s) /\ s[i + 1] = t /\ i + 1 \in 1 .. Len(s)
    BY <1>0, <2>1 DEF Chain
  <2> QED
    BY <1>a, <2>2
<1>c. h = t <=> p = 1
  BY <1>0, <1>a DEF Chain
<1>3. \A u \in Threads : u \notin Elements(s) \/ u = t => LinksWithout(h, t)[u] = nextwait[u]
  BY <1>2 DEF LinksWithout
<1> HIDE DEF r
<1>5. Elements(r) = Elements(s) \ {t}
  <2>1. ASSUME NEW x \in Elements(r) PROVE x \in Elements(s) \ {t}
    <3>1. PICK i \in 1 .. Len(s) - 1 : x = r[i]
      BY <1>1 DEF Elements
    <3>2. PICK j \in 1 .. Len(s) : x = s[j] /\ j # p
      BY <1>0, <1>1, <3>1
    <3> QED
      BY <1>a, <3>2 DEF Elements
  <2>2. ASSUME NEW x \in Elements(s) \ {t} PROVE x \in Elements(r)
    <3>1. PICK i \in 1 .. Len(s) : x = s[i] /\ i # p
      BY DEF Elements
    <3>2. CASE i < p
      <4>1. i \in 1 .. Len(r) /\ x = r[i]
        BY <1>0, <1>1, <3>1, <3>2
      <4> QED
        BY <4>1 DEF Elements
    <3>3. CASE ~(i < p)
      <4>1. i - 1 \in 1 .. Len(r) /\ x = r[i - 1]
        BY <1>0, <1>1, <3>1, <3>3
      <4> QED
        BY <4>1 DEF Elements
    <3> QED
      BY <3>2, <3>3
  <2> QED
    BY <2>1, <2>2
<1>6. ASSUME NEW i \in 1 .. Len(r), NEW j \in 1 .. Len(r), r[i] = r[j] PROVE i = j
  <2>1. PICK k \in 1 .. Len(s) : r[i] = s[k] /\ k = IF i < p THEN i ELSE i + 1
    BY <1>0, <1>1
  <2>2. PICK m \in 1 .. Len(s) : r[j] = s[m] /\ m = IF j < p THEN j ELSE j + 1
    BY <1>0, <1>1
  <2>3. k = m
    BY <1>6, <2>1, <2>2 DEF Chain
  <2> QED
    BY <1>0, <1>1, <2>1, <2>2, <2>3
<1>t. nextwait[t] = IF p = Len(s) THEN NULL ELSE s[p + 1]
  BY DEF Chain
<1>7. HeadWithout(h, t) = IF Len(r) = 0 THEN NULL ELSE r[1]
  <2>1. CASE p = 1
    BY <1>0, <1>1, <1>c, <1>t, <2>1 DEF HeadWithout
  <2>2. CASE p # 1
    <3>1. HeadWithout(h, t) = h /\ Len(s) # 0 /\ Len(r) # 0 /\ 1 \in 1 .. Len(s) - 1 /\ 1 < p
      BY <1>0, <1>1, <1>c, <2>2 DEF HeadWithout
    <3> QED
      BY <1>1, <3>1 DEF Chain
  <2> QED
    BY <2>1, <2>2
<1>8. ASSUME NEW i \in 1 .. Len(r)
      PROVE  LinksWithout(h, t)[r[i]] = IF i = Len(r) THEN NULL ELSE r[i + 1]
  <2>1. CASE i + 1 = p
    <3>1. i \in 1 .. Len(s) /\ r[i] = s[i] /\ nextwait[s[i]] = t /\ s[i] \in Elements(s)
      BY <1>0, <1>1, <2>1 DEF Chain, Elements
    <3>2. LinksWithout(h, t)[s[i]] = nextwait[t]
      BY <1>0, <1>2, <1>c, <2>1, <3>1 DEF LinksWithout
    <3> QED
      BY <1>0, <1>1, <1>t, <2>1, <3>1, <3>2
  <2>2. CASE i + 1 < p
    <3>1. i \in 1 .. Len(s) /\ i + 1 \in 1 .. Len(s) /\ r[i] = s[i] /\ i # Len(r) /\ r[i + 1] = s[i + 1]
      BY <1>0, <1>1, <2>2
    <3>2. nextwait[s[i]] = s[i + 1]
      BY <1>0, <2>2, <3>1 DEF Chain
    <3>3. LinksWithout(h, t)[s[i]] = nextwait[s[i]]
      BY <1>0, <1>b, <2>2, <3>1 DEF LinksWithout
    <3> QED
      BY <3>1, <3>2, <3>3
  <2>3. CASE p <= i
    <3>1. i + 1 \in 1 .. Len(s) /\ r[i] = s[i + 1] /\ (i # Len(r) => r[i + 1] = s[i + 1 + 1])
      BY <1>0, <1>1, <2>3
    <3>2. nextwait[s[i + 1]] = IF i + 1 = Len(s) THEN NULL ELSE s[i + 1 + 1]
      BY <3>1 DEF Chain
    <3>3. LinksWithout(h, t)[s[i + 1]] = nextwait[s[i + 1]]
      <4>1. s[i + 1] \in Threads /\ ~(nextwait[s[i + 1]] = t)
        <5>1. ~((i + 1) + 1 = p)
          BY <2>3, <1>0, <1>1
        <5> QED
          BY <1>0, <1>b, <3>1, <5>1
      <4> QED
        BY <4>1 DEF LinksWithout
    <3>4. i = Len(r) <=> i + 1 = Len(s)
      BY <1>0, <1>1
    <3> QED
      BY <3>1, <3>2, <3>3, <3>4
  <2> QED
    BY <1>0, <1>1, <2>1, <2>2, <2>3
<1>9. Chain(HeadWithout(h, t), r, LinksWithout(h, t))
  BY <1>1, <1>6, <1>7, <1>8 DEF Chain
<1> QED
  BY <1>3, <1>5, <1>9 DEF r

\* Multiplication and division, in a form that a leaf can use.
LEMMA Division ==
  ASSUME NEW m \in Nat \ {0}, NEW x \in Nat
  PROVE  /\ x \div m \in Nat /\ x % m \in 0 .. m - 1
         /\ x = m * (x \div m) + (x % m)
<1>1. x \div m \in Nat
  OBVIOUS
<1>2. x % m \in 0 .. m - 1
  OBVIOUS
<1>3. x = m * (x \div m) + (x % m)
  OBVIOUS
<1> QED
  BY <1>1, <1>2, <1>3

LEMMA Times == \A m, p, q \in Int : m * p \in Int /\ m * (p - q) = m * p - m * q
  BY Z3

\* The deadline of a wait is not before its abstime.
LEMMA DeadlineIsLate ==
  ASSUME TypeOK, NEW a \in AbsTimes
  PROVE  Deadline(a) \in Int /\ a <= Deadline(a) + Phase
<1> DEFINE p == a \div Second
           q == (clock + Phase) \div Second
           i == a % Second
           j == (clock + Phase) % Second
<1>0. Second \in Nat \ {0} /\ a \in Nat /\ Phase \in Nat /\ clock \in Nat /\ clock + Phase \in Nat
  BY TimeAssumption DEF TypeOK
<1>1. p \in Nat /\ i \in 0 .. Second - 1 /\ a = Second * p + i
  BY <1>0, Division, Zenon
<1>2. q \in Nat /\ j \in 0 .. Second - 1 /\ clock + Phase = Second * q + j
  BY <1>0, Division, Zenon
<1>3. Deadline(a) = clock + Second * (p - q) + i
  BY DEF Deadline
<1> HIDE DEF p, q, i, j
<1>4. Second * p \in Int /\ Second * q \in Int /\ Second * (p - q) = Second * p - Second * q
  BY <1>0, <1>1, <1>2, Times
<1> QED
  BY <1>0, <1>1, <1>2, <1>3, <1>4

-----------------------------------------------------------------------------
(* The invariant.                                                          *)

\* Who sleeps in a condition variable is in a wait for one; outside of the
\* calls a thread waits for none.
WaitsKnown ==
  \A t \in Threads :
    /\ state[t] \in {"COND_WAIT", "COND_TIMED_WAIT"} => pc[t] = "wait" /\ cond[t] \in Conds
    /\ pc[t] = "run" => cond[t] = NULL

\* From the head h the links reach the threads S, each once.
ListOf(h, S, link) == \E s : Chain(h, s, link) /\ Elements(s) = S

\* The threads in __pthread_lock_block for the mutex, and in a wait for c.
Blocked    == {t \in Threads : pc[t] = "block"}
Waiting(c) == {t \in Threads : InCond(t, c)}

\* The lists of cond.c and lock.c are lists of exactly these threads.
Queued ==
  /\ ListOf(mwaiting, Blocked, nextwait)
  /\ \A c \in Conds : ListOf(cwaiting[c], Waiting(c), nextwait)

\* A wait that is over was signalled or has reached its deadline.
OverForAReason ==
  \A t \in Threads :
    /\ pc[t] = "wait" =>
         /\ state[t] = "RUNNING" => signalled[t] \/ (abstime[t] # NULL /\ clock > condtimeout[t])
         /\ state[t] = "COND_TIMED_WAIT" => abstime[t] # NULL
         /\ abstime[t] # NULL => abstime[t] <= condtimeout[t] + Phase
    /\ pc[t] \in {"lock", "block"} /\ cond[t] # NULL /\ ret[t] = "ETIMEDOUT" => abstime[t] # NULL

\* The inductive invariant.
IInv == TypeOK /\ WaitsKnown /\ Queued /\ MutexWakes /\ OverForAReason /\ WaitTellsTheTruth

\* What the operations on lists and states return.
LEMMA PtrTypes ==
  ASSUME TypeOK, NEW h \in Ptr, NEW t \in Threads
  PROVE  /\ NewHead(h, t) \in Ptr /\ NewLinks(h, t) \in [Threads -> Ptr]
         /\ HeadWithout(h, t) \in Ptr /\ LinksWithout(h, t) \in [Threads -> Ptr]
         /\ StateAfterUnlock \in [Threads -> States]
BY DEF TypeOK, Ptr, NewHead, NewLinks, HeadWithout, LinksWithout, StateAfterUnlock, States

\* Every step keeps the types.
LEMMA TypeStep ==
  ASSUME TypeOK, WaitsKnown, [Next]_vars
  PROVE  TypeOK'
<1> USE TimeAssumption DEF States
<1>1. CASE UNCHANGED vars
  BY <1>1 DEF TypeOK, vars, mutex, node, args, Ptr
<1>2. CASE Tick
  BY <1>2 DEF TypeOK, Tick, mutex, node, args, Ptr
<1>3. ASSUME NEW t \in Threads, LockGranted(t) PROVE TypeOK'
  BY <1>3 DEF TypeOK, LockGranted, Returned, Goto, Ptr
<1>4. ASSUME NEW t \in Threads, LockBlocks(t) PROVE TypeOK'
  <2>1. mwaiting' \in Ptr /\ nextwait' \in [Threads -> Ptr]
    BY <1>4, PtrTypes DEF LockBlocks, TypeOK
  <2> QED
    BY <1>4, <2>1 DEF TypeOK, LockBlocks, Goto, args
<1>5. ASSUME NEW t \in Threads, LockWoken(t) PROVE TypeOK'
  <2>1. mwaiting' \in Ptr /\ nextwait' \in [Threads -> Ptr] /\ owner' \in Ptr
    <3>1. HeadWithout(mwaiting, t) \in Ptr /\ LinksWithout(mwaiting, t) \in [Threads -> Ptr]
      BY PtrTypes DEF TypeOK
    <3>2. [LinksWithout(mwaiting, t) EXCEPT ![t] = NULL] \in [Threads -> Ptr]
      BY <3>1 DEF Ptr
    <3>3. mwaiting \in Ptr /\ nextwait \in [Threads -> Ptr] /\ owner \in Ptr /\ t \in Ptr
      BY DEF TypeOK, Ptr
    <3> QED
      BY <1>5, <3>1, <3>2, <3>3 DEF LockWoken, mutex
  <2>2. CASE owner = NULL
    <3>1. Returned(t) /\ state' = state /\ UNCHANGED <<cwaiting, clock>>
      BY <1>5, <2>2 DEF LockWoken
    <3> QED
      BY <2>1, <3>1 DEF TypeOK, Returned, Goto
  <2>3. CASE owner # NULL
    <3>1. /\ state' = [state EXCEPT ![t] = "MUTEX_WAIT"]
          /\ UNCHANGED <<cond, condtimeout, pc, args, cwaiting, clock>>
      BY <1>5, <2>3 DEF LockWoken
    <3> QED
      BY <2>1, <3>1 DEF TypeOK, args
  <2> QED
    BY <2>2, <2>3
<1>6. ASSUME NEW t \in Threads, WaitReturns(t) PROVE TypeOK'
  BY <1>6 DEF TypeOK, WaitReturns, Goto, mutex, node, Ptr
<1>7. ASSUME NEW t \in Threads, TimeoutStep(t) PROVE TypeOK'
  <2>1. cond[t] \in Conds
    BY <1>7 DEF TimeoutStep, WaitsKnown
  <2>2. /\ HeadWithout(cwaiting[cond[t]], t) \in Ptr
        /\ LinksWithout(cwaiting[cond[t]], t) \in [Threads -> Ptr]
    BY <2>1, PtrTypes DEF TypeOK
  <2> QED
    BY <1>7, <2>2 DEF TypeOK, TimeoutStep, mutex, args
<1>8. ASSUME NEW t \in Threads, LockCall(t) PROVE TypeOK'
  BY <1>8 DEF TypeOK, LockCall, Goto, mutex, node, args, Ptr
<1>9. ASSUME NEW t \in Threads, Unlock(t) PROVE TypeOK'
  <2>1. StateAfterUnlock \in [Threads -> States]
    BY DEF TypeOK, StateAfterUnlock
  <2> QED
    BY <1>9, <2>1 DEF TypeOK, Unlock, args, Ptr
<1>10. ASSUME NEW t \in Threads, NEW c \in Conds, Signal(t, c) PROVE TypeOK'
  <2>1. cwaiting[c] \in Threads /\ nextwait[cwaiting[c]] \in Ptr
    BY <1>10 DEF TypeOK, Signal, Ptr
  <2> QED
    BY <1>10, <2>1 DEF TypeOK, Signal, mutex
<1>11. ASSUME NEW t \in Threads, NEW c \in Conds, Broadcast(t, c) PROVE TypeOK'
  <2>1. [u \in Threads |-> u \in Members(cwaiting[c]) \/ signalled[u]] \in [Threads -> BOOLEAN]
    OBVIOUS
  <2> QED
    BY <1>11, <2>1 DEF TypeOK, Broadcast, mutex, Ptr
<1>12. ASSUME NEW t \in Threads, NEW c \in Conds, NEW a \in AbsTimes \cup {NULL}, Wait(t, c, a)
       PROVE  TypeOK'
  <2>1. NewHead(cwaiting[c], t) \in Ptr /\ nextwait' \in [Threads -> Ptr]
    BY <1>12, PtrTypes DEF TypeOK, Wait
  <2>2. (IF a = NULL THEN 0 ELSE Deadline(a)) \in Int
    BY DeadlineIsLate
  <2>3. state' \in [Threads -> States]
    BY <1>12 DEF TypeOK, Wait, StateAfterUnlock
  <2>4. condtimeout' \in [Threads -> Int]
    BY <1>12, <2>2 DEF TypeOK, Wait
  <2> QED
    BY <1>12, <2>1, <2>3, <2>4 DEF TypeOK, Wait, Goto, Ptr
<1> QED
  BY <1>1, <1>2, <1>3, <1>4, <1>5, <1>6, <1>7, <1>8, <1>9, <1>10, <1>11, <1>12 DEF Next, Continue

\* Every step leaves who sleeps in a wait, and who does not call in none.
LEMMA KnownStep ==
  ASSUME TypeOK, WaitsKnown, [Next]_vars
  PROVE  WaitsKnown'
<1>1. CASE UNCHANGED vars
  BY <1>1 DEF WaitsKnown, vars, node
<1>2. CASE Tick
  BY <1>2 DEF WaitsKnown, Tick, node
<1>3. ASSUME NEW t \in Threads, LockGranted(t) PROVE WaitsKnown'
  BY <1>3 DEF WaitsKnown, TypeOK, LockGranted, Returned, Goto, At
<1>4. ASSUME NEW t \in Threads, LockBlocks(t) PROVE WaitsKnown'
  BY <1>4 DEF WaitsKnown, TypeOK, LockBlocks, Goto, At
<1>5. ASSUME NEW t \in Threads, LockWoken(t) PROVE WaitsKnown'
  <2>1. CASE owner = NULL
    <3>1. Returned(t) /\ state' = state /\ At(t, "block")
      BY <1>5, <2>1 DEF LockWoken
    <3> QED
      BY <3>1 DEF WaitsKnown, TypeOK, Returned, Goto, At
  <2>2. CASE owner # NULL
    BY <1>5, <2>2 DEF WaitsKnown, TypeOK, LockWoken
  <2> QED
    BY <2>1, <2>2
<1>6. ASSUME NEW t \in Threads, WaitReturns(t) PROVE WaitsKnown'
  BY <1>6 DEF WaitsKnown, TypeOK, WaitReturns, Goto, At, node
<1>7. ASSUME NEW t \in Threads, TimeoutStep(t) PROVE WaitsKnown'
  BY <1>7 DEF WaitsKnown, TypeOK, TimeoutStep
<1>8. ASSUME NEW t \in Threads, LockCall(t) PROVE WaitsKnown'
  BY <1>8 DEF WaitsKnown, TypeOK, LockCall, Goto, At, node
<1>9. ASSUME NEW t \in Threads, Unlock(t) PROVE WaitsKnown'
  BY <1>9 DEF WaitsKnown, TypeOK, Unlock, StateAfterUnlock
<1>10. ASSUME NEW t \in Threads, NEW c \in Conds, Signal(t, c) PROVE WaitsKnown'
  BY <1>10 DEF WaitsKnown, TypeOK, Signal
<1>11. ASSUME NEW t \in Threads, NEW c \in Conds, Broadcast(t, c) PROVE WaitsKnown'
  BY <1>11 DEF WaitsKnown, TypeOK, Broadcast
<1>12. ASSUME NEW t \in Threads, NEW c \in Conds, NEW a \in AbsTimes \cup {NULL}, Wait(t, c, a)
       PROVE  WaitsKnown'
  BY <1>12 DEF WaitsKnown, TypeOK, Wait, StateAfterUnlock, Goto
<1> QED
  BY <1>1, <1>2, <1>3, <1>4, <1>5, <1>6, <1>7, <1>8, <1>9, <1>10, <1>11, <1>12 DEF Next, Continue

\* A list is left alone by whatever happens to other threads.
LEMMA ListFrame ==
  ASSUME NEW h, NEW S, NEW link, NEW new, ListOf(h, S, link), \A u \in S : new[u] = link[u]
  PROVE  ListOf(h, S, new)
BY ChainFrame DEF ListOf

\* No head, no thread.
LEMMA ListEmpty == \A link : ListOf(NULL, {}, link)
<1> TAKE link
<1>1. Chain(NULL, << >>, link)
  BY DEF Chain
<1>2. Elements(<< >>) = {}
  BY DEF Elements
<1> QED
  BY <1>1, <1>2 DEF ListOf

\* The members of a list are the threads it is of.
LEMMA ListMembers ==
  ASSUME NEW h, NEW S, ListOf(h, S, nextwait)
  PROVE  /\ Ends(h) /\ Members(h) = S /\ S \subseteq Threads
         /\ h # NULL => h \in S
         /\ h = NULL => S = {}
<1>1. PICK s : Chain(h, s, nextwait) /\ Elements(s) = S
  BY DEF ListOf
<1>2. Ends(h) /\ Members(h) = S
  BY <1>1, ChainList
<1>3. S \subseteq Threads /\ Len(s) \in Nat
  BY <1>1 DEF Chain, Elements
<1>4. CASE Len(s) = 0
  BY <1>1, <1>2, <1>3, <1>4 DEF Chain, Elements
<1>5. CASE Len(s) # 0
  <2>1. 1 \in 1 .. Len(s) /\ h = s[1] /\ h \in S
    BY <1>1, <1>3, <1>5 DEF Chain, Elements
  <2> QED
    BY <1>2, <1>3, <2>1, NullAssumption
<1> QED
  BY <1>4, <1>5

\* pthread_cond_wait, __pthread_lock_block: a thread joins at the end.
LEMMA ListEnter ==
  ASSUME NEW h, NEW S, NEW t \in Threads, ListOf(h, S, nextwait), t \notin S
  PROVE  /\ ListOf(NewHead(h, t), S \cup {t}, NewLinks(h, t))
         /\ \A u \in Threads : u \notin S \cup {t} => NewLinks(h, t)[u] = nextwait[u]
<1>1. PICK s : Chain(h, s, nextwait) /\ Elements(s) = S
  BY DEF ListOf
<1> QED
  BY <1>1, ChainAppend DEF ListOf

\* A timeout, a cancellation: a thread leaves from anywhere.
LEMMA ListLeave ==
  ASSUME NEW h, NEW S, NEW t \in S, ListOf(h, S, nextwait)
  PROVE  /\ ListOf(HeadWithout(h, t), S \ {t}, LinksWithout(h, t))
         /\ \A u \in Threads : u \notin S \/ u = t => LinksWithout(h, t)[u] = nextwait[u]
<1>1. PICK s : Chain(h, s, nextwait) /\ Elements(s) = S
  BY DEF ListOf
<1>2. PICK p \in 1 .. Len(s) : t = s[p]
  BY <1>1 DEF Elements
<1> QED
  BY <1>1, <1>2, ChainWithout DEF ListOf

\* The first of a list can be taken off without a change of links.
LEMMA ListFirst ==
  ASSUME NEW h, NEW S, h # NULL, ListOf(h, S, nextwait)
  PROVE  ListOf(nextwait[h], S \ {h}, nextwait)
<1>1. h \in S /\ S \subseteq Threads
  BY ListMembers
<1>2. ListOf(HeadWithout(h, h), S \ {h}, LinksWithout(h, h))
  BY <1>1, ListLeave
<1>3. HeadWithout(h, h) = nextwait[h] /\ \A u \in S \ {h} : nextwait[u] = LinksWithout(h, h)[u]
  BY <1>1 DEF HeadWithout, LinksWithout
<1> QED
  BY <1>2, <1>3, ListFrame

\* No thread is in two lists.
LEMMA ListsApart ==
  ASSUME WaitsKnown, NEW c \in Conds
  PROVE  /\ Blocked \cap Waiting(c) = {}
         /\ \A d \in Conds \ {c} : Waiting(d) \cap Waiting(c) = {}
BY DEF WaitsKnown, Blocked, Waiting, InCond

\* The first in the mutex's list is in __pthread_lock_block.
LEMMA HeadBlocked ==
  ASSUME Queued
  PROVE  mwaiting \notin Threads \/ pc[mwaiting] = "block"
<1>1. ListOf(mwaiting, Blocked, nextwait)
  BY DEF Queued
<1>2. mwaiting = NULL \/ mwaiting \in Blocked
  BY <1>1, ListMembers
<1> QED
  BY <1>2, NullAssumption DEF Blocked

\* Every step keeps the lists lists.
LEMMA QueuedStep ==
  ASSUME TypeOK, WaitsKnown, Queued, [Next]_vars
  PROVE  Queued'
<1>0. ASSUME Blocked' = Blocked, \A c \in Conds : Waiting(c)' = Waiting(c),
             mwaiting' = mwaiting, cwaiting' = cwaiting, nextwait' = nextwait
      PROVE  Queued'
  BY <1>0 DEF Queued
<1>1. CASE UNCHANGED vars
  <2>1. Blocked' = Blocked /\ \A c \in Conds : Waiting(c)' = Waiting(c)
    BY <1>1 DEF Blocked, Waiting, InCond, vars, node
  <2> QED
    BY <1>0, <1>1, <2>1 DEF vars, node, mutex
<1>2. CASE Tick
  <2>1. Blocked' = Blocked /\ \A c \in Conds : Waiting(c)' = Waiting(c)
    BY <1>2 DEF Blocked, Waiting, InCond, Tick, node
  <2> QED
    BY <1>0, <1>2, <2>1 DEF Tick, node, mutex
<1>3. ASSUME NEW t \in Threads, LockGranted(t) PROVE Queued'
  <2>1. Blocked' = Blocked /\ \A c \in Conds : Waiting(c)' = Waiting(c)
    BY <1>3 DEF Blocked, Waiting, InCond, LockGranted, Returned, Goto, At, TypeOK
  <2> QED
    BY <1>0, <1>3, <2>1 DEF LockGranted
<1>4. ASSUME NEW t \in Threads, LockBlocks(t) PROVE Queued'
  <2>1. Blocked' = Blocked \cup {t} /\ t \notin Blocked
    BY <1>4 DEF LockBlocks, Blocked, Goto, At, TypeOK
  <2>2. \A c \in Conds : Waiting(c)' = Waiting(c) /\ t \notin Waiting(c)
    BY <1>4 DEF LockBlocks, Waiting, InCond, At, TypeOK
  <2>3. /\ ListOf(mwaiting', Blocked', nextwait')
        /\ \A u \in Threads : u \notin Blocked \cup {t} => nextwait'[u] = nextwait[u]
    BY <1>4, <2>1, ListEnter DEF LockBlocks, Queued
  <2>4. ASSUME NEW c \in Conds PROVE ListOf(cwaiting'[c], Waiting(c)', nextwait')
    <3>1. \A u \in Waiting(c) : nextwait'[u] = nextwait[u]
      BY <2>2, <2>3, ListsApart DEF Waiting
    <3> QED
      BY <1>4, <2>2, <3>1, ListFrame DEF LockBlocks, Queued
  <2> QED
    BY <2>3, <2>4 DEF Queued
<1>5. ASSUME NEW t \in Threads, LockWoken(t) PROVE Queued'
  <2>1. CASE owner # NULL
    <3>1. Blocked' = Blocked /\ \A c \in Conds : Waiting(c)' = Waiting(c)
      BY <1>5, <2>1 DEF Blocked, Waiting, InCond, LockWoken, At, TypeOK
    <3> QED
      BY <1>0, <1>5, <2>1, <3>1 DEF LockWoken, mutex
  <2>2. CASE owner = NULL
    <3>0. /\ Returned(t) /\ state' = state /\ cwaiting' = cwaiting /\ pc[t] = "block"
          /\ state[t] = "RUNNING" /\ mwaiting' = HeadWithout(mwaiting, t)
          /\ nextwait' = [LinksWithout(mwaiting, t) EXCEPT ![t] = NULL]
      BY <1>5, <2>2 DEF LockWoken, At
    <3>1. Blocked' = Blocked \ {t} /\ t \in Blocked
      BY <3>0 DEF Blocked, Returned, Goto, TypeOK
    <3>2. \A c \in Conds : Waiting(c)' = Waiting(c) /\ t \notin Waiting(c)
      BY <3>0 DEF Waiting, InCond, Returned, TypeOK
    <3>3. /\ ListOf(mwaiting', Blocked', LinksWithout(mwaiting, t))
          /\ \A u \in Threads : u \notin Blocked => LinksWithout(mwaiting, t)[u] = nextwait[u]
      BY <3>0, <3>1, ListLeave DEF Queued
    <3>4. \A u \in Threads \ {t} : nextwait'[u] = LinksWithout(mwaiting, t)[u]
      BY <3>0 DEF LinksWithout
    <3>5. ListOf(mwaiting', Blocked', nextwait')
      <4>1. \A u \in Blocked' : nextwait'[u] = LinksWithout(mwaiting, t)[u]
        BY <3>1, <3>4 DEF Blocked
      <4> QED
        BY <3>3, <4>1, ListFrame
    <3>6. ASSUME NEW c \in Conds PROVE ListOf(cwaiting'[c], Waiting(c)', nextwait')
      <4>1. \A u \in Waiting(c) : nextwait'[u] = nextwait[u]
        BY <3>2, <3>3, <3>4, ListsApart DEF Waiting
      <4>2. ListOf(cwaiting[c], Waiting(c), nextwait)
        BY DEF Queued
      <4>3. ListOf(cwaiting[c], Waiting(c), nextwait')
        BY <4>1, <4>2, ListFrame
      <4> QED
        BY <3>0, <3>2, <4>3
    <3> QED
      BY <3>5, <3>6 DEF Queued
  <2> QED
    BY <2>1, <2>2
<1>6. ASSUME NEW t \in Threads, WaitReturns(t) PROVE Queued'
  <2>1. Blocked' = Blocked /\ \A c \in Conds : Waiting(c)' = Waiting(c)
    BY <1>6 DEF Blocked, Waiting, InCond, WaitReturns, Goto, At, TypeOK, node
  <2> QED
    BY <1>0, <1>6, <2>1 DEF WaitReturns, mutex, node
<1>7. ASSUME NEW t \in Threads, TimeoutStep(t) PROVE Queued'
  <2> DEFINE c == cond[t]
  <2>0. c \in Conds /\ t \in Waiting(c) /\ pc[t] = "wait"
    BY <1>7 DEF TimeoutStep, WaitsKnown, Waiting, InCond
  <2>1. Blocked' = Blocked
    BY <1>7 DEF TimeoutStep, Blocked
  <2>2. Waiting(c)' = Waiting(c) \ {t} /\ \A d \in Conds \ {c} : Waiting(d)' = Waiting(d)
    BY <1>7, <2>0 DEF TimeoutStep, Waiting, InCond, TypeOK
  <2> HIDE DEF c
  <2>3. /\ ListOf(HeadWithout(cwaiting[c], t), Waiting(c)', nextwait')
        /\ \A u \in Threads : u \notin Waiting(c) => nextwait'[u] = nextwait[u]
    BY <1>7, <2>0, <2>2, ListLeave DEF TimeoutStep, Queued, c
  <2>4. ListOf(mwaiting', Blocked', nextwait')
    <3>1. \A u \in Blocked : nextwait'[u] = nextwait[u]
      BY <2>0, <2>3, ListsApart DEF Blocked
    <3> QED
      BY <1>7, <2>1, <3>1, ListFrame DEF TimeoutStep, Queued, mutex
  <2>5. ASSUME NEW d \in Conds PROVE ListOf(cwaiting'[d], Waiting(d)', nextwait')
    <3>1. CASE d = c
      BY <1>7, <2>0, <2>3, <3>1 DEF TimeoutStep, TypeOK, c
    <3>2. CASE d # c
      <4>1. \A u \in Waiting(d) : nextwait'[u] = nextwait[u]
        BY <2>0, <2>3, <3>2, ListsApart DEF Waiting
      <4>2. cwaiting'[d] = cwaiting[d]
        BY <1>7, <3>2 DEF TimeoutStep, TypeOK, c
      <4>3. ListOf(cwaiting[d], Waiting(d), nextwait) /\ Waiting(d)' = Waiting(d)
        BY <2>2, <3>2 DEF Queued
      <4> QED
        BY <4>1, <4>2, <4>3, ListFrame
    <3> QED
      BY <3>1, <3>2
  <2> QED
    BY <2>4, <2>5 DEF Queued
<1>8. ASSUME NEW t \in Threads, LockCall(t) PROVE Queued'
  <2>1. Blocked' = Blocked /\ \A c \in Conds : Waiting(c)' = Waiting(c)
    BY <1>8 DEF Blocked, Waiting, InCond, LockCall, Goto, At, TypeOK, node
  <2> QED
    BY <1>0, <1>8, <2>1 DEF LockCall, mutex, node
<1>9. ASSUME NEW t \in Threads, Unlock(t) PROVE Queued'
  <2>0. mwaiting \notin Threads \/ pc[mwaiting] = "block"
    BY HeadBlocked
  <2>1. Blocked' = Blocked /\ \A c \in Conds : Waiting(c)' = Waiting(c)
    BY <1>9, <2>0 DEF Blocked, Waiting, InCond, Unlock, StateAfterUnlock, WaitsKnown
  <2> QED
    BY <1>0, <1>9, <2>1 DEF Unlock
<1>10. ASSUME NEW t \in Threads, NEW c \in Conds, Signal(t, c) PROVE Queued'
  <2> DEFINE h == cwaiting[c]
  <2>0. /\ ListOf(h, Waiting(c), nextwait) /\ h # NULL
        /\ state' = [state EXCEPT ![h] = "RUNNING"] /\ pc' = pc /\ cond' = cond
        /\ cwaiting' = [cwaiting EXCEPT ![c] = nextwait[h]]
        /\ nextwait' = nextwait /\ mwaiting' = mwaiting
    BY <1>10 DEF Signal, Queued, mutex
  <2> HIDE DEF h
  <2>1. h \in Waiting(c) /\ ListOf(nextwait[h], Waiting(c) \ {h}, nextwait)
    BY <2>0, ListMembers, ListFirst
  <2>2. Blocked' = Blocked /\ Waiting(c)' = Waiting(c) \ {h}
    BY <2>0, <2>1 DEF Blocked, Waiting, InCond, TypeOK
  <2>3. \A d \in Conds \ {c} : Waiting(d)' = Waiting(d)
    BY <2>0, <2>1 DEF Waiting, InCond, TypeOK
  <2>4. ASSUME NEW d \in Conds PROVE ListOf(cwaiting'[d], Waiting(d)', nextwait')
    <3>1. CASE d = c
      BY <2>0, <2>1, <2>2, <3>1 DEF TypeOK
    <3>2. CASE d # c
      BY <2>0, <2>3, <3>2 DEF TypeOK, Queued
    <3> QED
      BY <3>1, <3>2
  <2> QED
    BY <2>0, <2>2, <2>4 DEF Queued
<1>11. ASSUME NEW t \in Threads, NEW c \in Conds, Broadcast(t, c) PROVE Queued'
  <2>0. ListOf(cwaiting[c], Waiting(c), nextwait) /\ Members(cwaiting[c]) = Waiting(c)
    BY ListMembers DEF Queued
  <2>1. Blocked' = Blocked /\ Waiting(c)' = {}
    BY <1>11, <2>0 DEF Broadcast, Blocked, Waiting, InCond
  <2>2. \A d \in Conds \ {c} : Waiting(d)' = Waiting(d)
    BY <1>11, <2>0 DEF Broadcast, Waiting, InCond
  <2>3. ASSUME NEW d \in Conds PROVE ListOf(cwaiting'[d], Waiting(d)', nextwait')
    <3>1. CASE d = c
      BY <1>11, <2>1, <3>1, ListEmpty DEF TypeOK, Broadcast
    <3>2. CASE d # c
      BY <1>11, <2>2, <3>2 DEF TypeOK, Queued, Broadcast
    <3> QED
      BY <3>1, <3>2
  <2> QED
    BY <1>11, <2>1, <2>3 DEF Queued, Broadcast, mutex
<1>12. ASSUME NEW t \in Threads, NEW c \in Conds, NEW a \in AbsTimes \cup {NULL}, Wait(t, c, a)
       PROVE  Queued'
  <2>0. mwaiting \notin Threads \/ pc[mwaiting] = "block"
    BY HeadBlocked
  <2>a. pc[t] = "run" /\ state[t] = "RUNNING" /\ t # mwaiting
    BY <1>12, <2>0 DEF Wait, At
  <2>1. Blocked' = Blocked /\ t \notin Blocked
    BY <1>12, <2>a DEF Wait, Blocked, Goto, TypeOK
  <2>b. \A u \in Threads \ {t} :
          /\ state'[u] = (IF u = mwaiting THEN "RUNNING" ELSE state[u])
          /\ cond'[u] = cond[u]
    BY <1>12 DEF Wait, StateAfterUnlock, TypeOK
  <2>c. /\ state'[t] \in {"COND_WAIT", "COND_TIMED_WAIT"} /\ cond'[t] = c
        /\ \A d \in Conds : t \notin Waiting(d)
        /\ \A d \in Conds : \A u \in Waiting(d) : u # mwaiting
    BY <1>12, <2>0, <2>a DEF Wait, StateAfterUnlock, TypeOK, Waiting, InCond, WaitsKnown
  <2>2. Waiting(c)' = Waiting(c) \cup {t} /\ \A d \in Conds \ {c} : Waiting(d)' = Waiting(d)
    <3>1. \A u \in Threads \ {t}, d \in Conds : InCond(u, d)' <=> InCond(u, d)
      BY <2>b, <2>c DEF InCond, Waiting
    <3>2. \A d \in Conds : InCond(t, d)' <=> d = c
      BY <2>c DEF InCond
    <3> QED
      BY <2>c, <3>1, <3>2 DEF Waiting
  <2>3. /\ ListOf(NewHead(cwaiting[c], t), Waiting(c)', nextwait')
        /\ \A u \in Threads : u \notin Waiting(c) \cup {t} => nextwait'[u] = nextwait[u]
    BY <1>12, <2>c, <2>2, ListEnter DEF Wait, Queued
  <2>4. ListOf(mwaiting', Blocked', nextwait')
    <3>1. \A u \in Blocked : nextwait'[u] = nextwait[u]
      BY <2>1, <2>3, ListsApart DEF Blocked
    <3> QED
      BY <1>12, <2>1, <3>1, ListFrame DEF Wait, Queued
  <2>5. ASSUME NEW d \in Conds PROVE ListOf(cwaiting'[d], Waiting(d)', nextwait')
    <3>1. CASE d = c
      BY <1>12, <2>3, <3>1 DEF Wait, TypeOK
    <3>2. CASE d # c
      <4>1. \A u \in Waiting(d) : nextwait'[u] = nextwait[u]
        BY <2>c, <2>3, <3>2, ListsApart DEF Waiting
      <4>2. cwaiting'[d] = cwaiting[d]
        BY <1>12, <3>2 DEF Wait, TypeOK
      <4>3. ListOf(cwaiting[d], Waiting(d), nextwait) /\ Waiting(d)' = Waiting(d)
        BY <2>2, <3>2 DEF Queued
      <4> QED
        BY <4>1, <4>2, <4>3, ListFrame
    <3> QED
      BY <3>1, <3>2
  <2> QED
    BY <2>4, <2>5 DEF Queued
<1> QED
  BY <1>1, <1>2, <1>3, <1>4, <1>5, <1>6, <1>7, <1>8, <1>9, <1>10, <1>11, <1>12 DEF Next, Continue

\* The mutex's list has the threads that are blocked, now and next.
LEMMA BlockedMembers ==
  ASSUME Queued
  PROVE  Members(mwaiting) = Blocked /\ (mwaiting # NULL => mwaiting \in Blocked)
<1>1. ListOf(mwaiting, Blocked, nextwait)
  BY DEF Queued
<1> QED
  BY <1>1, ListMembers

LEMMA BlockedNext == Queued' => (Members(mwaiting) = Blocked)'
<1>1. Queued => Members(mwaiting) = Blocked
  BY BlockedMembers
<1> QED
  BY <1>1, PTL

\* Every step leaves the mutex taken, or its first waiter awake.
LEMMA WakesStep ==
  ASSUME TypeOK, WaitsKnown, Queued, MutexWakes, [Next]_vars, Queued'
  PROVE  MutexWakes'
<1> DEFINE Woken == \E u \in Blocked : state[u] = "RUNNING"
<1>0. Members(mwaiting)' = Blocked'
  BY BlockedNext
<1> SUFFICES ASSUME owner' = NULL, mwaiting' # NULL PROVE \E u \in Blocked' : state'[u] = "RUNNING"
  BY <1>0 DEF MutexWakes
<1>w. owner = NULL /\ mwaiting # NULL => \E u \in Blocked : state[u] = "RUNNING"
  BY BlockedMembers DEF MutexWakes
<1>h. mwaiting # NULL => mwaiting \in Blocked /\ mwaiting \in Threads
  BY BlockedMembers DEF Blocked
\* A step that wakes threads at most and leaves the mutex and its list alone.
<1>k. ASSUME owner' = owner, mwaiting' = mwaiting, Blocked' = Blocked,
             \A u \in Blocked : state[u] = "RUNNING" => state'[u] = "RUNNING"
      PROVE  \E u \in Blocked' : state'[u] = "RUNNING"
  BY <1>k, <1>w
<1>1. CASE UNCHANGED vars
  BY <1>1, <1>k DEF vars, mutex, node, Blocked
<1>2. CASE Tick
  BY <1>2, <1>k DEF Tick, mutex, node, Blocked
<1>3. ASSUME NEW t \in Threads, LockGranted(t) PROVE FALSE
  BY <1>3, NullAssumption DEF LockGranted
<1>4. ASSUME NEW t \in Threads, LockBlocks(t) PROVE FALSE
  BY <1>4 DEF LockBlocks
<1>5. ASSUME NEW t \in Threads, LockWoken(t) PROVE FALSE
  BY <1>5, NullAssumption DEF LockWoken, mutex
<1>6. ASSUME NEW t \in Threads, WaitReturns(t) PROVE \E u \in Blocked' : state'[u] = "RUNNING"
  BY <1>6, <1>k DEF WaitReturns, Goto, At, Blocked, TypeOK, mutex, node
<1>7. ASSUME NEW t \in Threads, TimeoutStep(t) PROVE \E u \in Blocked' : state'[u] = "RUNNING"
  BY <1>7, <1>k DEF TimeoutStep, Blocked, TypeOK, mutex
<1>8. ASSUME NEW t \in Threads, LockCall(t) PROVE \E u \in Blocked' : state'[u] = "RUNNING"
  BY <1>8, <1>k DEF LockCall, Goto, At, Blocked, TypeOK, mutex, node
<1>9. ASSUME NEW t \in Threads, Unlock(t) PROVE \E u \in Blocked' : state'[u] = "RUNNING"
  <2>1. mwaiting \in Blocked /\ Blocked' = Blocked /\ state'[mwaiting] = "RUNNING"
    BY <1>9, <1>h DEF Unlock, StateAfterUnlock, Blocked
  <2> QED
    BY <2>1
<1>10. ASSUME NEW t \in Threads, NEW c \in Conds, Signal(t, c)
       PROVE  \E u \in Blocked' : state'[u] = "RUNNING"
  BY <1>10, <1>k DEF Signal, Blocked, TypeOK, mutex
<1>11. ASSUME NEW t \in Threads, NEW c \in Conds, Broadcast(t, c)
       PROVE  \E u \in Blocked' : state'[u] = "RUNNING"
  BY <1>11, <1>k DEF Broadcast, Blocked, TypeOK, mutex
<1>12. ASSUME NEW t \in Threads, NEW c \in Conds, NEW a \in AbsTimes \cup {NULL}, Wait(t, c, a)
       PROVE  \E u \in Blocked' : state'[u] = "RUNNING"
  <2>1. mwaiting \in Blocked /\ mwaiting # t
    BY <1>12, <1>h DEF Wait, At, Blocked
  <2>2. mwaiting \in Blocked' /\ state'[mwaiting] = "RUNNING"
    BY <1>12, <2>1 DEF Wait, Goto, StateAfterUnlock, Blocked, TypeOK
  <2> QED
    BY <2>2
<1> QED
  BY <1>1, <1>2, <1>3, <1>4, <1>5, <1>6, <1>7, <1>8, <1>9, <1>10, <1>11, <1>12 DEF Next, Continue

\* The numbers a deadline is made of.
LEMMA Numbers ==
  ASSUME TypeOK
  PROVE  /\ clock \in Nat /\ condtimeout \in [Threads -> Int]
         /\ \A u \in Threads : abstime[u] # NULL => abstime[u] \in Nat
<1>1. clock \in Nat /\ condtimeout \in [Threads -> Int]
  BY TimeAssumption DEF TypeOK
<1>2. ASSUME NEW u \in Threads, abstime[u] # NULL PROVE abstime[u] \in Nat
  <2>1. abstime[u] \in AbsTimes
    BY <1>2 DEF TypeOK
  <2> QED
    BY <2>1, TimeAssumption
<1> QED
  BY <1>1, <1>2

\* A wait is over for the reason it will report.
LEMMA ReasonStep ==
  ASSUME TypeOK, WaitsKnown, Queued, OverForAReason, WaitTellsTheTruth, [Next]_vars
  PROVE  OverForAReason' /\ WaitTellsTheTruth'
<1> USE TimeAssumption
<1>1. CASE UNCHANGED vars
  BY <1>1 DEF OverForAReason, WaitTellsTheTruth, vars, node, args
<1>2. CASE Tick
  <2>1. /\ clock \in Nat /\ clock' = clock + 1 /\ condtimeout \in [Threads -> Int]
        /\ \A u \in Threads : abstime[u] # NULL => abstime[u] \in Nat
        /\ UNCHANGED <<pc, state, cond, condtimeout, abstime, ret, signalled>>
    BY <1>2, Numbers DEF Tick, node, args
  <2>2. OverForAReason'
    BY <2>1 DEF OverForAReason
  <2>3. WaitTellsTheTruth'
    BY <2>1 DEF OverForAReason, WaitTellsTheTruth
  <2> QED
    BY <2>2, <2>3
<1>3. ASSUME NEW t \in Threads, LockGranted(t) PROVE OverForAReason' /\ WaitTellsTheTruth'
  BY <1>3 DEF OverForAReason, WaitTellsTheTruth, TypeOK, LockGranted, Returned, Goto, At
<1>4. ASSUME NEW t \in Threads, LockBlocks(t) PROVE OverForAReason' /\ WaitTellsTheTruth'
  BY <1>4 DEF OverForAReason, WaitTellsTheTruth, TypeOK, LockBlocks, Goto, At, args
<1>5. ASSUME NEW t \in Threads, LockWoken(t) PROVE OverForAReason' /\ WaitTellsTheTruth'
  <2>1. CASE owner = NULL
    <3>1. Returned(t) /\ state' = state /\ At(t, "block") /\ clock' = clock
      BY <1>5, <2>1 DEF LockWoken
    <3> QED
      BY <3>1 DEF OverForAReason, WaitTellsTheTruth, TypeOK, Returned, Goto, At
  <2>2. CASE owner # NULL
    BY <1>5, <2>2 DEF OverForAReason, WaitTellsTheTruth, TypeOK, LockWoken, At, args
  <2> QED
    BY <2>1, <2>2
<1>6. ASSUME NEW t \in Threads, WaitReturns(t) PROVE OverForAReason' /\ WaitTellsTheTruth'
  <2>1. /\ pc[t] = "wait" /\ state[t] = "RUNNING" /\ pc'[t] = "lock"
        /\ ret'[t] = (IF abstime[t] # NULL /\ clock > condtimeout[t] THEN "ETIMEDOUT" ELSE "0")
        /\ \A u \in Threads \ {t} : pc'[u] = pc[u] /\ ret'[u] = ret[u]
        /\ UNCHANGED <<state, cond, condtimeout, abstime, signalled, clock>>
    BY <1>6 DEF WaitReturns, At, Goto, TypeOK, node
  <2>2. /\ clock \in Nat /\ condtimeout[t] \in Int
        /\ abstime[t] # NULL => abstime[t] \in Nat
    BY Numbers
  <2>3. OverForAReason'
    BY <2>1 DEF OverForAReason
  <2>4. WaitTellsTheTruth'
    BY <2>1, <2>2 DEF OverForAReason, WaitTellsTheTruth
  <2> QED
    BY <2>3, <2>4
<1>7. ASSUME NEW t \in Threads, TimeoutStep(t) PROVE OverForAReason' /\ WaitTellsTheTruth'
  BY <1>7 DEF OverForAReason, WaitTellsTheTruth, TypeOK, TimeoutStep, WaitsKnown, args
<1>8. ASSUME NEW t \in Threads, LockCall(t) PROVE OverForAReason' /\ WaitTellsTheTruth'
  BY <1>8 DEF OverForAReason, WaitTellsTheTruth, TypeOK, LockCall, Goto, At, WaitsKnown, node, args
<1>9. ASSUME NEW t \in Threads, Unlock(t) PROVE OverForAReason' /\ WaitTellsTheTruth'
  <2>1. \A u \in Threads : pc[u] = "wait" => state'[u] = state[u]
    BY <1>9, HeadBlocked DEF Unlock, StateAfterUnlock
  <2> QED
    BY <1>9, <2>1 DEF OverForAReason, WaitTellsTheTruth, Unlock, args
<1>10. ASSUME NEW t \in Threads, NEW c \in Conds, Signal(t, c)
       PROVE  OverForAReason' /\ WaitTellsTheTruth'
  <2>1. /\ \A u \in Threads : \/ state'[u] = "RUNNING" /\ signalled'[u]
                              \/ state'[u] = state[u] /\ (signalled[u] => signalled'[u])
        /\ \A u \in Threads : signalled[u] => signalled'[u]
    BY <1>10 DEF Signal, TypeOK
  <2> QED
    BY <1>10, <2>1 DEF OverForAReason, WaitTellsTheTruth, Signal
<1>11. ASSUME NEW t \in Threads, NEW c \in Conds, Broadcast(t, c)
       PROVE  OverForAReason' /\ WaitTellsTheTruth'
  <2>1. /\ \A u \in Threads : \/ state'[u] = "RUNNING" /\ signalled'[u]
                              \/ state'[u] = state[u] /\ (signalled[u] => signalled'[u])
        /\ \A u \in Threads : signalled[u] => signalled'[u]
    BY <1>11 DEF Broadcast
  <2> QED
    BY <1>11, <2>1 DEF OverForAReason, WaitTellsTheTruth, Broadcast
<1>12. ASSUME NEW t \in Threads, NEW c \in Conds, NEW a \in AbsTimes \cup {NULL}, Wait(t, c, a)
       PROVE  OverForAReason' /\ WaitTellsTheTruth'
  <2>1. \A u \in Threads : pc[u] = "wait" => state'[u] = state[u] /\ u # t
    BY <1>12, HeadBlocked DEF Wait, StateAfterUnlock, At, TypeOK
  <2>2. a # NULL => a <= Deadline(a) + Phase
    BY DeadlineIsLate
  <2>3. \A u \in Threads \ {t} :
          /\ pc'[u] = pc[u] /\ signalled'[u] = signalled[u] /\ abstime'[u] = abstime[u]
          /\ condtimeout'[u] = condtimeout[u] /\ ret'[u] = ret[u] /\ cond'[u] = cond[u]
    BY <1>12 DEF Wait, Goto, TypeOK
  <2>4. /\ pc'[t] = "wait" /\ abstime'[t] = a
        /\ state'[t] = IF a = NULL THEN "COND_WAIT" ELSE "COND_TIMED_WAIT"
        /\ condtimeout'[t] = IF a = NULL THEN 0 ELSE Deadline(a)
    BY <1>12 DEF Wait, Goto, StateAfterUnlock, TypeOK
  <2>5. clock' = clock
    BY <1>12 DEF Wait
  <2> QED
    BY <2>1, <2>2, <2>3, <2>4, <2>5 DEF OverForAReason, WaitTellsTheTruth
<1> QED
  BY <1>1, <1>2, <1>3, <1>4, <1>5, <1>6, <1>7, <1>8, <1>9, <1>10, <1>11, <1>12 DEF Next, Continue

LEMMA InitIInv == Init => IInv
<1> SUFFICES ASSUME Init PROVE IInv
  OBVIOUS
<1>1. TypeOK
  BY TimeAssumption DEF Init, TypeOK, Ptr, States
<1>2. WaitsKnown /\ OverForAReason /\ WaitTellsTheTruth /\ MutexWakes
  BY <1>1 DEF Init, WaitsKnown, OverForAReason, WaitTellsTheTruth, MutexWakes
<1>3. Blocked = {} /\ \A c \in Conds : Waiting(c) = {}
  BY DEF Init, Blocked, Waiting, InCond
<1>4. Queued
  BY <1>3, ListEmpty DEF Init, Queued
<1> QED
  BY <1>1, <1>2, <1>4 DEF IInv

LEMMA NextIInv == IInv /\ [Next]_vars => IInv'
BY TypeStep, KnownStep, QueuedStep, WakesStep, ReasonStep DEF IInv

LEMMA Invariant == Spec => []IInv
BY InitIInv, NextIInv, PTL DEF Spec

\* What is inductive implies what CondInv says of the lists.
LEMMA QueuedLists ==
  ASSUME Queued
  PROVE  ListsInv
<1>1. ListOf(mwaiting, Blocked, nextwait) /\ \A c \in Conds : ListOf(cwaiting[c], Waiting(c), nextwait)
  BY DEF Queued
<1> QED
  BY <1>1, ListMembers DEF ListsInv, Blocked, Waiting

\* However threads wait, are signalled and time out, the links form the lists
\* of the threads that sleep, and a free mutex has woken a thread that waits.
THEOREM CondCorrect == Spec => []CondInv
<1>1. IInv => CondInv
  BY QueuedLists DEF IInv, CondInv
<1> QED
  BY <1>1, Invariant, PTL

\* A wait reports a timeout only after abstime, and otherwise was signalled,
\* whatever the phase of the clock against the real time.
THEOREM WaitCorrect == Spec => []WaitTellsTheTruth
BY Invariant, PTL DEF IInv

-----------------------------------------------------------------------------
(* The lists of links implement queues.                                    *)

\* The queue of CondSpec.
Queue(c) == List(cwaiting[c])

\* A chain that starts at the head of a list is that list, before a step and
\* after it.
LEMMA QueueIs == \A c \in Conds : \A s : Chain(cwaiting[c], s, nextwait) => Queue(c) = s
BY ChainList DEF Queue

LEMMA QueueNext == (\A c \in Conds : \A s : Chain(cwaiting[c], s, nextwait) => Queue(c) = s)'
BY QueueIs, PTL

\* It has the threads in a wait for c, in the order of the links.
LEMMA QueueChain ==
  ASSUME Queued, NEW c \in Conds
  PROVE  Chain(cwaiting[c], Queue(c), nextwait) /\ Elements(Queue(c)) = Waiting(c)
<1>1. PICK s : Chain(cwaiting[c], s, nextwait) /\ Elements(s) = Waiting(c)
  BY DEF Queued, ListOf
<1> QED
  BY <1>1, QueueIs

\* A queue whose head and whose threads' links stay stays.
LEMMA QueueFrame ==
  ASSUME Queued, NEW c \in Conds, cwaiting'[c] = cwaiting[c],
         \A u \in Waiting(c) : nextwait'[u] = nextwait[u]
  PROVE  Queue(c)' = Queue(c)
<1>1. Chain(cwaiting[c], Queue(c), nextwait')
  BY QueueChain, ChainFrame
<1> QED
  BY <1>1, QueueNext

\* The four steps that change a queue.
LEMMA WaitQueues ==
  ASSUME IInv, NEW t \in Threads, NEW c \in Conds, NEW a, Wait(t, c, a)
  PROVE  Queue(c)' = Append(Queue(c), t) /\ \A d \in Conds \ {c} : Queue(d)' = Queue(d)
<1>1. /\ state[t] = "RUNNING" /\ nextwait' = NewLinks(cwaiting[c], t)
      /\ cwaiting' = [cwaiting EXCEPT ![c] = NewHead(@, t)]
  BY DEF Wait, At
<1>2. \A d \in Conds : t \notin Waiting(d)
  BY <1>1 DEF Waiting, InCond
<1>3. Chain(cwaiting[c], Queue(c), nextwait) /\ Elements(Queue(c)) = Waiting(c)
  BY QueueChain DEF IInv
<1>4. /\ Chain(NewHead(cwaiting[c], t), Append(Queue(c), t), nextwait')
      /\ \A u \in Threads : u \notin Waiting(c) /\ u # t => nextwait'[u] = nextwait[u]
  BY <1>1, <1>2, <1>3, ChainAppend
<1>5. cwaiting'[c] = NewHead(cwaiting[c], t) /\ \A d \in Conds \ {c} : cwaiting'[d] = cwaiting[d]
  BY <1>1 DEF IInv, TypeOK
<1>6. Queue(c)' = Append(Queue(c), t)
  BY <1>4, <1>5, QueueNext
<1>7. ASSUME NEW d \in Conds \ {c} PROVE Queue(d)' = Queue(d)
  <2>1. \A u \in Waiting(d) : nextwait'[u] = nextwait[u]
    BY <1>2, <1>4, ListsApart DEF Waiting, IInv
  <2> QED
    BY <1>5, <2>1, QueueFrame DEF IInv
<1> QED
  BY <1>6, <1>7

LEMMA SignalQueues ==
  ASSUME IInv, NEW t \in Threads, NEW c \in Conds, Signal(t, c)
  PROVE  /\ Queue(c) # << >> /\ Queue(c)' = Tail(Queue(c))
         /\ \A d \in Conds \ {c} : Queue(d)' = Queue(d)
<1> DEFINE s == Queue(c)
<1>1. /\ cwaiting[c] # NULL /\ nextwait' = nextwait
      /\ cwaiting' = [cwaiting EXCEPT ![c] = nextwait[cwaiting[c]]]
  BY DEF Signal
<1>2. Chain(cwaiting[c], s, nextwait)
  BY QueueChain DEF IInv
<1> HIDE DEF s
<1>3. /\ s \in Seq(Threads) /\ Len(s) \in Nat /\ Len(s) # 0 /\ s # << >> /\ cwaiting[c] = s[1]
      /\ 1 \in 1 .. Len(s)
  BY <1>1, <1>2 DEF Chain
<1>4. /\ Tail(s) \in Seq(Threads) /\ Len(Tail(s)) = Len(s) - 1
      /\ \A i \in 1 .. Len(s) - 1 : Tail(s)[i] = s[i + 1]
  BY <1>3
<1>5. nextwait[cwaiting[c]] = IF Len(Tail(s)) = 0 THEN NULL ELSE Tail(s)[1]
  <2>1. nextwait[s[1]] = IF 1 = Len(s) THEN NULL ELSE s[1 + 1]
    BY <1>2, <1>3 DEF Chain
  <2> QED
    BY <1>3, <1>4, <2>1
<1>6. ASSUME NEW i \in 1 .. Len(s) - 1
      PROVE  nextwait[Tail(s)[i]] = IF i = Len(s) - 1 THEN NULL ELSE Tail(s)[i + 1]
  <2>1. i + 1 \in 1 .. Len(s) /\ Tail(s)[i] = s[i + 1]
    BY <1>3, <1>4
  <2>2. nextwait[s[i + 1]] = IF i + 1 = Len(s) THEN NULL ELSE s[(i + 1) + 1]
    BY <1>2, <2>1 DEF Chain
  <2>3. i # Len(s) - 1 => Tail(s)[i + 1] = s[(i + 1) + 1]
    <3>1. i # Len(s) - 1 => i + 1 \in 1 .. Len(s) - 1
      BY <1>3
    <3> QED
      BY <1>4, <3>1
  <2>4. i = Len(s) - 1 <=> i + 1 = Len(s)
    BY <1>3
  <2> QED
    BY <2>1, <2>2, <2>3, <2>4
<1>7. ASSUME NEW i \in 1 .. Len(s) - 1, NEW j \in 1 .. Len(s) - 1, Tail(s)[i] = Tail(s)[j]
      PROVE  i = j
  <2>1. i + 1 \in 1 .. Len(s) /\ j + 1 \in 1 .. Len(s) /\ s[i + 1] = s[j + 1]
    BY <1>3, <1>4, <1>7
  <2>2. i + 1 = j + 1
    BY <1>2, <2>1 DEF Chain
  <2> QED
    BY <2>2
<1>8. Chain(nextwait[cwaiting[c]], Tail(s), nextwait)
  BY <1>4, <1>5, <1>6, <1>7 DEF Chain
<1>9. cwaiting'[c] = nextwait[cwaiting[c]] /\ \A d \in Conds \ {c} : cwaiting'[d] = cwaiting[d]
  BY <1>1 DEF IInv, TypeOK
<1>10. Queue(c)' = Tail(s)
  BY <1>1, <1>8, <1>9, QueueNext
<1>11. \A d \in Conds \ {c} : Queue(d)' = Queue(d)
  BY <1>1, <1>9, QueueFrame DEF IInv
<1> QED
  BY <1>3, <1>10, <1>11 DEF s

LEMMA BroadcastQueues ==
  ASSUME IInv, NEW t \in Threads, NEW c \in Conds, Broadcast(t, c)
  PROVE  Queue(c)' = << >> /\ \A d \in Conds \ {c} : Queue(d)' = Queue(d)
<1>1. /\ cwaiting'[c] = NULL /\ nextwait' = nextwait
      /\ \A d \in Conds \ {c} : cwaiting'[d] = cwaiting[d]
  BY DEF Broadcast, IInv, TypeOK
<1>2. Chain(NULL, << >>, nextwait')
  BY DEF Chain
<1>3. Queue(c)' = << >>
  BY <1>1, <1>2, QueueNext
<1>4. \A d \in Conds \ {c} : Queue(d)' = Queue(d)
  BY <1>1, QueueFrame DEF IInv
<1> QED
  BY <1>3, <1>4

LEMMA TimeoutQueues ==
  ASSUME IInv, NEW t \in Threads, TimeoutStep(t)
  PROVE  \E c \in Conds :
           /\ \E i \in 1 .. Len(Queue(c)) : Queue(c)[i] = t /\ Queue(c)' = Without(Queue(c), i)
           /\ \A d \in Conds \ {c} : Queue(d)' = Queue(d)
<1>0. PICK c \in Conds : c = cond[t] /\ t \in Waiting(c)
  BY DEF TimeoutStep, IInv, WaitsKnown, Waiting, InCond
<1>1. /\ nextwait' = LinksWithout(cwaiting[c], t)
      /\ cwaiting' = [cwaiting EXCEPT ![c] = HeadWithout(@, t)]
  BY <1>0 DEF TimeoutStep
<1>2. Chain(cwaiting[c], Queue(c), nextwait) /\ Elements(Queue(c)) = Waiting(c)
  BY <1>0, QueueChain DEF IInv
<1>3. PICK i \in 1 .. Len(Queue(c)) : t = Queue(c)[i]
  BY <1>0, <1>2 DEF Elements
<1>4. /\ Chain(HeadWithout(cwaiting[c], t), Without(Queue(c), i), nextwait')
      /\ \A u \in Threads : u \notin Waiting(c) => nextwait'[u] = nextwait[u]
  BY <1>1, <1>2, <1>3, ChainWithout
<1>5. /\ cwaiting'[c] = HeadWithout(cwaiting[c], t)
      /\ \A d \in Conds \ {c} : cwaiting'[d] = cwaiting[d]
  BY <1>0, <1>1 DEF IInv, TypeOK
<1>6. Queue(c)' = Without(Queue(c), i)
  BY <1>0, <1>4, <1>5, QueueNext
<1>7. ASSUME NEW d \in Conds \ {c} PROVE Queue(d)' = Queue(d)
  <2>1. \A u \in Waiting(d) : nextwait'[u] = nextwait[u]
    BY <1>0, <1>4, ListsApart DEF Waiting, IInv
  <2> QED
    BY <1>5, <2>1, QueueFrame DEF IInv
<1> QED
  BY <1>3, <1>6, <1>7

\* Every step that is not one of the four above leaves the queues alone.
LEMMA OtherQueues ==
  ASSUME IInv, NEW t \in Threads, Continue(t)
  PROVE  \A c \in Conds : Queue(c)' = Queue(c)
<1>1. cwaiting' = cwaiting
  BY DEF Continue, LockGranted, LockBlocks, LockWoken, WaitReturns
<1>2. \A u \in Threads : u \notin Blocked \/ u = t => \/ nextwait'[u] = nextwait[u] \/ u = t
  <2>1. CASE LockBlocks(t)
    <3>1. Members(mwaiting) = Blocked
      BY BlockedMembers DEF IInv
    <3> QED
      BY <2>1, <3>1 DEF LockBlocks, NewLinks
  <2>2. CASE LockWoken(t)
    <3>1. Members(mwaiting) = Blocked
      BY BlockedMembers DEF IInv
    <3> QED
      BY <2>2, <3>1 DEF LockWoken, LinksWithout
  <2>3. CASE LockGranted(t) \/ WaitReturns(t)
    BY <2>3 DEF LockGranted, WaitReturns, node
  <2> QED
    BY <2>1, <2>2, <2>3 DEF Continue
<1>3. state[t] = "RUNNING"
  BY DEF Continue, LockGranted, LockBlocks, LockWoken, WaitReturns, At
<1>4. ASSUME NEW c \in Conds PROVE \A u \in Waiting(c) : nextwait'[u] = nextwait[u]
  <2>1. \A u \in Waiting(c) : u \in Threads /\ u # t /\ u \notin Blocked
    BY <1>3, ListsApart DEF Waiting, InCond, IInv
  <2> QED
    BY <1>2, <2>1
<1> QED
  BY <1>1, <1>4, QueueFrame DEF IInv

\* pthread_cond_wait, _signal, _broadcast and the scheduler's timeout do to the
\* links what CondSpec does to its queues, each in one step.
THEOREM Refinement == Spec => ImplementsCond
<1>1. ASSUME Init PROVE Abstract!Init
  <2>1. \A c \in Conds : Chain(cwaiting[c], << >>, nextwait)
    BY <1>1 DEF Init, Chain
  <2>2. \A c \in Conds : List(cwaiting[c]) = << >>
    BY <2>1, ChainList
  <2> QED
    BY <1>1, <2>2 DEF Init, Abstract!Init
<1>2. ASSUME IInv, [Next]_vars PROVE [Abstract!Next]_(Abstract!cvars)
  <2> DEFINE q == [c \in Conds |-> List(cwaiting[c])]
  <2>q. q = [c \in Conds |-> Queue(c)] /\ q' = [c \in Conds |-> Queue(c)']
    BY DEF Queue
  <2>s. ASSUME owner' = owner, \A c \in Conds : Queue(c)' = Queue(c)
        PROVE  [Abstract!Next]_(Abstract!cvars)
    <3>1. q' = q
      BY <2>q, <2>s
    <3> QED
      BY <2>s, <3>1 DEF Abstract!cvars
  <2>1. CASE UNCHANGED vars
    <3>1. \A c \in Conds : Queue(c)' = Queue(c)
      BY <2>1, <1>2, QueueFrame DEF IInv, vars, node
    <3> QED
      BY <2>1, <2>s, <3>1 DEF vars, mutex
  <2>2. CASE Tick
    <3>1. \A c \in Conds : Queue(c)' = Queue(c)
      BY <2>2, <1>2, QueueFrame DEF IInv, Tick, node
    <3> QED
      BY <2>2, <2>s, <3>1 DEF Tick, mutex
  <2>3. ASSUME NEW t \in Threads, Continue(t) PROVE [Abstract!Next]_(Abstract!cvars)
    <3>1. \A c \in Conds : Queue(c)' = Queue(c)
      BY <1>2, <2>3, OtherQueues
    <3>2. owner' = owner \/ (owner = NULL /\ owner' = t)
      BY <2>3 DEF Continue, LockGranted, LockBlocks, LockWoken, WaitReturns, mutex
    <3>3. ASSUME owner = NULL, owner' = t PROVE Abstract!Acquire(t)
      <4>1. q' = q
        BY <2>q, <3>1
      <4> QED
        BY <3>3, <4>1 DEF Abstract!Acquire
    <3> QED
      BY <2>s, <3>1, <3>2, <3>3 DEF Abstract!Next
  <2>4. ASSUME NEW t \in Threads, TimeoutStep(t) PROVE [Abstract!Next]_(Abstract!cvars)
    <3>1. PICK c \in Conds :
            /\ \E i \in 1 .. Len(Queue(c)) : Queue(c)[i] = t /\ Queue(c)' = Without(Queue(c), i)
            /\ \A d \in Conds \ {c} : Queue(d)' = Queue(d)
      BY <1>2, <2>4, TimeoutQueues
    <3>2. PICK i \in 1 .. Len(Queue(c)) : Queue(c)[i] = t /\ Queue(c)' = Without(Queue(c), i)
      BY <3>1
    <3>3. q[c] = Queue(c)
      BY <2>q
    <3>4. q' = [q EXCEPT ![c] = SubSeq(@, 1, i - 1) \o SubSeq(@, i + 1, Len(@))]
      <4>1. q' = [q EXCEPT ![c] = Without(Queue(c), i)]
        BY <2>q, <3>1, <3>2
      <4> QED
        BY <3>3, <4>1 DEF Without
    <3>5. Abstract!Timeout(t, c)
      BY <2>4, <3>2, <3>3, <3>4 DEF TimeoutStep, mutex, Abstract!Timeout
    <3> QED
      BY <3>5 DEF Abstract!Next
  <2>5. ASSUME NEW t \in Threads, LockCall(t) PROVE [Abstract!Next]_(Abstract!cvars)
    <3>1. \A c \in Conds : Queue(c)' = Queue(c)
      BY <2>5, <1>2, QueueFrame DEF IInv, LockCall, node
    <3> QED
      BY <2>5, <2>s, <3>1 DEF LockCall, mutex
  <2>6. ASSUME NEW t \in Threads, Unlock(t) PROVE [Abstract!Next]_(Abstract!cvars)
    <3>1. \A c \in Conds : Queue(c)' = Queue(c)
      BY <2>6, <1>2, QueueFrame DEF IInv, Unlock
    <3>2. q' = q
      BY <2>q, <3>1
    <3>3. Abstract!Release(t)
      BY <2>6, <3>2 DEF Unlock, Abstract!Release
    <3> QED
      BY <3>3 DEF Abstract!Next
  <2>7. ASSUME NEW t \in Threads, NEW c \in Conds, Signal(t, c)
        PROVE  [Abstract!Next]_(Abstract!cvars)
    <3>1. /\ Queue(c) # << >> /\ Queue(c)' = Tail(Queue(c))
          /\ \A d \in Conds \ {c} : Queue(d)' = Queue(d)
      BY <1>2, <2>7, SignalQueues
    <3>2. q[c] = Queue(c) /\ q' = [q EXCEPT ![c] = Tail(@)]
      BY <2>q, <3>1
    <3>3. Abstract!Signal(c)
      BY <2>7, <3>1, <3>2 DEF Signal, mutex, Abstract!Signal
    <3> QED
      BY <3>3 DEF Abstract!Next
  <2>8. ASSUME NEW t \in Threads, NEW c \in Conds, Broadcast(t, c)
        PROVE  [Abstract!Next]_(Abstract!cvars)
    <3>1. Queue(c)' = << >> /\ \A d \in Conds \ {c} : Queue(d)' = Queue(d)
      BY <1>2, <2>8, BroadcastQueues
    <3>2. q' = [q EXCEPT ![c] = << >>]
      BY <2>q, <3>1
    <3>3. Abstract!Broadcast(c)
      BY <2>8, <3>2 DEF Broadcast, mutex, Abstract!Broadcast
    <3> QED
      BY <3>3 DEF Abstract!Next
  <2>9. ASSUME NEW t \in Threads, NEW c \in Conds, NEW a \in AbsTimes \cup {NULL}, Wait(t, c, a)
        PROVE  [Abstract!Next]_(Abstract!cvars)
    <3>1. Queue(c)' = Append(Queue(c), t) /\ \A d \in Conds \ {c} : Queue(d)' = Queue(d)
      BY <1>2, <2>9, WaitQueues
    <3>2. q' = [q EXCEPT ![c] = Append(@, t)]
      BY <2>q, <3>1
    <3>3. Abstract!Wait(t, c)
      BY <2>9, <3>2 DEF Wait, Abstract!Wait
    <3> QED
      BY <3>3 DEF Abstract!Next
  <2> QED
    BY <1>2, <2>1, <2>2, <2>3, <2>4, <2>5, <2>6, <2>7, <2>8, <2>9 DEF Next
<1> QED
  BY <1>1, <1>2, Invariant, PTL DEF Spec, ImplementsCond, Abstract!Spec
=============================================================================
