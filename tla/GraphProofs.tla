----------------------------- MODULE GraphProofs -----------------------------
(***************************************************************************)
(* The two loops over dependencies are correct, for any finite set of      *)
(* tasks, any dependencies and any maxDepth: orderTasks() finds the one    *)
(* order it is to find, or that there is a cycle, and impact() hits what   *)
(* is near enough, each node once and nearer nodes first.                  *)
(*                                                                         *)
(* The balls around the seed are a recursive function and the queue's      *)
(* entries are ranked by CHOOSE, so that two facts need induction; it is   *)
(* had over sets, from the well-foundedness of the numbers.  The walk      *)
(* itself is argued about with constants in the place of the variables:    *)
(* the balls W, the queue F, the nodes seen S and those hit O.             *)
(***************************************************************************)
EXTENDS DependencyGraph, FiniteSetTheorems, FunctionTheorems, SequenceTheorems,
        WellFoundedInduction, TLAPS


-----------------------------------------------------------------------------
(* Induction, over sets.                                                   *)

\* Every set of numbers but the empty one has a least.
LEMMA LeastNat ==
    ASSUME NEW T, T \subseteq Nat, T # {}
    PROVE  \E x \in T : \A y \in T : x <= y
  <1>1. IsWellFoundedOn(OpToRel(<, Nat), Nat)
    BY NatLessThanWellFounded
  <1>2. PICK x \in T : \A y \in T : ~ (<<y, x>> \in OpToRel(<, Nat))
    BY <1>1, WFMin
  <1>3. \A y \in T : ~ (y < x)
    BY <1>2 DEF OpToRel
  <1> QED
    BY <1>3

\* A set of numbers with 0 and every successor has all.
LEMMA AllNat ==
    ASSUME NEW T, 0 \in T, \A n \in Nat : n \in T => n + 1 \in T
    PROVE  Nat \subseteq T
  <1> PICK U : U = Nat \ T
    OBVIOUS
  <1>1. SUFFICES ASSUME U # {} PROVE FALSE
    OBVIOUS
  <1>2. PICK n \in U : \A m \in U : n <= m
    BY <1>1, LeastNat
  <1>3. n \in Nat /\ n # 0
    OBVIOUS
  <1>4. n - 1 \in Nat /\ n - 1 \notin U
    BY <1>2, <1>3
  <1>5. (n - 1) + 1 = n
    BY <1>3
  <1> QED
    BY <1>3, <1>4, <1>5

-----------------------------------------------------------------------------
(* The nodes within some distance of one.                                  *)

\* A set and the targets of its nodes.
Spread(S) == S \cup UNION {needs[t] : t \in S}

\* What Within computes: the balls around s, up to radius n.
Balls(f, n, s) == f = [i \in 0 .. n |-> IF i = 0 THEN {s} ELSE Spread(f[i - 1])]

\* The recursion has a solution, ..
LEMMA BallsExist == ASSUME NEW s PROVE \A n \in Nat : \E f : Balls(f, n, s)
  <1> PICK T : T = {n \in Nat : \E f : Balls(f, n, s)}
    OBVIOUS
  <1>1. 0 \in T
    <2>1. Balls([i \in 0 .. 0 |-> {s}], 0, s)
      BY DEF Balls
    <2> QED
      BY <2>1
  <1>2. ASSUME NEW n \in Nat, n \in T
        PROVE  n + 1 \in T
    <2>1. PICK g : Balls(g, n, s)
      BY <1>2
    <2> PICK f : f = [i \in 0 .. n + 1 |-> IF i = n + 1 THEN Spread(g[n]) ELSE g[i]]
      OBVIOUS
    <2>2. DOMAIN g = 0 .. n /\ \A i \in 0 .. n : g[i] = IF i = 0 THEN {s} ELSE Spread(g[i - 1])
      BY <2>1, Zenon DEF Balls
    <2>3. ASSUME NEW i \in 0 .. n + 1
          PROVE  f[i] = IF i = 0 THEN {s} ELSE Spread(f[i - 1])
      <3>1. CASE i = n + 1
        <4>1. i # 0 /\ i - 1 = n /\ n \in 0 .. n + 1 /\ n # n + 1
          BY <3>1
        <4>2. f[n] = g[n] /\ f[i] = Spread(g[n])
          BY <3>1, <4>1
        <4> QED
          BY <4>1, <4>2
      <3>2. CASE i = 0
        <4>1. i \in 0 .. n /\ i # n + 1
          BY <3>2
        <4>2. f[i] = g[i]
          BY <4>1
        <4> QED
          BY <2>2, <3>2, <4>1, <4>2
      <3>3. CASE i # 0 /\ i # n + 1
        <4>1. i \in 0 .. n /\ i - 1 \in 0 .. n /\ i - 1 \in 0 .. n + 1 /\ i - 1 # n + 1
          BY <3>3
        <4>2. f[i] = g[i] /\ f[i - 1] = g[i - 1]
          BY <3>3, <4>1
        <4> QED
          BY <2>2, <3>3, <4>1, <4>2
      <3> QED
        BY <3>1, <3>2, <3>3
    <2>4. f = [i \in 0 .. n + 1 |-> IF i = 0 THEN {s} ELSE Spread(f[i - 1])]
      BY <2>3
    <2> QED
      BY <2>4 DEF Balls
  <1>3. \A n \in Nat : n \in T => n + 1 \in T
    BY <1>2
  <1>4. Nat \subseteq T
    BY <1>1, <1>3, AllNat
  <1> QED
    BY <1>4

\* .. which is the only one, ..
LEMMA BallsAgree ==
    ASSUME NEW s, NEW m \in Nat, NEW n \in Nat, NEW f, NEW g, Balls(f, m, s), Balls(g, n, s)
    PROVE  \A i \in 0 .. m : i \in 0 .. n => f[i] = g[i]
  <1> PICK T : T = {i \in Nat : i \in 0 .. m /\ i \in 0 .. n => f[i] = g[i]}
    OBVIOUS
  <1>1. /\ \A i \in 0 .. m : f[i] = IF i = 0 THEN {s} ELSE Spread(f[i - 1])
        /\ \A i \in 0 .. n : g[i] = IF i = 0 THEN {s} ELSE Spread(g[i - 1])
    BY Zenon DEF Balls
  <1>2. 0 \in T
    BY <1>1
  <1>3. ASSUME NEW i \in Nat, i \in T
        PROVE  i + 1 \in T
    <2> SUFFICES ASSUME i + 1 \in 0 .. m, i + 1 \in 0 .. n
                 PROVE  f[i + 1] = g[i + 1]
      OBVIOUS
    <2>1. i \in 0 .. m /\ i \in 0 .. n /\ i + 1 # 0 /\ (i + 1) - 1 = i
      OBVIOUS
    <2>2. f[i] = g[i]
      BY <1>3, <2>1
    <2> QED
      BY <1>1, <2>1, <2>2
  <1>4. \A i \in Nat : i \in T => i + 1 \in T
    BY <1>3
  <1>5. Nat \subseteq T
    BY <1>2, <1>4, AllNat
  <1> QED
    BY <1>5

\* .. and it is what Within chooses.
LEMMA WithinBall ==
    ASSUME NEW s, NEW d \in Nat
    PROVE  \E f : Balls(f, d, s) /\ Within(s, d) = f[d]
  <1>1. \E f : Balls(f, d, s)
    BY BallsExist
  <1> QED
    BY <1>1, Zenon DEF Within, Balls, Spread


\* The recursion of the balls.
LEMMA WithinBase == \A s : Within(s, 0) = {s}
  <1> TAKE s
  <1>1. PICK f : Balls(f, 0, s) /\ Within(s, 0) = f[0]
    BY WithinBall
  <1>2. 0 \in 0 .. 0
    OBVIOUS
  <1>3. f[0] = {s}
    BY <1>1, <1>2, Zenon DEF Balls
  <1> QED
    BY <1>1, <1>3

LEMMA WithinNext == \A s : \A d \in Nat : Within(s, d + 1) = Spread(Within(s, d))
  <1> TAKE s
  <1> TAKE d \in Nat
  <1>1. PICK f : Balls(f, d, s) /\ Within(s, d) = f[d]
    BY WithinBall
  <1>2. PICK g : Balls(g, d + 1, s) /\ Within(s, d + 1) = g[d + 1]
    BY WithinBall
  <1>3. d \in 0 .. d /\ d \in 0 .. d + 1 /\ d + 1 \in Nat
    OBVIOUS
  <1>4. f[d] = g[d]
    BY <1>1, <1>2, <1>3, BallsAgree
  <1>5. \A i \in 0 .. d + 1 : g[i] = IF i = 0 THEN {s} ELSE Spread(g[i - 1])
    BY <1>2, Zenon DEF Balls
  <1>6. d + 1 \in 0 .. d + 1 /\ d + 1 # 0 /\ (d + 1) - 1 = d
    OBVIOUS
  <1>7. g[d + 1] = Spread(g[d])
    BY <1>5, <1>6
  <1> QED
    BY <1>1, <1>2, <1>4, <1>7

\* Larger balls hold the smaller ones.
LEMMA WithinGrows ==
    ASSUME NEW s, NEW d \in Nat
    PROVE  \A e \in Nat : d <= e => Within(s, d) \subseteq Within(s, e)
  <1> PICK T : T = {n \in Nat : Within(s, d) \subseteq Within(s, d + n)}
    OBVIOUS
  <1>1. 0 \in T
    BY d + 0 = d
  <1>2. ASSUME NEW n \in Nat, n \in T
        PROVE  n + 1 \in T
    <2>1. d + (n + 1) = (d + n) + 1 /\ d + n \in Nat
      OBVIOUS
    <2>2. Within(s, (d + n) + 1) = Spread(Within(s, d + n))
      BY <2>1, WithinNext
    <2>3. Within(s, d + n) \subseteq Within(s, d + (n + 1))
      BY <2>1, <2>2 DEF Spread
    <2> QED
      BY <1>2, <2>3
  <1>3. \A n \in Nat : n \in T => n + 1 \in T
    BY <1>2
  <1>4. Nat \subseteq T
    BY <1>1, <1>3, AllNat
  <1> TAKE e \in Nat
  <1>5. ASSUME d <= e
        PROVE  Within(s, d) \subseteq Within(s, e)
    <2>1. e - d \in Nat /\ d + (e - d) = e
      BY <1>5
    <2>2. Within(s, d) \subseteq Within(s, d + (e - d))
      BY <1>4, <2>1
    <2> QED
      BY <2>1, <2>2
  <1> QED
    BY <1>5

\* A set with s that no edge leaves holds every ball around s.
LEMMA WithinClosed ==
    ASSUME NEW s, NEW S, s \in S, \A t \in S : needs[t] \subseteq S
    PROVE  \A d \in Nat : Within(s, d) \subseteq S
  <1> PICK T : T = {n \in Nat : Within(s, n) \subseteq S}
    OBVIOUS
  <1>1. 0 \in T
    BY WithinBase
  <1>2. ASSUME NEW n \in Nat, n \in T
        PROVE  n + 1 \in T
    <2>1. Within(s, n + 1) = Spread(Within(s, n))
      BY WithinNext
    <2>2. Spread(Within(s, n)) \subseteq S
      BY <1>2 DEF Spread
    <2> QED
      BY <2>1, <2>2
  <1>3. \A n \in Nat : n \in T => n + 1 \in T
    BY <1>2
  <1>4. Nat \subseteq T
    BY <1>1, <1>3, AllNat
  <1> QED
    BY <1>4

\* The balls around a task are of tasks.
LEMMA WithinTasks ==
    ASSUME NEW s \in Tasks, needs \in [Tasks -> SUBSET Tasks]
    PROVE  \A d \in Nat : Within(s, d) \subseteq Tasks
  BY WithinClosed

\* The balls of the next state are those of this one: the edges do not change.
LEMMA WithinStays == needs' = needs => \A s, d : Within(s, d)' = Within(s, d)
  BY DEF Within

-----------------------------------------------------------------------------
(* The targets that are pushed.                                            *)

\* How many of S are smaller than u.
Rank(S, u) == Cardinality({v \in S : v < u})

\* The ranks in S are those of the places of a list of S.
Ranked(S) ==
    /\ Cardinality(S) \in Nat
    /\ \A u \in S : Rank(S, u) \in 0 .. Cardinality(S) - 1
    /\ \A u, w \in S : Rank(S, u) = Rank(S, w) => u = w
    /\ \A i \in 1 .. Cardinality(S) : \E u \in S : Rank(S, u) = i - 1

\* Every place of a finite set of numbers is that of exactly one of them.
LEMMA RankOnto ==
    ASSUME NEW S, S \subseteq Nat, IsFiniteSet(S)
    PROVE  Ranked(S)
  <1> PICK n : n = Cardinality(S)
    OBVIOUS
  <1>1. n \in Nat
    BY FS_CardinalityType
  <1>2. \A u \in S : IsFiniteSet({v \in S : v < u}) /\ Rank(S, u) \in Nat
    <2> TAKE u \in S
    <2>1. {v \in S : v < u} \in SUBSET S
      OBVIOUS
    <2>2. IsFiniteSet({v \in S : v < u})
      BY <2>1, FS_Subset
    <2> QED
      BY <2>2, FS_CardinalityType DEF Rank
  <1>3. \A u \in S : Rank(S, u) \in 0 .. n - 1
    <2> TAKE u \in S
    <2> PICK A : A = {v \in S : v < u}
      OBVIOUS
    <2>1. A \in SUBSET S /\ u \notin A /\ u \in S
      OBVIOUS
    <2>2. Cardinality(A) <= Cardinality(S) /\ (Cardinality(S) = Cardinality(A) => S = A)
      BY <2>1, FS_Subset
    <2>3. Cardinality(A) = Rank(S, u) /\ Cardinality(A) # Cardinality(S)
      BY <2>1, <2>2 DEF Rank
    <2> QED
      BY <1>1, <1>2, <2>2, <2>3
  <1>4. ASSUME NEW u \in S, NEW w \in S, u < w
        PROVE  Rank(S, u) # Rank(S, w)
    <2> PICK A, B : A = {v \in S : v < u} /\ B = {v \in S : v < w}
      OBVIOUS
    <2>1. IsFiniteSet(B)
      BY <1>2
    <2>2. A \in SUBSET B /\ u \in B /\ u \notin A
      <3>1. \A v \in S : v \in Nat
        OBVIOUS
      <3>2. u \in Nat /\ w \in Nat /\ \A v \in Nat : v < u => v < w
        BY <1>4
      <3>3. ASSUME NEW v \in A PROVE v \in B
        <4>1. v \in S /\ v < u
          OBVIOUS
        <4>2. v < w
          BY <3>1, <3>2, <4>1
        <4> QED
          BY <4>1, <4>2
      <3>4. u \in B
        BY <1>4
      <3>5. ~ (u < u)
        BY <3>2
      <3> QED
        BY <3>3, <3>4, <3>5
    <2>3. Cardinality(B) = Cardinality(A) => B = A
      BY <2>1, <2>2, FS_Subset
    <2> QED
      BY <2>2, <2>3 DEF Rank
  <1>5. \A u, w \in S : Rank(S, u) = Rank(S, w) => u = w
    BY <1>4
  <1>6. \A i \in 1 .. n : \E u \in S : Rank(S, u) = i - 1
    <2> PICK f : f = [u \in S |-> Rank(S, u)]
      OBVIOUS
    <2>1. f \in Injection(S, 0 .. n - 1)
      BY <1>3, <1>5 DEF Injection, IsInjective
    <2>2. 0 \in Int /\ n - 1 \in Int /\ (IF 0 > n - 1 THEN 0 ELSE (n - 1) - 0 + 1) = n
      BY <1>1
    <2>3. IsFiniteSet(0 .. n - 1) /\ Cardinality(0 .. n - 1) = n
      BY <2>2, FS_Interval
    <2>4. Cardinality(S) = Cardinality(0 .. n - 1) <=> f \in Surjection(S, 0 .. n - 1)
      BY <2>1, <2>3, FS_Injection
    <2>5. f \in Surjection(S, 0 .. n - 1)
      BY <2>3, <2>4
    <2> TAKE i \in 1 .. n
    <2>6. i - 1 \in 0 .. n - 1
      BY <1>1
    <2>7. \E u \in S : f[u] = i - 1
      BY <2>5, <2>6 DEF Surjection
    <2> QED
      BY <2>7
  <1> QED
    BY <1>1, <1>3, <1>5, <1>6 DEF Ranked

\* The entries X hold every node of A at depth d, and nothing else.
Joining(A, d, X) ==
    /\ X \in Seq([id : A, depth : {d}])
    /\ \A u \in A : \E i \in DOMAIN X : X[i] = [id |-> u, depth |-> d]

\* One entry is pushed for every target that is not seen, and none for another.
LEMMA PushedEntries ==
    ASSUME NEW t, NEW S, NEW d, needs[t] \subseteq Nat, IsFiniteSet(needs[t])
    PROVE  Joining(needs[t] \ S, d, Pushed(t, S, d))
  <1> PICK next : next = needs[t] \ S
    OBVIOUS
  <1> PICK n : n = Cardinality(next)
    OBVIOUS
  <1>1. next \subseteq Nat /\ IsFiniteSet(next)
    BY FS_Subset
  <1>2. /\ n \in Nat
        /\ \A u \in next : Rank(next, u) \in 0 .. n - 1
        /\ \A u, w \in next : Rank(next, u) = Rank(next, w) => u = w
        /\ \A i \in 1 .. n : \E u \in next : Rank(next, u) = i - 1
    <2>1. Ranked(next)
      BY <1>1, RankOnto
    <2> QED
      BY <2>1 DEF Ranked
  <1>3. PICK nth :
           /\ Pushed(t, S, d) = [i \in 1 .. n |-> [id |-> nth[i], depth |-> d]]
           /\ \A i \in 1 .. n : nth[i] \in next /\ Rank(next, nth[i]) = i - 1
    <2> DEFINE f == [i \in 1 .. n |-> CHOOSE u \in next : Rank(next, u) = i - 1]
    <2>1. Pushed(t, S, d) = [i \in 1 .. n |-> [id |-> f[i], depth |-> d]]
      BY Zenon DEF Pushed, Rank
    <2>2. \A i \in 1 .. n : f[i] \in next /\ Rank(next, f[i]) = i - 1
      BY <1>2, Zenon
    <2> HIDE DEF f
    <2> QED
      BY <2>1, <2>2
  <1>5. Pushed(t, S, d) \in Seq([id : next, depth : {d}])
    <2>1. \A i \in 1 .. n : [id |-> nth[i], depth |-> d] \in [id : next, depth : {d}]
      BY <1>3
    <2>2. [i \in 1 .. n |-> [id |-> nth[i], depth |-> d]]
              \in [1 .. n -> [id : next, depth : {d}]]
      BY <2>1
    <2>3. \A X : \A f \in [1 .. n -> X] : f \in Seq(X)
      <3> TAKE X
      <3> TAKE f \in [1 .. n -> X]
      <3>1. n \in Nat
        BY <1>2
      <3>2. f \in UNION {[1 .. m -> X] : m \in Nat}
        BY <3>1, Zenon
      <3> QED
        BY <3>2, SeqDef, Zenon
    <2> QED
      BY <1>3, <2>2, <2>3
  <1>6. ASSUME NEW u \in next
        PROVE  \E i \in DOMAIN Pushed(t, S, d) : Pushed(t, S, d)[i] = [id |-> u, depth |-> d]
    <2> PICK i : i = Rank(next, u) + 1
      OBVIOUS
    <2>1. i \in 1 .. n /\ Rank(next, u) = i - 1
      <3> PICK r : r = Rank(next, u)
        OBVIOUS
      <3>1. r \in 0 .. n - 1 /\ n \in Nat /\ i = r + 1
        BY <1>2
      <3> QED
        BY <3>1
    <2>2. nth[i] = u
      BY <1>2, <1>3, <2>1
    <2> QED
      BY <1>3, <2>1, <2>2
  <1> QED
    BY <1>5, <1>6 DEF Joining


-----------------------------------------------------------------------------
(* orderTasks().                                                           *)

\* The first i tasks of the order.
Before(i) == {ordered[h] : h \in 1 .. i}

\* Each place holds the least of the tasks that may stand there.
Least ==
    \A i \in DOMAIN ordered : \A t \in Tasks :
        t \notin Before(i) /\ Known(t) \subseteq Before(i - 1) => ordered[i] < t

\* The tasks of a cycle wait for ever.
KnotsWait == \A S \in SUBSET Tasks : Knotted(S) => S \cap Placed = {}

\* waiting and ready are what they are of the tasks ordered so far.
OrderInv ==
    /\ ordered \in Seq(Tasks)
    /\ needs \in [Tasks -> SUBSET (Tasks \cup {External})]
    /\ waiting = [t \in Tasks |-> Known(t) \ Placed]
    /\ ready = {t \in Tasks \ Placed : Known(t) \subseteq Placed}
    /\ Len(ordered) = Cardinality(Placed)
    /\ Respectful /\ Least /\ KnotsWait

\* The first tasks that are ready are those that depend on none.
LEMMA OrderStarts == OrderInit => OrderInv
  <1> SUFFICES ASSUME OrderInit PROVE OrderInv
    OBVIOUS
  <1>1. Placed = {} /\ ordered = <<>> /\ DOMAIN ordered = {}
    BY DEF OrderInit, Placed
  <1>2. Len(ordered) = Cardinality(Placed)
    BY <1>1, FS_EmptySet
  <1>3. waiting = [t \in Tasks |-> Known(t) \ Placed]
    BY <1>1 DEF OrderInit
  <1>4. ready = {t \in Tasks \ Placed : Known(t) \subseteq Placed}
    <2>1. \A t \in Tasks : Known(t) = {} <=> t \in Tasks \ Placed /\ Known(t) \subseteq Placed
      BY <1>1
    <2> QED
      BY <2>1 DEF OrderInit
  <1>5. Respectful /\ Least /\ KnotsWait
    BY <1>1 DEF Respectful, Least, KnotsWait
  <1> QED
    BY <1>1, <1>2, <1>3, <1>4, <1>5 DEF OrderInit, OrderInv

\* A turn of the ordering loop.
LEMMA OrderStepKeeps ==
    ASSUME OrderInv, NEW t \in Tasks, OrderStep(t)
    PROVE  OrderInv'
  <1> PICK n : n = Len(ordered)
    OBVIOUS
  <1> PICK P : P = Placed
    OBVIOUS
  <1>0. /\ ordered \in Seq(Tasks) /\ n \in Nat /\ DOMAIN ordered = 1 .. n
        /\ \A i \in 1 .. n : ordered[i] \in Tasks
        /\ needs' = needs /\ ordered' = Append(ordered, t)
    BY DEF OrderInv, OrderStep
  <1>1. /\ ordered' \in Seq(Tasks) /\ Len(ordered') = n + 1 /\ DOMAIN ordered' = 1 .. n + 1
        /\ \A i \in 1 .. n : ordered'[i] = ordered[i]
        /\ ordered'[n + 1] = t
    BY <1>0
  <1>2. /\ P = {ordered[i] : i \in 1 .. n} /\ P \subseteq Tasks
        /\ Placed' = P \cup {t}
    <2>1. P = {ordered[i] : i \in 1 .. n}
      BY <1>0 DEF Placed
    <2>2. Placed' = {ordered'[i] : i \in 1 .. n + 1}
      BY <1>1 DEF Placed
    <2>3. \A i \in 1 .. n + 1 : i \in 1 .. n \/ i = n + 1
      BY <1>0
    <2>4. 1 .. n \subseteq 1 .. n + 1 /\ n + 1 \in 1 .. n + 1
      BY <1>0
    <2>5. Placed' \subseteq P \cup {t}
      BY <1>1, <2>1, <2>2, <2>3
    <2>6. P \cup {t} \subseteq Placed'
      BY <1>1, <2>1, <2>2, <2>4
    <2> QED
      BY <1>0, <2>1, <2>5, <2>6
  <1>3. t \in ready /\ t \notin P /\ Known(t) \subseteq P
    BY DEF OrderStep, IsFirst, OrderInv
  <1>4. \A u : Known(u)' = Known(u)
    BY <1>0 DEF Known
  <1>5. waiting' = [u \in Tasks |-> Known(u)' \ Placed']
    <2>1. \A u \in Tasks : waiting[u] = Known(u) \ P
      BY DEF OrderInv
    <2>2. \A u \in Tasks : waiting[u] \ {t} = Known(u)' \ Placed'
      BY <1>2, <1>4, <2>1
    <2>3. waiting' = [u \in Tasks |-> waiting[u] \ {t}]
      BY DEF OrderStep
    <2> QED
      BY <2>2, <2>3
  <1>6. ready' = {u \in Tasks \ Placed' : Known(u)' \subseteq Placed'}
    <2>1. ready' = (ready \ {t}) \cup (Freed(t) \ (P \cup {t}))
      BY DEF OrderStep
    <2>2. ready = {u \in Tasks \ P : Known(u) \subseteq P}
      BY DEF OrderInv
    <2>3. Freed(t) = {u \in Tasks : t \in Known(u) \ P /\ Known(u) \ P = {t}}
      BY DEF OrderInv, Freed
    <2>4. ASSUME NEW u
          PROVE  u \in ready' <=> u \in Tasks \ (P \cup {t}) /\ Known(u) \subseteq P \cup {t}
      <3>1. CASE Known(u) \subseteq P
        BY <1>3, <2>1, <2>2, <2>3, <3>1
      <3>2. CASE ~ (Known(u) \subseteq P)
        <4>1. Known(u) \subseteq P \cup {t} <=> t \in Known(u) \ P /\ Known(u) \ P = {t}
          BY <1>3, <3>2
        <4>2. u \notin ready
          BY <2>2, <3>2
        <4> QED
          BY <2>1, <2>3, <4>1, <4>2
      <3> QED
        BY <3>1, <3>2
    <2> QED
      BY <1>2, <1>4, <2>4
  <1>7. Len(ordered') = Cardinality(Placed')
    <2>1. IsFiniteSet(P)
      BY <1>2, FS_Subset, GraphAssumption
    <2>2. Cardinality(P \cup {t}) = Cardinality(P) + 1
      BY <1>3, <2>1, FS_AddElement
    <2> QED
      BY <1>0, <1>1, <1>2, <2>2 DEF OrderInv
  <1>8. /\ \A i \in 1 .. n : Before(i)' = Before(i) /\ Before(i - 1)' = Before(i - 1)
        /\ Before((n + 1) - 1)' = P /\ Before(n + 1)' = P \cup {t}
    <2>1. ASSUME NEW i \in 0 .. n
          PROVE  Before(i)' = Before(i)
      <3>1. \A h \in 1 .. i : h \in 1 .. n
        BY <1>0
      <3>2. \A h \in 1 .. i : ordered'[h] = ordered[h]
        BY <1>1, <3>1
      <3> QED
        BY <3>2 DEF Before
    <2>2. \A i \in 1 .. n : i \in 0 .. n /\ i - 1 \in 0 .. n
      BY <1>0
    <2>3. n \in 0 .. n /\ (n + 1) - 1 = n
      BY <1>0
    <2>4. Before(n) = P
      BY <1>2 DEF Before
    <2>5. Before(n + 1)' = Placed'
      BY <1>1 DEF Before, Placed
    <2>6. Before((n + 1) - 1)' = P
      BY <2>1, <2>3, <2>4
    <2> QED
      BY <1>2, <2>1, <2>2, <2>5, <2>6
  <1>9. \A i \in 1 .. n + 1 : i \in 1 .. n \/ i = n + 1
    BY <1>0
  <1>10. Respectful'
    <2>1. \A i \in 1 .. n : Known(ordered[i]) \subseteq Before(i - 1) /\ ordered[i] \notin Before(i - 1)
      BY <1>0 DEF OrderInv, Respectful, Before
    <2>2. \A i \in 1 .. n + 1 : /\ Known(ordered'[i]) \subseteq Before(i - 1)'
                                /\ ordered'[i] \notin Before(i - 1)'
      <3> TAKE i \in 1 .. n + 1
      <3>1. CASE i \in 1 .. n
        BY <1>1, <1>8, <2>1, <3>1
      <3>2. CASE i = n + 1
        BY <1>1, <1>3, <1>8, <3>2
      <3> QED
        BY <1>9, <3>1, <3>2
    <2> QED
      BY <1>0, <1>1, <2>2 DEF Respectful, Before, Known
  <1>11. Least'
    <2>1. \A i \in 1 .. n : \A u \in Tasks :
             u \notin Before(i) /\ Known(u) \subseteq Before(i - 1) => ordered[i] < u
      BY <1>0 DEF OrderInv, Least
    <2>2. \A u \in Tasks : u \notin P \cup {t} /\ Known(u) \subseteq P => t < u
      <3> TAKE u \in Tasks
      <3>1. ASSUME u \notin P \cup {t}, Known(u) \subseteq P
            PROVE  t < u
        <4>1. u \in ready
          BY <3>1 DEF OrderInv
        <4>2. t <= u /\ t # u
          BY <3>1, <4>1 DEF OrderStep, IsFirst
        <4>3. t \in Nat /\ u \in Nat
          BY GraphAssumption
        <4> QED
          BY <4>2, <4>3
      <3> QED
        BY <3>1
    <2>3. \A i \in 1 .. n + 1 : \A u \in Tasks :
             u \notin Before(i)' /\ Known(u)' \subseteq Before(i - 1)' => ordered'[i] < u
      <3> TAKE i \in 1 .. n + 1
      <3>1. CASE i \in 1 .. n
        BY <1>1, <1>4, <1>8, <2>1, <3>1
      <3>2. CASE i = n + 1
        BY <1>1, <1>4, <1>8, <2>2, <3>2
      <3> QED
        BY <1>9, <3>1, <3>2
    <2> QED
      BY <1>1, <2>3 DEF Least
  <1>12. KnotsWait'
    <2> SUFFICES ASSUME NEW S \in SUBSET Tasks, Knotted(S)'
                 PROVE  S \cap Placed' = {}
      BY DEF KnotsWait
    <2>1. Knotted(S)
      BY <1>4 DEF Knotted
    <2>2. S \cap P = {}
      BY <2>1 DEF OrderInv, KnotsWait
    <2>3. t \notin S
      BY <1>3, <2>1, <2>2 DEF Knotted
    <2> QED
      BY <1>2, <2>2, <2>3
  <1> QED
    BY <1>0, <1>1, <1>5, <1>6, <1>7, <1>10, <1>11, <1>12 DEF OrderInv

\* Where nothing is ready, what is left over holds a cycle.
LEMMA OrderInvCorrect == OrderInv => OrderCorrect
  <1> SUFFICES ASSUME OrderInv, loop = "order" PROVE OrderCorrect
    BY DEF OrderCorrect
  <1>1. Respectful
    BY DEF OrderInv
  <1>2. \A i \in DOMAIN ordered : \A t \in Tasks :
           /\ t \notin {ordered[h] : h \in 1 .. i}
           /\ Known(t) \subseteq {ordered[h] : h \in 1 .. i - 1}
           => ordered[i] < t
    BY DEF OrderInv, Least, Before
  <1>3. Placed \subseteq Tasks /\ IsFiniteSet(Placed)
    <2>1. Placed \subseteq Tasks
      BY DEF OrderInv, Placed
    <2> QED
      BY <2>1, FS_Subset, GraphAssumption
  <1>4. Cardinality(Placed) = Cardinality(Tasks) <=> Placed = Tasks
    BY <1>3, FS_Subset, GraphAssumption
  <1>5. ASSUME OrderDone
        PROVE  Cyclic <=> \E S \in SUBSET Tasks : Knotted(S)
    <2>1. Cyclic <=> Placed # Tasks
      BY <1>4, <1>5 DEF Cyclic, OrderInv
    <2>2. ASSUME Placed # Tasks
          PROVE  Knotted(Tasks \ Placed)
      <3>1. Tasks \ Placed # {}
        BY <1>3, <2>2
      <3>2. \A t \in Tasks \ Placed : ~ (Known(t) \subseteq Placed)
        BY <1>5 DEF OrderDone, OrderInv
      <3>3. \A t \in Tasks \ Placed : Known(t) \cap (Tasks \ Placed) # {}
        BY <3>2 DEF Known
      <3> QED
        BY <3>1, <3>3 DEF Knotted
    <2>3. ASSUME NEW S \in SUBSET Tasks, Knotted(S)
          PROVE  Placed # Tasks
      BY <2>3 DEF Knotted, OrderInv, KnotsWait
    <2> QED
      BY <2>1, <2>2, <2>3
  <1> QED
    BY <1>1, <1>2, <1>5 DEF OrderCorrect


-----------------------------------------------------------------------------
(* impact(): s is the seed, W the balls around it, N the edges, L maxDepth,  *)
(* S the nodes seen, F the queue.                                          *)

\* Node v at depth d.
Entry(v, d) == [id |-> v, depth |-> d]

\* The entries of a queue.
EntriesOf(F) == {F[i] : i \in DOMAIN F}

\* What the balls around s are known for.
Around(s, N, W) ==
    /\ W \in [Nat -> SUBSET Tasks]
    /\ W[0] = {s}
    /\ \A d \in Nat : W[d + 1] = W[d] \cup UNION {N[t] : t \in W[d]}
    /\ \A d, e \in Nat : d <= e => W[d] \subseteq W[e]
    /\ \A S : s \in S /\ (\A t \in S : N[t] \subseteq S) => \A d \in Nat : W[d] \subseteq S

\* The nodes nearer than d.
Nearer(W, d) == IF d = 0 THEN {} ELSE W[d - 1]

\* The walk stands at depth d: what is nearer is seen, what is at d is seen or waits,
\* and so do the targets of the nodes at d that are seen.
Level(s, N, W, L, d, S, E) ==
    /\ d <= L + 1
    /\ Nearer(W, d) \subseteq S
    /\ S \subseteq W[d]
    /\ \A e \in E : e.id \in W[e.depth] /\ e.depth <= L + 1
    /\ d <= L => /\ \A v \in W[d] \ S : Entry(v, d) \in E
                 /\ \A v \in S \ Nearer(W, d) : \A u \in N[v] : u \in S \/ Entry(u, d + 1) \in E

\* The queue holds entries of depth d before those of the next depth.
Queue(F, d) ==
    /\ F \in Seq([id : Tasks, depth : Nat])
    /\ \A i \in DOMAIN F : F[i].depth \in {d, d + 1}
    /\ \A i, h \in DOMAIN F : i < h => F[i].depth <= F[h].depth

\* Once depth d is done, the walk stands at the next.
LEMMA LevelUp ==
    ASSUME NEW s, NEW N, NEW W, NEW L \in Nat, NEW d \in Nat, NEW S, NEW E,
           Around(s, N, W), Level(s, N, W, L, d, S, E), d <= L,
           \A e \in E : e.depth = d + 1
    PROVE  Level(s, N, W, L, d + 1, S, E)
  <1>0. d + 1 \in Nat /\ d + 1 # 0 /\ (d + 1) - 1 = d /\ d + 1 <= L + 1 /\ d # d + 1
    OBVIOUS
  <1>1. W[d] \subseteq S
    <2> SUFFICES ASSUME NEW v \in W[d], v \notin S PROVE FALSE
      OBVIOUS
    <2>1. Entry(v, d) \in E
      BY DEF Level
    <2>2. Entry(v, d).depth = d
      BY DEF Entry
    <2> QED
      BY <1>0, <2>1, <2>2
  <1>2. Nearer(W, d + 1) = W[d]
    BY <1>0 DEF Nearer
  <1>3. W[d] \subseteq W[d + 1] /\ W[d + 1] = W[d] \cup UNION {N[t] : t \in W[d]}
    BY <1>0 DEF Around
  <1>4. S = W[d]
    BY <1>1 DEF Level
  <1>5. \A v \in W[d + 1] \ S : Entry(v, d + 1) \in E
    <2> TAKE v \in W[d + 1] \ S
    <2>1. PICK u \in W[d] : v \in N[u]
      BY <1>3, <1>4
    <2>2. u \notin Nearer(W, d)
      <3> SUFFICES ASSUME u \in Nearer(W, d) PROVE FALSE
        OBVIOUS
      <3>1. d - 1 \in Nat /\ (d - 1) + 1 = d /\ u \in W[d - 1]
        BY DEF Nearer
      <3>2. W[d] = W[d - 1] \cup UNION {N[t] : t \in W[d - 1]}
        BY <3>1 DEF Around
      <3> QED
        BY <1>4, <2>1, <3>1, <3>2
    <2> QED
      BY <1>4, <2>1, <2>2 DEF Level
  <1>6. S \ Nearer(W, d + 1) = {}
    BY <1>2, <1>4
  <1>7. S \subseteq W[d + 1]
    BY <1>3, <1>4
  <1>8. \A e \in E : e.id \in W[e.depth] /\ e.depth <= L + 1
    BY DEF Level
  <1> QED
    BY <1>0, <1>1, <1>2, <1>5, <1>6, <1>7, <1>8 DEF Level

\* Nothing waits: everything near enough is seen.
LEMMA LevelEnd ==
    ASSUME NEW s, NEW N, NEW W, NEW L \in Nat, NEW d \in Nat, NEW S,
           Around(s, N, W), Level(s, N, W, L, d, S, {}), s \in S
    PROVE  W[L] \subseteq S
  <1>1. CASE d > L
    <2>1. d = L + 1 /\ d # 0 /\ d - 1 = L
      BY <1>1 DEF Level
    <2> QED
      BY <2>1 DEF Level, Nearer
  <1>2. CASE d <= L
    <2>1. W[d] = S
      BY <1>2 DEF Level
    <2>2. ASSUME NEW v \in S
          PROVE  N[v] \subseteq S
      <3>1. CASE v \in Nearer(W, d)
        <4>1. d - 1 \in Nat /\ (d - 1) + 1 = d /\ v \in W[d - 1]
          BY <3>1 DEF Nearer
        <4>2. W[d] = W[d - 1] \cup UNION {N[t] : t \in W[d - 1]}
          BY <4>1 DEF Around
        <4> QED
          BY <2>1, <4>1, <4>2
      <3>2. CASE v \notin Nearer(W, d)
        BY <1>2, <3>2 DEF Level
      <3> QED
        BY <3>1, <3>2
    <2>3. \A e \in Nat : W[e] \subseteq S
      BY <2>2 DEF Around
    <2> QED
      BY <2>3
  <1> QED
    BY <1>1, <1>2 DEF Level

\* The head is passed over: its node is seen, or it is too far.
LEMMA LevelSkip ==
    ASSUME NEW s, NEW N, NEW W, NEW L \in Nat, NEW S, NEW E, NEW G, NEW x,
           x.depth \in Nat, Level(s, N, W, L, x.depth, S, E), G \subseteq E, E \subseteq G \cup {x},
           x.id \in S \/ x.depth > L
    PROVE  Level(s, N, W, L, x.depth, S, G)
  <1>1. ASSUME x.depth <= L, NEW u, NEW d, u \notin S, Entry(u, d) \in E
        PROVE  Entry(u, d) \in G
    <2>1. Entry(u, d).id = u
      BY DEF Entry
    <2>2. ~ (x.depth > L)
      BY <1>1
    <2> QED
      BY <1>1, <2>1, <2>2
  <1>2. \A e \in G : e.id \in W[e.depth] /\ e.depth <= L + 1
    BY DEF Level
  <1> QED
    BY <1>1, <1>2 DEF Level

\* The head x leaves the entries E, and the targets of its node join them.
Expansion(N, x, S, E, G) ==
    /\ x \in E /\ E \subseteq G \cup {x}
    /\ \A e \in G : e \in E \/ \E u \in N[x.id] : e = Entry(u, x.depth + 1)
    /\ \A u \in N[x.id] : u \in S \cup {x.id} \/ Entry(u, x.depth + 1) \in G

\* The head is expanded.
LEMMA LevelExpand ==
    ASSUME NEW s, NEW N, NEW W, NEW L \in Nat, NEW S, NEW E, NEW G, NEW x,
           Around(s, N, W), x.depth \in Nat, x.depth <= L,
           Level(s, N, W, L, x.depth, S, E), Expansion(N, x, S, E, G)
    PROVE  Level(s, N, W, L, x.depth, S \cup {x.id}, G)
  <1> PICK d, y : d = x.depth /\ y = x.id
    OBVIOUS
  <1>0. /\ x \in E /\ E \subseteq G \cup {x}
        /\ \A e \in G : e \in E \/ \E u \in N[y] : e = Entry(u, d + 1)
        /\ \A u \in N[y] : u \in S \cup {y} \/ Entry(u, d + 1) \in G
    BY DEF Expansion
  <1>1. d \in Nat /\ d + 1 \in Nat /\ d <= L /\ d + 1 <= L + 1
    OBVIOUS
  <1>2. y \in W[d]
    BY <1>0 DEF Level
  <1>3. ASSUME NEW u, NEW e, u # y, Entry(u, e) \in E
        PROVE  Entry(u, e) \in G
    <2>1. Entry(u, e).id = u
      BY DEF Entry
    <2> QED
      BY <1>0, <1>3, <2>1
  <1>4. \A e \in G : e.id \in W[e.depth] /\ e.depth <= L + 1
    <2> TAKE e \in G
    <2>1. CASE e \in E
      BY <2>1 DEF Level
    <2>2. ASSUME NEW u \in N[y], e = Entry(u, d + 1)
          PROVE  e.id \in W[e.depth] /\ e.depth <= L + 1
      <3>1. e.id = u /\ e.depth = d + 1
        BY <2>2 DEF Entry
      <3>2. W[d + 1] = W[d] \cup UNION {N[t] : t \in W[d]}
        BY <1>1 DEF Around
      <3> QED
        BY <1>1, <1>2, <2>2, <3>1, <3>2
    <2> QED
      BY <1>0, <2>1, <2>2
  <1>5. Nearer(W, d) \subseteq S \cup {y} /\ S \cup {y} \subseteq W[d] /\ d <= L + 1
    BY <1>1, <1>2 DEF Level
  <1>6. \A v \in W[d] \ (S \cup {y}) : Entry(v, d) \in G
    BY <1>1, <1>3 DEF Level
  <1>7. \A v \in (S \cup {y}) \ Nearer(W, d) : \A u \in N[v] :
           u \in S \cup {y} \/ Entry(u, d + 1) \in G
    <2> TAKE v \in (S \cup {y}) \ Nearer(W, d)
    <2> TAKE u \in N[v]
    <2>1. CASE v = y
      BY <1>0, <2>1
    <2>2. CASE v \in S
      <3>1. u \in S \/ Entry(u, d + 1) \in E
        BY <1>1, <2>2 DEF Level
      <3> QED
        BY <1>0, <1>3, <3>1
    <2> QED
      BY <2>1, <2>2
  <1> QED
    BY <1>4, <1>5, <1>6, <1>7 DEF Level


\* What the queue holds.
EntryType == [id : Tasks, depth : Nat]

\* The head leaves the queue and entries of the next depth join it.
LEMMA QueueMoves ==
    ASSUME NEW F, F # <<>>, Queue(F, Head(F).depth),
           NEW X \in Seq(EntryType), \A i \in DOMAIN X : X[i].depth = Head(F).depth + 1,
           NEW G, G = Tail(F) \o X
    PROVE  /\ Head(F) \in EntriesOf(F) /\ Head(F) \in EntryType
           /\ Queue(G, Head(F).depth)
           /\ EntriesOf(F) \subseteq EntriesOf(G) \cup {Head(F)}
           /\ EntriesOf(G) \subseteq EntriesOf(F) \cup EntriesOf(X)
           /\ EntriesOf(X) \subseteq EntriesOf(G)
  <1> PICK d, m, k : d = Head(F).depth /\ m = Len(F) /\ k = Len(X)
    OBVIOUS
  <1>1. /\ F \in Seq(EntryType)
        /\ \A i \in DOMAIN F : F[i].depth \in {d, d + 1}
        /\ \A i, h \in DOMAIN F : i < h => F[i].depth <= F[h].depth
    BY DEF Queue, EntryType
  <1>2. /\ m \in Nat \ {0} /\ DOMAIN F = 1 .. m /\ Head(F) = F[1] /\ F[1] \in EntryType
        /\ \A i \in 1 .. m : F[i] \in EntryType
    BY <1>1
  <1>3. k \in Nat /\ DOMAIN X = 1 .. k /\ \A i \in 1 .. k : X[i] \in EntryType /\ X[i].depth = d + 1
    OBVIOUS
  <1>4. /\ Tail(F) \in Seq(EntryType) /\ Len(Tail(F)) = m - 1
        /\ \A i \in 1 .. m - 1 : Tail(F)[i] = F[i + 1]
    BY <1>1, HeadTailProperties
  <1>5. /\ G \in Seq(EntryType) /\ Len(G) = (m - 1) + k
        /\ \A i \in 1 .. (m - 1) + k : G[i] = IF i <= m - 1 THEN Tail(F)[i] ELSE X[i - (m - 1)]
    BY <1>4, ConcatProperties
  <1>6. DOMAIN G = 1 .. (m - 1) + k
    BY <1>5
  <1>7. \A i \in DOMAIN G :
           \/ i \in 1 .. m - 1 /\ i + 1 \in 1 .. m /\ G[i] = F[i + 1]
           \/ i > m - 1 /\ i - (m - 1) \in 1 .. k /\ G[i] = X[i - (m - 1)]
    BY <1>2, <1>3, <1>4, <1>5, <1>6
  <1>8. d \in Nat /\ \A i \in 1 .. m : F[i].depth \in Nat
    BY <1>2 DEF EntryType
  <1>9. \A i \in DOMAIN G : G[i].depth \in {d, d + 1}
    BY <1>1, <1>2, <1>3, <1>7
  <1>10. ASSUME NEW i \in DOMAIN G, NEW h \in DOMAIN G, i < h
         PROVE  G[i].depth <= G[h].depth
    <2>1. CASE h \in 1 .. m - 1
      <3>1. i \in 1 .. m - 1 /\ i + 1 \in 1 .. m /\ h + 1 \in 1 .. m /\ i + 1 < h + 1
        BY <1>2, <1>6, <1>10, <2>1
      <3>2. G[i] = F[i + 1] /\ G[h] = F[h + 1]
        BY <1>7, <2>1, <3>1
      <3> QED
        BY <1>1, <1>2, <3>1, <3>2
    <2>2. CASE h \notin 1 .. m - 1
      <3>1. G[h].depth = d + 1
        BY <1>3, <1>7, <2>2
      <3>2. G[i].depth \in {d, d + 1}
        BY <1>9
      <3>3. d \in Nat /\ (d + 1 <= d + 1) /\ (d <= d + 1)
        BY <1>8
      <3>4. G[i].depth = d \/ G[i].depth = d + 1
        BY <3>2
      <3> QED
        BY <3>1, <3>3, <3>4
    <2> QED
      BY <2>1, <2>2
  <1>11. EntriesOf(F) \subseteq EntriesOf(G) \cup {Head(F)}
    <2>1. ASSUME NEW i \in 1 .. m, i # 1
          PROVE  F[i] \in EntriesOf(G)
      <3>1. i - 1 \in 1 .. m - 1 /\ i - 1 \in DOMAIN G /\ (i - 1) + 1 = i
        BY <1>2, <1>3, <1>6, <2>1
      <3>2. G[i - 1] = F[i]
        BY <1>7, <3>1
      <3> QED
        BY <3>1, <3>2 DEF EntriesOf
    <2> QED
      BY <1>2, <2>1 DEF EntriesOf
  <1>12. EntriesOf(G) \subseteq EntriesOf(F) \cup EntriesOf(X)
    BY <1>2, <1>3, <1>7 DEF EntriesOf
  <1>13. EntriesOf(X) \subseteq EntriesOf(G)
    <2>1. ASSUME NEW i \in 1 .. k
          PROVE  X[i] \in EntriesOf(G)
      <3>1. i + (m - 1) \in DOMAIN G /\ i + (m - 1) > m - 1 /\ (i + (m - 1)) - (m - 1) = i
        BY <1>2, <1>3, <1>6
      <3>2. G[i + (m - 1)] = X[i]
        BY <1>2, <1>7, <3>1
      <3> QED
        BY <3>1, <3>2 DEF EntriesOf
    <2> QED
      BY <1>3, <2>1 DEF EntriesOf
  <1>14. Queue(G, d)
    BY <1>5, <1>9, <1>10 DEF Queue, EntryType
  <1>15. Head(F) \in EntriesOf(F)
    BY <1>2 DEF EntriesOf
  <1> QED
    BY <1>2, <1>11, <1>12, <1>13, <1>14, <1>15

\* The depth that the next head has, and what holds there.
LEMMA QueueNext ==
    ASSUME NEW s, NEW N, NEW W, NEW L \in Nat, NEW d \in Nat, NEW S, NEW G, G # <<>>,
           Around(s, N, W), Level(s, N, W, L, d, S, EntriesOf(G)), Queue(G, d)
    PROVE  Level(s, N, W, L, Head(G).depth, S, EntriesOf(G)) /\ Queue(G, Head(G).depth)
  <1>1. /\ G \in Seq([id : Tasks, depth : Nat])
        /\ \A i \in DOMAIN G : G[i].depth \in {d, d + 1}
        /\ \A i, h \in DOMAIN G : i < h => G[i].depth <= G[h].depth
    BY DEF Queue
  <1>2. Head(G) = G[1] /\ 1 \in DOMAIN G /\ Len(G) \in Nat \ {0} /\ DOMAIN G = 1 .. Len(G)
    BY <1>1
  <1>3. CASE Head(G).depth = d
    BY <1>3
  <1>4. CASE Head(G).depth = d + 1
    <2>1. \A i \in DOMAIN G : G[i].depth = d + 1
      <3> TAKE i \in DOMAIN G
      <3>1. i = 1 \/ 1 < i
        BY <1>2
      <3>2. G[i].depth \in {d, d + 1} /\ (1 < i => G[1].depth <= G[i].depth)
        BY <1>1, <1>2
      <3> QED
        BY <1>2, <1>4, <3>1, <3>2
    <2>2. \A e \in EntriesOf(G) : e.depth = d + 1
      BY <2>1 DEF EntriesOf
    <2>3. d <= L
      <3>1. G[1] \in EntriesOf(G)
        BY <1>2 DEF EntriesOf
      <3>2. G[1].depth <= L + 1 /\ G[1].depth = d + 1
        BY <1>2, <1>4, <3>1 DEF Level
      <3> QED
        BY <3>2
    <2>4. Level(s, N, W, L, d + 1, S, EntriesOf(G))
      BY <2>2, <2>3, LevelUp
    <2>5. Queue(G, d + 1)
      BY <1>1, <2>1 DEF Queue
    <2> QED
      BY <1>4, <2>4, <2>5
  <1> QED
    BY <1>1, <1>2, <1>3, <1>4

-----------------------------------------------------------------------------
(* The walk: O are the nodes hit.                                          *)

\* The nodes that a list holds.
PlacedIn(O) == {O[i] : i \in DOMAIN O}

\* No node is hit twice, and none before a nearer one.
Hits(W, L, O) ==
    /\ O \in Seq(Tasks)
    /\ \A i, h \in DOMAIN O : O[i] = O[h] => i = h
    /\ \A i, h \in DOMAIN O : \A d \in 0 .. L : i < h /\ O[h] \in W[d] => O[i] \in W[d]

\* The queue holds the seed alone, or the seed is seen and the rest is farther.
Underway(s, S, F) ==
    \/ F = <<Entry(s, 0)>> /\ S = {}
    \/ s \in S /\ \A i \in DOMAIN F : F[i].depth > 0

\* At the depth of the head, or at the end.
Stands(s, N, W, L, S, F) ==
    /\ F # <<>> => Level(s, N, W, L, Head(F).depth, S, EntriesOf(F)) /\ Queue(F, Head(F).depth)
    /\ F = <<>> => W[L] \subseteq S

\* What holds at each turn of the walk.
Walk(s, N, W, L, S, F, O) ==
    /\ Around(s, N, W)
    /\ F \in Seq(EntryType) /\ S \subseteq Tasks
    /\ Underway(s, S, F)
    /\ PlacedIn(O) = S \ {s}
    /\ S \subseteq W[L]
    /\ Hits(W, L, O)
    /\ Stands(s, N, W, L, S, F)

\* What is seen is at d or nearer, and what is nearer is seen.
Between(W, d, S) == Nearer(W, d) \subseteq S /\ S \subseteq W[d]

\* v is hit after O.
HitNext(W, L, O, v) ==
    Hits(W, L, Append(O, v)) /\ PlacedIn(Append(O, v)) = PlacedIn(O) \cup {v}

\* A node hit at depth d, the nearer ones being seen, is no nearer than those before.
LEMMA HitsGrow ==
    ASSUME NEW s, NEW N, NEW W, NEW L \in Nat, NEW O, NEW d \in Nat, NEW S, NEW v \in Tasks,
           Around(s, N, W), Hits(W, L, O), PlacedIn(O) \subseteq S, v \notin S,
           Between(W, d, S)
    PROVE  HitNext(W, L, O, v)
  <1> PICK n, P : n = Len(O) /\ P = Append(O, v)
    OBVIOUS
  <1>1. /\ O \in Seq(Tasks) /\ n \in Nat /\ DOMAIN O = 1 .. n
        /\ \A i, h \in 1 .. n : O[i] = O[h] => i = h
        /\ \A i, h \in 1 .. n : \A e \in 0 .. L : i < h /\ O[h] \in W[e] => O[i] \in W[e]
    BY DEF Hits
  <1>2. /\ P \in Seq(Tasks) /\ DOMAIN P = 1 .. n + 1 /\ P[n + 1] = v
        /\ \A i \in 1 .. n : P[i] = O[i]
    BY <1>1
  <1>3. \A i \in 1 .. n + 1 : i \in 1 .. n \/ i = n + 1
    BY <1>1
  <1>4. \A i \in 1 .. n : O[i] \in S /\ O[i] # v
    BY <1>1 DEF PlacedIn
  <1>5. \A i, h \in 1 .. n + 1 : P[i] = P[h] => i = h
    BY <1>1, <1>2, <1>3, <1>4
  <1>6. ASSUME NEW e \in 0 .. L, v \in W[e]
        PROVE  S \subseteq W[e]
    <2>1. CASE d <= e
      BY <2>1 DEF Around, Between
    <2>2. CASE e < d
      <3>1. d - 1 \in Nat /\ d # 0 /\ e \in Nat /\ e <= d - 1
        BY <2>2
      <3>2. W[e] \subseteq W[d - 1]
        BY <3>1 DEF Around
      <3> QED
        BY <1>6, <3>1, <3>2 DEF Nearer, Between
    <2> QED
      BY <2>1, <2>2
  <1>7. ASSUME NEW i \in 1 .. n + 1, NEW h \in 1 .. n + 1, NEW e \in 0 .. L, i < h, P[h] \in W[e]
        PROVE  P[i] \in W[e]
    <2>1. i \in 1 .. n
      BY <1>1, <1>7
    <2>2. CASE h \in 1 .. n
      BY <1>1, <1>2, <1>7, <2>1, <2>2
    <2>3. CASE h = n + 1
      BY <1>2, <1>4, <1>6, <1>7, <2>1, <2>3
    <2> QED
      BY <1>3, <2>2, <2>3
  <1>8. PlacedIn(P) = PlacedIn(O) \cup {v}
    <2>1. \A i \in 1 .. n : i \in 1 .. n + 1
      BY <1>1
    <2>2. n + 1 \in 1 .. n + 1
      BY <1>1
    <2> QED
      BY <1>1, <1>2, <1>3, <2>1, <2>2 DEF PlacedIn
  <1> QED
    BY <1>2, <1>5, <1>7, <1>8 DEF Hits, HitNext


\* What a turn of the loop leaves, where it stands at depth d.
LEMMA StandsAgain ==
    ASSUME NEW s, NEW N, NEW W, NEW L \in Nat, NEW d \in Nat, NEW S, NEW G,
           Around(s, N, W), Level(s, N, W, L, d, S, EntriesOf(G)), Queue(G, d), s \in S
    PROVE  Stands(s, N, W, L, S, G)
  <1>1. ASSUME G # <<>>
        PROVE  Level(s, N, W, L, Head(G).depth, S, EntriesOf(G)) /\ Queue(G, Head(G).depth)
    BY <1>1, QueueNext
  <1>2. ASSUME G = <<>>
        PROVE  W[L] \subseteq S
    <2>1. EntriesOf(G) = {}
      BY <1>2 DEF EntriesOf
    <2>2. Level(s, N, W, L, d, S, {})
      BY <2>1
    <2> QED
      BY <2>2, LevelEnd
  <1> QED
    BY <1>1, <1>2 DEF Stands

\* A turn of the walk that passes its head over, ..
LEMMA WalkSkips ==
    ASSUME NEW s, NEW N, NEW W, NEW L \in Nat, NEW S, NEW F, NEW O,
           Walk(s, N, W, L, S, F, O), F # <<>>, Head(F).id \in S \/ Head(F).depth > L
    PROVE  Walk(s, N, W, L, S, Tail(F), O)
  <1> PICK x, d, G : x = Head(F) /\ d = Head(F).depth /\ G = Tail(F)
    OBVIOUS
  <1>1. Level(s, N, W, L, d, S, EntriesOf(F)) /\ Queue(F, d) /\ F \in Seq(EntryType) /\ Around(s, N, W)
    BY DEF Walk, Stands
  <1>2. G = Tail(F) \o <<>> /\ <<>> \in Seq(EntryType) /\ EntriesOf(<<>>) = {}
    BY <1>1 DEF EntriesOf
  <1>3. /\ x \in EntriesOf(F) /\ x \in EntryType /\ Queue(G, d)
        /\ EntriesOf(F) \subseteq EntriesOf(G) \cup {x}
        /\ EntriesOf(G) \subseteq EntriesOf(F)
    <2>1. \A i \in DOMAIN <<>> : <<>>[i].depth = Head(F).depth + 1
      OBVIOUS
    <2>2. /\ Head(F) \in EntriesOf(F) /\ Head(F) \in EntryType
          /\ Queue(G, Head(F).depth)
          /\ EntriesOf(F) \subseteq EntriesOf(G) \cup {Head(F)}
          /\ EntriesOf(G) \subseteq EntriesOf(F) \cup EntriesOf(<<>>)
      BY <1>1, <1>2, <2>1, QueueMoves
    <2> QED
      BY <1>2, <2>2
  <1>4. d \in Nat /\ x.depth = d
    BY <1>3 DEF EntryType
  <1>5. s \in S /\ \A i \in DOMAIN F : F[i].depth > 0
    <2>1. F # <<Entry(s, 0)>> \/ S # {}
      <3> SUFFICES ASSUME F = <<Entry(s, 0)>>, S = {} PROVE FALSE
        OBVIOUS
      <3>1. Head(F).depth = 0
        BY DEF Entry
      <3> QED
        BY <3>1
    <2> QED
      BY <2>1 DEF Walk, Underway
  <1>6. Level(s, N, W, L, d, S, EntriesOf(G))
    <2>1. x.depth \in Nat /\ Level(s, N, W, L, x.depth, S, EntriesOf(F))
      BY <1>1, <1>4
    <2>2. EntriesOf(G) \subseteq EntriesOf(F) /\ EntriesOf(F) \subseteq EntriesOf(G) \cup {x}
      BY <1>3
    <2>3. x.id \in S \/ x.depth > L
      OBVIOUS
    <2>4. Level(s, N, W, L, x.depth, S, EntriesOf(G))
      BY <2>1, <2>2, <2>3, LevelSkip
    <2> QED
      BY <1>4, <2>4
  <1>7. Stands(s, N, W, L, S, G)
    BY <1>1, <1>3, <1>4, <1>5, <1>6, StandsAgain
  <1>8. G \in Seq(EntryType)
    BY <1>1
  <1>9. Underway(s, S, G)
    <2>1. \A e \in EntriesOf(F) : e.depth > 0
      BY <1>5 DEF EntriesOf
    <2>2. \A i \in DOMAIN G : G[i] \in EntriesOf(F)
      BY <1>3 DEF EntriesOf
    <2> QED
      BY <1>5, <2>1, <2>2 DEF Underway
  <1> QED
    BY <1>7, <1>8, <1>9 DEF Walk

\* .. and one that expands it.
LEMMA WalkExpands ==
    ASSUME NEW s \in Tasks, NEW N \in [Tasks -> SUBSET Tasks], NEW W, NEW L \in Nat, NEW S, NEW F,
           NEW O, Walk(s, N, W, L, S, F, O), F # <<>>, Head(F).id \notin S, Head(F).depth <= L,
           NEW T, T = S \cup {Head(F).id},
           NEW X, Joining(N[Head(F).id] \ T, Head(F).depth + 1, X),
           NEW P, P = IF Head(F).depth > 0 THEN Append(O, Head(F).id) ELSE O
    PROVE  Walk(s, N, W, L, T, Tail(F) \o X, P)
  <1> PICK x, d, y, G : x = Head(F) /\ d = Head(F).depth /\ y = Head(F).id /\ G = Tail(F) \o X
    OBVIOUS
  <1>1. /\ Level(s, N, W, L, d, S, EntriesOf(F)) /\ Queue(F, d)
        /\ F \in Seq(EntryType) /\ Around(s, N, W) /\ S \subseteq Tasks
    BY DEF Walk, Stands
  <1>2. Head(F) \in EntryType
    BY <1>1
  <1>3. d \in Nat /\ y \in Tasks /\ x.depth = d /\ x.id = y /\ N[y] \subseteq Tasks
    BY <1>2 DEF EntryType
  <1>4. /\ X \in Seq(EntryType)
        /\ \A i \in DOMAIN X : /\ X[i].depth = d + 1
                               /\ X[i].id \in N[y] \ T
                               /\ X[i] = Entry(X[i].id, d + 1)
    <2> PICK XT : XT = [id : N[y] \ T, depth : {d + 1}]
      OBVIOUS
    <2>1. XT \subseteq EntryType
      BY <1>3 DEF EntryType
    <2>2. X \in Seq(XT)
      BY DEF Joining
    <2>3. \A i \in DOMAIN X : X[i] \in XT
      <3>1. DOMAIN X = 1 .. Len(X)
        BY <2>2, LenProperties
      <3> QED
        BY <2>2, <3>1, ElementOfSeq
    <2>4. \A e \in XT : /\ e.depth = d + 1 /\ e.id \in N[y] \ T
                        /\ e = [id |-> e.id, depth |-> d + 1]
      OBVIOUS
    <2>5. X \in Seq(EntryType)
      BY <2>1, <2>2, SeqMonotonic
    <2> QED
      BY <2>3, <2>4, <2>5 DEF Entry
  <1>5. /\ x \in EntriesOf(F) /\ Queue(G, d)
        /\ EntriesOf(F) \subseteq EntriesOf(G) \cup {x}
        /\ EntriesOf(G) \subseteq EntriesOf(F) \cup EntriesOf(X)
        /\ EntriesOf(X) \subseteq EntriesOf(G)
    BY <1>1, <1>4, QueueMoves
  <1>6. \A e \in EntriesOf(G) : e \in EntriesOf(F) \/ \E u \in N[y] : e = Entry(u, d + 1)
    <2>1. \A e \in EntriesOf(X) : \E u \in N[y] : e = Entry(u, d + 1)
      <3> SUFFICES ASSUME NEW i \in DOMAIN X
                   PROVE  \E u \in N[y] : X[i] = Entry(u, d + 1)
        BY DEF EntriesOf
      <3> QED
        BY <1>4
    <2> QED
      BY <1>5, <2>1
  <1>7. \A u \in N[y] : u \in S \cup {y} \/ Entry(u, d + 1) \in EntriesOf(G)
    <2> SUFFICES ASSUME NEW u \in N[y], u \notin T PROVE Entry(u, d + 1) \in EntriesOf(G)
      OBVIOUS
    <2>1. PICK i \in DOMAIN X : X[i] = [id |-> u, depth |-> d + 1]
      BY DEF Joining
    <2>2. Entry(u, d + 1) \in EntriesOf(X)
      BY <2>1 DEF EntriesOf, Entry
    <2> QED
      BY <1>5, <2>2
  <1>8. Level(s, N, W, L, d, T, EntriesOf(G))
    <2>1. /\ x.depth \in Nat /\ x \in EntriesOf(F) /\ x.depth <= L
          /\ Level(s, N, W, L, x.depth, S, EntriesOf(F)) /\ Around(s, N, W)
      BY <1>1, <1>3, <1>5
    <2>2. EntriesOf(F) \subseteq EntriesOf(G) \cup {x}
      BY <1>5
    <2>3. \A e \in EntriesOf(G) :
             e \in EntriesOf(F) \/ \E u \in N[x.id] : e = Entry(u, x.depth + 1)
      BY <1>3, <1>6
    <2>4. \A u \in N[x.id] : u \in S \cup {x.id} \/ Entry(u, x.depth + 1) \in EntriesOf(G)
      BY <1>3, <1>7
    <2>5. Level(s, N, W, L, x.depth, S \cup {x.id}, EntriesOf(G))
      <3>1. Expansion(N, x, S, EntriesOf(F), EntriesOf(G))
        BY <2>1, <2>2, <2>3, <2>4 DEF Expansion
      <3> QED
        BY <2>1, <3>1, LevelExpand
    <2> QED
      BY <1>3, <2>5
  <1>9. \/ F = <<Entry(s, 0)>> /\ S = {} /\ d = 0 /\ y = s
        \/ s \in S /\ \A i \in DOMAIN F : F[i].depth > 0
    BY DEF Walk, Underway, Entry
  <1>10. s \in T
    BY <1>9
  <1>11. Stands(s, N, W, L, T, G)
    BY <1>1, <1>3, <1>5, <1>8, <1>10, StandsAgain
  <1>12. G \in Seq(EntryType)
    BY <1>5 DEF Queue, EntryType
  <1>13. \A i \in DOMAIN G : G[i].depth > 0
    <2>1. \A e \in EntriesOf(X) : e.depth > 0
      BY <1>3, <1>4 DEF EntriesOf
    <2>2. \A i \in DOMAIN G : G[i] \in EntriesOf(G)
      BY DEF EntriesOf
    <2>3. CASE F = <<Entry(s, 0)>>
      <3>1. Tail(F) = <<>>
        BY <2>3
      <3>2. G = X
        BY <1>4, <3>1, ConcatEmptySeq
      <3>3. \A i \in DOMAIN X : X[i].depth = d + 1 /\ d + 1 > 0
        BY <1>3, <1>4
      <3> QED
        BY <3>2, <3>3
    <2>4. CASE \A i \in DOMAIN F : F[i].depth > 0
      <3>1. \A e \in EntriesOf(F) : e.depth > 0
        BY <2>4 DEF EntriesOf
      <3> QED
        BY <1>5, <2>1, <2>2, <3>1
    <2> QED
      BY <1>9, <2>3, <2>4
  <1>14. Underway(s, T, G)
    BY <1>10, <1>13 DEF Underway
  <1>15. T \subseteq W[L]
    <2>1. y \in W[d]
      BY <1>3, <1>5, <1>1 DEF Level
    <2>2. W[d] \subseteq W[L]
      BY <1>1, <1>3 DEF Around
    <2>3. S \subseteq W[L]
      BY DEF Walk
    <2> QED
      BY <2>1, <2>2, <2>3
  <1>16. Hits(W, L, O) /\ PlacedIn(O) = S \ {s}
    BY DEF Walk
  <1>17. Hits(W, L, P) /\ PlacedIn(P) = T \ {s}
    <2>1. CASE d > 0
      <3>1. s \in S
        BY <1>9, <2>1
      <3>2. Nearer(W, d) \subseteq S /\ S \subseteq W[d] /\ PlacedIn(O) \subseteq S
        BY <1>1, <1>16 DEF Level
      <3>3. Hits(W, L, Append(O, y)) /\ PlacedIn(Append(O, y)) = PlacedIn(O) \cup {y}
        <4>1. y \notin S /\ y \in Tasks /\ d \in Nat /\ Around(s, N, W) /\ Hits(W, L, O)
          BY <1>1, <1>3, <1>16
        <4>2. Between(W, d, S)
          BY <3>2 DEF Between
        <4>3. HitNext(W, L, O, y)
          BY <3>2, <4>1, <4>2, HitsGrow
        <4> QED
          BY <4>3 DEF HitNext
      <3>4. P = Append(O, y)
        BY <2>1
      <3> QED
        BY <1>16, <3>1, <3>3, <3>4
    <2>2. CASE ~ (d > 0)
      <3>1. S = {} /\ y = s
        <4>1. Head(F) = F[1] /\ 1 \in DOMAIN F
          BY <1>1
        <4> QED
          BY <1>9, <2>2, <4>1
      <3>2. P = O
        BY <2>2
      <3> QED
        BY <1>16, <3>1, <3>2
    <2> QED
      BY <2>1, <2>2
  <1>18. T \subseteq Tasks
    BY <1>1, <1>3
  <1> QED
    BY <1>1, <1>11, <1>12, <1>14, <1>15, <1>17, <1>18 DEF Walk


\* The balls around s, as a function.
Radii(s) == [d \in Nat |-> Within(s, d)]

\* The walk is under way from some seed.
ImpactInv ==
    /\ needs \in [Tasks -> SUBSET Tasks] /\ limit \in Nat
    /\ \E s \in Tasks : Walk(s, needs, Radii(s), limit, seen, front, ordered)

\* What is known of the balls around a task.
LEMMA RadiiAround ==
    ASSUME NEW s \in Tasks, needs \in [Tasks -> SUBSET Tasks]
    PROVE  Around(s, needs, Radii(s))
  <1> PICK W : W = Radii(s)
    OBVIOUS
  <1>1. \A d \in Nat : W[d] = Within(s, d)
    BY DEF Radii
  <1>2. W \in [Nat -> SUBSET Tasks]
    BY WithinTasks DEF Radii
  <1>3. W[0] = {s}
    BY <1>1, WithinBase
  <1>4. \A d \in Nat : W[d + 1] = W[d] \cup UNION {needs[t] : t \in W[d]}
    BY <1>1, WithinNext DEF Spread
  <1>5. \A d, e \in Nat : d <= e => W[d] \subseteq W[e]
    BY <1>1, WithinGrows
  <1>6. \A S : s \in S /\ (\A t \in S : needs[t] \subseteq S) => \A d \in Nat : W[d] \subseteq S
    BY <1>1, WithinClosed
  <1> QED
    BY <1>2, <1>3, <1>4, <1>5, <1>6 DEF Around

\* The walk begins with its seed in the queue.
LEMMA ImpactStarts == ImpactInit => ImpactInv
  <1> SUFFICES ASSUME ImpactInit PROVE ImpactInv
    OBVIOUS
  <1>1. needs \in [Tasks -> SUBSET Tasks] /\ limit \in Nat /\ seen = {} /\ ordered = <<>>
    BY GraphAssumption DEF ImpactInit
  <1>2. PICK s \in Tasks : front = <<Entry(s, 0)>>
    BY DEF ImpactInit, Entry
  <1> PICK W : W = Radii(s)
    OBVIOUS
  <1>3. Around(s, needs, W)
    BY <1>1, RadiiAround
  <1>4. Entry(s, 0) \in EntryType /\ Entry(s, 0).depth = 0 /\ Entry(s, 0).id = s
    BY DEF Entry, EntryType
  <1>5. front \in Seq(EntryType) /\ Head(front) = Entry(s, 0) /\ front # <<>>
    BY <1>2, <1>4
  <1>6. EntriesOf(front) = {Entry(s, 0)}
    BY <1>2 DEF EntriesOf
  <1>7. W[0] = {s}
    BY <1>3 DEF Around
  <1>8. Level(s, needs, W, limit, 0, {}, {Entry(s, 0)})
    BY <1>1, <1>4, <1>7 DEF Level, Nearer
  <1>9. Queue(front, 0)
    <2>1. \A i \in DOMAIN front : i = 1 /\ front[i].depth = 0
      BY <1>2, <1>4
    <2> QED
      BY <1>5, <2>1 DEF Queue, EntryType
  <1>10. Stands(s, needs, W, limit, seen, front)
    BY <1>1, <1>4, <1>5, <1>6, <1>8, <1>9 DEF Stands
  <1>11. Hits(W, limit, ordered) /\ PlacedIn(ordered) = {}
    BY <1>1 DEF Hits, PlacedIn
  <1>12. Underway(s, seen, front)
    BY <1>1, <1>2 DEF Underway
  <1>13. Walk(s, needs, W, limit, seen, front, ordered)
    BY <1>1, <1>3, <1>5, <1>10, <1>11, <1>12 DEF Walk
  <1> QED
    BY <1>1, <1>13 DEF ImpactInv

\* A turn of the walk.
LEMMA ImpactStepKeeps == ImpactInv /\ ImpactStep => ImpactInv'
  <1> SUFFICES ASSUME ImpactInv, ImpactStep PROVE ImpactInv'
    OBVIOUS
  <1>1. needs \in [Tasks -> SUBSET Tasks] /\ limit \in Nat
    BY DEF ImpactInv
  <1>2. needs' = needs /\ limit' = limit /\ front # <<>>
    BY DEF ImpactStep
  <1>3. PICK s \in Tasks : Walk(s, needs, Radii(s), limit, seen, front, ordered)
    BY DEF ImpactInv
  <1> PICK W, N : W = Radii(s) /\ N = needs
    OBVIOUS
  <1>4. Walk(s, N, W, limit, seen, front, ordered) /\ N \in [Tasks -> SUBSET Tasks]
    BY <1>1, <1>3
  <1>5. Radii(s)' = W
    BY <1>2, WithinStays DEF Radii
  <1>6. CASE Skips(Head(front))
    <2>1. front' = Tail(front) /\ seen' = seen /\ ordered' = ordered
      BY <1>6 DEF ImpactStep
    <2>2. Head(front).id \in seen \/ Head(front).depth > limit
      BY <1>6 DEF Skips
    <2>3. Walk(s, N, W, limit, seen, Tail(front), ordered)
      BY <1>1, <1>2, <1>4, <2>2, WalkSkips
    <2>4. Walk(s, needs', Radii(s)', limit', seen', front', ordered')
      BY <1>2, <1>5, <2>1, <2>3
    <2> QED
      BY <1>1, <1>2, <2>4 DEF ImpactInv
  <1>7. CASE ~ Skips(Head(front))
    <2> PICK x, T : x = Head(front) /\ T = seen \cup {Head(front).id}
      OBVIOUS
    <2> PICK X : X = Pushed(x.id, T, x.depth + 1)
      OBVIOUS
    <2>1. /\ front' = Tail(front) \o X /\ seen' = T
          /\ ordered' = IF x.depth > 0 THEN Append(ordered, x.id) ELSE ordered
      BY <1>7 DEF ImpactStep
    <2>2. x \in EntryType
      BY <1>2, <1>4 DEF Walk
    <2>3. x.id \in Tasks /\ x.depth \in Nat
      BY <2>2 DEF EntryType
    <2>4. needs[x.id] \subseteq Nat /\ IsFiniteSet(needs[x.id])
      <3>1. needs[x.id] \in SUBSET Tasks
        BY <1>1, <2>3
      <3> QED
        BY <3>1, GraphAssumption, FS_Subset
    <2>5. Joining(N[x.id] \ T, x.depth + 1, X)
      BY <2>4, PushedEntries
    <2>6. x.id \notin seen /\ x.depth <= limit
      BY <1>1, <1>7, <2>3 DEF Skips
    <2>7. Walk(s, N, W, limit, T, Tail(front) \o X,
               IF x.depth > 0 THEN Append(ordered, x.id) ELSE ordered)
      BY <1>1, <1>2, <1>4, <2>5, <2>6, WalkExpands
    <2>8. Walk(s, needs', Radii(s)', limit', seen', front', ordered')
      BY <1>2, <1>5, <2>1, <2>7
    <2> QED
      BY <1>1, <1>2, <2>8 DEF ImpactInv
  <1> QED
    BY <1>6, <1>7

\* With the queue empty, what was hit is what was asked for.
LEMMA ImpactInvCorrect == ImpactInv => ImpactCorrect
  <1> SUFFICES ASSUME ImpactInv, ImpactDone PROVE ImpactCorrect
    BY DEF ImpactCorrect
  <1>1. limit \in Nat /\ front = <<>>
    BY DEF ImpactInv, ImpactDone
  <1>2. PICK s \in Tasks : Walk(s, needs, Radii(s), limit, seen, front, ordered)
    BY DEF ImpactInv
  <1>3. \A d \in Nat : Radii(s)[d] = Within(s, d)
    BY DEF Radii
  <1>4. s \in seen
    BY <1>1, <1>2 DEF Walk, Underway
  <1>5. Placed = seen \ {s}
    BY <1>2 DEF Walk, Placed, PlacedIn
  <1>6. seen = Within(s, limit)
    BY <1>1, <1>2, <1>3 DEF Walk, Stands
  <1>7. \A i, h \in DOMAIN ordered : ordered[i] = ordered[h] => i = h
    BY <1>2 DEF Walk, Hits
  <1>8. \A i, h \in DOMAIN ordered : \A d \in 0 .. limit :
           i < h /\ ordered[h] \in Within(s, d) => ordered[i] \in Within(s, d)
    <2>1. \A d \in 0 .. limit : d \in Nat
      BY <1>1
    <2> QED
      BY <1>2, <1>3, <2>1 DEF Walk, Hits
  <1>9. seen \ Placed = {s} /\ Placed = Within(s, limit) \ {s}
    BY <1>4, <1>5, <1>6
  <1> QED
    BY <1>7, <1>8, <1>9 DEF ImpactCorrect

-----------------------------------------------------------------------------
(* Both loops.                                                             *)

\* Each loop's invariant, and the types of both.
GraphInv ==
    /\ GraphTypeOK
    /\ loop = "order" => OrderInv
    /\ loop = "impact" => ImpactInv

\* A turn of either loop.
LEMMA GraphStep == GraphInv /\ [GraphNext]_graphVars => GraphInv'
  <1> SUFFICES ASSUME GraphInv, [GraphNext]_graphVars PROVE GraphInv'
    OBVIOUS
  <1>1. CASE ImpactStep
    <2>1. loop = "impact" /\ loop' = "impact" /\ ImpactInv'
      BY <1>1, ImpactStepKeeps DEF GraphInv, ImpactStep
    <2>2. front' \in Seq(EntryType) /\ seen' \subseteq Tasks /\ ordered' \in Seq(Tasks)
      BY <2>1 DEF ImpactInv, Walk, Hits
    <2>3. UNCHANGED <<loop, needs, waiting, ready, limit>>
      BY <1>1 DEF ImpactStep
    <2>4. GraphTypeOK'
      BY <2>2, <2>3 DEF GraphInv, GraphTypeOK, EntryType
    <2> QED
      BY <2>1, <2>4 DEF GraphInv
  <1>2. ASSUME NEW t \in Tasks, OrderStep(t)
        PROVE  GraphInv'
    <2>1. loop = "order" /\ loop' = "order" /\ OrderInv'
      BY <1>2, OrderStepKeeps DEF GraphInv, OrderStep
    <2>2. UNCHANGED <<loop, needs, front, seen, limit>>
      BY <1>2 DEF OrderStep
    <2>3. ordered' \in Seq(Tasks) /\ ready' \subseteq Tasks
      BY <2>1 DEF OrderInv
    <2>4. waiting' \in [Tasks -> SUBSET Tasks]
      BY <1>2 DEF OrderStep, GraphInv, GraphTypeOK
    <2>5. GraphTypeOK'
      BY <2>2, <2>3, <2>4 DEF GraphInv, GraphTypeOK
    <2> QED
      BY <2>1, <2>5 DEF GraphInv
  <1>3. CASE UNCHANGED graphVars
    <2>1. UNCHANGED <<loop, needs, waiting, ready, ordered, front, seen, limit>>
      BY <1>3 DEF graphVars
    <2>2. GraphTypeOK'
      BY <2>1 DEF GraphInv, GraphTypeOK
    <2>3. loop' = "order" => OrderInv'
      <3> SUFFICES ASSUME loop = "order" PROVE OrderInv'
        BY <2>1
      <3>1. OrderInv
        BY DEF GraphInv
      <3>2. Placed' = Placed /\ (\A u : Known(u)' = Known(u)) /\ \A i : Before(i)' = Before(i)
        BY <2>1 DEF Placed, Known, Before
      <3>3. Respectful'
        BY <2>1, <3>1 DEF OrderInv, Respectful, Known
      <3>4. Least'
        BY <2>1, <3>1, <3>2 DEF OrderInv, Least
      <3>5. KnotsWait'
        BY <2>1, <3>1, <3>2 DEF OrderInv, KnotsWait, Knotted
      <3>6. /\ waiting' = [t \in Tasks |-> Known(t)' \ Placed']
            /\ ready' = {t \in Tasks \ Placed' : Known(t)' \subseteq Placed'}
        BY <2>1, <3>1, <3>2 DEF OrderInv
      <3>7. /\ ordered' \in Seq(Tasks) /\ needs' \in [Tasks -> SUBSET (Tasks \cup {External})]
            /\ Len(ordered') = Cardinality(Placed')
        BY <2>1, <3>1, <3>2 DEF OrderInv
      <3> QED
        BY <3>3, <3>4, <3>5, <3>6, <3>7 DEF OrderInv
    <2>4. loop' = "impact" => ImpactInv'
      <3>1. \A s : Radii(s)' = Radii(s)
        BY <2>1, WithinStays DEF Radii
      <3> QED
        BY <2>1, <3>1 DEF GraphInv, ImpactInv
    <2> QED
      BY <2>2, <2>3, <2>4 DEF GraphInv
  <1> QED
    BY <1>1, <1>2, <1>3 DEF GraphNext

\* The start of either loop.
LEMMA GraphStarts == GraphInit => GraphInv
  <1> SUFFICES ASSUME GraphInit PROVE GraphInv
    OBVIOUS
  <1>1. CASE OrderInit
    <2>1. loop = "order" /\ OrderInv
      BY <1>1, OrderStarts DEF OrderInit
    <2>2. waiting \in [Tasks -> SUBSET Tasks] /\ ready \subseteq Tasks
      BY <1>1 DEF OrderInit, Known
    <2>3. GraphTypeOK
      BY <1>1, <2>2 DEF OrderInit, GraphTypeOK
    <2> QED
      BY <2>1, <2>3 DEF GraphInv
  <1>2. CASE ImpactInit
    <2>1. loop = "impact" /\ ImpactInv
      BY <1>2, ImpactStarts DEF ImpactInit
    <2>2. front \in Seq(EntryType)
      BY <2>1 DEF ImpactInv, Walk
    <2>3. needs \in [Tasks -> SUBSET (Tasks \cup {External})]
      BY <1>2 DEF ImpactInit
    <2>4. GraphTypeOK
      BY <1>2, <2>2, <2>3 DEF ImpactInit, GraphTypeOK, EntryType
    <2> QED
      BY <2>1, <2>4 DEF GraphInv
  <1> QED
    BY <1>1, <1>2 DEF GraphInit

\* The invariant holds throughout.
LEMMA GraphHolds == GraphSpec => []GraphInv
  BY GraphStarts, GraphStep, PTL DEF GraphSpec

\* The variables of both loops keep their types, and what is pushed is a sequence of
\* entries.
THEOREM GraphTyped == GraphSpec => []GraphTypeOK
  <1>1. GraphInv => GraphTypeOK
    BY DEF GraphInv
  <1> QED
    BY <1>1, GraphHolds, PTL

\* For any finite list of tasks and any dependencies, orderTasks() returns the one order
\* that respects them with the smallest id first, or throws, when they hold a cycle; and
\* for any graph, impact() hits what is within maxDepth of its seed, each node once and
\* nearer nodes first.
THEOREM LoopsAreCorrect == GraphSpec => []LoopsCorrect
  <1>1. GraphInv => LoopsCorrect
    <2> SUFFICES ASSUME GraphInv PROVE OrderCorrect /\ ImpactCorrect
      BY DEF LoopsCorrect
    <2>1. OrderCorrect
      <3>1. CASE loop = "order"
        BY <3>1, OrderInvCorrect DEF GraphInv
      <3>2. CASE loop # "order"
        BY <3>2 DEF OrderCorrect
      <3> QED
        BY <3>1, <3>2
    <2>2. ImpactCorrect
      <3>1. CASE loop = "impact"
        BY <3>1, ImpactInvCorrect DEF GraphInv
      <3>2. CASE loop # "impact"
        BY <3>2 DEF ImpactCorrect, ImpactDone
      <3> QED
        BY <3>1, <3>2
    <2> QED
      BY <2>1, <2>2
  <1> QED
    BY <1>1, GraphHolds, PTL

=============================================================================
