-------------------------- MODULE AlgorithmProofs ---------------------------
(***************************************************************************)
(* What the recursive definitions compute, for every input: plan_spec's    *)
(* grouping (PlanGroups) yields plans the executor can run, and            *)
(* parallel_subsets (Repository) splits a level into groups, each of       *)
(* specifications that may run at the same time.  First, induction and     *)
(* recursion over sets, functions and sequences with no operator as a      *)
(* parameter: the predicate of an induction is a set, the body of a        *)
(* recursive definition a function.                                        *)
(***************************************************************************)
EXTENDS Repository, PlanGroups, FiniteSetTheorems, TLAPS

-----------------------------------------------------------------------------
(* Induction *)

\* A set of naturals that is not empty has a least member.
LEMMA NatLeast ==
    ASSUME NEW T \in SUBSET Nat, T # {}
    PROVE  \E n \in T : \A k \in T : n <= k
<1>1. PICK n \in T : \A k \in T : <<k, n>> \notin OpToRel(<, Nat)
  BY Zenon, WFMin, NatLessThanWellFounded
<1>2. \A k \in T : ~(k < n)  BY Zenon, <1>1 DEF OpToRel
<1> QED  BY <1>2

\* Induction, its predicate given as a set.
LEMMA NatSetInduction ==
    ASSUME NEW G, 0 \in G, \A n \in Nat : n \in G => n + 1 \in G
    PROVE  Nat \subseteq G
<1> SUFFICES ASSUME Nat \ G # {} PROVE FALSE  OBVIOUS
<1>1. PICK n \in Nat \ G : \A k \in Nat \ G : n <= k  BY Zenon, NatLeast
<1>2. n # 0 /\ n - 1 \in Nat  BY <1>1
<1>3. n - 1 \in G  BY <1>1, <1>2
<1>4. (n - 1) + 1 \in G  BY <1>2, <1>3
<1> QED  BY <1>1, <1>4

\* Induction over the subsets of a finite set.
LEMMA SubsetInduction ==
    ASSUME NEW X, IsFiniteSet(X), NEW G,
           \A S \in SUBSET X : (\A T \in SUBSET S : T # S => T \in G) => S \in G
    PROVE  SUBSET X \subseteq G
<1> DEFINE Bad == (SUBSET X) \ G
           B == {Cardinality(S) : S \in Bad}
<1> SUFFICES ASSUME Bad # {} PROVE FALSE  OBVIOUS
<1>0. \A S \in SUBSET X : IsFiniteSet(S) /\ Cardinality(S) \in Nat
  BY FS_Subset, FS_CardinalityType
<1>1. B \in SUBSET Nat /\ B # {}
  <2>1. PICK S : S \in Bad  OBVIOUS
  <2>2. Cardinality(S) \in B  BY <2>1
  <2>3. \A b \in B : b \in Nat  BY <1>0
  <2> HIDE DEF B
  <2> QED  BY <2>2, <2>3
<1>2. PICK b \in B : \A c \in B : b <= c
  <2> HIDE DEF B
  <2> QED  BY <1>1, NatLeast
<1>3. PICK S \in Bad : b = Cardinality(S)  BY <1>2
<1>4. ASSUME NEW T \in SUBSET S, T # S PROVE T \in G
  <2> SUFFICES ASSUME T \notin G PROVE FALSE  OBVIOUS
  <2>1. T \in Bad  BY <1>3
  <2>2. Cardinality(S) <= Cardinality(T)  BY <1>2, <1>3, <2>1
  <2>3. IsFiniteSet(S) /\ S \in SUBSET X  BY <1>0, <1>3
  <2>4. Cardinality(T) <= Cardinality(S) /\ Cardinality(S) # Cardinality(T)
    BY <1>4, <2>3, FS_Subset
  <2>5. Cardinality(T) \in Nat /\ Cardinality(S) \in Nat  BY <1>0, <2>3
  <2> QED  BY <2>2, <2>4, <2>5
<1> QED  BY <1>3, <1>4

-----------------------------------------------------------------------------
(* Recursive definitions *)

\* F makes of a function on I the body of a recursive definition, and the body
\* at i looks only where a measure m is less.
Descends(F, I, V, m) ==
    /\ V # {} /\ m \in [I -> Nat] /\ F \in [[I -> V] -> [I -> V]]
    /\ \A f, g \in [I -> V] : \A i \in I :
          (\A k \in I : m[k] < m[i] => f[k] = g[k]) => F[f][i] = F[g][i]

\* What such a definition asks for exists.
LEMMA RecursiveFunctionExists ==
    ASSUME NEW I, NEW V, NEW m, NEW F, Descends(F, I, V, m)
    PROVE  \E f \in [I -> V] : f = F[f]
<1> USE DEF Descends
<1> DEFINE Right(f, n) == \A i \in I : m[i] < n => F[f][i] = f[i]
           G == {n \in Nat : \E f \in [I -> V] : Right(f, n)}
<1>0. \A i \in I : m[i] \in Nat  OBVIOUS
<1>1. 0 \in G
  <2>1. PICK v \in V : TRUE  OBVIOUS
  <2>2. [i \in I |-> v] \in [I -> V]  OBVIOUS
  <2>3. \A i \in I : ~(m[i] < 0)  BY <1>0
  <2> QED  BY Zenon, <2>2, <2>3
<1>2. ASSUME NEW n \in Nat, n \in G PROVE n + 1 \in G
  <2>1. PICK f \in [I -> V] : Right(f, n)  BY <1>2
  <2> DEFINE g == F[f]
  <2>2. g \in [I -> V]  OBVIOUS
  <2> HIDE DEF g
  <2>3. ASSUME NEW i \in I, m[i] < n + 1 PROVE F[g][i] = g[i]
    <3>1. \A k \in I : m[k] < m[i] => f[k] = g[k]
      <4> SUFFICES ASSUME NEW k \in I, m[k] < m[i] PROVE f[k] = g[k]  OBVIOUS
      <4>1. m[k] < n  BY <1>0, <2>3
      <4> QED  BY <2>1, <4>1 DEF g
    <3>2. F[f][i] = F[g][i]  BY <2>2, <3>1
    <3> QED  BY <3>2 DEF g
  <2> QED  BY <2>2, <2>3
<1>3. ASSUME NEW n \in Nat PROVE \E f \in [I -> V] : Right(f, n)
  <2>1. n \in G
    <3> HIDE DEF G
    <3> QED  BY <1>1, <1>2, NatSetInduction
  <2> QED  BY <2>1
\* Two functions right up to n agree up to n.
<1>4. ASSUME NEW f \in [I -> V], NEW g \in [I -> V], NEW n \in Nat, Right(f, n), Right(g, n)
      PROVE  \A i \in I : m[i] < n => f[i] = g[i]
  <2> DEFINE Bad == {i \in I : m[i] < n /\ f[i] # g[i]}
             B == {m[i] : i \in Bad}
  <2> SUFFICES ASSUME Bad # {} PROVE FALSE  OBVIOUS
  <2>1. B \in SUBSET Nat /\ B # {}
    <3>1. PICK i : i \in Bad  OBVIOUS
    <3>2. m[i] \in B  BY <3>1
    <3>3. \A b \in B : b \in Nat  BY <1>0
    <3> HIDE DEF B
    <3> QED  BY <3>2, <3>3
  <2>2. PICK b \in B : \A c \in B : b <= c
    <3> HIDE DEF B
    <3> QED  BY <2>1, NatLeast
  <2>3. PICK i \in Bad : b = m[i]  BY <2>2
  <2>4. \A k \in I : m[k] < m[i] => f[k] = g[k]
    <3> SUFFICES ASSUME NEW k \in I, m[k] < m[i], f[k] # g[k] PROVE FALSE  OBVIOUS
    <3>1. m[k] < n  BY <1>0, <2>3
    <3>2. m[k] \in B  BY <3>1
    <3>3. m[i] <= m[k]  BY <2>2, <2>3, <3>2
    <3> QED  BY <1>0, <2>3, <3>3
  <2>5. F[f][i] = F[g][i]  BY <2>3, <2>4
  <2> QED  BY <1>4, <2>3, <2>5
<1> DEFINE h(n) == CHOOSE f \in [I -> V] : Right(f, n)
           f == [i \in I |-> h(m[i] + 1)[i]]
<1>5. ASSUME NEW n \in Nat PROVE h(n) \in [I -> V] /\ Right(h(n), n)
  <2> HIDE DEF Right
  <2> QED  BY <1>3
<1> HIDE DEF h
<1>6. f \in [I -> V]
  <2>1. \A i \in I : m[i] + 1 \in Nat  BY <1>0
  <2> QED  BY <1>5, <2>1
<1>7. ASSUME NEW i \in I PROVE F[f][i] = f[i]
  <2> DEFINE g == h(m[i] + 1)
  <2>1. m[i] + 1 \in Nat /\ m[i] < m[i] + 1  BY <1>0
  <2>2. g \in [I -> V] /\ Right(g, m[i] + 1)  BY <1>5, <2>1
  <2> HIDE DEF g
  <2>3. ASSUME NEW k \in I, m[k] < m[i] PROVE f[k] = g[k]
    <3> DEFINE e == h(m[k] + 1)
    <3>1. m[k] + 1 \in Nat /\ m[k] < m[k] + 1 /\ m[k] + 1 <= m[i]  BY <1>0, <2>3
    <3>2. e \in [I -> V] /\ Right(e, m[k] + 1)  BY <1>5, <3>1
    <3>3. f[k] = e[k]  OBVIOUS
    <3> HIDE DEF e, f
    <3>4. Right(g, m[k] + 1)  BY <1>0, <2>2, <3>1
    <3>5. e[k] = g[k]
      <4> HIDE DEF Right
      <4> QED  BY <1>4, <2>2, <3>1, <3>2, <3>4
    <3> QED  BY <3>3, <3>5
  <2>4. f[i] = g[i]  BY DEF g
  <2> HIDE DEF f
  <2>5. F[f][i] = F[g][i]  BY <1>6, <2>2, <2>3
  <2>6. F[g][i] = g[i]  BY <2>1, <2>2
  <2> QED  BY <2>4, <2>5, <2>6
<1> HIDE DEF f
<1>8. F[f] \in [I -> V]  BY <1>6
<1> QED  BY <1>6, <1>7, <1>8

-----------------------------------------------------------------------------
(* Sequences strung together *)

\* q holds what the first n of some sequences hold, in their order.
Strings(seqs, n, X, q) ==
    /\ q \in Seq(X)
    /\ \A a \in 1..n : \A b \in DOMAIN seqs[a] : \E i \in DOMAIN q : q[i] = seqs[a][b]
    /\ \A i \in DOMAIN q : \E a \in 1..n :
          /\ \E b \in DOMAIN seqs[a] : q[i] = seqs[a][b]
          /\ \A e \in 1..(a - 1) : \A b \in DOMAIN seqs[e] :
                \E k \in DOMAIN q : k < i /\ q[k] = seqs[e][b]

LEMMA StringsMore ==
    ASSUME NEW X, NEW seqs, NEW n \in Nat, seqs[n + 1] \in Seq(X),
           NEW q, Strings(seqs, n, X, q)
    PROVE  Strings(seqs, n + 1, X, q \o seqs[n + 1])
<1> DEFINE t == seqs[n + 1]
           r == q \o t
<1>1. t \in Seq(X) /\ q \in Seq(X)  BY DEF Strings
<1> HIDE DEF t
<1>2. /\ Len(q) \in Nat /\ Len(t) \in Nat /\ DOMAIN q = 1..Len(q) /\ DOMAIN t = 1..Len(t)
      /\ r \in Seq(X) /\ DOMAIN r = 1..(Len(q) + Len(t))
      /\ \A i \in DOMAIN q : r[i] = q[i]
      /\ \A i \in DOMAIN t : r[Len(q) + i] = t[i]
  BY <1>1
<1> HIDE DEF r
<1>3. /\ \A i \in DOMAIN q : i \in DOMAIN r
      /\ \A i \in DOMAIN t : Len(q) + i \in DOMAIN r
      /\ \A i \in DOMAIN r : i \in DOMAIN q \/ (i - Len(q) \in DOMAIN t /\ i > Len(q)
                                                /\ r[i] = t[i - Len(q)])
  BY SMTT(30), <1>2
<1>4. ASSUME NEW a \in 1..n, NEW b \in DOMAIN seqs[a]
      PROVE  \E i \in DOMAIN q : q[i] = seqs[a][b]
  BY Zenon DEF Strings
<1>5. ASSUME NEW a \in 1..(n + 1), NEW b \in DOMAIN seqs[a]
      PROVE  \E i \in DOMAIN r : r[i] = seqs[a][b]
  <2>1. CASE a = n + 1
    <3>1. b \in DOMAIN t /\ seqs[a][b] = t[b]  BY Zenon, <2>1 DEF t
    <3> QED  BY <1>2, <1>3, <3>1
  <2>2. CASE a # n + 1
    <3>1. a \in 1..n  BY <2>2
    <3>2. PICK i \in DOMAIN q : q[i] = seqs[a][b]  BY <1>4, <3>1
    <3> QED  BY <1>2, <1>3, <3>2
  <2> QED  BY <2>1, <2>2
<1>6. ASSUME NEW i \in DOMAIN r
      PROVE  \E a \in 1..(n + 1) :
                /\ \E b \in DOMAIN seqs[a] : r[i] = seqs[a][b]
                /\ \A e \in 1..(a - 1) : \A b \in DOMAIN seqs[e] :
                      \E k \in DOMAIN r : k < i /\ r[k] = seqs[e][b]
  <2>1. CASE i \in DOMAIN q
    <3>1. PICK a \in 1..n :
             /\ \E b \in DOMAIN seqs[a] : q[i] = seqs[a][b]
             /\ \A e \in 1..(a - 1) : \A b \in DOMAIN seqs[e] :
                   \E k \in DOMAIN q : k < i /\ q[k] = seqs[e][b]
      BY Zenon, <2>1 DEF Strings
    <3>2. a \in 1..(n + 1)  OBVIOUS
    <3>3. \E b \in DOMAIN seqs[a] : r[i] = seqs[a][b]  BY Zenon, <1>2, <2>1, <3>1
    <3>4. ASSUME NEW e \in 1..(a - 1), NEW b \in DOMAIN seqs[e]
          PROVE  \E k \in DOMAIN r : k < i /\ r[k] = seqs[e][b]
      <4>1. PICK k \in DOMAIN q : k < i /\ q[k] = seqs[e][b]  BY <3>1
      <4>2. k \in DOMAIN r /\ r[k] = q[k]  BY <1>2, <1>3
      <4> QED  BY <4>1, <4>2
    <3> QED  BY Zenon, <3>2, <3>3, <3>4
  <2>2. CASE i \notin DOMAIN q
    <3>1. i - Len(q) \in DOMAIN t /\ i > Len(q) /\ r[i] = t[i - Len(q)]  BY <1>3, <2>2
    <3>2. n + 1 \in 1..(n + 1) /\ (n + 1) - 1 = n  OBVIOUS
    <3>3. \E b \in DOMAIN seqs[n + 1] : r[i] = seqs[n + 1][b]  BY Zenon, <3>1 DEF t
    <3>4. ASSUME NEW e \in 1..n, NEW b \in DOMAIN seqs[e]
          PROVE  \E k \in DOMAIN r : k < i /\ r[k] = seqs[e][b]
      <4>1. PICK k \in DOMAIN q : q[k] = seqs[e][b]  BY <1>4
      <4>2. k \in DOMAIN r /\ r[k] = q[k] /\ k < i  BY <1>2, <1>3, <3>1
      <4> QED  BY <4>1, <4>2
    <3>5. \A e \in 1..((n + 1) - 1) : \A b \in DOMAIN seqs[e] :
             \E k \in DOMAIN r : k < i /\ r[k] = seqs[e][b]
      BY Zenon, <3>2, <3>4
    <3> QED  BY Zenon, <3>2, <3>3, <3>5
  <2> QED  BY <2>1, <2>2
<1> QED  BY Zenon, <1>2, <1>5, <1>6 DEF Strings, r, t

\* f strings the sequences of seqs together: f[n] is the first n of them.
Joins(seqs, f) ==
    f = [n \in 0..Len(seqs) |-> IF n = 0 THEN << >> ELSE f[n - 1] \o seqs[n]]

LEMMA JoinExists == ASSUME NEW X, NEW seqs \in Seq(Seq(X)) PROVE \E f : Joins(seqs, f)
<1> DEFINE N == Len(seqs)
           I == 0..N
           V == Seq(X)
           Body(f, i) == IF i = 0 THEN << >> ELSE f[i - 1] \o seqs[i]
           F == [f \in [I -> V] |-> [i \in I |-> Body(f, i)]]
           m == [i \in I |-> i]
<1>1. N \in Nat /\ (\A i \in 1..N : seqs[i] \in V) /\ << >> \in V  OBVIOUS
<1>2. Len(seqs) = N  OBVIOUS
<1> HIDE DEF N
<1>3. ASSUME NEW f \in [I -> V], NEW i \in I PROVE Body(f, i) \in V
  <2>1. CASE i = 0  BY <1>1, <2>1
  <2>2. CASE i # 0
    <3>1. i - 1 \in I /\ i \in 1..N  BY <1>1, <2>2
    <3>2. f[i - 1] \in V /\ seqs[i] \in V  BY <1>1, <3>1
    <3>3. f[i - 1] \o seqs[i] \in V  BY <3>2
    <3> QED  BY <2>2, <3>3
  <2> QED  BY <2>1, <2>2
<1>4. ASSUME NEW f \in [I -> V], NEW h \in [I -> V], NEW i \in I,
             \A k \in I : m[k] < m[i] => f[k] = h[k]
      PROVE  Body(f, i) = Body(h, i)
  <2>1. CASE i = 0  BY <2>1
  <2>2. CASE i # 0
    <3>1. i - 1 \in I /\ m[i - 1] < m[i]  BY <1>1, <2>2
    <3>2. f[i - 1] = h[i - 1]  BY <1>4, <3>1
    <3> QED  BY <3>2
  <2> QED  BY <2>1, <2>2
<1>5. PICK f \in [I -> V] : f = F[f]
  <2> HIDE DEF Body
  <2>1. F \in [[I -> V] -> [I -> V]]  BY <1>3
  <2>2. m \in [I -> Nat]  BY <1>1
  <2>3. V # {}  BY <1>1
  <2>4. ASSUME NEW f \in [I -> V], NEW h \in [I -> V], NEW i \in I,
               \A k \in I : m[k] < m[i] => f[k] = h[k]
        PROVE  F[f][i] = F[h][i]
    BY Zenon, <1>4, <2>4
  <2> HIDE DEF F, m, I, V
  <2>5. Descends(F, I, V, m)  BY Zenon, <2>1, <2>2, <2>3, <2>4 DEF Descends
  <2> QED  BY <2>5, RecursiveFunctionExists
<1>6. F[f] = [i \in I |-> Body(f, i)]
  <2> HIDE DEF Body
  <2> QED  OBVIOUS
<1> QED  BY Zenon, <1>2, <1>5, <1>6 DEF Joins

LEMMA Joined ==
    ASSUME NEW X, NEW seqs \in Seq(Seq(X)), NEW f, Joins(seqs, f)
    PROVE  Strings(seqs, Len(seqs), X, f[Len(seqs)])
<1> DEFINE N == Len(seqs)
           G == {n \in Nat : n \in 0..N => Strings(seqs, n, X, f[n])}
<1>1. N \in Nat /\ \A i \in 1..N : seqs[i] \in Seq(X)  OBVIOUS
<1>2. \A n \in 0..N : f[n] = IF n = 0 THEN << >> ELSE f[n - 1] \o seqs[n]
  <2> HIDE DEF N
  <2>1. f = [n \in 0..N |-> IF n = 0 THEN << >> ELSE f[n - 1] \o seqs[n]]
    BY Zenon DEF Joins, N
  <2> QED  BY Zenon, <2>1
<1> HIDE DEF N
<1>3. 0 \in G
  <2>1. 1..0 = {} /\ << >> \in Seq(X) /\ DOMAIN << >> = {}  OBVIOUS
  <2>2. Strings(seqs, 0, X, << >>)  BY Zenon, <2>1 DEF Strings
  <2>3. 0 \in 0..N /\ 0 \in Nat  BY <1>1
  <2>4. f[0] = << >>  BY <1>2, <2>3
  <2> QED  BY Zenon, <2>2, <2>3, <2>4
<1>4. ASSUME NEW n \in Nat, n \in G PROVE n + 1 \in G
  <2> SUFFICES ASSUME n + 1 \in 0..N PROVE Strings(seqs, n + 1, X, f[n + 1])
    OBVIOUS
  <2>1. n \in 0..N /\ n + 1 # 0 /\ (n + 1) - 1 = n /\ seqs[n + 1] \in Seq(X)  BY <1>1
  <2>2. Strings(seqs, n, X, f[n])  BY <1>4, <2>1
  <2>3. f[n + 1] = f[n] \o seqs[n + 1]  BY Zenon, <1>2, <2>1
  <2> QED  BY Zenon, <2>1, <2>2, <2>3, StringsMore
<1>5. N \in G
  <2> HIDE DEF G
  <2> QED  BY Zenon, <1>1, <1>3, <1>4, NatSetInduction
<1>6. N \in 0..N  BY <1>1
<1> QED  BY <1>5, <1>6 DEF N

-----------------------------------------------------------------------------
(* The plans *)

\* What the recipes emit, as PlanGroups reads it.
EmittedSteps ==
    [class : {"txn", "forbidden", "build", "batch"}, own : BOOLEAN, apply : BOOLEAN,
     retry : BOOLEAN]

\* Groups are numbered in plan order; between two steps of one group nothing
\* begins a group.
LEMMA GroupsRise ==
    ASSUME NEW steps, NEW i \in Nat, NEW k \in Nat, k < i
    PROVE  /\ TxnGroup(steps, k) \in Nat /\ TxnGroup(steps, i) \in Nat
           /\ TxnGroup(steps, k) <= TxnGroup(steps, i)
           /\ TxnGroup(steps, k) = TxnGroup(steps, i) =>
                 \A j \in 2..i : j > k => ~BeginsGroup(steps, j)
<1> DEFINE A == {j \in 2..k : BeginsGroup(steps, j)}
           C == {j \in 2..i : BeginsGroup(steps, j)}
<1>1. A \subseteq C  OBVIOUS
<1>2. IsFiniteSet(2..i) /\ C \subseteq 2..i  BY FS_Interval
<1>3. IsFiniteSet(C)  BY Zenon, <1>2, FS_Subset
<1>4. IsFiniteSet(A) /\ Cardinality(A) <= Cardinality(C)
      /\ (Cardinality(A) = Cardinality(C) => A = C)
  <2> HIDE DEF A, C
  <2> QED  BY <1>1, <1>3, FS_Subset
<1>5. Cardinality(A) \in Nat /\ Cardinality(C) \in Nat  BY <1>3, <1>4, FS_CardinalityType
<1>6. A = C => \A j \in 2..i : j > k => ~BeginsGroup(steps, j)  OBVIOUS
<1> QED  BY <1>4, <1>5, <1>6 DEF TxnGroup

\* Two steps of one group are both within a transaction.
LEMMA SharedGroup ==
    ASSUME NEW steps \in Seq(EmittedSteps), NEW k \in DOMAIN steps, NEW i \in DOMAIN steps,
           k < i, TxnGroup(steps, k) = TxnGroup(steps, i)
    PROVE  steps[k].class = "txn" /\ steps[i].class = "txn"
<1>1. DOMAIN steps = 1..Len(steps) /\ Len(steps) \in Nat  OBVIOUS
<1>2. i \in Nat /\ k \in Nat /\ i \in 2..i /\ k + 1 \in 2..i /\ k + 1 > k /\ i > 1 /\ k + 1 > 1
      /\ (k + 1) - 1 = k
  BY <1>1
<1>3. ~BeginsGroup(steps, i) /\ ~BeginsGroup(steps, k + 1)  BY <1>2, GroupsRise
<1>4. ~OwnTransactions(steps[i]) /\ ~OwnTransactions(steps[k])
  BY <1>2, <1>3 DEF BeginsGroup
<1>5. steps[i] \in EmittedSteps /\ steps[k] \in EmittedSteps  BY <1>1
<1> QED  BY <1>4, <1>5 DEF OwnTransactions, Forbidden, EmittedSteps

\* What the first n steps have become.
PlanSoFar(steps, n, q) ==
    /\ q \in Seq(PlanSteps) /\ WellGrouped(q)
    /\ \A a \in DOMAIN q : \E k \in 1..n :
          q[a] = PlanStep(steps, k) \/ (steps[k].class = "build" /\ q[a] = VerifyStep(steps, k))

\* One step more.
LEMMA PlanGrows ==
    ASSUME NEW steps \in Seq(EmittedSteps), NEW n \in Nat, n + 1 \in DOMAIN steps,
           NEW q, PlanSoFar(steps, n, q)
    PROVE  PlanSoFar(steps, n + 1, q \o Becomes(steps, n + 1))
<1> DEFINE i == n + 1
           t == Becomes(steps, i)
           r == q \o t
           P == PlanStep(steps, i)
           V == VerifyStep(steps, i)
<1>1. DOMAIN steps = 1..Len(steps) /\ Len(steps) \in Nat /\ i \in Nat /\ i \in 1..i
  OBVIOUS
<1>2. TxnGroup(steps, i) \in Nat
  <2>1. 0 < i /\ 0 \in Nat  BY <1>1
  <2> QED  BY <1>1, <2>1, GroupsRise
<1>3. steps[i] \in EmittedSteps  OBVIOUS
<1>4. P \in PlanSteps /\ V \in PlanSteps
  <2>1. P.class \in StepClasses  BY <1>3 DEF PlanStep, Forbidden, EmittedSteps, StepClasses
  <2> QED  BY <1>2, <1>3, <2>1 DEF PlanStep, VerifyStep, EmittedSteps, PlanSteps, StepClasses
<1>5. /\ P.group = TxnGroup(steps, i) /\ V.group = TxnGroup(steps, i)
      /\ V.class = "verify" /\ (steps[i].class = "build" => P.class = "forbidden")
      /\ (steps[i].class = "txn" => P.class = "txn")
  BY DEF PlanStep, VerifyStep, Forbidden
<1>6. t = <<P>> \/ (t = <<P, V>> /\ steps[i].class = "build")  BY DEF Becomes
<1> HIDE DEF P, V, t
<1>7. /\ t \in Seq(PlanSteps) /\ Len(t) \in {1, 2} /\ t[1] = P
      /\ Len(t) = 2 => t[2] = V /\ steps[i].class = "build"
  <2>1. CASE t = <<P>>
    <3>1. <<P>> \in Seq(PlanSteps) /\ Len(<<P>>) = 1 /\ <<P>>[1] = P  BY <1>4
    <3> QED  BY <2>1, <3>1
  <2>2. CASE t = <<P, V>> /\ steps[i].class = "build"
    <3>1. <<P, V>> \in Seq(PlanSteps) /\ Len(<<P, V>>) = 2 /\ <<P, V>>[1] = P
          /\ <<P, V>>[2] = V
      BY <1>4
    <3> QED  BY <2>2, <3>1
  <2> QED  BY <1>6, <2>1, <2>2
<1>8. q \in Seq(PlanSteps) /\ WellGrouped(q)  BY DEF PlanSoFar
<1>9. /\ r \in Seq(PlanSteps) /\ DOMAIN r = 1..(Len(q) + Len(t)) /\ Len(q) \in Nat
      /\ DOMAIN q = 1..Len(q)
      /\ \A a \in DOMAIN q : r[a] = q[a]
      /\ r[Len(q) + 1] = P
      /\ Len(t) = 2 => r[Len(q) + 2] = V
  BY <1>7, <1>8
<1> HIDE DEF r, i
<1>10. ASSUME NEW a \in DOMAIN r
       PROVE  \/ a \in DOMAIN q
              \/ a = Len(q) + 1 /\ r[a] = P
              \/ a = Len(q) + 2 /\ r[a] = V /\ steps[i].class = "build"
  <2>1. a \in 1..Len(q) \/ a = Len(q) + 1 \/ (a = Len(q) + 2 /\ Len(t) = 2)
    <3>1. Len(t) = 1 \/ Len(t) = 2  BY <1>7
    <3>2. a \in 1..(Len(q) + Len(t)) /\ Len(q) \in Nat  BY <1>9
    <3> HIDE DEF r
    <3>3. CASE Len(t) = 1  BY <3>2, <3>3
    <3>4. CASE Len(t) = 2  BY <3>2, <3>4
    <3> QED  BY <3>1, <3>3, <3>4
  <2> QED  BY <1>7, <1>9, <2>1
\* What was there before, against what is new.
<1>11. ASSUME NEW a \in DOMAIN q
       PROVE  /\ q[a].group <= TxnGroup(steps, i)
              /\ q[a].group = TxnGroup(steps, i) => q[a].class = "txn" /\ steps[i].class = "txn"
  <2>1. PICK k \in 1..n : q[a] = PlanStep(steps, k)
                           \/ (steps[k].class = "build" /\ q[a] = VerifyStep(steps, k))
    BY DEF PlanSoFar
  <2>2. k \in DOMAIN steps /\ i \in DOMAIN steps /\ k < i /\ k \in Nat  BY <1>1 DEF i
  <2>3. q[a].group = TxnGroup(steps, k)  BY <2>1 DEF PlanStep, VerifyStep
  <2>4. TxnGroup(steps, k) <= TxnGroup(steps, i)  BY <1>1, <2>2, GroupsRise
  <2>5. ASSUME q[a].group = TxnGroup(steps, i)
        PROVE  q[a].class = "txn" /\ steps[i].class = "txn"
    <3>1. steps[k].class = "txn" /\ steps[i].class = "txn"
      BY Zenon, <2>2, <2>3, <2>5, SharedGroup
    <3>2. q[a] = PlanStep(steps, k)  BY <2>1, <3>1
    <3> QED  BY <3>1, <3>2 DEF PlanStep, Forbidden
  <2> QED  BY <2>3, <2>4, <2>5
<1>12. ASSUME NEW a \in DOMAIN r, NEW b \in DOMAIN r, a < b
       PROVE  /\ r[a].group <= r[b].group
              /\ r[a].group = r[b].group =>
                    \/ r[a].class = "txn" /\ r[b].class = "txn"
                    \/ r[a].class = "forbidden" /\ r[b].class = "verify"
  <2>1. CASE b \in DOMAIN q
    <3>1. a \in DOMAIN q  BY <1>9, <1>12, <2>1
    <3> QED  BY <1>8, <1>9, <1>12, <2>1, <3>1 DEF WellGrouped
  <2>2. CASE b \notin DOMAIN q /\ a \in DOMAIN q
    <3>1. r[b].group = TxnGroup(steps, i) /\ (steps[i].class = "txn" => r[b].class = "txn")
      BY <1>5, <1>10, <2>2
    <3> QED  BY Zenon, <1>9, <1>11, <2>2, <3>1
  <2>3. CASE b \notin DOMAIN q /\ a \notin DOMAIN q
    <3>1. r[a] = P /\ r[b] = V /\ steps[i].class = "build"  BY <1>9, <1>10, <1>12, <2>3
    <3> QED  BY <1>2, <1>5, <3>1
  <2> QED  BY <2>1, <2>2, <2>3
<1>13. WellGrouped(r)  BY <1>12 DEF WellGrouped
<1>14. ASSUME NEW a \in DOMAIN r
       PROVE  \E k \in 1..i : r[a] = PlanStep(steps, k)
                              \/ (steps[k].class = "build" /\ r[a] = VerifyStep(steps, k))
  <2>1. CASE a \in DOMAIN q
    <3>1. PICK k \in 1..n : q[a] = PlanStep(steps, k)
                             \/ (steps[k].class = "build" /\ q[a] = VerifyStep(steps, k))
      BY <2>1 DEF PlanSoFar
    <3>2. k \in 1..i  BY DEF i
    <3> QED  BY <1>9, <2>1, <3>1, <3>2
  <2>2. CASE a \notin DOMAIN q  BY <1>1, <1>10, <2>2 DEF P, V
  <2> QED  BY <2>1, <2>2
<1> QED  BY Zenon, <1>9, <1>13, <1>14 DEF PlanSoFar, r, t, i

\* Whatever the recipes emit, plan_spec's grouping numbers groups in plan order
\* and lets a step that cannot share a transaction share its group with nothing
\* but the check of its own build: what PlansAssumption asks of a plan.
THEOREM PlansAreGrouped ==
    ASSUME NEW steps \in Seq(EmittedSteps)
    PROVE  Planned(steps) \in Seq(PlanSteps) /\ WellGrouped(Planned(steps))
<1> DEFINE len == Len(steps)
           seqs == [i \in 1..len |-> Becomes(steps, i)]
           upTo[n \in 0..len] == IF n = 0 THEN << >> ELSE upTo[n - 1] \o Becomes(steps, n)
           G == {n \in Nat : n \in 0..len => PlanSoFar(steps, n, upTo[n])}
<1>1. len \in Nat /\ DOMAIN steps = 1..len  OBVIOUS
<1>2. Planned(steps) = upTo[len]  BY Zenon DEF Planned
<1> HIDE DEF len
<1>3. upTo = [n \in 0..len |-> IF n = 0 THEN << >> ELSE upTo[n - 1] \o Becomes(steps, n)]
  <2> DEFINE X == {PlanStep(steps, i) : i \in 1..len} \cup {VerifyStep(steps, i) : i \in 1..len}
  <2>1. ASSUME NEW i \in 1..len PROVE Becomes(steps, i) \in Seq(X)
    <3>1. PlanStep(steps, i) \in X /\ VerifyStep(steps, i) \in X  OBVIOUS
    <3> HIDE DEF X
    <3> QED  BY <3>1 DEF Becomes
  <2>2. seqs \in Seq(Seq(X)) /\ Len(seqs) = len /\ \A n \in 1..len : seqs[n] = Becomes(steps, n)
    <3> HIDE DEF X
    <3>1. seqs \in [1..len -> Seq(X)]  BY <2>1
    <3> QED  BY <1>1, <3>1
  <2> HIDE DEF seqs, X
  <2>3. PICK f : f = [n \in 0..len |-> IF n = 0 THEN << >> ELSE f[n - 1] \o seqs[n]]
    BY Zenon, <2>2, JoinExists DEF Joins
  <2>4. \A n \in 0..len : n # 0 => n \in 1..len  BY <1>1
  <2>5. f = [n \in 0..len |-> IF n = 0 THEN << >> ELSE f[n - 1] \o Becomes(steps, n)]
    BY Zenon, <2>2, <2>3, <2>4
  <2> QED  BY Zenon, <2>5
<1> HIDE DEF upTo
<1>4. \A n \in 0..len : upTo[n] = IF n = 0 THEN << >> ELSE upTo[n - 1] \o Becomes(steps, n)
  BY Zenon, <1>3
<1>5. 0 \in G
  <2>1. upTo[0] = << >>  BY <1>1, <1>4
  <2>2. << >> \in Seq(PlanSteps) /\ DOMAIN << >> = {}  OBVIOUS
  <2>3. PlanSoFar(steps, 0, << >>)  BY <2>2 DEF PlanSoFar, WellGrouped
  <2> QED  BY <2>1, <2>3
<1>6. ASSUME NEW n \in Nat, n \in G PROVE n + 1 \in G
  <2> SUFFICES ASSUME n + 1 \in 0..len PROVE PlanSoFar(steps, n + 1, upTo[n + 1])  OBVIOUS
  <2>1. n \in 0..len /\ n + 1 \in DOMAIN steps /\ n + 1 # 0 /\ (n + 1) - 1 = n  BY <1>1
  <2>2. PlanSoFar(steps, n, upTo[n])  BY <1>6, <2>1
  <2>3. upTo[n + 1] = upTo[n] \o Becomes(steps, n + 1)  BY Zenon, <1>4, <2>1
  <2> QED  BY <2>1, <2>2, <2>3, PlanGrows
<1>7. len \in G
  <2> HIDE DEF G
  <2> QED  BY <1>1, <1>5, <1>6, NatSetInduction
<1>8. PlanSoFar(steps, len, upTo[len])  BY <1>1, <1>7
<1> QED  BY <1>2, <1>8 DEF PlanSoFar

-----------------------------------------------------------------------------
(* Ids *)

\* The first of a list of ids, and the last of a finite one.
LEMMA MinIsLeast ==
    ASSUME NEW S \in SUBSET Nat, S # {}
    PROVE  Min(S) \in S /\ \A k \in S : Min(S) <= k
BY Zenon, NatLeast DEF Min

LEMMA MaxIsGreatest ==
    ASSUME NEW S \in SUBSET Nat, S # {}, IsFiniteSet(S)
    PROVE  Max(S) \in S /\ \A k \in S : Max(S) >= k
<1> DEFINE HasMax(T) == \E x \in T : \A y \in T : x >= y
           G == {n \in Nat : \A T \in SUBSET S : Cardinality(T) = n /\ T # {} => HasMax(T)}
<1>0. \A T \in SUBSET S : IsFiniteSet(T) /\ Cardinality(T) \in Nat
  BY Zenon, FS_Subset, FS_CardinalityType
<1>1. 0 \in G
  <2>1. \A T \in SUBSET S : Cardinality(T) = 0 => T = {}  BY <1>0, FS_EmptySet
  <2> QED  BY Zenon, <2>1
<1>2. ASSUME NEW n \in Nat, n \in G PROVE n + 1 \in G
  <2> SUFFICES ASSUME NEW T \in SUBSET S, Cardinality(T) = n + 1, T # {} PROVE HasMax(T)
    OBVIOUS
  <2>1. PICK x : x \in T  OBVIOUS
  <2>2. T \ {x} \in SUBSET S /\ Cardinality(T \ {x}) = n
    <3>1. IsFiniteSet(T)  BY <1>0
    <3>2. Cardinality(T \ {x}) = Cardinality(T) - 1  BY Zenon, <2>1, <3>1, FS_RemoveElement
    <3>3. Cardinality(T \ {x}) = n  BY <3>2
    <3>4. T \ {x} \in SUBSET S  BY Zenon
    <3> QED  BY <3>3, <3>4
  <2>3. CASE T \ {x} = {}
    <3>1. \A y \in T : y = x /\ x \in Nat  BY <2>1, <2>3
    <3> QED  BY <2>1, <3>1
  <2>4. CASE T \ {x} # {}
    <3>1. HasMax(T \ {x})  BY <1>2, <2>2, <2>4
    <3>2. PICK z \in T \ {x} : \A y \in T \ {x} : z >= y  BY <3>1
    <3>3. z \in Nat /\ x \in Nat /\ \A y \in T : y \in Nat  BY <2>1
    <3>4. CASE z >= x  BY <3>2, <3>4
    <3>5. CASE ~(z >= x)  BY <2>1, <3>2, <3>3, <3>5
    <3> QED  BY <3>4, <3>5
  <2> QED  BY <2>3, <2>4
<1>3. Nat \subseteq G  BY Zenon, <1>1, <1>2, NatSetInduction
<1>4. HasMax(S)  BY <1>0, <1>3
<1> QED  BY Zenon, <1>4 DEF Max

-----------------------------------------------------------------------------
(* parallel_subsets *)

\* The set a group's record is in: of some ids, and the relations they touch.
GroupType(entries, ids) ==
    [specs : SUBSET ids, rels : SUBSET UNION {entries[s].rels : s \in ids}]

\* GroupOf's fold, over the ids it considers, first to last.
IsGroupFold(f, entries, dbs, first, others) ==
    /\ f \in [SUBSET others -> GroupType(entries, others \cup {first})]
    /\ f[{}] = [specs |-> {first}, rels |-> entries[first].rels]
    /\ \A S \in SUBSET others :
          S # {} => f[S] = Consider(entries, dbs, first, Max(S), f[S \ {Max(S)}])
    /\ GroupOf(entries, dbs, first, others) = f[others].specs

LEMMA GroupFold ==
    ASSUME NEW entries, NEW dbs, NEW first, NEW others \in SUBSET Nat, IsFiniteSet(others)
    PROVE  \E f : IsGroupFold(f, entries, dbs, first, others)
<1> DEFINE I == SUBSET others
           V == GroupType(entries, others \cup {first})
           base == [specs |-> {first}, rels |-> entries[first].rels]
           Body(f, S) == IF S = {} THEN base
                         ELSE Consider(entries, dbs, first, Max(S), f[S \ {Max(S)}])
           F == [f \in [I -> V] |-> [S \in I |-> Body(f, S)]]
           m == [S \in I |-> Cardinality(S)]
           iter[S \in I] == Body(iter, S)
<1>0. \A S \in I : S # {} => /\ Max(S) \in S /\ S \ {Max(S)} \in I
                             /\ Cardinality(S \ {Max(S)}) < Cardinality(S)
  <2> SUFFICES ASSUME NEW S \in I, S # {}
               PROVE  /\ Max(S) \in S /\ S \ {Max(S)} \in I
                      /\ Cardinality(S \ {Max(S)}) < Cardinality(S)
    OBVIOUS
  <2>1. IsFiniteSet(S) /\ Cardinality(S) \in Nat  BY Zenon, FS_Subset, FS_CardinalityType
  <2>2. Max(S) \in S  BY <2>1, MaxIsGreatest
  <2>3. Cardinality(S \ {Max(S)}) = Cardinality(S) - 1  BY Zenon, <2>1, <2>2, FS_RemoveElement
  <2>4. S \ {Max(S)} \in I  BY Zenon
  <2>5. Cardinality(S \ {Max(S)}) < Cardinality(S)  BY <2>1, <2>3
  <2> QED  BY <2>2, <2>4, <2>5
<1>1. m \in [I -> Nat]
  <2>1. \A S \in I : Cardinality(S) \in Nat  BY Zenon, FS_Subset, FS_CardinalityType
  <2> QED  BY <2>1
<1>2. base \in V  BY DEF GroupType
<1>3. ASSUME NEW k \in others, NEW g \in V PROVE Consider(entries, dbs, first, k, g) \in V
  BY DEF GroupType, Consider
<1> HIDE DEF V, base
<1>4. ASSUME NEW f \in [I -> V], NEW S \in I PROVE Body(f, S) \in V
  <2>1. CASE S = {}  BY <1>2, <2>1
  <2>2. CASE S # {}
    <3>1. Max(S) \in others /\ f[S \ {Max(S)}] \in V  BY Zenon, <1>0, <2>2
    <3> QED  BY Zenon, <1>3, <2>2, <3>1
  <2> QED  BY <2>1, <2>2
<1>5. F \in [[I -> V] -> [I -> V]]
  <2> HIDE DEF Body
  <2> QED  BY Zenon, <1>4
<1>6. ASSUME NEW f \in [I -> V], NEW g \in [I -> V], NEW S \in I,
             \A T \in I : m[T] < m[S] => f[T] = g[T]
      PROVE  F[f][S] = F[g][S]
  <2>1. Body(f, S) = Body(g, S)
    <3>1. CASE S = {}  BY <3>1
    <3>2. CASE S # {}
      <4>1. f[S \ {Max(S)}] = g[S \ {Max(S)}]  BY Zenon, <1>0, <1>6, <3>2
      <4> QED  BY <4>1
    <3> QED  BY <3>1, <3>2
  <2> HIDE DEF Body
  <2> QED  BY <2>1
<1>7. \E f \in [I -> V] : f = F[f]
  <2> HIDE DEF F, m, I
  <2>1. Descends(F, I, V, m)  BY <1>1, <1>2, <1>5, <1>6 DEF Descends
  <2> QED  BY <2>1, RecursiveFunctionExists
<1>8. \E f : f = [S \in I |-> Body(f, S)]
  <2>1. PICK f \in [I -> V] : f = F[f]  BY Zenon, <1>7
  <2>2. F[f] = [S \in I |-> Body(f, S)]
    <3> HIDE DEF Body
    <3> QED  OBVIOUS
  <2> QED  BY <2>1, <2>2
<1>9. iter = [S \in I |-> Body(iter, S)]
  BY Zenon, <1>8
<1>10. DOMAIN iter = I /\ \A S \in I : iter[S] = Body(iter, S)
  <2> HIDE DEF Body, iter
  <2> QED  BY <1>9
<1>11. GroupOf(entries, dbs, first, others) = iter[others].specs
  BY Zenon DEF GroupOf, MapThenFoldSet, base
<1> HIDE DEF iter
<1>12. \A S \in I : iter[S] \in V
  <2> DEFINE G == {S \in I : iter[S] \in V}
  <2>1. ASSUME NEW S \in I, \A T \in SUBSET S : T # S => T \in G PROVE S \in G
    <3>1. CASE S = {}  BY Zenon, <1>2, <1>10, <3>1
    <3>2. CASE S # {}
      <4>1. Max(S) \in others /\ iter[S \ {Max(S)}] \in V  BY Zenon, <1>0, <2>1, <3>2
      <4>2. iter[S] = Consider(entries, dbs, first, Max(S), iter[S \ {Max(S)}])
        BY Zenon, <1>10, <3>2
      <4> QED  BY Zenon, <1>3, <4>1, <4>2
    <3> QED  BY <3>1, <3>2
  <2>2. I \subseteq G
    <3> HIDE DEF G
    <3> QED  BY Zenon, <2>1, SubsetInduction
  <2> QED  BY <2>2
<1>13. iter \in [I -> V]  BY Zenon, <1>9, <1>12
<1> WITNESS iter
<1> QED  BY Zenon, <1>10, <1>11, <1>13 DEF IsGroupFold, V, base

\* s is not known to be in another database than f.
Near(entries, dbs, f, s) ==
    ~ProvablyDifferent(dbs[entries[f].conn], dbs[entries[s].conn])

\* Of a group that first began, the specifications that may be in its database
\* have complete evidence and touch no relation in common.
ApartNear(entries, dbs, first, g) ==
    \A s, t \in g : s # t /\ Near(entries, dbs, first, s) /\ Near(entries, dbs, first, t) =>
        /\ entries[s].rels \cap entries[t].rels = {}
        /\ entries[s].complete /\ entries[t].complete

\* What holds of a group while it is built, the ids of S considered: its record
\* has the relations of those that may be in the database of the first.
GroupInv(entries, dbs, first, S, g) ==
    /\ first \in g.specs /\ g.specs \subseteq S \cup {first}
    /\ \A s \in g.specs : Near(entries, dbs, first, s) => entries[s].rels \subseteq g.rels
    /\ ApartNear(entries, dbs, first, g.specs)

LEMMA ConsiderKeeps ==
    ASSUME NEW entries, NEW dbs, NEW first, NEW S, NEW k, k \notin S, k # first,
           NEW R, NEW g \in [specs : SUBSET (S \cup {first}), rels : SUBSET R],
           GroupInv(entries, dbs, first, S, g)
    PROVE  GroupInv(entries, dbs, first, S \cup {k}, Consider(entries, dbs, first, k, g))
<1>0. k \notin g.specs  OBVIOUS
<1>1. CASE ~Near(entries, dbs, first, k)
  <2>1. Consider(entries, dbs, first, k, g) = [g EXCEPT !.specs = @ \cup {k}]
    BY <1>1 DEF Near, Consider
  <2>2. /\ [g EXCEPT !.specs = @ \cup {k}].specs = g.specs \cup {k}
        /\ [g EXCEPT !.specs = @ \cup {k}].rels = g.rels
    OBVIOUS
  <2>3. ApartNear(entries, dbs, first, g.specs \cup {k})
    BY Zenon, <1>1 DEF GroupInv, ApartNear
  <2> QED  BY Zenon, <1>1, <2>1, <2>2, <2>3 DEF GroupInv
<1>2. CASE Near(entries, dbs, first, k) /\ MayJoin(entries, first, g, k)
  <2> DEFINE h == [specs |-> g.specs \cup {k}, rels |-> g.rels \cup entries[k].rels]
  <2>1. Consider(entries, dbs, first, k, g) = h
    BY <1>2 DEF Near, Consider
  <2>2. h.specs = g.specs \cup {k} /\ h.rels = g.rels \cup entries[k].rels
    OBVIOUS
  <2>3. Near(entries, dbs, first, first)  BY DEF Near, ProvablyDifferent
  <2>4. ASSUME NEW s \in g.specs, Near(entries, dbs, first, s)
        PROVE  /\ entries[s].rels \cap entries[k].rels = {}
               /\ entries[s].complete /\ entries[k].complete
    <3>1. entries[s].rels \subseteq g.rels  BY Zenon, <2>4 DEF GroupInv
    <3>2. entries[s].rels \cap entries[k].rels = {}  BY <1>2, <3>1 DEF MayJoin
    <3>3. entries[first].complete /\ entries[k].complete  BY <1>2 DEF MayJoin
    <3>4. s # first => entries[s].complete
      BY Zenon, <2>3, <2>4 DEF GroupInv, ApartNear
    <3> QED  BY Zenon, <3>2, <3>3, <3>4
  <2>5. ApartNear(entries, dbs, first, g.specs \cup {k})
    <3> SUFFICES ASSUME NEW s \in g.specs \cup {k}, NEW t \in g.specs \cup {k}, s # t,
                        Near(entries, dbs, first, s), Near(entries, dbs, first, t)
                 PROVE  /\ entries[s].rels \cap entries[t].rels = {}
                        /\ entries[s].complete /\ entries[t].complete
      BY Zenon DEF ApartNear
    <3>1. CASE s \in g.specs /\ t \in g.specs  BY Zenon, <3>1 DEF GroupInv, ApartNear
    <3>2. CASE s \in g.specs /\ t = k  BY Zenon, <2>4, <3>2
    <3>3. CASE t \in g.specs /\ s = k
      <4>1. entries[t].rels \cap entries[s].rels = {}  BY Zenon, <2>4, <3>3
      <4>2. entries[s].rels \cap entries[t].rels = {}  BY <4>1
      <4> QED  BY Zenon, <2>4, <3>3, <4>2
    <3> QED  BY Zenon, <3>1, <3>2, <3>3
  <2> HIDE DEF h
  <2>6. \A s \in h.specs : Near(entries, dbs, first, s) => entries[s].rels \subseteq h.rels
    BY Zenon, <2>2 DEF GroupInv
  <2> QED  BY Zenon, <2>1, <2>2, <2>5, <2>6 DEF GroupInv
<1>3. CASE Near(entries, dbs, first, k) /\ ~MayJoin(entries, first, g, k)
  <2>1. Consider(entries, dbs, first, k, g) = g
    BY <1>3 DEF Near, Consider
  <2> QED  BY Zenon, <2>1 DEF GroupInv
<1> QED  BY Zenon, <1>1, <1>2, <1>3

\* A group is begun by its first, takes of the others only, and keeps apart what
\* may be in the database of the first.
LEMMA GroupOfApart ==
    ASSUME NEW entries, NEW dbs, NEW others \in SUBSET Nat, IsFiniteSet(others),
           NEW first, first \notin others
    PROVE  /\ first \in GroupOf(entries, dbs, first, others)
           /\ GroupOf(entries, dbs, first, others) \subseteq others \cup {first}
           /\ ApartNear(entries, dbs, first, GroupOf(entries, dbs, first, others))
<1>1. PICK f : IsGroupFold(f, entries, dbs, first, others)  BY GroupFold
<1> DEFINE G == {S \in SUBSET others : GroupInv(entries, dbs, first, S, f[S])}
<1>2. ASSUME NEW S \in SUBSET others, \A T \in SUBSET S : T # S => T \in G PROVE S \in G
  <2>1. CASE S = {}
    <3>1. f[{}].specs = {first} /\ f[{}].rels = entries[first].rels
      BY <1>1 DEF IsGroupFold
    <3>2. GroupInv(entries, dbs, first, {}, f[{}])
      BY Zenon, <3>1 DEF GroupInv, ApartNear
    <3> QED  BY <2>1, <3>2
  <2>2. CASE S # {}
    <3> DEFINE k == Max(S)
               T == S \ {k}
    <3>1. k \in S
      <4>1. IsFiniteSet(S)  BY Zenon, FS_Subset
      <4> QED  BY <2>2, <4>1, MaxIsGreatest
    <3> HIDE DEF k
    <3>2. T \in SUBSET others /\ k \notin T /\ k # first /\ S = T \cup {k} /\ T # S
      BY <3>1
    <3>3. T \in G  BY <1>2, <3>2
    <3>4. f[T] \in GroupType(entries, others \cup {first})
      BY Zenon, <1>1, <3>2 DEF IsGroupFold
    <3>5. f[S] = Consider(entries, dbs, first, k, f[T])
      BY <1>1, <2>2 DEF IsGroupFold, k
    <3>6. GroupInv(entries, dbs, first, T, f[T])  BY <3>3
    <3> HIDE DEF T, G
    <3>7. f[T] \in [specs : SUBSET (T \cup {first}),
                    rels : SUBSET UNION {entries[s].rels : s \in others \cup {first}}]
      BY <3>4, <3>6 DEF GroupType, GroupInv
    <3>8. GroupInv(entries, dbs, first, T \cup {k}, Consider(entries, dbs, first, k, f[T]))
      BY Zenon, <3>2, <3>6, <3>7, ConsiderKeeps
    <3>9. GroupInv(entries, dbs, first, S, f[S])
      BY Zenon, <3>2, <3>5, <3>8
    <3> QED  BY <3>9 DEF G
  <2> QED  BY <2>1, <2>2
<1>3. others \in G
  <2> HIDE DEF G
  <2> QED  BY ZenonT(30), <1>2, SubsetInduction
<1>4. GroupInv(entries, dbs, first, others, f[others])  BY <1>3
<1>5. GroupOf(entries, dbs, first, others) = f[others].specs  BY <1>1 DEF IsGroupFold
<1> QED  BY Zenon, <1>4, <1>5 DEF GroupInv

\* What parallel_subsets makes of a list: every id in one group and no more,
\* each group begun by one of its members and apart as GroupOfApart says.
Splits(entries, dbs, S, q) ==
    /\ q \in Seq(SUBSET S) /\ Len(q) <= Cardinality(S)
    /\ \A s \in S : \E i \in DOMAIN q : s \in q[i]
    /\ \A i, k \in DOMAIN q : i # k => q[i] \cap q[k] = {}
    /\ \A i \in DOMAIN q : \E f \in q[i] : ApartNear(entries, dbs, f, q[i])

LEMMA SplitsEmpty == ASSUME NEW entries, NEW dbs PROVE Splits(entries, dbs, {}, << >>)
BY FS_EmptySet DEF Splits

LEMMA SplitsMore ==
    ASSUME NEW entries, NEW dbs, NEW S, IsFiniteSet(S), NEW g \in SUBSET S,
           NEW f \in g, ApartNear(entries, dbs, f, g),
           NEW q, Splits(entries, dbs, S \ g, q)
    PROVE  Splits(entries, dbs, S, <<g>> \o q)
<1> DEFINE r == <<g>> \o q
<1>1. /\ q \in Seq(SUBSET (S \ g)) /\ q \in Seq(SUBSET S) /\ Len(q) \in Nat
      /\ DOMAIN q = 1..Len(q) /\ \A i \in DOMAIN q : q[i] \subseteq S \ g
  BY DEF Splits
<1>2. /\ r \in Seq(SUBSET S) /\ Len(r) = Len(q) + 1 /\ DOMAIN r = 1..(Len(q) + 1)
      /\ r[1] = g /\ \A i \in DOMAIN q : i + 1 \in DOMAIN r /\ r[i + 1] = q[i]
  BY <1>1
<1>3. \A i \in DOMAIN r : i = 1 \/ (i - 1 \in DOMAIN q /\ r[i] = q[i - 1])
  BY <1>1, <1>2
<1> HIDE DEF r
<1>4. Len(r) <= Cardinality(S)
  <2>1. IsFiniteSet(S \ g) /\ IsFiniteSet((S \ g) \cup {f})  BY FS_Subset, FS_AddElement
  <2>2. Cardinality((S \ g) \cup {f}) = Cardinality(S \ g) + 1  BY SMTT(30), <2>1, FS_AddElement
  <2>3. (S \ g) \cup {f} \in SUBSET S  OBVIOUS
  <2>4. Cardinality((S \ g) \cup {f}) <= Cardinality(S)  BY <2>3, FS_Subset
  <2>5. Cardinality(S) \in Nat /\ Cardinality(S \ g) \in Nat  BY <2>1, FS_CardinalityType
  <2>6. Len(q) <= Cardinality(S \ g)  BY DEF Splits
  <2> QED  BY <1>1, <1>2, <2>2, <2>4, <2>5, <2>6
<1>5. ASSUME NEW s \in S PROVE \E i \in DOMAIN r : s \in r[i]
  <2>1. CASE s \in g  BY <1>1, <1>2, <2>1
  <2>2. CASE s \in S \ g
    <3>1. PICK i \in DOMAIN q : s \in q[i]  BY <2>2 DEF Splits
    <3> QED  BY <1>2, <3>1
  <2> QED  BY <2>1, <2>2
<1>6. ASSUME NEW i \in DOMAIN r, NEW k \in DOMAIN r, i # k PROVE r[i] \cap r[k] = {}
  <2>1. CASE i = 1 /\ k # 1  BY <1>1, <1>2, <1>3, <2>1
  <2>2. CASE i # 1 /\ k = 1  BY <1>1, <1>2, <1>3, <2>2
  <2>3. CASE i # 1 /\ k # 1
    <3>1. i - 1 # k - 1  BY <1>2, <1>6
    <3>2. q[i - 1] \cap q[k - 1] = {}  BY <1>3, <2>3, <3>1 DEF Splits
    <3> QED  BY <1>3, <2>3, <3>2
  <2> QED  BY <1>6, <2>1, <2>2, <2>3
<1>7. ASSUME NEW i \in DOMAIN r PROVE \E e \in r[i] : ApartNear(entries, dbs, e, r[i])
  <2>1. CASE i = 1  BY <1>2, <2>1
  <2>2. CASE i # 1
    <3>1. i - 1 \in DOMAIN q /\ r[i] = q[i - 1]  BY <1>3, <2>2
    <3>2. \E e \in q[i - 1] : ApartNear(entries, dbs, e, q[i - 1])
      BY Zenon, <3>1 DEF Splits
    <3> QED  BY Zenon, <3>1, <3>2
  <2> QED  BY <2>1, <2>2
<1> QED  BY Zenon, <1>2, <1>4, <1>5, <1>6, <1>7 DEF Splits, r

\* parallel_subsets splits every list of ids.
LEMMA ParallelSubsetsSplit ==
    ASSUME NEW entries, NEW dbs, NEW ready \in SUBSET Nat, IsFiniteSet(ready)
    PROVE  Splits(entries, dbs, ready, ParallelSubsets(entries, dbs, ready))
<1> DEFINE I == SUBSET ready
           V == Seq(SUBSET ready)
           g(S) == GroupOf(entries, dbs, Min(S), S \ {Min(S)})
           Body(f, S) == IF S = {} THEN << >> ELSE <<g(S)>> \o f[S \ g(S)]
           F == [f \in [I -> V] |-> [S \in I |-> Body(f, S)]]
           m == [S \in I |-> Cardinality(S)]
           groups[S \in I] == Body(groups, S)
<1>0. \A S \in I : IsFiniteSet(S) /\ Cardinality(S) \in Nat
  BY Zenon, FS_Subset, FS_CardinalityType
<1>1. ASSUME NEW S \in I, S # {}
      PROVE  /\ Min(S) \in g(S) /\ g(S) \in SUBSET S
             /\ ApartNear(entries, dbs, Min(S), g(S))
             /\ S \ g(S) \in I /\ S \ g(S) # S /\ Cardinality(S \ g(S)) < Cardinality(S)
  <2>1. Min(S) \in S  BY <1>1, MinIsLeast
  <2>2. IsFiniteSet(S \ {Min(S)}) /\ S \ {Min(S)} \in SUBSET Nat
    BY Zenon, <1>0, FS_RemoveElement
  <2>3. /\ Min(S) \in g(S) /\ g(S) \subseteq (S \ {Min(S)}) \cup {Min(S)}
        /\ ApartNear(entries, dbs, Min(S), g(S))
    BY Zenon, <2>2, GroupOfApart
  <2> HIDE DEF g
  <2>4. g(S) \in SUBSET S /\ S \ g(S) \in SUBSET S /\ S \ g(S) # S /\ S \ g(S) \in I
    BY Zenon, <2>1, <2>3
  <2>5. Cardinality(S \ g(S)) < Cardinality(S)
    <3>1. IsFiniteSet(S) /\ Cardinality(S) \in Nat /\ Cardinality(S \ g(S)) \in Nat
      BY <1>0, <2>4
    <3>2. Cardinality(S \ g(S)) <= Cardinality(S) /\ Cardinality(S) # Cardinality(S \ g(S))
      BY <2>4, <3>1, FS_Subset
    <3> QED  BY <3>1, <3>2
  <2> QED  BY <2>3, <2>4, <2>5
<1> HIDE DEF g
<1>2. \E f \in [I -> V] : f = F[f]
  <2>1. ASSUME NEW f \in [I -> V], NEW S \in I PROVE Body(f, S) \in V
    <3>1. CASE S = {}  BY <3>1
    <3>2. CASE S # {}
      <4>1. g(S) \in SUBSET ready /\ f[S \ g(S)] \in V  BY Zenon, <1>1, <3>2
      <4>2. <<g(S)>> \o f[S \ g(S)] \in V  BY <4>1
      <4> QED  BY Zenon, <3>2, <4>2
    <3> QED  BY <3>1, <3>2
  <2>2. ASSUME NEW f \in [I -> V], NEW h \in [I -> V], NEW S \in I,
               \A T \in I : m[T] < m[S] => f[T] = h[T]
        PROVE  Body(f, S) = Body(h, S)
    <3>1. CASE S = {}  BY <3>1
    <3>2. CASE S # {}
      <4>1. f[S \ g(S)] = h[S \ g(S)]  BY Zenon, <1>1, <2>2, <3>2
      <4> QED  BY <4>1
    <3> QED  BY <3>1, <3>2
  <2> HIDE DEF Body
  <2>3. F \in [[I -> V] -> [I -> V]]  BY Zenon, <2>1
  <2>4. m \in [I -> Nat]  BY <1>0
  <2>5. V # {}
    <3>1. << >> \in V  OBVIOUS
    <3> QED  BY Zenon, <3>1
  <2>6. ASSUME NEW f \in [I -> V], NEW h \in [I -> V], NEW S \in I,
               \A T \in I : m[T] < m[S] => f[T] = h[T]
        PROVE  F[f][S] = F[h][S]
    BY Zenon, <2>2, <2>6
  <2> HIDE DEF F, m, I, V
  <2>7. Descends(F, I, V, m)  BY SMTT(30), <2>3, <2>4, <2>5, <2>6 DEF Descends
  <2> QED  BY <2>7, RecursiveFunctionExists
<1>3. \E f : f = [S \in I |-> Body(f, S)]
  <2>1. PICK f \in [I -> V] : f = F[f]  BY Zenon, <1>2
  <2>2. F[f] = [S \in I |-> Body(f, S)]
    <3> HIDE DEF Body
    <3> QED  OBVIOUS
  <2> QED  BY Zenon, <2>1, <2>2
<1>4. groups = [S \in I |-> Body(groups, S)]  BY Zenon, <1>3
<1>5. \A S \in I : groups[S] = Body(groups, S)
  <2> HIDE DEF Body, groups
  <2> QED  BY <1>4
<1>6. ParallelSubsets(entries, dbs, ready) = groups[ready]
  BY Zenon DEF ParallelSubsets, g
<1> HIDE DEF groups
<1> DEFINE G == {S \in I : Splits(entries, dbs, S, groups[S])}
<1>7. ASSUME NEW S \in I, \A T \in SUBSET S : T # S => T \in G PROVE S \in G
  <2>1. CASE S = {}
    <3>1. groups[S] = << >>  BY Zenon, <1>5, <2>1
    <3> QED  BY <2>1, <3>1, SplitsEmpty
  <2>2. CASE S # {}
    <3>1. groups[S] = <<g(S)>> \o groups[S \ g(S)]  BY Zenon, <1>5, <2>2
    <3>2. Splits(entries, dbs, S \ g(S), groups[S \ g(S)])  BY <1>1, <1>7, <2>2
    <3>3. Splits(entries, dbs, S, <<g(S)>> \o groups[S \ g(S)])
      BY Zenon, <1>0, <1>1, <2>2, <3>2, SplitsMore
    <3> QED  BY Zenon, <3>1, <3>3
  <2> QED  BY <2>1, <2>2
<1>8. I \subseteq G
  <2> HIDE DEF G
  <2> QED  BY Zenon, <1>7, SubsetInduction
<1> QED  BY <1>6, <1>8

=============================================================================
