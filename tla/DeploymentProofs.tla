-------------------------- MODULE DeploymentProofs --------------------------
(***************************************************************************)
(* What is proved of the runs, for any number of them, over any files and  *)
(* any limits: a run watches its jobs to their end and never has more of   *)
(* them than its slots; nothing starts before what it depends on; and a    *)
(* run that leaves with 0 has done what it listed.                         *)
(***************************************************************************)
EXTENDS RunProofs, AlgorithmProofs, TLAPS

\* When a run asks start_migration for a job, fewer of its jobs are alive than
\* the limit of the connection it was pointed at.
THEOREM WithinTheCap ==
    Spec => [](\A p \in Procs : pc[p] = "start" => Cardinality(Live(p)) < Limits[Default])
<1>1. ASSUME IInv, NEW p \in Procs, pc[p] = "start"
      PROVE  Cardinality(Live(p)) < Limits[Default]
  <2>1. DOMAIN jobs = 1..Len(jobs) /\ Len(jobs) \in Nat  BY <1>1 DEF IInv, Shape
  <2>2. IsFiniteSet(DOMAIN jobs)  BY <2>1, FS_Interval
  <2>3. running[p] \subseteq DOMAIN jobs  BY <1>1 DEF IInv, Shape
  <2>4. Live(p) \subseteq running[p]  BY <1>1 DEF IInv, Watching, Live
  <2>5. IsFiniteSet(running[p])  BY SMTT(30), <2>2, <2>3, FS_Subset
  <2>6. /\ Cardinality(Live(p)) <= Cardinality(running[p])
        /\ Cardinality(Live(p)) \in Nat /\ Cardinality(running[p]) \in Nat
    BY SMTT(30), <2>4, <2>5, FS_Subset, FS_CardinalityType
  <2>7. Cardinality(running[p]) < Limits[Default] /\ Limits[Default] \in Nat
    BY <1>1, DeploymentAssumption DEF IInv, Watching
  <2> QED  BY <2>6, <2>7
<1>2. IInv => \A p \in Procs : pc[p] = "start" => Cardinality(Live(p)) < Limits[Default]
  BY <1>1
<1> QED  BY Inductive, <1>2, PTL

-----------------------------------------------------------------------------
(* What a listing hands out *)

\* q is levels for what is left once placed has been placed: each waits for what
\* is applied, placed or in an earlier level.
Layers(status, placed, q) ==
    /\ q \in Seq(SUBSET RunnableIn(status))
    /\ \A i \in DOMAIN q : \A s \in q[i] : \A d \in entries[s].deps \cap Ids :
          status[d] = "applied" \/ d \in placed \/ \E k \in DOMAIN q : k < i /\ d \in q[k]

LEMMA Prepend ==
    ASSUME NEW A, NEW a \in A, NEW q \in Seq(A)
    PROVE  /\ <<a>> \o q \in Seq(A) /\ DOMAIN (<<a>> \o q) = 1..(Len(q) + 1)
           /\ (<<a>> \o q)[1] = a
           /\ \A i \in DOMAIN q : /\ i + 1 \in DOMAIN (<<a>> \o q)
                                 /\ (<<a>> \o q)[i + 1] = q[i]
OBVIOUS

LEMMA LayersMore ==
    ASSUME NEW status, NEW placed, NEW q,
           NEW ready \in SUBSET RunnableIn(status),
           \A s \in ready : \A d \in Ids : ~Waits(entries, status, placed, s, d),
           Layers(status, placed \cup ready, q)
    PROVE  Layers(status, placed, <<ready>> \o q)
<1> DEFINE r == <<ready>> \o q
<1>1. /\ q \in Seq(SUBSET RunnableIn(status)) /\ Len(q) \in Nat /\ DOMAIN q = 1..Len(q)
  BY DEF Layers
<1>2. /\ r \in Seq(SUBSET RunnableIn(status)) /\ DOMAIN r = 1..(Len(q) + 1)
      /\ r[1] = ready /\ \A i \in DOMAIN q : i + 1 \in DOMAIN r /\ r[i + 1] = q[i]
  BY SMTT(30), <1>1, Prepend
<1>3. \A i \in DOMAIN r : i \in Nat /\ (i = 1 \/ (i - 1 \in DOMAIN q /\ r[i] = q[i - 1]))
  BY <1>1, <1>2
<1> HIDE DEF r
<1>4. ASSUME NEW i \in DOMAIN r, NEW s \in r[i], NEW d \in entries[s].deps \cap Ids
      PROVE  status[d] = "applied" \/ d \in placed \/ \E k \in DOMAIN r : k < i /\ d \in r[k]
  <2>1. CASE i = 1
    <3>1. s \in ready  BY <1>2, <2>1
    <3>2. ~Waits(entries, status, placed, s, d)  BY <3>1
    <3> QED  BY <3>2 DEF Waits, Ids
  <2>2. CASE i # 1
    <3>1. i - 1 \in DOMAIN q /\ s \in q[i - 1]  BY <1>3, <2>2
    <3>2. \/ status[d] = "applied" \/ d \in placed \cup ready
          \/ \E k \in DOMAIN q : k < i - 1 /\ d \in q[k]
      BY Zenon, <3>1 DEF Layers
    <3>3. CASE d \in ready
      <4>1. 1 \in DOMAIN r /\ 1 < i /\ d \in r[1]  BY SMTT(30), <1>1, <1>2, <1>3, <2>2, <3>3
      <4> QED  BY <4>1
    <3>4. ASSUME NEW k \in DOMAIN q, k < i - 1, d \in q[k]
          PROVE  \E e \in DOMAIN r : e < i /\ d \in r[e]
      <4>1. k + 1 \in DOMAIN r /\ k + 1 < i /\ d \in r[k + 1]
          BY SMTT(30), <1>1, <1>2, <1>3, <3>4
      <4> QED  BY <4>1
    <3> QED  BY <3>2, <3>3, <3>4
  <2> QED  BY <2>1, <2>2
<1> QED  BY Zenon, <1>2, <1>4 DEF Layers, r

\* assemble's loop puts nothing before what it waits for.
LEMMA LevelsOrdered ==
    ASSUME NEW status, IsFiniteSet(Ids)
    PROVE  Layers(status, {}, Levels(status))
<1> DEFINE all == RunnableIn(status)
           I == SUBSET all
           V == Seq(SUBSET all)
           r(P) == Ready(entries, status, all \ P, P)
           Body(f, P) == IF r(P) = {} THEN << >> ELSE <<r(P)>> \o f[P \cup r(P)]
           F == [f \in [I -> V] |-> [P \in I |-> Body(f, P)]]
           m == [P \in I |-> Cardinality(all \ P)]
           from[P \in I] == Body(from, P)
<1>0. /\ IsFiniteSet(all)
      /\ \A P \in I : IsFiniteSet(all \ P) /\ Cardinality(all \ P) \in Nat
  <2>1. all \in SUBSET Ids  BY DEF RunnableIn
  <2>2. IsFiniteSet(all)  BY <2>1, FS_Subset
  <2> HIDE DEF all
  <2>3. \A P \in I : all \ P \in SUBSET all  OBVIOUS
  <2> QED  BY <2>2, <2>3, FS_Subset, FS_CardinalityType
<1>1. ASSUME NEW P \in I
      PROVE  r(P) \in SUBSET (all \ P) /\ r(P) \in I /\ P \cup r(P) \in I
  BY DEF Ready
<1>2. ASSUME NEW P \in I, r(P) # {}
      PROVE  /\ all \ (P \cup r(P)) \in SUBSET (all \ P) /\ all \ (P \cup r(P)) # all \ P
             /\ Cardinality(all \ (P \cup r(P))) < Cardinality(all \ P)
  <2> DEFINE A == all \ (P \cup r(P))
             B == all \ P
  <2>1. A \in SUBSET B /\ A # B
    <3> HIDE DEF r, all
    <3> QED  BY <1>1, <1>2
  <2>2. IsFiniteSet(B) /\ Cardinality(B) \in Nat /\ Cardinality(A) \in Nat
    <3> HIDE DEF r, all
    <3> QED  BY Zenon, <1>0, <1>1
  <2> HIDE DEF A, B
  <2>3. Cardinality(A) <= Cardinality(B) /\ Cardinality(B) # Cardinality(A)
    BY <2>1, <2>2, FS_Subset
  <2>4. Cardinality(A) < Cardinality(B)  BY <2>2, <2>3
  <2> QED  BY <2>1, <2>4 DEF A, B
<1> HIDE DEF r
<1>3. \E f \in [I -> V] : f = F[f]
  <2>1. ASSUME NEW f \in [I -> V], NEW P \in I PROVE Body(f, P) \in V
    <3>1. CASE r(P) = {}  BY <3>1
    <3>2. CASE r(P) # {}
      <4>1. r(P) \in SUBSET all /\ f[P \cup r(P)] \in V  BY <1>1
      <4>2. <<r(P)>> \o f[P \cup r(P)] \in V
        <5> HIDE DEF all
        <5> QED  BY <4>1
      <4> QED  BY Zenon, <3>2, <4>2
    <3> QED  BY <3>1, <3>2
  <2>2. ASSUME NEW f \in [I -> V], NEW h \in [I -> V], NEW P \in I,
               \A T \in I : m[T] < m[P] => f[T] = h[T]
        PROVE  Body(f, P) = Body(h, P)
    <3>1. CASE r(P) = {}  BY <3>1
    <3>2. CASE r(P) # {}
      <4> HIDE DEF all
      <4>1. m[P \cup r(P)] < m[P]  BY SMTT(30), <1>1, <1>2, <3>2
      <4>2. f[P \cup r(P)] = h[P \cup r(P)]  BY Zenon, <1>1, <2>2, <4>1
      <4> QED  BY <4>2
    <3> QED  BY <3>1, <3>2
  <2> HIDE DEF Body, all
  <2>3. F \in [[I -> V] -> [I -> V]]  BY Zenon, <2>1
  <2>4. m \in [I -> Nat]  BY <1>0
  <2>5. V # {}
    <3>1. << >> \in V  OBVIOUS
    <3> QED  BY Zenon, <3>1
  <2>6. ASSUME NEW f \in [I -> V], NEW h \in [I -> V], NEW P \in I,
               \A T \in I : m[T] < m[P] => f[T] = h[T]
        PROVE  F[f][P] = F[h][P]
    BY Zenon, <2>2, <2>6
  <2> HIDE DEF F, m, I, V
  <2>7. Descends(F, I, V, m)  BY ZenonT(30), <2>3, <2>4, <2>5, <2>6 DEF Descends
  <2> QED  BY <2>7, RecursiveFunctionExists
<1>4. \E f : f = [P \in I |-> Body(f, P)]
  <2>1. PICK f \in [I -> V] : f = F[f]  BY Zenon, <1>3
  <2>2. F[f] = [P \in I |-> Body(f, P)]
    <3> HIDE DEF Body, all
    <3> QED  OBVIOUS
  <2> QED  BY Zenon, <2>1, <2>2
<1>5. from = [P \in I |-> Body(from, P)]  BY Zenon, <1>4
<1>6. \A P \in I : from[P] = Body(from, P)
  <2> HIDE DEF Body, from, all
  <2> QED  BY <1>5
<1>7. Levels(status) = from[{}]
  BY Zenon DEF Levels, r
<1> HIDE DEF from
<1> DEFINE G == {T \in SUBSET all : Layers(status, all \ T, from[all \ T])}
<1>8. ASSUME NEW T \in SUBSET all, \A U \in SUBSET T : U # T => U \in G PROVE T \in G
  <2> DEFINE P == all \ T
  <2>1. P \in I /\ all \ P = T
    <3> HIDE DEF all
    <3> QED  OBVIOUS
  <2> HIDE DEF P
  <2>2. CASE r(P) = {}
    <3>1. from[P] = << >>  BY Zenon, <1>6, <2>1, <2>2
    <3>2. Layers(status, P, << >>)  BY DEF Layers
    <3> QED  BY <3>1, <3>2 DEF P
  <2>3. CASE r(P) # {}
    <3>1. from[P] = <<r(P)>> \o from[P \cup r(P)]  BY Zenon, <1>6, <2>1, <2>3
    <3> DEFINE U == all \ (P \cup r(P))
    <3>2. U \in SUBSET T /\ U # T  BY Zenon, <1>2, <2>1, <2>3
    <3>3. all \ U = P \cup r(P)
      <4> HIDE DEF all
      <4> QED  BY Zenon, <1>1, <2>1
    <3> HIDE DEF U
    <3>4. U \in G  BY Zenon, <1>8, <3>2
    <3>5. Layers(status, P \cup r(P), from[P \cup r(P)])  BY <3>3, <3>4
    <3>6. Layers(status, P, <<r(P)>> \o from[P \cup r(P)])
      <4>1. \A s \in r(P) : \A d \in Ids : ~Waits(entries, status, P, s, d)
        BY DEF r, Ready, Ids
      <4>2. r(P) \in SUBSET RunnableIn(status)  BY Zenon, <1>1, <2>1
      <4> QED  BY Zenon, <3>5, <4>1, <4>2, LayersMore
    <3> QED  BY Zenon, <3>1, <3>6 DEF P
  <2> QED  BY <2>2, <2>3
<1>9. SUBSET all \subseteq G
  <2> HIDE DEF G, all
  <2> QED  BY Zenon, <1>0, <1>8, SubsetInduction
<1>10. all \in G /\ all \ all = {}
  <2> HIDE DEF G, all
  <2> QED  BY <1>9
<1> QED  BY <1>7, <1>10

\* The groups of a listing, one level's after another's: nothing comes before
\* what it waits for, and what the levels hold is handed out.
LEMMA GroupsOrdered ==
    ASSUME Files, NEW status
    PROVE  /\ Groups(status) \in Seq(SUBSET Ids)
           /\ \A a \in DOMAIN Levels(status) : \A s \in Levels(status)[a] :
                 \E i \in DOMAIN Groups(status) : s \in Groups(status)[i]
           /\ \A i \in DOMAIN Groups(status) : \A s \in Groups(status)[i] :
              \A d \in entries[s].deps :
                 \/ status[d] = "applied"
                 \/ \E k \in DOMAIN Groups(status) : k < i /\ d \in Groups(status)[k]
<1> DEFINE L == Levels(status)
           PS(S) == ParallelSubsets(entries, Databases, S)
           seqs == [i \in DOMAIN L |-> PS(L[i])]
           q == Groups(status)
           X == SUBSET Ids
<1>1. Layers(status, {}, L)  BY LevelsOrdered DEF Files
<1>2. L \in Seq(SUBSET RunnableIn(status)) /\ Len(L) \in Nat /\ DOMAIN L = 1..Len(L)
  BY <1>1 DEF Layers
<1> HIDE DEF L, q
<1>4. ASSUME NEW a \in DOMAIN L
      PROVE  Splits(entries, Databases, L[a], PS(L[a])) /\ PS(L[a]) \in Seq(X)
             /\ L[a] \in SUBSET Ids
  <2>1. L[a] \in SUBSET RunnableIn(status)  BY <1>2
  <2>2. L[a] \in SUBSET Ids  BY <2>1 DEF RunnableIn
  <2>3. L[a] \in SUBSET Nat /\ IsFiniteSet(L[a])  BY Zenon, <2>2, FS_Subset DEF Files
  <2>4. Splits(entries, Databases, L[a], PS(L[a]))  BY <2>3, ParallelSubsetsSplit
  <2>5. PS(L[a]) \in Seq(SUBSET L[a])  BY Zenon, <2>4 DEF Splits
  <2>6. SUBSET L[a] \subseteq X  BY <2>2
  <2>7. PS(L[a]) \in Seq(X)  BY Zenon, <2>5, <2>6, SeqMonotone
  <2> QED  BY <2>2, <2>4, <2>7
<1> HIDE DEF PS
<1>5. seqs \in Seq(Seq(X)) /\ Len(seqs) = Len(L) /\ \A a \in DOMAIN L : seqs[a] = PS(L[a])
  <2>1. seqs \in [1..Len(L) -> Seq(X)]  BY Zenon, <1>2, <1>4
  <2> HIDE DEF seqs
  <2>2. seqs \in Seq(Seq(X)) /\ Len(seqs) = Len(L)  BY <1>2, <2>1
  <2> QED  BY <2>2 DEF seqs
<1> HIDE DEF seqs, X
<1>6. Strings(seqs, Len(L), X, q)
  <2> DEFINE upTo[n \in 0..Len(L)] == IF n = 0 THEN << >> ELSE upTo[n - 1] \o PS(L[n])
  <2>1. \A g : Joins(seqs, g)
                <=> g = [n \in 0..Len(L) |-> IF n = 0 THEN << >> ELSE g[n - 1] \o PS(L[n])]
    <3>1. \A n \in 0..Len(L) : n # 0 => n \in DOMAIN L  BY <1>2
    <3>2. \A n \in 0..Len(L) : n # 0 => seqs[n] = PS(L[n])  BY Zenon, <1>5, <3>1
    <3> QED  BY Zenon, <1>5, <3>2 DEF Joins
  <2>2. \E g : g = [n \in 0..Len(L) |-> IF n = 0 THEN << >> ELSE g[n - 1] \o PS(L[n])]
    BY Zenon, <1>5, <2>1, JoinExists
  <2>3. Joins(seqs, upTo)  BY Zenon, <2>1, <2>2
  <2>4. q = upTo[Len(L)]  BY Zenon DEF q, Groups, L, PS
  <2> HIDE DEF upTo
  <2>5. Strings(seqs, Len(seqs), X, upTo[Len(seqs)])  BY <1>5, <2>3, Joined
  <2> QED  BY Zenon, <1>5, <2>4, <2>5
\* Whatever a level holds is in one of its groups.
<1>7. ASSUME NEW a \in DOMAIN L, NEW s \in L[a]
      PROVE  \E b \in DOMAIN seqs[a] : s \in seqs[a][b]
  <2>1. \E b \in DOMAIN PS(L[a]) : s \in PS(L[a])[b]  BY Zenon, <1>4 DEF Splits
  <2> QED  BY Zenon, <1>5, <2>1
<1>8. q \in Seq(SUBSET Ids)  BY Zenon, <1>6 DEF Strings, X
<1>9. ASSUME NEW a \in DOMAIN L, NEW s \in L[a] PROVE \E i \in DOMAIN q : s \in q[i]
  <2>1. PICK b \in DOMAIN seqs[a] : s \in seqs[a][b]  BY <1>7
  <2>2. a \in 1..Len(L)  BY <1>2
  <2>3. \E i \in DOMAIN q : q[i] = seqs[a][b]  BY Zenon, <1>6, <2>2 DEF Strings
  <2> QED  BY Zenon, <2>1, <2>3
<1>10. ASSUME NEW i \in DOMAIN q, NEW s \in q[i], NEW d \in entries[s].deps
       PROVE  status[d] = "applied" \/ \E k \in DOMAIN q : k < i /\ d \in q[k]
  <2>1. PICK a \in 1..Len(L) :
           /\ \E b \in DOMAIN seqs[a] : q[i] = seqs[a][b]
           /\ \A e \in 1..(a - 1) : \A b \in DOMAIN seqs[e] :
                 \E k \in DOMAIN q : k < i /\ q[k] = seqs[e][b]
    BY Zenon, <1>6 DEF Strings
  <2>2. a \in DOMAIN L  BY <1>2
  <2>3. s \in L[a]
    <3>1. PICK b \in DOMAIN seqs[a] : q[i] = seqs[a][b]  BY <2>1
    <3>2. PS(L[a]) \in Seq(SUBSET L[a]) /\ seqs[a] = PS(L[a])
      BY Zenon, <1>4, <1>5, <2>2 DEF Splits
    <3>3. seqs[a][b] \in SUBSET L[a]  BY SMTT(30), <3>1, <3>2
    <3> QED  BY Zenon, <3>1, <3>3
  <2>4. d \in entries[s].deps \cap Ids
    <3>1. s \in Ids  BY Zenon, <1>4, <2>2, <2>3
    <3> QED  BY <3>1 DEF Files
  <2>5. status[d] = "applied" \/ \E e \in DOMAIN L : e < a /\ d \in L[e]
    BY Zenon, <1>1, <2>2, <2>3, <2>4 DEF Layers
  <2>6. ASSUME NEW e \in DOMAIN L, e < a, d \in L[e]
        PROVE  \E k \in DOMAIN q : k < i /\ d \in q[k]
    <3>1. e \in 1..(a - 1)  BY SMTT(30), <1>2, <2>6
    <3>2. PICK b \in DOMAIN seqs[e] : d \in seqs[e][b]  BY Zenon, <1>7, <2>6
    <3>3. PICK k \in DOMAIN q : k < i /\ q[k] = seqs[e][b]  BY Zenon, <2>1, <3>1, <3>2
    <3> QED  BY Zenon, <3>2, <3>3
  <2> QED  BY <2>5, <2>6
<1> QED  BY Zenon, <1>8, <1>9, <1>10 DEF L, q

\* What the listing calls applied has been done.
LEMMA AppliedIsDone ==
    ASSUME Files, TypeOK, Truthful, NEW d \in Ids,
           StatusOf(entries, Databases)[d] = "applied"
    PROVE  Done(d)
<1> DEFINE e == entries[d]
           db == Databases[e.conn]
           a == db.applied[e.epoch][d]
           c == Classify(e, a)
<1>1. e.conn \in DOMAIN Limits /\ DOMAIN Databases = DOMAIN Limits
  BY Zenon DEF Files, Databases
<1>2. Gate(e, db, c) = "applied"
  <2> HIDE DEF Databases
  <2> QED  BY <1>1 DEF StatusOf, Ids
<1>3. c = "applied"
  <2> HIDE DEF c, db, e
  <2>1. c \in Runnable => Gate(e, db, c) # "applied"
    <3> SUFFICES ASSUME c \in Runnable PROVE Gate(e, db, c) # "applied"  OBVIOUS
    <3>1. c # "applied"  BY DEF Runnable
    <3> QED  BY <3>1 DEF Gate
  <2>2. c \notin Runnable => Gate(e, db, c) = c  BY DEF Gate
  <2> QED  BY Zenon, <1>2, <2>1, <2>2
<1>4. e.digest \in a.succeeded
  <2> HIDE DEF a, e
  <2> QED  BY <1>3 DEF Classify
<1>5. a = AppliedRow(d)
  <2>1. e.epoch \in EpochsClaimed(entries)  BY Zenon DEF EpochsClaimed, Ids
  <2>2. db.applied = [ep \in EpochsClaimed(entries) |-> [s \in Ids |-> AppliedRow(s)]]
    <3> HIDE DEF e
    <3> QED  BY SMTT(30), <1>1 DEF Databases
  <2> HIDE DEF db, e
  <2> QED  BY <2>1, <2>2
<1>6. PICK j \in DOMAIN jobs : jobs[j].row = "succeeded" /\ jobs[j].spec = d
  <2> HIDE DEF a
  <2>1. a.succeeded = {entries[d].digest : j \in {k \in {j \in DOMAIN jobs :
                           jobs[j].row = "succeeded"} : jobs[k].spec = d}}
    BY SMTT(30), <1>5 DEF AppliedRow
  <2> QED  BY Zenon, <1>4, <2>1
<1>7. jobs[j].state = "succeeded"  BY <1>6 DEF Truthful
<1> QED  BY Zenon, <1>6, <1>7 DEF Done

-----------------------------------------------------------------------------
(* The steps that take from the listing, and what a run has in hand *)

\* A listing with a problem is the end of the run; one without hands out groups.
LEMMA ListKeeps == ASSUME Whole, NEW p \in Procs, List(p) PROVE Whole'
<1> DEFINE status == StatusOf(entries, Databases)
<1>1. TypeOK /\ Truthful /\ Files /\ InHand(p)  BY SMTT(30) DEF Whole
<1>2. /\ pc[p] = "new" /\ starting[p] = 0
      /\ UNCHANGED <<starting, running, reported, said, signal, jobs, entries, troubles>>
  BY Zenon, <1>1 DEF List, calm, InHand, Begun
<1>3. Grows /\ RestTyped /\ DOMAIN jobs' = DOMAIN jobs
  BY Zenon, <1>1, <1>2, UnchangedGrows, RestSame
<1>4. CASE LeaveBy(p, "join", 2) /\ UNCHANGED <<listed, todo>>
  <2>1. Moved(p, "join", 2, listed[p], todo[p], starting[p], running[p])
    BY ZenonT(30), <1>1, <1>2, <1>4, AsItWas DEF Moved, LeaveBy, Go
  <2>2. ASSUME At(p, "join", 2, listed[p], todo[p], starting[p], running[p]) PROVE InHand(p)'
    <3>1. pc'[p] = "join" /\ code'[p] = 2 /\ running'[p] = running[p]  BY <2>2 DEF At
    <3>2. Left(p)'  BY <3>1 DEF Left
    <3> QED  BY Zenon, <1>1, <1>3, <3>1, <3>2, Leaves
  <2>3. Fits("join", 2, listed[p], todo[p], starting[p], running[p])
    BY ZenonT(30), <1>1, <1>3, AsItWas DEF Fits, Places
  <2> QED  BY Zenon, <1>3, <2>1, <2>2, <2>3, OneMoves
<1>5. CASE /\ ~Problems(status) /\ Go(p, "next") /\ UNCHANGED code
           /\ listed' = [listed EXCEPT ![p] = RunnableIn(status)]
           /\ todo' = [todo EXCEPT ![p] = Groups(status)]
  <2> DEFINE L == RunnableIn(status)
             T == Groups(status)
  <2>1. /\ T \in Seq(SUBSET Ids)
        /\ \A a \in DOMAIN Levels(status) : \A s \in Levels(status)[a] :
              \E i \in DOMAIN T : s \in T[i]
        /\ \A i \in DOMAIN T : \A s \in T[i] : \A d \in entries[s].deps :
              status[d] = "applied" \/ \E k \in DOMAIN T : k < i /\ d \in T[k]
    <3> HIDE DEF status
    <3> QED  BY <1>1, GroupsOrdered
  <2>2. L \in SUBSET Ids  BY DEF RunnableIn
  <2>3. \A s \in L : \E i \in DOMAIN T : s \in T[i]
    <3>1. L = UNION Range(Levels(status))  BY Zenon, <1>5 DEF Problems
    <3> HIDE DEF L, T, status
    <3>2. \A s \in L : \E a \in DOMAIN Levels(status) : s \in Levels(status)[a]
      BY <3>1 DEF Range
    <3> QED  BY Zenon, <2>1, <3>2
  <2>4. ASSUME NEW i \in DOMAIN T, NEW s \in T[i], NEW d \in entries[s].deps
        PROVE  Done(d) \/ \E k \in DOMAIN T : k < i /\ d \in T[k]
    <3>1. d \in Ids
      <4> HIDE DEF T
      <4>1. s \in Ids  BY <2>1
      <4> QED  BY Zenon, <1>1, <4>1 DEF Files
    <3>2. status[d] = "applied" \/ \E k \in DOMAIN T : k < i /\ d \in T[k]
      BY Zenon, <2>1
    <3>3. status[d] = "applied" => Done(d)  BY <1>1, <3>1, AppliedIsDone
    <3> QED  BY Zenon, <3>2, <3>3
  <2>5. Moved(p, "next", code[p], L, T, starting[p], running[p])
    BY Zenon, <1>1, <1>2, <1>5, AsItWas DEF Moved, Go
  <2> HIDE DEF L, T
  <2>6. ASSUME At(p, "next", code[p], L, T, starting[p], running[p]) PROVE InHand(p)'
    <3>1. /\ pc'[p] = "next" /\ listed'[p] = L /\ todo'[p] = T /\ starting'[p] = 0
          /\ running'[p] = running[p] /\ entries' = entries /\ jobs' = jobs
      BY <1>2, <2>6 DEF At
    <3>2. Ordered(p)'
      BY Zenon, <1>3, <2>4, <3>1, StaysDone DEF Ordered
    <3>3. Begun(p)' /\ Left(p)'  BY <3>1 DEF Begun, Left
    <3>4. Covered(p)'  BY Zenon, <2>3, <3>1 DEF Covered
    <3>5. Owned(p)'  BY Zenon, <1>1, <3>1 DEF Owned, InHand
    <3> QED  BY Zenon, <3>2, <3>3, <3>4, <3>5 DEF InHand
  <2>7. Fits("next", code[p], L, T, starting[p], running[p])
    BY ZenonT(30), <1>1, <1>3, <2>1, <2>2, AsItWas DEF Fits, Places
  <2> QED  BY ZenonT(30), <1>3, <2>5, <2>6, <2>7, OneMoves
<1> QED  BY Zenon, <1>4, <1>5 DEF List

LEMMA StepWhole == IInv /\ Whole /\ [Next]_vars => Whole'
<1> SUFFICES ASSUME IInv, Whole, [Next]_vars PROVE Whole'  BY SMTT(30)
<1>0. ASSUME NEW p \in Procs, Take(p) PROVE Whole'
  <2>1. TypeOK /\ Files /\ InHand(p)  BY Zenon DEF Whole
  <2>2. todo[p] \in Seq(SUBSET Ids) /\ todo[p] # << >> /\ Head(todo[p]) # {}
    BY Zenon, <1>0, <2>1 DEF Take, MayTake, TypeOK, InHand, Begun
  <2>3. Head(todo[p]) \in SUBSET Ids  BY <2>2
  <2>4. Head(todo[p]) \in SUBSET Nat  BY Zenon, <2>1, <2>3 DEF Files
  <2>5. Min(Head(todo[p])) \in Head(todo[p])  BY Zenon, <2>2, <2>4, MinIsLeast
  <2> QED  BY Zenon, <1>0, <2>5, TakeKeeps
<1>1. ASSUME NEW p \in Procs, Run(p) PROVE Whole'
  BY ZenonT(30), <1>0, <1>1, ListKeeps, NextGroupKeeps, GroupReturnsKeeps, ReconcileKeeps,
     OpenJobKeeps, StopOrPollKeeps, PollKeeps, DrainKeeps, LeavingKeeps DEF Run
<1>2. ASSUME NEW p \in Procs, Signal(p) PROVE Whole'  BY SMTT(30), <1>2, SignalKeeps
<1>3. ASSUME NEW p \in Procs, Kill(p) PROVE Whole'  BY Zenon, <1>3, KillKeeps
<1>4. ASSUME NEW j \in DOMAIN jobs, JobEnds(j) \/ LoseSession(j) PROVE Whole'
  BY Zenon, <1>4, JobStepsKeep
<1>5. CASE UNCHANGED vars
  <2>1. UNCHANGED <<pc, code, listed, todo, starting, running, reported, said, signal, jobs,
                    entries, troubles>>
    BY <1>5 DEF vars, own, calm
  <2>2. TypeOK /\ Truthful  BY DEF Whole
  <2>3. Grows  BY Zenon, <2>1, <2>2, UnchangedGrows
  <2>4. RestTyped  BY Zenon, <2>1, <2>2, <2>3, RestSame
  <2> QED  BY Zenon, <2>1, <2>3, <2>4, NoneMoves
<1> QED  BY ZenonT(30), <1>1, <1>2, <1>3, <1>4, <1>5 DEF Next

LEMMA InductiveWhole == Spec => []Whole
BY InitWhole, StepWhole, Inductive, PTL DEF Spec

-----------------------------------------------------------------------------
(* What it comes to *)

\* Whatever the runs, the files and the troubles, the state is of its type: the
\* groups left are sets of files, and the jobs watched or reported exist.
THEOREM TypeCorrect == Spec => []TypeOK
<1>1. Whole => TypeOK  BY SMTT(30) DEF Whole
<1> QED  BY InductiveWhole, <1>1, PTL

\* assemble's levels, parallel_subsets within them and run's loop over the
\* groups: no job is started, by any of any number of runs and whatever the
\* ledger lost, before everything its specification depends on has been done.
THEOREM DependenciesFirst == Spec => []DependencyOrder
<1>1. Whole => DependencyOrder  BY Zenon DEF Whole
<1> QED  BY InductiveWhole, <1>1, PTL

\* A run that exits with 0 did itself, and successfully, everything that its
\* listing called runnable (run's loop, run_group and drain).
THEOREM ZeroMeansDone == Spec => []ExitZeroMeansDone
<1>1. Whole => ExitZeroMeansDone
  BY Zenon DEF Whole, InHand, Left, DoneBy, ExitZeroMeansDone
<1> QED  BY InductiveWhole, <1>1, PTL

\* run_group counts its jobs against the limit of the connection it was pointed
\* at, start_migration against that of the specification's own.  Where no
\* connection allows less than the first, no run is refused for a limit of its
\* own making.
THEOREM SlotAlwaysFree ==
    ASSUME \A c \in DOMAIN Limits : Limits[Default] <= Limits[c]
    PROVE  Spec => []SlotFree
<1>1. ASSUME Whole, NEW p \in Procs, pc[p] = "start",
             Cardinality(Live(p)) < Limits[Default], Cardinality(Live(p)) \in Nat
      PROVE  Cardinality(Live(p)) < Limits[entries[starting[p]].conn]
  <2>1. starting[p] \in Ids  BY SMTT(30), <1>1 DEF Whole, InHand, Begun
  <2>2. entries[starting[p]].conn \in DOMAIN Limits  BY Zenon, <1>1, <2>1 DEF Whole, Files
  <2> DEFINE c == entries[starting[p]].conn
  <2>3. Limits[Default] <= Limits[c] /\ Limits[Default] \in Nat /\ Limits[c] \in Nat
    BY SMTT(30), <2>2, DeploymentAssumption
  <2> HIDE DEF c
  <2>4. Cardinality(Live(p)) < Limits[c]  BY SMTT(30), <1>1, <2>3
  <2> QED  BY Zenon, <2>4 DEF c
<1>2. ASSUME Whole, NEW p \in Procs PROVE Cardinality(Live(p)) \in Nat
  <2>1. DOMAIN jobs = 1..Len(jobs) /\ Len(jobs) \in Nat  BY SMTT(30), <1>2 DEF Whole, TypeOK
  <2>2. IsFiniteSet(DOMAIN jobs)  BY SMTT(30), <2>1, FS_Interval
  <2>3. Live(p) \in SUBSET (DOMAIN jobs)  BY Zenon DEF Live
  <2> QED  BY Zenon, <2>2, <2>3, FS_Subset, FS_CardinalityType
<1>3. Whole /\ (\A p \in Procs : pc[p] = "start" => Cardinality(Live(p)) < Limits[Default])
      => SlotFree
  BY <1>1, <1>2 DEF SlotFree
<1> QED  BY InductiveWhole, WithinTheCap, <1>3, PTL

=============================================================================
