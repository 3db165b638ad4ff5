--------------------------- MODULE ListingProofs ----------------------------
(***************************************************************************)
(* What is proved of a listing, for every repository and every ledger: the *)
(* levels respect depends_on, a listing with no problem leaves nothing out *)
(* and places everything once, a group holds what may run at the same      *)
(* time, and a cycle is reported only where there is one.                  *)
(***************************************************************************)
EXTENDS Listing, AlgorithmProofs, TLAPS

\* What would run, by the statuses of the scan.
ToRun == {s \in DOMAIN entries : status[s] \in Runnable}

\* Everything that would run is placed or remains; once done, whatever remains
\* has been reported.
Accounted ==
    /\ pc = "scan" => levels = << >>
    /\ pc # "scan" => remaining \cup Placed = ToRun
    /\ pc = "done" => remaining = {} \/ problems # {}

\* What is read is an input's, and the scan's findings are kept.
Scanned ==
    /\ \E in \in Inputs : entries = in.entries /\ dbs = in.dbs
    /\ pc # "scan" => /\ status = StatusOf(entries, dbs)
                      /\ ScanProblems(entries, dbs, complete, status) \subseteq problems

\* No specification is in two levels.
LevelsApart == \A i, k \in DOMAIN levels : i # k => levels[i] \cap levels[k] = {}

\* Where a cycle was reported something remains, and all of it waits for
\* something that remains.
Stalled ==
    "cycle" \in problems =>
        /\ pc = "done" /\ remaining # {}
        /\ \A s \in remaining : \E d \in remaining : d \in entries[s].deps

IInv == TypeOK /\ DepsFirst /\ Accounted /\ Scanned /\ LevelsApart /\ Stalled

\* classify and gate give every file one of the statuses.
LEMMA StatusOfType ==
    StatusOf(entries, dbs) \in [DOMAIN entries -> Statuses]
<1>1. ASSUME NEW e, NEW a PROVE Classify(e, a) \in Statuses
  BY DEF Classify, Statuses, Runnable, Held
<1>2. ASSUME NEW e, NEW db, NEW st \in Statuses PROVE Gate(e, db, st) \in Statuses
  BY DEF Gate, Statuses, Runnable, Held
<1>3. ASSUME NEW s \in DOMAIN entries
      PROVE  (IF entries[s].conn \notin DOMAIN dbs THEN "unknown_connection"
              ELSE Gate(entries[s], dbs[entries[s].conn],
                        Classify(entries[s], dbs[entries[s].conn].applied[entries[s].epoch][s])))
             \in Statuses
  <2>1. "unknown_connection" \in Statuses  BY DEF Statuses
  <2> QED  BY <1>1, <1>2, <2>1
<1> QED  BY <1>3 DEF StatusOf

\* A level appended to the order adds its members to what is placed.
LEMMA PlacedAppend ==
    ASSUME NEW S, levels \in Seq(S), NEW R \in S, levels' = Append(levels, R)
    PROVE  /\ Placed' = Placed \cup R
           /\ DOMAIN levels' = 1..(Len(levels) + 1) /\ DOMAIN levels = 1..Len(levels)
           /\ Len(levels) \in Nat
           /\ levels'[Len(levels) + 1] = R
           /\ \A i \in DOMAIN levels : levels'[i] = levels[i]
<1>1. /\ DOMAIN levels' = 1..(Len(levels) + 1) /\ DOMAIN levels = 1..Len(levels)
      /\ Len(levels) \in Nat
      /\ levels'[Len(levels) + 1] = R
      /\ \A i \in DOMAIN levels : levels'[i] = levels[i]
  OBVIOUS
<1>2. Placed' = Placed \cup R
  <2>1. ASSUME NEW x \in Placed' PROVE x \in Placed \cup R
    <3>1. PICK i \in DOMAIN levels' : x \in levels'[i]  BY <2>1 DEF Placed
    <3>2. CASE i = Len(levels) + 1  BY <3>1, <3>2, <1>1
    <3>3. CASE i \in DOMAIN levels  BY <3>1, <3>3, <1>1 DEF Placed
    <3> QED  BY <3>2, <3>3, <1>1
  <2>2. ASSUME NEW x \in Placed PROVE x \in Placed'
    <3>1. PICK i \in DOMAIN levels : x \in levels[i]  BY <2>2 DEF Placed
    <3>2. i \in DOMAIN levels' /\ x \in levels'[i]  BY <3>1, <1>1
    <3> QED  BY <3>2 DEF Placed
  <2>3. ASSUME NEW x \in R PROVE x \in Placed'
    <3>1. Len(levels) + 1 \in DOMAIN levels' /\ x \in levels'[Len(levels) + 1]  BY <2>3, <1>1
    <3> QED  BY <3>1 DEF Placed
  <2> QED  BY <2>1, <2>2, <2>3
<1> QED  BY <1>1, <1>2

LEMMA InitIInv == Init => IInv
<1> SUFFICES ASSUME Init PROVE IInv  OBVIOUS
<1>1. Placed = {}  BY DEF Init, Placed
<1>2. TypeOK
  <2>1. "pending" \in Statuses  BY DEF Statuses, Runnable
  <2> QED  BY <1>1, <2>1 DEF Init, TypeOK
<1>3. DepsFirst  BY DEF Init, DepsFirst
<1>4. Accounted  BY DEF Init, Accounted
<1>5. Scanned  BY DEF Init, Scanned
<1>6. LevelsApart /\ Stalled  BY DEF Init, LevelsApart, Stalled
<1> QED  BY <1>2, <1>3, <1>4, <1>5, <1>6 DEF IInv

\* The steps keep what was read and what the scan found.
LEMMA ScannedStep == ASSUME IInv, [Next]_vars PROVE Scanned'
<1>1. UNCHANGED <<entries, dbs, complete>>
  BY DEF Next, Scan, PlaceLevel, Stuck, Ordered, vars, input
<1>2. \E in \in Inputs : entries' = in.entries /\ dbs' = in.dbs
  BY <1>1 DEF IInv, Scanned
<1>3. CASE Scan
  <2>1. status' = StatusOf(entries, dbs)  BY <1>3 DEF Scan
  <2>2. ScanProblems(entries, dbs, complete, status') \subseteq problems'
    BY Zenon, <1>3 DEF Scan
  <2> QED  BY Zenon, <1>1, <1>2, <2>1, <2>2 DEF Scanned
<1>4. CASE PlaceLevel \/ Ordered \/ UNCHANGED vars
  <2>1. UNCHANGED <<status, problems>> /\ (pc' # "scan" => pc # "scan")
    BY <1>4 DEF PlaceLevel, Ordered, vars
  <2> QED  BY Zenon, <1>1, <1>2, <2>1 DEF IInv, Scanned
<1>5. CASE Stuck
  <2>1. UNCHANGED status /\ pc # "scan" /\ problems \subseteq problems'
    BY <1>5 DEF Stuck
  <2>2. ScanProblems(entries, dbs, complete, status) \subseteq problems'
    BY Zenon, <2>1 DEF IInv, Scanned
  <2> QED  BY Zenon, <1>1, <1>2, <2>1, <2>2 DEF IInv, Scanned
<1> QED  BY <1>3, <1>4, <1>5 DEF Next

\* A new level has nothing of the earlier ones.
LEMMA LevelsApartStep == ASSUME IInv, [Next]_vars PROVE LevelsApart'
<1>1. CASE PlaceLevel
  <2> DEFINE ready == Ready(entries, status, remaining, Placed)
  <2>1. levels' = Append(levels, ready)  BY <1>1 DEF PlaceLevel
  <2>2. ready \subseteq remaining  BY DEF Ready
  <2>3. ready \in SUBSET (DOMAIN entries)  BY <2>2 DEF IInv, TypeOK
  <2> HIDE DEF ready
  <2>4. /\ DOMAIN levels' = 1..(Len(levels) + 1) /\ DOMAIN levels = 1..Len(levels)
        /\ Len(levels) \in Nat
        /\ levels'[Len(levels) + 1] = ready
        /\ \A i \in DOMAIN levels : levels'[i] = levels[i]
    BY <2>1, <2>3, PlacedAppend DEF IInv, TypeOK
  <2>5. \A i \in DOMAIN levels : levels[i] \cap ready = {}
    BY <2>2 DEF IInv, TypeOK, Placed
  <2>6. ASSUME NEW i \in DOMAIN levels', NEW k \in DOMAIN levels', i # k
        PROVE  levels'[i] \cap levels'[k] = {}
    <3>1. CASE i \in DOMAIN levels /\ k \in DOMAIN levels
      BY <2>4, <2>6, <3>1 DEF IInv, LevelsApart
    <3>2. CASE i \in DOMAIN levels /\ k = Len(levels) + 1
      BY <2>4, <2>5, <3>2
    <3>3. CASE k \in DOMAIN levels /\ i = Len(levels) + 1
      BY <2>4, <2>5, <3>3
    <3> QED  BY <2>4, <2>6, <3>1, <3>2, <3>3
  <2> QED  BY <2>6 DEF LevelsApart
<1>2. CASE UNCHANGED levels  BY <1>2 DEF IInv, LevelsApart
<1> QED  BY <1>1, <1>2 DEF Next, Scan, Stuck, Ordered, vars

\* Stuck says cycle only where all that remains waits for what remains.
LEMMA StalledStep == ASSUME IInv, [Next]_vars PROVE Stalled'
<1>1. CASE Scan
  <2>1. "cycle" \notin problems'
    BY Zenon, <1>1 DEF Scan, ScanProblems
  <2> QED  BY <2>1 DEF Stalled
<1>2. CASE PlaceLevel
  BY <1>2 DEF PlaceLevel, IInv, Stalled
<1>3. CASE Stuck
  <2>1. /\ pc = "assemble" /\ pc' = "done" /\ remaining # {}
        /\ Ready(entries, status, remaining, Placed) = {}
        /\ UNCHANGED <<entries, remaining>>
    BY <1>3 DEF Stuck, input
  <2>2. "cycle" \notin problems  BY <2>1 DEF IInv, Stalled
  <2>3. ASSUME "cycle" \in problems'
        PROVE  Blocked(entries, status, remaining, Placed) = {}
    BY <1>3, <2>2, <2>3 DEF Stuck
  <2>4. ASSUME Blocked(entries, status, remaining, Placed) = {}, NEW s \in remaining
        PROVE  \E d \in remaining : d \in entries[s].deps
    <3>1. PICK d \in DOMAIN entries : Waits(entries, status, Placed, s, d)
      BY <2>1 DEF Ready
    <3>2. status[d] \in Runnable  BY <2>4, <3>1 DEF Blocked
    <3>3. d \in entries[s].deps /\ d \notin Placed  BY <3>1 DEF Waits
    <3>4. d \in remaining  BY <2>1, <3>2, <3>3 DEF IInv, Accounted, ToRun
    <3> QED  BY <3>3, <3>4
  <2> QED  BY <2>1, <2>3, <2>4 DEF Stalled
<1>4. CASE Ordered \/ UNCHANGED vars
  BY <1>4 DEF Ordered, vars, input, IInv, Stalled
<1> QED  BY <1>1, <1>2, <1>3, <1>4 DEF Next

LEMMA StepIInv == IInv /\ [Next]_vars => IInv'
<1> SUFFICES ASSUME IInv, [Next]_vars PROVE IInv'  OBVIOUS
<1>0. SUFFICES TypeOK' /\ DepsFirst' /\ Accounted'
  BY <1>0, ScannedStep, LevelsApartStep, StalledStep DEF IInv
<1> USE DEF IInv
<1>1. CASE Scan
  <2>1. /\ UNCHANGED <<entries, dbs, levels>> /\ levels = << >> /\ pc' = "assemble"
        /\ status' \in [DOMAIN entries -> Statuses]
        /\ remaining' = {s \in DOMAIN entries : status'[s] \in Runnable}
    BY <1>1, StatusOfType DEF Scan, input, Accounted
  <2>2. problems' \subseteq {"unread", "connection", "modified", "missing", "drift",
                             "nothing", "blocked", "cycle"}
    BY Zenon, <1>1 DEF Scan, ScanProblems
  <2>3. Placed' = {}  BY <2>1 DEF Placed
  <2>4. TypeOK'  BY <2>1, <2>2, <2>3 DEF TypeOK
  <2>5. DepsFirst'  BY <2>1 DEF DepsFirst
  <2>6. Accounted'  BY <2>1, <2>3 DEF Accounted, ToRun
  <2> QED  BY <2>4, <2>5, <2>6
<1>2. CASE PlaceLevel
  <2> DEFINE ready == Ready(entries, status, remaining, Placed)
  <2>1. /\ UNCHANGED <<entries, dbs, status, pc, problems>> /\ pc = "assemble"
        /\ levels' = Append(levels, ready) /\ remaining' = remaining \ ready
    BY <1>2 DEF PlaceLevel, input
  <2>2. ready \subseteq remaining  BY DEF Ready
  <2>3. ready \in SUBSET (DOMAIN entries)  BY <2>2 DEF TypeOK
  <2> HIDE DEF ready
  <2>4. /\ Placed' = Placed \cup ready
        /\ DOMAIN levels' = 1..(Len(levels) + 1) /\ DOMAIN levels = 1..Len(levels)
        /\ Len(levels) \in Nat
        /\ levels'[Len(levels) + 1] = ready
        /\ \A i \in DOMAIN levels : levels'[i] = levels[i]
    BY SMTT(30), <2>1, <2>3, PlacedAppend DEF TypeOK
  <2>5. TypeOK'
    <3>1. levels' \in Seq(SUBSET (DOMAIN entries'))  BY <2>1, <2>3 DEF TypeOK
    <3> QED  BY <2>1, <2>2, <2>4, <3>1 DEF TypeOK
  <2>6. ASSUME NEW i \in DOMAIN levels', NEW s \in levels'[i],
               NEW d \in entries[s].deps \cap DOMAIN entries
        PROVE  status[d] = "applied" \/ \E j \in 1..(i - 1) : d \in levels'[j]
    <3>1. CASE i \in DOMAIN levels
      <4>1. status[d] = "applied" \/ \E j \in 1..(i - 1) : d \in levels[j]
        BY <2>4, <2>6, <3>1 DEF DepsFirst
      <4>2. \A j \in 1..(i - 1) : j \in DOMAIN levels  BY <2>4, <3>1
      <4> QED  BY <4>1, <4>2, <2>4
    <3>2. CASE i = Len(levels) + 1
      <4>1. s \in ready  BY <2>4, <2>6, <3>2
      <4>2. status[d] = "applied" \/ d \in Placed  BY <4>1, <2>6 DEF ready, Ready, Waits
      <4>3. ASSUME d \in Placed PROVE \E j \in 1..(i - 1) : d \in levels'[j]
        <5>1. PICK j \in DOMAIN levels : d \in levels[j]  BY <4>3 DEF Placed
        <5> QED  BY <5>1, <2>4, <3>2
      <4> QED  BY <4>2, <4>3
    <3> QED  BY <2>4, <2>6, <3>1, <3>2
  <2>7. DepsFirst'  BY <2>1, <2>6 DEF DepsFirst
  <2>8. Accounted'  BY <2>1, <2>2, <2>4 DEF Accounted, ToRun
  <2> QED  BY <2>5, <2>7, <2>8
<1>3. CASE Stuck
  <2>1. UNCHANGED <<entries, dbs, status, remaining, levels>> /\ pc = "assemble" /\ pc' = "done"
    BY <1>3 DEF Stuck, input
  <2>2. problems' # {} /\ problems' \subseteq {"unread", "connection", "modified", "missing",
                                               "drift", "nothing", "blocked", "cycle"}
    <3>1. \E x \in {"blocked", "cycle"} : problems' = problems \cup {x}
      BY <1>3 DEF Stuck
    <3> QED  BY <3>1 DEF TypeOK
  <2> QED  BY <2>1, <2>2 DEF TypeOK, DepsFirst, Accounted, Placed, ToRun
<1>4. CASE Ordered
  BY <1>4 DEF Ordered, input, TypeOK, DepsFirst, Accounted, Placed, ToRun
<1>5. CASE UNCHANGED vars
  BY <1>5 DEF vars, input, TypeOK, DepsFirst, Accounted, Placed, ToRun
<1> QED  BY <1>1, <1>2, <1>3, <1>4, <1>5 DEF Next

LEMMA Inductive == Spec => []IInv
BY InitIInv, StepIInv, PTL DEF Spec

\* Every listing is well-formed: statuses are the code's, and nothing that
\* remains was placed.
THEOREM TypeCorrect == Spec => []TypeOK
<1>1. IInv => TypeOK  BY DEF IInv
<1> QED  BY Inductive, <1>1, PTL

\* For every repository and ledger, whatever assemble places comes after the
\* listed specifications it depends on, or they are applied.
THEOREM LevelsFollowDependencies == Spec => []DepsFirst
<1>1. IInv => DepsFirst  BY DEF IInv
<1> QED  BY Inductive, <1>1, PTL

\* For every repository and ledger, an order without problems holds exactly
\* what is pending or failed.
THEOREM NothingLeftOut == Spec => [](pc = "done" /\ problems = {} => Placed = ToRun)
<1>1. IInv => (pc = "done" /\ problems = {} => Placed = ToRun)  BY DEF IInv, Accounted
<1> QED  BY Inductive, <1>1, PTL

-----------------------------------------------------------------------------
(* The groups of the order *)

\* Each level is split: its groups are no more than the files, and its members
\* would run and have a database.
LEMMA LevelSplit ==
    ASSUME IInv, NEW i \in DOMAIN levels
    PROVE  /\ Splits(entries, dbs, levels[i], Order[i])
           /\ DOMAIN Order[i] \subseteq 1..Cardinality(DOMAIN entries)
           /\ \A s \in levels[i] : s \in ToRun /\ entries[s].conn \in DOMAIN dbs
<1>1. DOMAIN entries \subseteq Nat /\ IsFiniteSet(DOMAIN entries)
  BY ListingAssumption DEF IInv, Scanned
<1>2. levels[i] \in SUBSET (DOMAIN entries)  BY DEF IInv, TypeOK
<1>3. levels[i] \in SUBSET Nat /\ IsFiniteSet(levels[i])  BY <1>1, <1>2, FS_Subset
<1>4. Splits(entries, dbs, levels[i], Order[i])
  BY <1>3, ParallelSubsetsSplit DEF Order
<1>5. DOMAIN Order[i] \subseteq 1..Cardinality(DOMAIN entries)
  <2>1. /\ Cardinality(levels[i]) <= Cardinality(DOMAIN entries)
        /\ Cardinality(levels[i]) \in Nat /\ Cardinality(DOMAIN entries) \in Nat
    BY <1>1, <1>2, <1>3, FS_Subset, FS_CardinalityType
  <2>2. /\ Len(Order[i]) <= Cardinality(levels[i]) /\ Len(Order[i]) \in Nat
        /\ DOMAIN Order[i] = 1..Len(Order[i])
    BY <1>4 DEF Splits
  <2> QED  BY <2>1, <2>2
<1>6. pc # "scan"  BY SMTT(30) DEF IInv, Accounted
<1>7. ASSUME NEW s \in levels[i] PROVE s \in ToRun /\ entries[s].conn \in DOMAIN dbs
  <2>1. s \in ToRun  BY <1>6 DEF IInv, Accounted, Placed
  <2>2. status[s] # "unknown_connection" /\ s \in DOMAIN entries
    BY <2>1 DEF ToRun, Runnable
  <2>3. status = StatusOf(entries, dbs)  BY <1>6 DEF IInv, Scanned
  <2> QED  BY <2>1, <2>2, <2>3 DEF StatusOf
<1> QED  BY <1>4, <1>5, <1>7

\* For every repository and ledger, a listing without problems has everything
\* pending or failed in one group of one level and no other, after what it
\* depends on (scan, assemble, parallel_subsets).
THEOREM WholeListing == Spec => []WholeOrRefused
<1>1. IInv => WholeOrRefused
  <2> SUFFICES ASSUME IInv, pc = "done", problems = {}, NEW s \in DOMAIN entries,
                      status[s] \in Runnable
               PROVE  /\ Cardinality(GroupsWith(s)) = 1
                      /\ \A d \in entries[s].deps :
                            IF d \in DOMAIN entries
                            THEN status[d] = "applied" \/ d \in Placed
                            ELSE AppliedSomewhere(dbs, d)
    BY DEF WholeOrRefused
  <2>1. s \in Placed  BY DEF IInv, Accounted, ToRun
  <2>2. PICK i \in DOMAIN levels : s \in levels[i]  BY <2>1 DEF Placed
  <2>3. Splits(entries, dbs, levels[i], Order[i])  BY LevelSplit
  <2>4. PICK g \in DOMAIN Order[i] : s \in Order[i][g]  BY <2>2, <2>3 DEF Splits
  <2>5. g \in 1..Cardinality(DOMAIN entries)  BY LevelSplit
  <2>6. <<i, g>> \in GroupsWith(s)  BY <2>4, <2>5 DEF GroupsWith
  <2>7. ASSUME NEW at \in GroupsWith(s) PROVE at = <<i, g>>
    <3>1. /\ at = <<at[1], at[2]>> /\ at[1] \in DOMAIN levels
          /\ at[2] \in DOMAIN Order[at[1]] /\ s \in Order[at[1]][at[2]]
      BY DEF GroupsWith
    <3>2. s \in levels[at[1]]
      <4>1. Splits(entries, dbs, levels[at[1]], Order[at[1]])  BY <3>1, LevelSplit
      <4> QED  BY <3>1, <4>1 DEF Splits
    <3>3. at[1] = i  BY <2>2, <3>1, <3>2 DEF IInv, LevelsApart
    <3>4. at[2] = g  BY SMTT(30), <2>3, <2>4, <3>1, <3>3 DEF Splits
    <3> QED  BY <3>1, <3>3, <3>4
  <2>8. GroupsWith(s) = {<<i, g>>}  BY <2>6, <2>7
  <2>9. Cardinality(GroupsWith(s)) = 1  BY Zenon, <2>8, FS_Singleton
  <2>10. ASSUME NEW d \in entries[s].deps, d \in DOMAIN entries
         PROVE  status[d] = "applied" \/ d \in Placed
    <3>1. status[d] = "applied" \/ \E j \in 1..(i - 1) : d \in levels[j]
      BY <2>2, <2>10 DEF IInv, DepsFirst
    <3>2. \A j \in 1..(i - 1) : j \in DOMAIN levels  BY DEF IInv, TypeOK
    <3> QED  BY <3>1, <3>2 DEF Placed
  <2>11. ASSUME NEW d \in entries[s].deps, d \notin DOMAIN entries
         PROVE  AppliedSomewhere(dbs, d)
    <3>1. ScanProblems(entries, dbs, complete, status) = {}  BY DEF IInv, Scanned
    <3>2. ~MissingDep(entries, dbs, status)  BY Zenon, <3>1 DEF ScanProblems
    <3> QED  BY Zenon, <2>11, <3>2 DEF MissingDep
  <2> QED  BY <2>9, <2>10, <2>11
<1> QED  BY Inductive, <1>1, PTL

\* Each group of the order has a first, and those of it that may be in the
\* database of the first keep apart (parallel_subsets, whatever the databases).
FirstsApart ==
    \A i \in DOMAIN levels : \A g \in DOMAIN Order[i] :
        \E f \in Order[i][g] : ApartNear(entries, dbs, f, Order[i][g])

\* For every repository and any databases, two of one group share no relation
\* and both had complete evidence, unless one of them is in a database provably
\* different from that of the group's first (parallel_subsets).
THEOREM ApartFromTheFirst == Spec => []FirstsApart
<1>1. IInv => FirstsApart
  <2> SUFFICES ASSUME IInv, NEW i \in DOMAIN levels, NEW g \in DOMAIN Order[i]
               PROVE  \E f \in Order[i][g] : ApartNear(entries, dbs, f, Order[i][g])
    BY DEF FirstsApart
  <2>1. Splits(entries, dbs, levels[i], Order[i])  BY LevelSplit
  <2> QED  BY Zenon, <2>1 DEF Splits
<1> QED  BY Inductive, <1>1, PTL

\* No two connections lead to databases that are provably different.
OneServer ==
    \A in \in Inputs : \A c, d \in DOMAIN in.dbs : ~ProvablyDifferent(in.dbs[c], in.dbs[d])

\* Where no two connections lead to databases that are provably different, two
\* of one group share no relation and both had complete evidence.
THEOREM IndependentGroups == ASSUME OneServer PROVE Spec => []GroupsIndependent
<1>1. IInv => GroupsIndependent
  <2> SUFFICES ASSUME IInv, NEW i \in DOMAIN levels, NEW g \in DOMAIN Order[i],
                      NEW s \in Order[i][g], NEW t \in Order[i][g], s # t
               PROVE  /\ entries[s].rels \cap entries[t].rels = {}
                      /\ entries[s].complete /\ entries[t].complete
    BY Zenon DEF GroupsIndependent
  <2>1. Splits(entries, dbs, levels[i], Order[i])  BY LevelSplit
  <2>2. PICK f \in Order[i][g] : ApartNear(entries, dbs, f, Order[i][g])
    BY Zenon, <2>1 DEF Splits
  <2>3. Order[i][g] \subseteq levels[i]  BY <2>1 DEF Splits
  <2>4. \A x \in Order[i][g] : entries[x].conn \in DOMAIN dbs  BY <2>3, LevelSplit
  <2>5. \A x \in Order[i][g] : Near(entries, dbs, f, x)
    <3>1. \A c, d \in DOMAIN dbs : ~ProvablyDifferent(dbs[c], dbs[d])
      BY Zenon DEF OneServer, IInv, Scanned
    <3> QED  BY Zenon, <2>4, <3>1 DEF Near
  <2> QED  BY Zenon, <2>2, <2>5 DEF ApartNear
<1> QED  BY Inductive, <1>1, PTL

-----------------------------------------------------------------------------
(* Cycles *)

\* A path of successors that comes back, no longer than the set is large.
ComesBack(S, next) ==
    \E n \in 1..Cardinality(S) : \E path \in [0..n -> S] :
        path[0] = path[n] /\ \A i \in 1..n : path[i] = next[path[i - 1]]

\* A finite set each of whose members has a successor in it has such a path.
LEMMA PathComesBack ==
    ASSUME NEW S, IsFiniteSet(S), S # {}, NEW next \in [S -> S]
    PROVE  ComesBack(S, next)
<1> DEFINE N == Cardinality(S)
           I == 0..N
<1>0. PICK x : x \in S  OBVIOUS
<1>1. N \in Nat  BY FS_CardinalityType
<1> HIDE DEF N
<1>2. PICK h \in [I -> S] : \A i \in I : h[i] = IF i = 0 THEN x ELSE next[h[i - 1]]
  <2> DEFINE Body(f, i) == IF i = 0 THEN x ELSE next[f[i - 1]]
             F == [f \in [I -> S] |-> [i \in I |-> Body(f, i)]]
             m == [i \in I |-> i]
  <2>0. \A i \in I : i # 0 => i - 1 \in I /\ i - 1 < i  BY <1>1
  <2>1. \A f \in [I -> S] : \A i \in I : Body(f, i) \in S  BY <1>0, <2>0
  <2>2. ASSUME NEW f \in [I -> S], NEW g \in [I -> S], NEW i \in I,
               \A k \in I : m[k] < m[i] => f[k] = g[k]
        PROVE  Body(f, i) = Body(g, i)
    <3>1. i = 0 \/ f[i - 1] = g[i - 1]  BY <2>0, <2>2
    <3> QED  BY <3>1
  <2>3. m \in [I -> Nat]  BY <1>1
  <2> HIDE DEF Body
  <2>4. F \in [[I -> S] -> [I -> S]]  BY <2>1
  <2>5. ASSUME NEW f \in [I -> S], NEW g \in [I -> S], NEW i \in I,
               \A k \in I : m[k] < m[i] => f[k] = g[k]
        PROVE  F[f][i] = F[g][i]
    BY Zenon, <2>2, <2>5
  <2>6. \A f \in [I -> S] : F[f] = [i \in I |-> Body(f, i)]  OBVIOUS
  <2> HIDE DEF F, m, I
  <2>7. Descends(F, I, S, m)  BY SMTT(30), <2>3, <2>4, <2>5 DEF Descends
  <2>8. PICK f \in [I -> S] : f = F[f]  BY <2>7, RecursiveFunctionExists
  <2>9. \A i \in I : f[i] = Body(f, i)
    <3>1. f = [i \in I |-> Body(f, i)]  BY Zenon, <2>6, <2>8
    <3> QED  BY <3>1
  <2> QED  BY <2>8, <2>9 DEF Body
<1>3. IsFiniteSet(I) /\ Cardinality(I) = N + 1  BY <1>1, FS_Interval
<1>4. PICK i \in I, j \in I : i # j /\ h[i] = h[j]
  <2>1. Cardinality(S) < Cardinality(I)  BY <1>1, <1>3 DEF N
  <2> HIDE DEF I
  <2> QED  BY <1>2, <1>3, <2>1, FS_PigeonHole
<1>5. \A a, b \in I : a < b /\ h[a] = h[b] =>
          \E n \in 1..N : \E path \in [0..n -> S] :
               path[0] = path[n] /\ \A k \in 1..n : path[k] = next[path[k - 1]]
  <2> SUFFICES ASSUME NEW a \in I, NEW b \in I, a < b, h[a] = h[b]
               PROVE  \E n \in 1..N : \E path \in [0..n -> S] :
                         path[0] = path[n] /\ \A k \in 1..n : path[k] = next[path[k - 1]]
    BY Zenon
  <2> DEFINE n == b - a
             path == [k \in 0..n |-> h[a + k]]
  <2>1. n \in 1..N /\ a + n = b /\ \A k \in 0..n : a + k \in I  BY <1>1
  <2>2. path \in [0..n -> S]  BY SMTT(30), <1>2, <2>1
  <2>3. path[0] = path[n]  BY <1>1, <2>1
  <2>4. ASSUME NEW k \in 1..n PROVE path[k] = next[path[k - 1]]
    <3>1. a + k \in I /\ a + k # 0 /\ (a + k) - 1 = a + (k - 1) /\ k - 1 \in 0..n /\ k \in 0..n
      BY <1>1, <2>1
    <3>2. h[a + k] = next[h[a + (k - 1)]]  BY <1>2, <3>1
    <3> QED  BY <3>1, <3>2
  <2> HIDE DEF path, n
  <2> QED  BY <2>1, <2>2, <2>3, <2>4
<1>6. i < j \/ j < i  BY <1>1, <1>4
<1> QED  BY <1>4, <1>5, <1>6 DEF N, ComesBack

\* For every repository and ledger, assemble says cycle only where depends_on
\* has one among what remains.
THEOREM CyclesAreReal == Spec => []CycleIsReal
<1>1. IInv => CycleIsReal
  <2> SUFFICES ASSUME IInv, "cycle" \in problems PROVE HasCycle(remaining)
    BY DEF CycleIsReal
  <2>1. /\ remaining # {}
        /\ \A s \in remaining : \E d \in remaining : d \in entries[s].deps
    BY DEF IInv, Stalled
  <2>2. IsFiniteSet(remaining)
    <3>1. IsFiniteSet(DOMAIN entries)  BY ListingAssumption DEF IInv, Scanned
    <3>2. remaining \in SUBSET (DOMAIN entries)  BY DEF IInv, TypeOK
    <3> QED  BY <3>1, <3>2, FS_Subset
  <2> DEFINE next == [s \in remaining |-> CHOOSE d \in remaining : d \in entries[s].deps]
  <2>3. next \in [remaining -> remaining] /\ \A s \in remaining : next[s] \in entries[s].deps
    BY <2>1
  <2> HIDE DEF next
  <2>4. PICK n \in 1..Cardinality(remaining) : \E path \in [0..n -> remaining] :
           path[0] = path[n] /\ \A i \in 1..n : path[i] = next[path[i - 1]]
    <3>1. ComesBack(remaining, next)  BY <2>1, <2>2, <2>3, PathComesBack
    <3> QED  BY <3>1 DEF ComesBack
  <2>5. PICK path \in [0..n -> remaining] :
           path[0] = path[n] /\ \A i \in 1..n : path[i] = next[path[i - 1]]
    BY <2>4
  <2>6. \A i \in 1..n : path[i] \in entries[path[i - 1]].deps
    <3>1. Cardinality(remaining) \in Nat  BY <2>2, FS_CardinalityType
    <3>2. \A i \in 1..n : i - 1 \in 0..n  BY <3>1
    <3> QED  BY <2>3, <2>5, <3>2
  <2> QED  BY Zenon, <2>5, <2>6 DEF HasCycle
<1> QED  BY Inductive, <1>1, PTL

=============================================================================
