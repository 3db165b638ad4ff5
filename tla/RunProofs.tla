----------------------------- MODULE RunProofs ------------------------------
(***************************************************************************)
(* What a run of module Deployment has in hand: the groups it has yet to   *)
(* start, what is under way, what is done, and the jobs it watches.  Every *)
(* step leaves it in order, whatever the other runs do; DeploymentProofs   *)
(* has the listing, and what it comes to.                                  *)
(***************************************************************************)
EXTENDS Deployment, TLAPS

\* A sequence over a set is one over any larger.
LEMMA SeqMonotone == ASSUME NEW A, NEW B, A \subseteq B, NEW q \in Seq(A)
                     PROVE  q \in Seq(B)
<1>1. q \in [1..Len(q) -> B] /\ Len(q) \in Nat  OBVIOUS
<1> QED  BY <1>1

-----------------------------------------------------------------------------
(* What a run has in hand *)

\* The files of a setting, which no step changes.
Files ==
    /\ Ids \in SUBSET (Nat \ {0}) /\ IsFiniteSet(Ids)
    /\ \A s \in Ids : entries[s].deps \subseteq Ids /\ entries[s].conn \in DOMAIN Limits

\* The ledger calls nothing succeeded that has not.
Truthful == \A j \in DOMAIN jobs : jobs[j].row = "succeeded" => jobs[j].state = "succeeded"

Done(d) == \E k \in DOMAIN jobs : jobs[k].spec = d /\ jobs[k].state = "succeeded"

DoneBy(p, s) ==
    \E j \in DOMAIN jobs : jobs[j].by = p /\ jobs[j].spec = s /\ jobs[j].state = "succeeded"

Working == {"next", "fill", "start", "open", "poll"}

Underway(p, d) == starting[p] = d \/ \E j \in running[p] : jobs[j].spec = d

\* What a group holds waits for nothing but earlier groups and, unless it is the
\* group being worked through, for what is under way.
Ordered(p) ==
    pc[p] \in Working =>
        \A i \in DOMAIN todo[p] : \A s \in todo[p][i] : \A d \in entries[s].deps :
            \/ Done(d)
            \/ \E k \in DOMAIN todo[p] : k < i /\ d \in todo[p][k]
            \/ i > 1 /\ Underway(p, d)

\* What is about to start waits for nothing, and a group is being worked through.
Begun(p) ==
    /\ pc[p] \in {"start", "open"} =>
          starting[p] \in Ids /\ \A d \in entries[starting[p]].deps : Done(d)
    /\ pc[p] \in {"new", "next", "fill", "poll"} => starting[p] = 0
    /\ pc[p] \in {"fill", "start", "open", "poll"} => todo[p] # << >>

\* Whatever was listed is to come, under way or done by this run.
Covered(p) ==
    pc[p] \in Working =>
        \A s \in listed[p] :
            Underway(p, s) \/ DoneBy(p, s) \/ \E i \in DOMAIN todo[p] : s \in todo[p][i]

\* A run drains for a reason, and leaves with 0 for none.
Left(p) ==
    /\ pc[p] = "drain" => code[p] # 0
    /\ pc[p] \in {"join", "exited"} /\ code[p] = 0 => \A s \in listed[p] : DoneBy(p, s)

\* A run watches jobs of its own.
Owned(p) == \A j \in running[p] : jobs[j].by = p

InHand(p) == Ordered(p) /\ Begun(p) /\ Covered(p) /\ Left(p) /\ Owned(p)

Whole == Files /\ TypeOK /\ Truthful /\ DependencyOrder /\ \A p \in Procs : InHand(p)

-----------------------------------------------------------------------------
(* The steps of a run, and what it has in hand *)

\* What a step does to the jobs: none changes hands, what has ended keeps its
\* end, and what is new waits for nothing.
Grows ==
    /\ jobs' \in Seq(JobType) /\ DOMAIN jobs \subseteq DOMAIN jobs'
    /\ \A j \in DOMAIN jobs : /\ jobs'[j].by = jobs[j].by /\ jobs'[j].spec = jobs[j].spec
                              /\ jobs[j].state # "running" => jobs'[j].state = jobs[j].state
    /\ \A j \in DOMAIN jobs' : jobs'[j].row = "succeeded" => jobs'[j].state = "succeeded"
    /\ \A j \in DOMAIN jobs' \ DOMAIN jobs : \A d \in entries[jobs'[j].spec].deps : Done(d)

SameAt(q) ==
    /\ pc'[q] = pc[q] /\ code'[q] = code[q] /\ listed'[q] = listed[q]
    /\ todo'[q] = todo[q] /\ starting'[q] = starting[q] /\ running'[q] = running[q]

\* A step of one run.
Moved(p, w, c, L, T, s, R) ==
    /\ pc' = [pc EXCEPT ![p] = w] /\ code' = [code EXCEPT ![p] = c]
    /\ listed' = [listed EXCEPT ![p] = L] /\ todo' = [todo EXCEPT ![p] = T]
    /\ starting' = [starting EXCEPT ![p] = s] /\ running' = [running EXCEPT ![p] = R]

\* Where it then is.
At(p, w, c, L, T, s, R) ==
    /\ pc'[p] = w /\ code'[p] = c /\ listed'[p] = L
    /\ todo'[p] = T /\ starting'[p] = s /\ running'[p] = R

Places == {"new", "next", "fill", "start", "open", "poll", "drain", "join"} \cup Gone

Fits(w, c, L, T, s, R) ==
    /\ w \in Places /\ c \in {0, 1, 2, 3, 130} /\ L \in SUBSET Ids
    /\ T \in Seq(SUBSET Ids) /\ s \in Ids \cup {0} /\ R \in SUBSET (DOMAIN jobs')

\* What no property here speaks of keeps its type.
RestTyped ==
    /\ entries' = entries /\ troubles' \in Nat
    /\ reported' \in [Procs -> SUBSET (DOMAIN jobs')]
    /\ signal' \in [Procs -> BOOLEAN] /\ said' \in [Procs -> BOOLEAN]

LEMMA StaysDone ==
    ASSUME Grows
    PROVE  /\ \A d : Done(d) => Done(d)'
           /\ \A p, s : DoneBy(p, s) => DoneBy(p, s)'
<1>1. ASSUME NEW j \in DOMAIN jobs, jobs[j].state = "succeeded"
      PROVE  /\ j \in DOMAIN jobs' /\ jobs'[j].state = "succeeded"
             /\ jobs'[j].by = jobs[j].by /\ jobs'[j].spec = jobs[j].spec
  BY <1>1 DEF Grows
<1> QED  BY Zenon, <1>1 DEF Done, DoneBy

\* A run that a step leaves alone has in hand what it had.
LEMMA StaysInHand ==
    ASSUME TypeOK, Grows, entries' = entries, NEW q \in Procs, InHand(q), SameAt(q)
    PROVE  InHand(q)'
<1>1. running[q] \subseteq DOMAIN jobs /\ running'[q] = running[q]
  BY DEF TypeOK, SameAt
<1>2. \A j \in running[q] : jobs'[j].spec = jobs[j].spec /\ jobs'[j].by = jobs[j].by
  BY <1>1 DEF Grows
<1>3. ASSUME NEW d, Underway(q, d) PROVE Underway(q, d)'
  BY Zenon, <1>1, <1>2, <1>3 DEF Underway, SameAt
<1>4. Ordered(q)'
  <2>1. Ordered(q)  BY DEF InHand
  <2> QED  BY Zenon, <1>3, <2>1, StaysDone DEF Ordered, SameAt
<1>5. Begun(q)'
  <2>1. Begun(q) /\ Ids' = Ids  BY DEF InHand, Ids
  <2> QED  BY Zenon, <2>1, StaysDone DEF Begun, SameAt
<1>6. Covered(q)'
  <2>1. Covered(q)  BY DEF InHand
  <2> QED  BY Zenon, <1>3, <2>1, StaysDone DEF Covered, SameAt
<1>7. Left(q)'
  <2>1. Left(q)  BY DEF InHand
  <2> QED  BY Zenon, <2>1, StaysDone DEF Left, SameAt
<1>8. Owned(q)'
  <2>1. Owned(q)  BY DEF InHand
  <2> QED  BY Zenon, <1>1, <1>2, <2>1 DEF Owned
<1> QED  BY SMTT(30), <1>4, <1>5, <1>6, <1>7, <1>8 DEF InHand

LEMMA KeepsOrder ==
    ASSUME Grows, entries' = entries, DependencyOrder PROVE DependencyOrder'
<1> SUFFICES ASSUME NEW j \in DOMAIN jobs', NEW d \in entries[jobs'[j].spec].deps
             PROVE  Done(d)'
  BY Zenon DEF DependencyOrder, Done
<1>1. CASE j \in DOMAIN jobs
  <2>1. jobs'[j].spec = jobs[j].spec  BY <1>1 DEF Grows
  <2>2. d \in entries[jobs[j].spec].deps  BY <2>1
  <2>3. Done(d)  BY Zenon, <1>1, <2>2 DEF DependencyOrder, Done
  <2> QED  BY <2>3, StaysDone
<1>2. CASE j \notin DOMAIN jobs
  <2>1. Done(d)  BY <1>2 DEF Grows
  <2> QED  BY <2>1, StaysDone
<1> QED  BY <1>1, <1>2

LEMMA KeepsFiles == ASSUME Files, entries' = entries PROVE Files'
BY Zenon DEF Files, Ids

\* A step of one run keeps the invariant when it keeps what that run has in hand.
LEMMA OneMoves ==
    ASSUME Whole, Grows, RestTyped, NEW p \in Procs,
           NEW w, NEW c, NEW L, NEW T, NEW s, NEW R,
           Fits(w, c, L, T, s, R), Moved(p, w, c, L, T, s, R),
           At(p, w, c, L, T, s, R) => InHand(p)'
    PROVE  Whole'
<1> USE DEF RestTyped
<1>0. /\ w \in Places /\ c \in {0, 1, 2, 3, 130} /\ L \in SUBSET Ids
      /\ T \in Seq(SUBSET Ids) /\ s \in Ids \cup {0} /\ R \in SUBSET (DOMAIN jobs')
  BY DEF Fits
<1>1. TypeOK  BY DEF Whole
<1>2. At(p, w, c, L, T, s, R)
  BY SMTT(30), <1>1 DEF Moved, TypeOK, At
<1>3. ASSUME NEW q \in Procs, q # p PROVE SameAt(q)
  BY <1>1, <1>3 DEF Moved, SameAt, TypeOK
<1>4. TypeOK'
  <2>1. Ids' = Ids /\ JobType' = JobType  BY SMTT(30) DEF Ids, JobType
  <2>2. pc' \in [Procs -> Places] /\ code' \in [Procs -> {0, 1, 2, 3, 130}]
    BY SMTT(30), <1>0, <1>1 DEF Moved, TypeOK, Places
  <2>3. listed' \in [Procs -> SUBSET Ids] /\ starting' \in [Procs -> Ids \cup {0}]
    BY <1>0, <1>1 DEF Moved, TypeOK
  <2>4. todo' \in [Procs -> Seq(SUBSET Ids)]
    <3>1. todo \in [Procs -> Seq(SUBSET Ids)] /\ todo' = [todo EXCEPT ![p] = T]
      BY SMTT(30), <1>1 DEF Moved, TypeOK
    <3> QED  BY <1>0, <3>1
  <2>5. running' \in [Procs -> SUBSET (DOMAIN jobs')]
    <3>1. running \in [Procs -> SUBSET (DOMAIN jobs)] /\ DOMAIN jobs \subseteq DOMAIN jobs'
      BY Zenon, <1>1 DEF TypeOK, Grows
    <3>2. running' = [running EXCEPT ![p] = R]  BY SMTT(30) DEF Moved
    <3> QED  BY SMTT(30), <1>0, <3>1, <3>2
  <2>6. jobs' \in Seq(JobType)  BY DEF Grows
  <2> QED  BY Zenon, <2>1, <2>2, <2>3, <2>4, <2>5, <2>6 DEF TypeOK, Places
<1>5. ASSUME NEW q \in Procs PROVE InHand(q)'
  <2>1. CASE q = p  BY Zenon, <1>2, <2>1
  <2>2. CASE q # p
    <3>1. InHand(q)  BY DEF Whole
    <3> QED  BY SMTT(30), <1>1, <1>3, <2>2, <3>1, StaysInHand
  <2> QED  BY <2>1, <2>2
<1>6. Files' /\ DependencyOrder'  BY SMTT(30), KeepsFiles, KeepsOrder DEF Whole
<1>7. Truthful'  BY DEF Truthful, Grows
<1> QED  BY Zenon, <1>4, <1>5, <1>6, <1>7 DEF Whole

LEMMA InitWhole == Init => Whole
<1> SUFFICES ASSUME Init PROVE Whole  OBVIOUS
<1>1. PICK set \in Settings :
          /\ entries = set.entries /\ troubles = set.troubles
          /\ pc = [p \in Procs |-> IF p \in set.runs THEN "new" ELSE "absent"]
  BY DEF Init
<1>2. jobs = << >> /\ DOMAIN jobs = {} /\ jobs \in Seq(JobType)  BY DEF Init
<1>3. Files /\ troubles \in Nat  BY SMTT(30), <1>1, DeploymentAssumption DEF Files, Ids
<1>4. TypeOK
  <2>1. pc \in [Procs -> {"new", "next", "fill", "start", "open", "poll", "drain", "join"}
                         \cup Gone]
    BY SMTT(30), <1>1 DEF Gone
  <2>2. todo \in [Procs -> Seq(SUBSET Ids)]  BY SMTT(30) DEF Init
  <2> QED  BY SMTT(30), <1>2, <1>3, <2>1, <2>2 DEF Init, TypeOK
<1>5. Truthful /\ DependencyOrder  BY SMTT(30), <1>2 DEF Truthful, DependencyOrder
<1>6. ASSUME NEW p \in Procs PROVE InHand(p)
  <2>1. /\ pc[p] \in {"new", "absent"} /\ starting[p] = 0 /\ running[p] = {}
    BY <1>1 DEF Init
  <2> QED  BY <2>1 DEF InHand, Ordered, Begun, Covered, Left, Owned, Working
<1> QED  BY SMTT(30), <1>3, <1>4, <1>5, <1>6 DEF Whole

LEMMA ChangeGrows ==
    ASSUME TypeOK, jobs' \in [DOMAIN jobs -> JobType],
           \A j \in DOMAIN jobs :
              /\ jobs'[j].by = jobs[j].by /\ jobs'[j].spec = jobs[j].spec
              /\ jobs[j].state # "running" => jobs'[j].state = jobs[j].state
              /\ jobs'[j].row = "succeeded" => jobs'[j].state = "succeeded"
    PROVE  Grows
<1>1. DOMAIN jobs = 1..Len(jobs) /\ Len(jobs) \in Nat  BY DEF TypeOK
<1>2. jobs' \in Seq(JobType) /\ DOMAIN jobs' = DOMAIN jobs  BY SMTT(30), <1>1
<1> QED  BY SMTT(30), <1>2 DEF Grows

LEMMA UnchangedGrows == ASSUME TypeOK, Truthful, UNCHANGED jobs PROVE Grows
BY DEF TypeOK, Truthful, Grows

LEMMA RestSame ==
    ASSUME TypeOK, Grows, UNCHANGED <<entries, troubles, reported, signal, said>>
    PROVE  RestTyped
<1>1. DOMAIN jobs \subseteq DOMAIN jobs'  BY DEF Grows
<1>2. reported \in [Procs -> SUBSET (DOMAIN jobs)] /\ reported' = reported  BY DEF TypeOK
<1>3. reported' \in [Procs -> SUBSET (DOMAIN jobs')]  BY SMTT(30), <1>1, <1>2
<1> QED  BY Zenon, <1>3 DEF RestTyped, TypeOK

\* What a run is and has, typed, and as an update that changes nothing.
LEMMA AsItWas ==
    ASSUME TypeOK, NEW p \in Procs
    PROVE  /\ pc[p] \in Places /\ code[p] \in {0, 1, 2, 3, 130} /\ listed[p] \in SUBSET Ids
           /\ todo[p] \in Seq(SUBSET Ids) /\ starting[p] \in Ids \cup {0}
           /\ running[p] \in SUBSET (DOMAIN jobs)
           /\ pc = [pc EXCEPT ![p] = pc[p]] /\ code = [code EXCEPT ![p] = code[p]]
           /\ listed = [listed EXCEPT ![p] = listed[p]] /\ todo = [todo EXCEPT ![p] = todo[p]]
           /\ starting = [starting EXCEPT ![p] = starting[p]]
           /\ running = [running EXCEPT ![p] = running[p]]
BY SMTT(30) DEF TypeOK, Places

\* A run that leaves its loop.
LEMMA Leaves ==
    ASSUME TypeOK, Grows, NEW p \in Procs, InHand(p),
           pc'[p] \in {"drain", "join", "exited", "killed"},
           running'[p] \subseteq running[p], Left(p)'
    PROVE  InHand(p)'
<1>1. pc'[p] \notin Working /\ Ordered(p)' /\ Begun(p)' /\ Covered(p)'
  BY SMTT(30) DEF Working, Ordered, Begun, Covered
<1>2. Owned(p)'
  <2>1. \A j \in running'[p] : j \in DOMAIN jobs /\ jobs[j].by = p
    BY DEF TypeOK, InHand, Owned
  <2> QED  BY SMTT(30), <2>1 DEF Owned, Grows
<1> QED  BY SMTT(30), <1>1, <1>2 DEF InHand

\* A run that goes on with the same in hand.
LEMMA GoesOn ==
    ASSUME TypeOK, Grows, entries' = entries, NEW p \in Procs, InHand(p),
           pc[p] \in Working, pc'[p] \in Working, Begun(p)',
           listed'[p] = listed[p], todo'[p] = todo[p],
           starting'[p] = starting[p], running'[p] = running[p]
    PROVE  InHand(p)'
<1>1. running[p] \subseteq DOMAIN jobs  BY DEF TypeOK
<1>2. \A j \in running[p] : jobs'[j].spec = jobs[j].spec /\ jobs'[j].by = jobs[j].by
  BY <1>1 DEF Grows
<1>3. ASSUME NEW d, Underway(p, d) PROVE Underway(p, d)'
  BY Zenon, <1>1, <1>2, <1>3 DEF Underway
<1>4. Ordered(p)'
  <2>1. Ordered(p)  BY DEF InHand
  <2> QED  BY Zenon, <1>3, <2>1, StaysDone DEF Ordered
<1>5. Covered(p)'
  <2>1. Covered(p)  BY SMTT(30) DEF InHand
  <2> QED  BY Zenon, <1>3, <2>1, StaysDone DEF Covered
<1>6. Left(p)'  BY DEF Left, Working
<1>7. Owned(p)'
  <2>1. Owned(p)  BY DEF InHand
  <2> QED  BY ZenonT(30), <1>2, <2>1 DEF Owned
<1> QED  BY SMTT(30), <1>4, <1>5, <1>6, <1>7 DEF InHand

\* Nothing has the id 0, which stands for no specification.
LEMMA NotZero ==
    ASSUME Files, TypeOK, NEW p \in Procs
    PROVE  /\ \A s \in listed[p] : s # 0
           /\ \A i \in DOMAIN todo[p] : \A s \in todo[p][i] :
                 s # 0 /\ s \in Ids /\ \A d \in entries[s].deps : d # 0
<1>1. \A s \in Ids : s # 0 /\ entries[s].deps \subseteq Ids  BY DEF Files
<1>2. listed[p] \subseteq Ids  BY DEF TypeOK
<1>3. todo[p] \in Seq(SUBSET Ids)  BY DEF TypeOK
<1>4. \A i \in DOMAIN todo[p] : todo[p][i] \subseteq Ids  BY <1>3
<1> QED  BY Zenon, <1>1, <1>2, <1>4

\* A group that returned leaves nothing under way.
LEMMA GroupReturnsKeeps == ASSUME Whole, NEW p \in Procs, GroupReturns(p) PROVE Whole'
<1> DEFINE t == todo[p]
           T == Tail(t)
<1>1. TypeOK /\ Truthful /\ Files /\ InHand(p)  BY DEF Whole
<1>2. /\ pc[p] = "fill" /\ starting[p] = 0 /\ running[p] = {} /\ t # << >> /\ Head(t) = {}
      /\ UNCHANGED <<code, listed, starting, running, reported, said, signal, jobs, entries,
                     troubles>>
      /\ Go(p, "next") /\ todo' = [todo EXCEPT ![p] = T]
  BY SMTT(30), <1>1 DEF GroupReturns, GroupDone, calm, InHand, Begun
<1>3. Grows /\ RestTyped /\ DOMAIN jobs' = DOMAIN jobs
  BY SMTT(30), <1>1, <1>2, UnchangedGrows, RestSame
<1>4. t \in Seq(SUBSET Ids)  BY <1>1 DEF TypeOK
<1>z. /\ \A s \in listed[p] : s # 0
      /\ \A i \in DOMAIN t : \A s \in t[i] : \A d \in entries[s].deps : d # 0
  BY Zenon, <1>1, NotZero
<1>o. /\ \A i \in DOMAIN t : \A s \in t[i] : \A d \in entries[s].deps :
            \/ Done(d)
            \/ \E k \in DOMAIN t : k < i /\ d \in t[k]
            \/ i > 1 /\ Underway(p, d)
      /\ \A s \in listed[p] :
            Underway(p, s) \/ DoneBy(p, s) \/ \E i \in DOMAIN t : s \in t[i]
  BY Zenon, <1>1, <1>2 DEF InHand, Ordered, Covered, Working
<1>5. Moved(p, "next", code[p], listed[p], T, starting[p], running[p])
  BY ZenonT(30), <1>1, <1>2, AsItWas DEF Moved, Go
<1> HIDE DEF t
<1>6. /\ T \in Seq(SUBSET Ids) /\ 1 \in DOMAIN t /\ t[1] = {}
      /\ \A i \in DOMAIN T : i \in Nat /\ i + 1 \in DOMAIN t /\ T[i] = t[i + 1]
      /\ \A i \in DOMAIN t : i \in Nat /\ (i # 1 => i - 1 \in DOMAIN T /\ T[i - 1] = t[i])
  BY SMTT(30), <1>2, <1>4
<1> HIDE DEF T
<1>7. \A d : Underway(p, d) => d = 0  BY SMTT(30), <1>2 DEF Underway
<1>8. ASSUME NEW i \in DOMAIN T, NEW s \in T[i], NEW d \in entries[s].deps
      PROVE  Done(d) \/ \E k \in DOMAIN T : k < i /\ d \in T[k]
  <2>1. i + 1 \in DOMAIN t /\ s \in t[i + 1]  BY <1>6
  <2>2. Done(d) \/ (\E k \in DOMAIN t : k < i + 1 /\ d \in t[k]) \/ Underway(p, d)
    BY Zenon, <1>o, <2>1
  <2>3. ~Underway(p, d)  BY Zenon, <1>7, <1>z, <2>1
  <2>4. ASSUME NEW k \in DOMAIN t, k < i + 1, d \in t[k]
        PROVE  \E e \in DOMAIN T : e < i /\ d \in T[e]
    <3>1. k # 1 /\ k - 1 \in DOMAIN T /\ d \in T[k - 1]  BY SMTT(30), <1>6, <2>4
    <3>2. k - 1 < i  BY <1>6, <2>4
    <3> QED  BY SMTT(30), <3>1, <3>2
  <2> QED  BY SMTT(30), <2>2, <2>3, <2>4
<1>9. ASSUME NEW s \in listed[p] PROVE DoneBy(p, s) \/ \E i \in DOMAIN T : s \in T[i]
  <2>1. ASSUME NEW i \in DOMAIN t, s \in t[i] PROVE \E k \in DOMAIN T : s \in T[k]
    <3>1. i # 1  BY SMTT(30), <1>6, <2>1
    <3> QED  BY SMTT(30), <1>6, <2>1, <3>1
  <2> QED  BY Zenon, <1>7, <1>z, <1>o, <2>1
<1>10. ASSUME At(p, "next", code[p], listed[p], T, starting[p], running[p]) PROVE InHand(p)'
  <2>1. /\ pc'[p] = "next" /\ listed'[p] = listed[p] /\ todo'[p] = T /\ starting'[p] = 0
        /\ running'[p] = {} /\ entries' = entries
    BY <1>2, <1>10 DEF At
  <2>2. Ordered(p)'  BY Zenon, <1>3, <1>8, <2>1, StaysDone DEF Ordered
  <2>3. Covered(p)'  BY ZenonT(30), <1>3, <1>9, <2>1, StaysDone DEF Covered
  <2>4. Begun(p)' /\ Left(p)' /\ Owned(p)'  BY <2>1 DEF Begun, Left, Owned
  <2> QED  BY SMTT(30), <2>2, <2>3, <2>4 DEF InHand
<1>11. Fits("next", code[p], listed[p], T, starting[p], running[p])
  BY ZenonT(30), <1>1, <1>3, <1>6, AsItWas DEF Fits, Places
<1> QED  BY SMTT(30), <1>3, <1>5, <1>10, <1>11, OneMoves

\* A run that stops starting things drains.
LEMMA Drains ==
    ASSUME Whole, Grows, RestTyped, NEW p \in Procs, NEW c, c # 0,
           NEW L, NEW T, NEW s, NEW R, R \subseteq running[p],
           Fits("drain", c, L, T, s, R), Moved(p, "drain", c, L, T, s, R)
    PROVE  Whole'
<1>1. TypeOK /\ InHand(p)  BY SMTT(30) DEF Whole
<1>2. ASSUME At(p, "drain", c, L, T, s, R) PROVE InHand(p)'
  <2>1. pc'[p] = "drain" /\ code'[p] # 0 /\ running'[p] \subseteq running[p]
    BY SMTT(30), <1>2 DEF At
  <2>2. Left(p)'  BY <2>1 DEF Left
  <2> QED  BY SMTT(30), <1>1, <2>1, <2>2, Leaves
<1> QED  BY SMTT(30), <1>2, OneMoves

LEMMA JobTyped ==
    ASSUME TypeOK
    PROVE  /\ jobs \in [DOMAIN jobs -> JobType]
           /\ \A j \in DOMAIN jobs : jobs[j] \in JobType
BY DEF TypeOK

\* Jobs that are asked to stop, found dead or killed keep all else.
LEMMA ReconcileGrows == ASSUME TypeOK, Truthful, NEW p \in Procs, Reconcile(p) PROVE Grows
<1>1. PICK fails \in BOOLEAN :
          jobs' = [j \in DOMAIN jobs |->
                     IF IsDead(j) /\ ~fails THEN [jobs[j] EXCEPT !.row = "interrupted"]
                     ELSE jobs[j]]
  BY DEF Reconcile
<1>2. \A j \in DOMAIN jobs :
         /\ [jobs[j] EXCEPT !.row = "interrupted"] \in JobType
         /\ [jobs[j] EXCEPT !.row = "interrupted"].by = jobs[j].by
         /\ [jobs[j] EXCEPT !.row = "interrupted"].spec = jobs[j].spec
         /\ [jobs[j] EXCEPT !.row = "interrupted"].state = jobs[j].state
         /\ [jobs[j] EXCEPT !.row = "interrupted"].row = "interrupted"
  BY JobTyped DEF JobType, Rows
<1>3. ASSUME NEW j \in DOMAIN jobs
      PROVE  /\ jobs'[j] \in JobType
             /\ jobs'[j].by = jobs[j].by /\ jobs'[j].spec = jobs[j].spec
             /\ jobs[j].state # "running" => jobs'[j].state = jobs[j].state
             /\ jobs'[j].row = "succeeded" => jobs'[j].state = "succeeded"
  <2>1. CASE jobs'[j] = jobs[j]  BY <2>1, JobTyped DEF Truthful
  <2>2. CASE jobs'[j] = [jobs[j] EXCEPT !.row = "interrupted"]
    <3>1. "interrupted" # "succeeded"  OBVIOUS
    <3> QED  BY Zenon, <1>2, <2>2, <3>1
  <2> QED  BY Zenon, <1>1, <2>1, <2>2
<1>4. jobs' \in [DOMAIN jobs -> JobType]
  <2>1. DOMAIN jobs' = DOMAIN jobs /\ jobs' = [j \in DOMAIN jobs |-> jobs'[j]]  BY Zenon, <1>1
  <2> QED  BY Zenon, <1>3, <2>1
<1> QED  BY Zenon, <1>3, <1>4, ChangeGrows

LEMMA AskedGrows == ASSUME TypeOK, Truthful, NEW p \in Procs, jobs' = Asked(p) PROVE Grows
<1>1. jobs' = [j \in DOMAIN jobs |-> IF j \in Live(p) THEN [jobs[j] EXCEPT !.asked = TRUE]
                                     ELSE jobs[j]]
  BY Zenon DEF Asked
<1>2. \A j \in DOMAIN jobs :
         /\ [jobs[j] EXCEPT !.asked = TRUE] \in JobType
         /\ [jobs[j] EXCEPT !.asked = TRUE].by = jobs[j].by
         /\ [jobs[j] EXCEPT !.asked = TRUE].spec = jobs[j].spec
         /\ [jobs[j] EXCEPT !.asked = TRUE].state = jobs[j].state
         /\ [jobs[j] EXCEPT !.asked = TRUE].row = jobs[j].row
  BY Zenon, JobTyped DEF JobType
<1>3. ASSUME NEW j \in DOMAIN jobs
      PROVE  /\ jobs'[j] \in JobType
             /\ jobs'[j].by = jobs[j].by /\ jobs'[j].spec = jobs[j].spec
             /\ jobs[j].state # "running" => jobs'[j].state = jobs[j].state
             /\ jobs'[j].row = "succeeded" => jobs'[j].state = "succeeded"
  <2>0. jobs[j].row = "succeeded" => jobs[j].state = "succeeded"  BY DEF Truthful
  <2>1. CASE jobs'[j] = jobs[j]  BY <2>0, <2>1, JobTyped
  <2>2. CASE jobs'[j] = [jobs[j] EXCEPT !.asked = TRUE]
    BY Zenon, <1>2, <2>0, <2>2
  <2> QED  BY Zenon, <1>1, <2>1, <2>2
<1>4. jobs' \in [DOMAIN jobs -> JobType]
  <2>1. DOMAIN jobs' = DOMAIN jobs /\ jobs' = [j \in DOMAIN jobs |-> jobs'[j]]  BY Zenon, <1>1
  <2> QED  BY Zenon, <1>3, <2>1
<1> QED  BY Zenon, <1>3, <1>4, ChangeGrows

LEMMA StopGrows ==
    ASSUME TypeOK, Truthful, NEW p \in Procs, StopOnSignal(p)
    PROVE  Grows /\ said' \in [Procs -> BOOLEAN] /\ DOMAIN jobs' = DOMAIN jobs
<1>1. CASE said' = [said EXCEPT ![p] = TRUE] /\ jobs' = Asked(p)
  <2>1. said' \in [Procs -> BOOLEAN]  BY Zenon, <1>1 DEF TypeOK
  <2>2. DOMAIN jobs' = DOMAIN jobs  BY Zenon, <1>1 DEF Asked
  <2> QED  BY SMTT(30), <1>1, <2>1, <2>2, AskedGrows
<1>2. CASE UNCHANGED <<said, jobs>>
  BY <1>2, UnchangedGrows DEF TypeOK
<1> QED  BY Zenon, <1>1, <1>2 DEF StopOnSignal

LEMMA KillGrows == ASSUME TypeOK, Truthful, NEW p \in Procs, Kill(p) PROVE Grows
<1>1. jobs' = [j \in DOMAIN jobs |->
                 IF j \in Live(p) THEN [jobs[j] EXCEPT !.state = "dead", !.session = FALSE]
                 ELSE jobs[j]]
  BY Zenon DEF Kill
<1>2. \A j \in DOMAIN jobs :
         /\ [jobs[j] EXCEPT !.state = "dead", !.session = FALSE] \in JobType
         /\ [jobs[j] EXCEPT !.state = "dead", !.session = FALSE].by = jobs[j].by
         /\ [jobs[j] EXCEPT !.state = "dead", !.session = FALSE].spec = jobs[j].spec
         /\ [jobs[j] EXCEPT !.state = "dead", !.session = FALSE].row = jobs[j].row
  BY Zenon, JobTyped DEF JobType, States
<1>3. ASSUME NEW j \in DOMAIN jobs
      PROVE  /\ jobs'[j] \in JobType
             /\ jobs'[j].by = jobs[j].by /\ jobs'[j].spec = jobs[j].spec
             /\ jobs[j].state # "running" => jobs'[j].state = jobs[j].state
             /\ jobs'[j].row = "succeeded" => jobs'[j].state = "succeeded"
  <2>0. jobs[j].row = "succeeded" => jobs[j].state = "succeeded"  BY DEF Truthful
  <2>1. CASE j \notin Live(p)
    <3>1. jobs'[j] = jobs[j]  BY Zenon, <1>1, <2>1
    <3> QED  BY <2>0, <3>1, JobTyped
  <2>2. CASE j \in Live(p)
    <3>1. jobs'[j] = [jobs[j] EXCEPT !.state = "dead", !.session = FALSE]
      BY Zenon, <1>1, <2>2
    <3>2. jobs[j].state = "running" /\ "running" # "succeeded"  BY <2>2 DEF Live
    <3> QED  BY Zenon, <1>2, <2>0, <3>1, <3>2
  <2> QED  BY <2>1, <2>2
<1>4. jobs' \in [DOMAIN jobs -> JobType]
  <2>1. DOMAIN jobs' = DOMAIN jobs /\ jobs' = [j \in DOMAIN jobs |-> jobs'[j]]  BY Zenon, <1>1
  <2> QED  BY Zenon, <1>3, <2>1
<1> QED  BY Zenon, <1>3, <1>4, ChangeGrows

\* One job that runs changes: it ends, or loses its session.
LEMMA OneJobGrows ==
    ASSUME TypeOK, Truthful, NEW j \in DOMAIN jobs, jobs[j].state = "running",
           NEW job \in JobType, job.by = jobs[j].by, job.spec = jobs[j].spec,
           job.row = "succeeded" => job.state = "succeeded", jobs' = [jobs EXCEPT ![j] = job]
    PROVE  Grows
<1>1. jobs' \in [DOMAIN jobs -> JobType] /\ jobs'[j] = job
      /\ \A k \in DOMAIN jobs : k # j => jobs'[k] = jobs[k]
  BY SMTT(30), JobTyped
<1>2. ASSUME NEW k \in DOMAIN jobs
      PROVE  /\ jobs'[k].by = jobs[k].by /\ jobs'[k].spec = jobs[k].spec
             /\ jobs[k].state # "running" => jobs'[k].state = jobs[k].state
             /\ jobs'[k].row = "succeeded" => jobs'[k].state = "succeeded"
  <2>1. CASE k = j  BY Zenon, <1>1, <2>1
  <2>2. CASE k # j  BY Zenon, <1>1, <2>2 DEF Truthful
  <2> QED  BY <2>1, <2>2
<1> QED  BY Zenon, <1>1, <1>2, ChangeGrows

LEMMA JobStepsGrow ==
    ASSUME TypeOK, Truthful, NEW j \in DOMAIN jobs, JobEnds(j) \/ LoseSession(j)
    PROVE  Grows
<1>0. jobs[j] \in JobType /\ jobs[j].state = "running"
      /\ (jobs[j].row = "succeeded" => jobs[j].state = "succeeded")
  BY Zenon, JobTyped DEF Truthful, JobEnds, LoseSession
<1>1. jobs[j].row # "succeeded"  BY <1>0
<1>2. CASE JobEnds(j)
  <2>1. PICK s \in {"succeeded", "failed"} \cup (IF jobs[j].asked THEN {"cancelled"} ELSE {}) :
            jobs' = [jobs EXCEPT ![j].state = s,
                                 ![j].row = IF jobs[j].session THEN s ELSE @,
                                 ![j].session = FALSE]
    BY Zenon, <1>2 DEF JobEnds
  <2> DEFINE job == [jobs[j] EXCEPT !.state = s,
                                    !.row = IF jobs[j].session THEN s ELSE @,
                                    !.session = FALSE]
  <2>2. s \in {"succeeded", "failed", "cancelled"}  BY <2>1
  <2>3. job \in JobType /\ job.by = jobs[j].by /\ job.spec = jobs[j].spec
    BY Zenon, <1>0, <2>2 DEF JobType, States, Rows
  <2>4. job.row = "succeeded" => job.state = "succeeded"
    <3>1. job.state = s /\ (job.row = s \/ job.row = jobs[j].row)
      BY Zenon, <1>0 DEF JobType
    <3> QED  BY Zenon, <1>1, <3>1
  <2>5. jobs' = [jobs EXCEPT ![j] = job]  BY Zenon, <1>0, <2>1 DEF JobType
  <2> HIDE DEF job
  <2> QED  BY Zenon, <1>0, <2>3, <2>4, <2>5, OneJobGrows
<1>3. CASE LoseSession(j)
  <2> DEFINE job == [jobs[j] EXCEPT !.session = FALSE]
  <2>1. /\ job \in JobType /\ job.by = jobs[j].by /\ job.spec = jobs[j].spec
        /\ job.row = jobs[j].row
    BY ZenonT(30), <1>0 DEF JobType
  <2>2. jobs' = [jobs EXCEPT ![j] = job]  BY <1>3 DEF LoseSession
  <2>3. job.row = "succeeded" => job.state = "succeeded"  BY Zenon, <1>1, <2>1
  <2> HIDE DEF job
  <2> QED  BY Zenon, <1>0, <2>1, <2>2, <2>3, OneJobGrows
<1> QED  BY <1>2, <1>3

LEMMA ReconcileKeeps == ASSUME Whole, NEW p \in Procs, Reconcile(p) PROVE Whole'
<1>1. TypeOK /\ Truthful /\ InHand(p)  BY DEF Whole
<1>2. /\ pc[p] = "start"
      /\ UNCHANGED <<listed, todo, running, reported, said, signal, entries, troubles>>
  BY Zenon DEF Reconcile, calm
<1>3. Grows /\ RestTyped /\ DOMAIN jobs' = DOMAIN jobs
  <2>1. Grows  BY <1>1, ReconcileGrows
  <2>2. DOMAIN jobs' = DOMAIN jobs  BY SMTT(30) DEF Reconcile
  <2> QED  BY SMTT(30), <1>1, <1>2, <2>1, <2>2, RestSame
<1>4. CASE LeaveBy(p, "drain", 1) /\ starting' = [starting EXCEPT ![p] = 0]
  <2>1. Moved(p, "drain", 1, listed[p], todo[p], 0, running[p])
    BY Zenon, <1>1, <1>2, <1>4, AsItWas DEF Moved, LeaveBy, Go
  <2>2. Fits("drain", 1, listed[p], todo[p], 0, running[p])
    BY ZenonT(30), <1>1, <1>3, AsItWas DEF Fits, Places
  <2> QED  BY SMTT(30), <1>3, <2>1, <2>2, Drains
<1>5. CASE Go(p, "open") /\ UNCHANGED <<code, starting>>
  <2>1. Moved(p, "open", code[p], listed[p], todo[p], starting[p], running[p])
    BY Zenon, <1>1, <1>2, <1>5, AsItWas DEF Moved, Go
  <2>2. Fits("open", code[p], listed[p], todo[p], starting[p], running[p])
    BY Zenon, <1>1, <1>3, AsItWas DEF Fits, Places
  <2>3. ASSUME At(p, "open", code[p], listed[p], todo[p], starting[p], running[p])
        PROVE  InHand(p)'
    <3>1. /\ pc'[p] = "open" /\ listed'[p] = listed[p] /\ todo'[p] = todo[p]
          /\ starting'[p] = starting[p] /\ running'[p] = running[p] /\ entries' = entries
      BY SMTT(30), <1>2, <2>3 DEF At
    <3>2. /\ starting[p] \in Ids /\ todo[p] # << >>
          /\ \A d \in entries[starting[p]].deps : Done(d)
      BY SMTT(30), <1>1, <1>2 DEF InHand, Begun
    <3>3. \A d \in entries[starting[p]].deps : Done(d)'  BY SMTT(30), <1>3, <3>2, StaysDone
    <3>4. Begun(p)'
      <4>1. Ids' = Ids  BY SMTT(30), <3>1 DEF Ids
      <4> QED  BY SMTT(30), <3>1, <3>2, <3>3, <4>1 DEF Begun
    <3>5. pc[p] \in Working /\ pc'[p] \in Working  BY <1>2, <3>1 DEF Working
    <3> QED  BY Zenon, <1>1, <1>3, <3>1, <3>4, <3>5, GoesOn
  <2> QED  BY SMTT(30), <1>3, <2>1, <2>2, <2>3, OneMoves
<1> QED  BY Zenon, <1>4, <1>5 DEF Reconcile

\* What was starting is watched.
LEMMA OpenJobKeeps == ASSUME Whole, NEW p \in Procs, OpenJob(p) PROVE Whole'
<1>1. TypeOK /\ Truthful /\ Files /\ InHand(p)  BY DEF Whole
<1>2. /\ pc[p] = "open" /\ starting' = [starting EXCEPT ![p] = 0]
      /\ UNCHANGED <<listed, todo, reported, said, signal, entries, troubles>>
  BY Zenon DEF OpenJob, calm
<1>3. CASE LeaveBy(p, "drain", 1) /\ UNCHANGED <<jobs, running>>
  <2>0. Grows /\ RestTyped /\ DOMAIN jobs' = DOMAIN jobs
    BY SMTT(30), <1>1, <1>2, <1>3, UnchangedGrows, RestSame
  <2>1. Moved(p, "drain", 1, listed[p], todo[p], 0, running[p])
    BY Zenon, <1>1, <1>2, <1>3, AsItWas DEF Moved, LeaveBy, Go
  <2>2. Fits("drain", 1, listed[p], todo[p], 0, running[p])
    BY ZenonT(30), <1>1, <2>0, AsItWas DEF Fits, Places
  <2> QED  BY <2>0, <2>1, <2>2, Drains
<1>4. ASSUME jobs' = Append(jobs, [spec |-> starting[p], by |-> p, state |-> "running",
                                   row |-> "running", asked |-> FALSE, session |-> TRUE]),
             running' = [running EXCEPT ![p] = @ \cup {Len(jobs) + 1}],
             Go(p, "fill"), UNCHANGED code
      PROVE  Whole'
  <2> DEFINE new == [spec |-> starting[p], by |-> p, state |-> "running",
                     row |-> "running", asked |-> FALSE, session |-> TRUE]
             n == Len(jobs) + 1
             R == running[p] \cup {n}
  <2>1. /\ starting[p] \in Ids /\ todo[p] # << >>
        /\ \A d \in entries[starting[p]].deps : Done(d)
    BY Zenon, <1>1, <1>2 DEF InHand, Begun
  <2>2. /\ new \in JobType /\ new.by = p /\ new.spec = starting[p]
        /\ new.row # "succeeded"
    BY SMTT(30), <2>1 DEF JobType, States, Rows
  <2> HIDE DEF new
  <2>3. jobs' = Append(jobs, new) /\ jobs \in Seq(JobType)
      BY SMTT(30), <1>1, <1>4 DEF new, TypeOK
  <2>4. /\ jobs' \in Seq(JobType) /\ n \in DOMAIN jobs' /\ jobs'[n] = new
        /\ DOMAIN jobs \subseteq DOMAIN jobs' /\ \A j \in DOMAIN jobs : jobs'[j] = jobs[j]
        /\ \A j \in DOMAIN jobs' : j \in DOMAIN jobs \/ j = n
    BY <2>2, <2>3
  <2>5. Grows
    <3>1. ASSUME NEW j \in DOMAIN jobs', jobs'[j].row = "succeeded"
          PROVE  jobs'[j].state = "succeeded"
      BY ZenonT(30), <1>1, <2>2, <2>4, <3>1 DEF Truthful
    <3>2. ASSUME NEW j \in DOMAIN jobs' \ DOMAIN jobs, NEW d \in entries[jobs'[j].spec].deps
          PROVE  Done(d)
      <4>1. jobs'[j].spec = starting[p]  BY <2>2, <2>4
      <4> QED  BY SMTT(30), <2>1, <4>1
    <3> QED  BY Zenon, <2>4, <3>1, <3>2 DEF Grows
  <2>6. RestTyped  BY SMTT(30), <1>1, <1>2, <2>5, RestSame
  <2>7. Moved(p, "fill", code[p], listed[p], todo[p], 0, R)
    BY Zenon, <1>1, <1>2, <1>4, AsItWas DEF Moved, Go
  <2>8. Fits("fill", code[p], listed[p], todo[p], 0, R)
    <3>1. R \in SUBSET (DOMAIN jobs')  BY SMTT(30), <1>1, <2>4 DEF TypeOK
    <3> HIDE DEF R
    <3> QED  BY ZenonT(30), <1>1, <3>1, AsItWas DEF Fits, Places
  <2> HIDE DEF n
  <2>9. ASSUME At(p, "fill", code[p], listed[p], todo[p], 0, R) PROVE InHand(p)'
    <3>1. /\ pc'[p] = "fill" /\ listed'[p] = listed[p] /\ todo'[p] = todo[p]
          /\ starting'[p] = 0 /\ running'[p] = R /\ entries' = entries
      BY ZenonT(30), <1>2, <2>9 DEF At
    <3>2. /\ running[p] \subseteq DOMAIN jobs /\ running[p] \subseteq running'[p]
          /\ n \in running'[p] /\ \A j \in running'[p] : j \in running[p] \/ j = n
      BY <1>1, <3>1 DEF TypeOK
    <3>3. ASSUME NEW d, Underway(p, d) PROVE Underway(p, d)'
      <4>1. CASE starting[p] = d
        <5>1. jobs'[n].spec = d  BY SMTT(30), <2>2, <2>4, <4>1
        <5> QED  BY Zenon, <3>2, <5>1 DEF Underway
      <4>2. ASSUME NEW j \in running[p], jobs[j].spec = d PROVE Underway(p, d)'
        <5>1. j \in running'[p] /\ jobs'[j].spec = d  BY SMTT(30), <2>4, <3>2, <4>2
        <5> QED  BY ZenonT(30), <5>1 DEF Underway
      <4> QED  BY Zenon, <3>3, <4>1, <4>2 DEF Underway
    <3>4. Ordered(p)'
      <4>1. Ordered(p) /\ pc[p] \in Working  BY <1>1, <1>2 DEF InHand, Working
      <4> QED  BY ZenonT(30), <2>5, <3>1, <3>3, <4>1, StaysDone DEF Ordered
    <3>5. Covered(p)'
      <4>1. Covered(p) /\ pc[p] \in Working  BY SMTT(30), <1>1, <1>2 DEF InHand, Working
      <4> QED  BY ZenonT(30), <2>5, <3>1, <3>3, <4>1, StaysDone DEF Covered
    <3>6. Begun(p)' /\ Left(p)'  BY SMTT(30), <2>1, <3>1 DEF Begun, Left
    <3>7. Owned(p)'
      <4>1. \A j \in running[p] : jobs[j].by = p  BY SMTT(30), <1>1 DEF InHand, Owned
      <4>2. ASSUME NEW j \in running'[p] PROVE jobs'[j].by = p
        <5>1. CASE j = n  BY ZenonT(30), <2>2, <2>4, <5>1
        <5>2. CASE j \in running[p]  BY SMTT(30), <2>4, <3>2, <4>1, <5>2
        <5> QED  BY SMTT(30), <3>2, <5>1, <5>2
      <4> QED  BY <4>2 DEF Owned
    <3> QED  BY SMTT(30), <3>4, <3>5, <3>6, <3>7 DEF InHand
  <2> QED  BY ZenonT(30), <2>5, <2>6, <2>7, <2>8, <2>9, OneMoves
<1> QED  BY Zenon, <1>3, <1>4 DEF OpenJob

LEMMA StopOrPollKeeps == ASSUME Whole, NEW p \in Procs, StopOrPoll(p) PROVE Whole'
<1>1. TypeOK /\ Truthful /\ InHand(p)  BY DEF Whole
<1>2. /\ pc[p] = "fill" /\ StopOnSignal(p)
      /\ UNCHANGED <<listed, todo, starting, running, reported, signal, entries, troubles>>
  BY Zenon DEF StopOrPoll, calm
<1>3. Grows /\ RestTyped /\ DOMAIN jobs' = DOMAIN jobs
  <2>1. Grows /\ said' \in [Procs -> BOOLEAN] /\ DOMAIN jobs' = DOMAIN jobs
    BY SMTT(30), <1>1, <1>2, StopGrows
  <2> QED  BY ZenonT(30), <1>1, <1>2, <2>1 DEF RestTyped, TypeOK
<1>4. CASE LeaveBy(p, "drain", 130)
  <2>1. Moved(p, "drain", 130, listed[p], todo[p], starting[p], running[p])
    BY Zenon, <1>1, <1>2, <1>4, AsItWas DEF Moved, LeaveBy, Go
  <2>2. Fits("drain", 130, listed[p], todo[p], starting[p], running[p])
    BY ZenonT(30), <1>1, <1>3, AsItWas DEF Fits, Places
  <2> QED  BY SMTT(30), <1>3, <2>1, <2>2, Drains
<1>5. ASSUME NEW w \in {"fill", "poll"}, Go(p, w), UNCHANGED code PROVE Whole'
  <2>1. Moved(p, w, code[p], listed[p], todo[p], starting[p], running[p])
    BY Zenon, <1>1, <1>2, <1>5, AsItWas DEF Moved, Go
  <2>2. Fits(w, code[p], listed[p], todo[p], starting[p], running[p])
    <3>1. w \in Places  BY DEF Places
    <3> QED  BY Zenon, <1>1, <1>3, <3>1, AsItWas DEF Fits
  <2>3. ASSUME At(p, w, code[p], listed[p], todo[p], starting[p], running[p])
        PROVE  InHand(p)'
    <3>1. /\ pc'[p] = w /\ listed'[p] = listed[p] /\ todo'[p] = todo[p]
          /\ starting'[p] = starting[p] /\ running'[p] = running[p] /\ entries' = entries
      BY Zenon, <1>2, <2>3 DEF At
    <3>2. starting[p] = 0 /\ todo[p] # << >>  BY SMTT(30), <1>1, <1>2 DEF InHand, Begun
    <3>3. Begun(p)'  BY SMTT(30), <3>1, <3>2 DEF Begun
    <3>4. pc[p] \in Working /\ pc'[p] \in Working  BY <1>2, <3>1 DEF Working
    <3> QED  BY Zenon, <1>1, <1>3, <3>1, <3>3, <3>4, GoesOn
  <2> QED  BY Zenon, <1>3, <2>1, <2>2, <2>3, OneMoves
<1> QED  BY <1>4, <1>5 DEF StopOrPoll

LEMMA ReportTyped ==
    ASSUME TypeOK, Grows, NEW p \in Procs, NEW J, J \subseteq running[p], Report(p, J),
           UNCHANGED <<entries, troubles, signal>>, said' \in [Procs -> BOOLEAN]
    PROVE  RestTyped
<1>1. /\ reported \in [Procs -> SUBSET (DOMAIN jobs)] /\ J \subseteq DOMAIN jobs
      /\ DOMAIN jobs \subseteq DOMAIN jobs'
  BY DEF TypeOK, Grows
<1>2. reported' = [reported EXCEPT ![p] = reported[p] \cup J]  BY SMTT(30) DEF Report
<1>3. reported' \in [Procs -> SUBSET (DOMAIN jobs')]  BY <1>1, <1>2
<1> QED  BY ZenonT(30), <1>3 DEF RestTyped, TypeOK

\* What is no longer watched, and did not end badly, was done.
LEMMA PollKeeps == ASSUME Whole, NEW p \in Procs, Poll(p) PROVE Whole'
<1>1. TypeOK /\ Truthful /\ InHand(p)  BY DEF Whole
<1>2. /\ pc[p] = "poll"
      /\ UNCHANGED <<listed, todo, starting, said, signal, jobs, entries, troubles>>
  BY Zenon DEF Poll, calm
<1>3. Grows /\ DOMAIN jobs' = DOMAIN jobs  BY SMTT(30), <1>1, <1>2, UnchangedGrows
<1>4. ASSUME NEW J, J \subseteq running[p], Report(p, J) PROVE RestTyped
  BY Zenon, <1>1, <1>2, <1>3, <1>4, ReportTyped DEF TypeOK
<1>5. ASSUME NEW J, J \subseteq running[p], NEW w \in Places, NEW c \in {0, 1, 2, 3, 130}
      PROVE  Fits(w, c, listed[p], todo[p], starting[p], running[p] \ J)
  <2>1. running[p] \ J \in SUBSET (DOMAIN jobs')  BY SMTT(30), <1>1, <1>3 DEF TypeOK
  <2> QED  BY ZenonT(30), <1>1, <2>1, AsItWas DEF Fits
<1>6. CASE Bad(p) = {} /\ Report(p, Ended(p)) /\ Go(p, "fill") /\ UNCHANGED code
  <2> DEFINE R == running[p] \ Ended(p)
  <2>1. Moved(p, "fill", code[p], listed[p], todo[p], starting[p], R)
    BY Zenon, <1>1, <1>2, <1>6, AsItWas DEF Moved, Go, Report
  <2>2. Ended(p) \subseteq running[p]  BY SMTT(30) DEF Ended
  <2>3. Fits("fill", code[p], listed[p], todo[p], starting[p], R) /\ RestTyped
    <3>1. "fill" \in Places /\ code[p] \in {0, 1, 2, 3, 130}  BY <1>1, AsItWas DEF Places
    <3>2. RestTyped  BY ZenonT(30), <1>4, <1>6, <2>2
    <3>3. Fits("fill", code[p], listed[p], todo[p], starting[p], R)
      BY ZenonT(30), <1>5, <2>2, <3>1
    <3> QED  BY SMTT(30), <3>2, <3>3
  <2>4. \A j \in Ended(p) : jobs[j].state = "succeeded"  BY SMTT(30), <1>6 DEF Bad
  <2>5. ASSUME At(p, "fill", code[p], listed[p], todo[p], starting[p], R) PROVE InHand(p)'
    <3>1. /\ pc'[p] = "fill" /\ listed'[p] = listed[p] /\ todo'[p] = todo[p]
          /\ starting'[p] = starting[p] /\ running'[p] = R /\ entries' = entries
          /\ jobs' = jobs
      BY SMTT(30), <1>2, <2>5 DEF At
    <3>2. running[p] \subseteq DOMAIN jobs /\ \A j \in running[p] : jobs[j].by = p
      BY <1>1 DEF TypeOK, InHand, Owned
    <3>3. ASSUME NEW d, Underway(p, d)
          PROVE  Underway(p, d)' \/ (Done(d)' /\ DoneBy(p, d)')
      <4>1. CASE starting[p] = d  BY ZenonT(30), <3>1, <4>1 DEF Underway
      <4>2. ASSUME NEW j \in running[p], jobs[j].spec = d
            PROVE  Underway(p, d)' \/ (Done(d)' /\ DoneBy(p, d)')
        <5>1. CASE j \in Ended(p)
          <6>1. j \in DOMAIN jobs' /\ jobs'[j].by = p /\ jobs'[j].spec = d
                /\ jobs'[j].state = "succeeded"
            BY Zenon, <2>4, <3>1, <3>2, <4>2, <5>1
          <6> QED  BY ZenonT(30), <6>1 DEF Done, DoneBy
        <5>2. CASE j \notin Ended(p)
          <6>1. j \in running'[p] /\ jobs'[j].spec = d  BY Zenon, <3>1, <4>2, <5>2
          <6> QED  BY ZenonT(30), <6>1 DEF Underway
        <5> QED  BY <5>1, <5>2
      <4> QED  BY Zenon, <3>3, <4>1, <4>2 DEF Underway
    <3>4. Ordered(p)'
      <4>1. Ordered(p) /\ pc[p] \in Working  BY <1>1, <1>2 DEF InHand, Working
      <4> QED  BY Zenon, <1>3, <3>1, <3>3, <4>1, StaysDone DEF Ordered
    <3>5. Covered(p)'
      <4>1. Covered(p) /\ pc[p] \in Working  BY SMTT(30), <1>1, <1>2 DEF InHand, Working
      <4> QED  BY Zenon, <1>3, <3>1, <3>3, <4>1, StaysDone DEF Covered
    <3>6. Begun(p)' /\ Left(p)'
      <4>1. starting[p] = 0 /\ todo[p] # << >>  BY <1>1, <1>2 DEF InHand, Begun
      <4> QED  BY SMTT(30), <3>1, <4>1 DEF Begun, Left
    <3>7. Owned(p)'  BY SMTT(30), <3>1, <3>2 DEF Owned
    <3> QED  BY <3>4, <3>5, <3>6, <3>7 DEF InHand
  <2> QED  BY SMTT(30), <1>3, <2>1, <2>3, <2>5, OneMoves
<1>7. CASE Report(p, {j \in Ended(p) : j <= Min(Bad(p))}) /\ LeaveBy(p, "drain", 1)
  <2> DEFINE J == {j \in Ended(p) : j <= Min(Bad(p))}
  <2>1. J \subseteq running[p] /\ Report(p, J)  BY <1>7 DEF Ended
  <2> HIDE DEF J
  <2>2. Moved(p, "drain", 1, listed[p], todo[p], starting[p], running[p] \ J)
    BY Zenon, <1>1, <1>2, <1>7, <2>1, AsItWas DEF Moved, Go, Report, LeaveBy
  <2>3. Fits("drain", 1, listed[p], todo[p], starting[p], running[p] \ J) /\ RestTyped
    <3>1. "drain" \in Places /\ 1 \in {0, 1, 2, 3, 130}  BY DEF Places
    <3> QED  BY Zenon, <1>4, <1>5, <2>1, <3>1
  <2>4. running[p] \ J \subseteq running[p] /\ 1 # 0  BY SMTT(30)
  <2> QED  BY SMTT(30), <1>3, <2>2, <2>3, <2>4, Drains
<1> QED  BY Zenon, <1>6, <1>7 DEF Poll

LEMMA DrainKeeps == ASSUME Whole, NEW p \in Procs, Drain(p) PROVE Whole'
<1>1. TypeOK /\ Truthful /\ InHand(p)  BY DEF Whole
<1>2. /\ pc[p] = "drain" /\ code[p] # 0 /\ StopOnSignal(p) /\ Report(p, Ended(p))
      /\ UNCHANGED <<pc, code, listed, todo, starting, signal, entries, troubles>>
  BY Zenon, <1>1 DEF Drain, calm, InHand, Left
<1>3. Grows /\ said' \in [Procs -> BOOLEAN] /\ DOMAIN jobs' = DOMAIN jobs
  BY <1>1, <1>2, StopGrows
<1>4. Ended(p) \subseteq running[p]  BY DEF Ended
<1>5. RestTyped  BY Zenon, <1>1, <1>2, <1>3, <1>4, ReportTyped
<1>6. Moved(p, "drain", code[p], listed[p], todo[p], starting[p], running[p] \ Ended(p))
  BY ZenonT(30), <1>1, <1>2, AsItWas DEF Moved, Report
<1>7. Fits("drain", code[p], listed[p], todo[p], starting[p], running[p] \ Ended(p))
  <2>1. running[p] \ Ended(p) \in SUBSET (DOMAIN jobs')  BY <1>1, <1>3 DEF TypeOK
  <2> QED  BY ZenonT(30), <1>1, <2>1, AsItWas DEF Fits, Places
<1>8. running[p] \ Ended(p) \subseteq running[p]  BY SMTT(30)
<1> QED  BY SMTT(30), <1>2, <1>3, <1>5, <1>6, <1>7, <1>8, Drains

\* A run that has left its loop goes where nothing is in hand.
LEMMA Outside ==
    ASSUME Whole, Grows, RestTyped, NEW p \in Procs,
           NEW w \in {"join", "exited", "killed"}, NEW c \in {0, 1, 2, 3, 130},
           UNCHANGED <<listed, todo, starting, running>>,
           pc' = [pc EXCEPT ![p] = w], code' = [code EXCEPT ![p] = c],
           w = "killed" \/ c # 0 \/ \A s \in listed[p] : DoneBy(p, s)
    PROVE  Whole'
<1>1. TypeOK /\ InHand(p)  BY DEF Whole
<1>2. Moved(p, w, c, listed[p], todo[p], starting[p], running[p])
  BY Zenon, <1>1, AsItWas DEF Moved
<1>3. Fits(w, c, listed[p], todo[p], starting[p], running[p])
  <2>1. w \in Places  BY DEF Places, Gone
  <2>2. running[p] \in SUBSET (DOMAIN jobs')  BY SMTT(30), <1>1 DEF TypeOK, Grows
  <2> QED  BY Zenon, <1>1, <2>1, <2>2, AsItWas DEF Fits
<1>4. ASSUME At(p, w, c, listed[p], todo[p], starting[p], running[p]) PROVE InHand(p)'
  <2>1. pc'[p] = w /\ code'[p] = c /\ running'[p] = running[p] /\ listed'[p] = listed[p]
    BY SMTT(30), <1>4 DEF At
  <2>2. Left(p)'
    <3>1. (\A s \in listed[p] : DoneBy(p, s)) => \A s \in listed[p] : DoneBy(p, s)'
      BY Zenon, StaysDone
    <3> QED  BY <2>1, <3>1 DEF Left
  <2>3. pc'[p] \in {"drain", "join", "exited", "killed"} /\ running'[p] \subseteq running[p]
    BY <2>1
  <2> QED  BY SMTT(30), <1>1, <2>2, <2>3, Leaves
<1> QED  BY <1>2, <1>3, <1>4, OneMoves

LEMMA TroubleTyped == ASSUME TypeOK, Trouble PROVE entries' = entries /\ troubles' \in Nat
BY DEF TypeOK, Trouble

LEMMA LeavingKeeps ==
    ASSUME Whole, NEW p \in Procs, Drained(p) \/ Throws(p) \/ Join(p) PROVE Whole'
<1>1. TypeOK /\ Truthful /\ InHand(p)  BY DEF Whole
<1>2. UNCHANGED <<listed, todo, starting, running, reported, said, signal, jobs>>
  BY Zenon DEF Drained, Throws, Join, own
<1>3. Grows  BY <1>1, <1>2, UnchangedGrows
<1>4. CASE Drained(p)
  <2>1. /\ UNCHANGED <<code, entries, troubles>> /\ pc' = [pc EXCEPT ![p] = "join"]
        /\ code[p] # 0
    BY Zenon, <1>1, <1>4 DEF Drained, own, calm, Go, InHand, Left
  <2>2. RestTyped  BY <1>1, <1>2, <1>3, <2>1, RestSame
  <2>3. code' = [code EXCEPT ![p] = code[p]] /\ code[p] \in {0, 1, 2, 3, 130}
    BY Zenon, <1>1, <2>1, AsItWas
  <2>4. "join" \in {"join", "exited", "killed"}  BY SMTT(30)
  <2> QED  BY ZenonT(30), <1>2, <1>3, <2>1, <2>2, <2>3, <2>4, Outside
<1>5. CASE Throws(p)
  <2>1. entries' = entries /\ troubles' \in Nat  BY <1>1, <1>5, TroubleTyped DEF Throws
  <2>2. pc' = [pc EXCEPT ![p] = "join"] /\ code' = [code EXCEPT ![p] = 3]
    BY Zenon, <1>5 DEF Throws, LeaveBy, Go
  <2>3. RestTyped  BY <1>1, <1>2, <2>1 DEF RestTyped, TypeOK
  <2>4. "join" \in {"join", "exited", "killed"} /\ 3 \in {0, 1, 2, 3, 130} /\ 3 # 0  OBVIOUS
  <2> QED  BY Zenon, <1>2, <1>3, <2>2, <2>3, <2>4, Outside
<1>6. CASE Join(p)
  <2>1. /\ UNCHANGED <<code, entries, troubles>> /\ pc' = [pc EXCEPT ![p] = "exited"]
        /\ code[p] # 0 \/ \A s \in listed[p] : DoneBy(p, s)
    BY Zenon, <1>1, <1>6 DEF Join, own, calm, Go, InHand, Left
  <2>2. RestTyped  BY SMTT(30), <1>1, <1>2, <1>3, <2>1, RestSame
  <2>3. code' = [code EXCEPT ![p] = code[p]] /\ code[p] \in {0, 1, 2, 3, 130}
    BY Zenon, <1>1, <2>1, AsItWas
  <2>4. "exited" \in {"join", "exited", "killed"}  OBVIOUS
  <2>5. "exited" = "killed" \/ code[p] # 0 \/ \A s \in listed[p] : DoneBy(p, s)  BY Zenon, <2>1
  <2>6. ASSUME NEW c \in {0, 1, 2, 3, 130}, c = code[p] PROVE Whole'
    <3>1. code' = [code EXCEPT ![p] = c]  BY <2>3, <2>6
    <3>2. "exited" = "killed" \/ c # 0 \/ \A s \in listed[p] : DoneBy(p, s)  BY <2>5, <2>6
    <3>3. pc' = [pc EXCEPT ![p] = "exited"]  BY <2>1
    <3> QED  BY ZenonT(30), <1>2, <1>3, <2>2, <2>4, <3>1, <3>2, <3>3, Outside
  <2> QED  BY Zenon, <2>3, <2>6
<1> QED  BY <1>4, <1>5, <1>6

LEMMA KillKeeps == ASSUME Whole, NEW p \in Procs, Kill(p) PROVE Whole'
<1>1. TypeOK /\ Truthful /\ InHand(p)  BY DEF Whole
<1>2. /\ UNCHANGED <<code, listed, todo, starting, running, reported, said, signal>>
      /\ pc' = [pc EXCEPT ![p] = "killed"] /\ Trouble
  BY Zenon DEF Kill, own, Go
<1>3. Grows /\ DOMAIN jobs' = DOMAIN jobs
  <2>1. DOMAIN jobs' = DOMAIN jobs  BY Zenon DEF Kill
  <2> QED  BY <1>1, <2>1, KillGrows
<1>4. RestTyped
  <2>1. entries' = entries /\ troubles' \in Nat  BY <1>1, <1>2, TroubleTyped
  <2> QED  BY SMTT(30), <1>1, <1>2, <1>3, <2>1 DEF RestTyped, TypeOK
<1>5. code' = [code EXCEPT ![p] = code[p]] /\ code[p] \in {0, 1, 2, 3, 130}
  BY Zenon, <1>1, <1>2, AsItWas
<1>6. "killed" \in {"join", "exited", "killed"}  OBVIOUS
<1> QED  BY ZenonT(30), <1>2, <1>3, <1>4, <1>5, <1>6, Outside

\* A step that moves no run.
LEMMA NoneMoves ==
    ASSUME Whole, Grows, RestTyped, UNCHANGED <<pc, code, listed, todo, starting, running>>
    PROVE  Whole'
<1>1. TypeOK /\ entries' = entries  BY DEF Whole, RestTyped
<1>2. ASSUME NEW q \in Procs PROVE InHand(q)'
  <2>1. InHand(q) /\ SameAt(q)  BY DEF Whole, SameAt
  <2> QED  BY SMTT(30), <1>1, <2>1, StaysInHand
<1>3. TypeOK'
  <2>1. Ids' = Ids /\ JobType' = JobType  BY <1>1 DEF Ids, JobType
  <2>2. running' \in [Procs -> SUBSET (DOMAIN jobs')]
    <3>1. running \in [Procs -> SUBSET (DOMAIN jobs)] /\ DOMAIN jobs \subseteq DOMAIN jobs'
      BY SMTT(30), <1>1 DEF TypeOK, Grows
    <3> QED  BY SMTT(30), <3>1
  <2>3. jobs' \in Seq(JobType)  BY DEF Grows
  <2> QED  BY Zenon, <1>1, <2>1, <2>2, <2>3 DEF TypeOK, RestTyped
<1>4. Files' /\ DependencyOrder'  BY SMTT(30), <1>1, KeepsFiles, KeepsOrder DEF Whole
<1>5. Truthful'  BY DEF Truthful, Grows
<1> QED  BY Zenon, <1>2, <1>3, <1>4, <1>5 DEF Whole

LEMMA SignalKeeps == ASSUME Whole, NEW p \in Procs, Signal(p) PROVE Whole'
<1>1. TypeOK /\ Truthful  BY DEF Whole
<1>2. /\ UNCHANGED <<pc, code, listed, todo, starting, running, reported, said, jobs>>
      /\ Trouble /\ signal' = [signal EXCEPT ![p] = TRUE]
  BY Zenon DEF Signal, own
<1>3. Grows  BY <1>1, <1>2, UnchangedGrows
<1>4. RestTyped
  <2>1. entries' = entries /\ troubles' \in Nat  BY <1>1, <1>2, TroubleTyped
  <2>2. signal' \in [Procs -> BOOLEAN]  BY Zenon, <1>1, <1>2 DEF TypeOK
  <2>3. reported' \in [Procs -> SUBSET (DOMAIN jobs')] /\ said' \in [Procs -> BOOLEAN]
    BY SMTT(30), <1>1, <1>2 DEF TypeOK
  <2> QED  BY Zenon, <2>1, <2>2, <2>3 DEF RestTyped
<1> QED  BY SMTT(30), <1>2, <1>3, <1>4, NoneMoves

LEMMA JobStepsKeep ==
    ASSUME Whole, NEW j \in DOMAIN jobs, JobEnds(j) \/ LoseSession(j) PROVE Whole'
<1>1. TypeOK /\ Truthful  BY DEF Whole
<1>2. UNCHANGED <<pc, code, listed, todo, starting, running, reported, said, signal>>
  BY Zenon DEF JobEnds, LoseSession, own
<1>3. Grows  BY <1>1, JobStepsGrow
<1>4. entries' = entries /\ troubles' \in Nat
  <2>1. CASE JobEnds(j)
    <3>1. UNCHANGED <<entries, troubles>>  BY Zenon, <2>1 DEF JobEnds, calm
    <3> QED  BY <1>1, <3>1 DEF TypeOK
  <2>2. CASE LoseSession(j)
    <3>1. Trouble  BY Zenon, <2>2 DEF LoseSession
    <3> QED  BY SMTT(30), <1>1, <3>1, TroubleTyped
  <2> QED  BY SMTT(30), <2>1, <2>2
<1>5. RestTyped
  <2>1. reported' \in [Procs -> SUBSET (DOMAIN jobs')]
    <3>1. reported \in [Procs -> SUBSET (DOMAIN jobs)] /\ DOMAIN jobs \subseteq DOMAIN jobs'
      BY Zenon, <1>1, <1>3 DEF TypeOK, Grows
    <3> QED  BY Zenon, <1>2, <3>1
  <2> QED  BY ZenonT(30), <1>1, <1>2, <1>4, <2>1 DEF RestTyped, TypeOK
<1> QED  BY SMTT(30), <1>2, <1>3, <1>5, NoneMoves

-----------------------------------------------------------------------------
(* What a run watches *)

\* The shape of a job, its specification left open.
JobOf(S) == [spec : S, by : Procs, state : States, row : Rows,
             asked : BOOLEAN, session : BOOLEAN]

Shape ==
    /\ \E S : jobs \in Seq(JobOf(S))
    /\ pc \in [Procs -> {"new", "next", "fill", "start", "open", "poll", "drain", "join"}
                        \cup Gone]
    /\ code \in [Procs -> Int]
    /\ running \in [Procs -> SUBSET (DOMAIN jobs)]
    /\ reported \in [Procs -> SUBSET (DOMAIN jobs)]

\* A job of a run is watched or was reported; what was reported has ended; and
\* where a run may leave, or asks for a slot, it watches few enough.
Watching(p) ==
    /\ \A j \in DOMAIN jobs : jobs[j].by = p => j \in running[p] \cup reported[p]
    /\ \A j \in reported[p] : jobs[j].state # "running"
    /\ pc[p] \in {"new", "next"} => running[p] = {}
    /\ pc[p] \in {"join", "exited"} /\ code[p] # 3 => running[p] = {}
    /\ pc[p] = "start" => Cardinality(running[p]) < Limits[Default]

IInv == Shape /\ \A p \in Procs : Watching(p)

\* What a step that starts nothing may do to the jobs.
Ages ==
    /\ DOMAIN jobs' = DOMAIN jobs
    /\ \E S : jobs' \in Seq(JobOf(S))
    /\ \A j \in DOMAIN jobs : /\ jobs'[j].by = jobs[j].by
                              /\ jobs[j].state # "running" => jobs'[j].state = jobs[j].state

\* A step that changes jobs one by one, keeping their owner and their ends.
LEMMA ChangeAges ==
    ASSUME NEW S, jobs \in Seq(JobOf(S)), jobs' \in [DOMAIN jobs -> JobOf(S)],
           \A j \in DOMAIN jobs :
              /\ jobs'[j].by = jobs[j].by
              /\ jobs[j].state # "running" => jobs'[j].state = jobs[j].state
    PROVE  Ages
<1>1. DOMAIN jobs = 1..Len(jobs) /\ Len(jobs) \in Nat  OBVIOUS
<1>2. jobs' \in Seq(JobOf(S))  BY <1>1
<1> QED  BY <1>2 DEF Ages

LEMMA UnchangedAges == ASSUME Shape, UNCHANGED jobs PROVE Ages
BY DEF Shape, Ages

\* A run that a step leaves alone.
LEMMA Bystander ==
    ASSUME Shape, Ages, NEW q \in Procs, Watching(q),
           pc'[q] = pc[q], code'[q] = code[q],
           running'[q] = running[q], reported'[q] = reported[q]
    PROVE  Watching(q)'
<1>1. reported[q] \subseteq DOMAIN jobs  BY DEF Shape
<1> QED  BY <1>1 DEF Watching, Ages

\* A step of one run that starts no job.
LEMMA OneRun ==
    ASSUME IInv, Ages, NEW p \in Procs,
           NEW where \in {"new", "next", "fill", "start", "open", "poll", "drain", "join"}
                         \cup Gone,
           NEW c \in Int, NEW R, NEW D,
           R \subseteq DOMAIN jobs, D \subseteq DOMAIN jobs,
           pc' = [pc EXCEPT ![p] = where], code' = [code EXCEPT ![p] = c],
           running' = [running EXCEPT ![p] = R], reported' = [reported EXCEPT ![p] = D],
           running[p] \cup reported[p] \subseteq R \cup D,
           \A j \in D \ reported[p] : jobs[j].state # "running",
           where \in {"new", "next"} => R = {},
           where \in {"join", "exited"} /\ c # 3 => R = {},
           where = "start" => Cardinality(R) < Limits[Default]
    PROVE  IInv'
<1>1. Shape'
  BY DEF Shape, IInv, Ages
<1>2. Watching(p)'
  <2>1. pc'[p] = where /\ code'[p] = c /\ running'[p] = R /\ reported'[p] = D
    BY DEF IInv, Shape
  <2>2. \A j \in D : jobs[j].state # "running"  BY DEF IInv, Watching
  <2>3. \A j \in DOMAIN jobs : jobs[j].by = p => j \in R \cup D  BY Zenon DEF IInv, Watching
  <2> QED  BY <2>1, <2>2, <2>3 DEF Watching, Ages
<1>3. ASSUME NEW q \in Procs, q # p PROVE Watching(q)'
  BY <1>3, Bystander DEF IInv, Shape
<1> QED  BY <1>1, <1>2, <1>3 DEF IInv

LEMMA InitIInv == Init => IInv
<1> SUFFICES ASSUME Init PROVE IInv  OBVIOUS
<1>1. jobs = << >> /\ DOMAIN jobs = {} /\ jobs \in Seq(JobOf({}))  BY DEF Init
<1>2. PICK set \in Settings :
          pc = [p \in Procs |-> IF p \in set.runs THEN "new" ELSE "absent"]
  BY DEF Init
<1>3. Shape  BY <1>1, <1>2 DEF Init, Shape, Gone
<1>4. ASSUME NEW p \in Procs PROVE Watching(p)
  BY <1>1, <1>2 DEF Init, Watching
<1> QED  BY <1>3, <1>4 DEF IInv

-----------------------------------------------------------------------------
(* The steps of a run *)

\* Steps that touch neither the jobs nor what is watched.
LEMMA Moves ==
    ASSUME IInv, NEW p \in Procs, UNCHANGED <<jobs, running, reported>>,
           NEW where \in {"new", "next", "fill", "start", "open", "poll", "drain", "join"}
                         \cup Gone,
           NEW c \in Int, Go(p, where), code' = [code EXCEPT ![p] = c],
           where \in {"new", "next"} => running[p] = {},
           where \in {"join", "exited"} /\ c # 3 => running[p] = {},
           where = "start" => Cardinality(running[p]) < Limits[Default]
    PROVE  IInv'
<1>1. Ages  BY UnchangedAges DEF IInv
<1>2. /\ running[p] \subseteq DOMAIN jobs /\ reported[p] \subseteq DOMAIN jobs
      /\ running' = [running EXCEPT ![p] = running[p]]
      /\ reported' = [reported EXCEPT ![p] = reported[p]]
  BY DEF IInv, Shape
<1> QED  BY Zenon, <1>1, <1>2, OneRun DEF Go

LEMMA SameCode == ASSUME Shape, NEW p \in Procs, UNCHANGED code
                  PROVE  code[p] \in Int /\ code' = [code EXCEPT ![p] = code[p]]
BY DEF Shape

LEMMA ListStep == ASSUME IInv, NEW p \in Procs, List(p) PROVE IInv'
<1>1. UNCHANGED <<jobs, running, reported>> /\ pc[p] = "new" /\ running[p] = {}
  BY DEF List, IInv, Watching
<1>2. CASE LeaveBy(p, "join", 2)
  <2>1. ASSUME NEW c \in Int, LeaveBy(p, "join", c) PROVE IInv'
    BY Zenon, <1>1, <2>1, Moves DEF LeaveBy
  <2>2. 2 \in Int  OBVIOUS
  <2> QED  BY <1>2, <2>1, <2>2, Zenon
<1>3. CASE Go(p, "next") /\ UNCHANGED code
  <2>1. code[p] \in Int /\ code' = [code EXCEPT ![p] = code[p]]
    BY <1>3, SameCode DEF IInv
  <2> QED  BY Zenon, <1>1, <1>3, <2>1, Moves
<1> QED  BY Zenon, <1>2, <1>3 DEF List

LEMMA NextGroupStep == ASSUME IInv, NEW p \in Procs, NextGroup(p) PROVE IInv'
<1>1. UNCHANGED <<jobs, running, reported>> /\ pc[p] = "next" /\ running[p] = {}
  BY DEF NextGroup, IInv, Watching
<1>2. CASE LeaveBy(p, "join", 0)
  <2>1. ASSUME NEW c \in Int, LeaveBy(p, "join", c) PROVE IInv'
    BY Zenon, <1>1, <2>1, Moves DEF LeaveBy
  <2>2. 0 \in Int  OBVIOUS
  <2> QED  BY <1>2, <2>1, <2>2, Zenon
<1>3. CASE Go(p, "fill") /\ UNCHANGED code
  <2>1. code[p] \in Int /\ code' = [code EXCEPT ![p] = code[p]]
    BY <1>3, SameCode DEF IInv
  <2> QED  BY Zenon, <1>1, <1>3, <2>1, Moves
<1> QED  BY <1>2, <1>3 DEF NextGroup

LEMMA GroupReturnsStep == ASSUME IInv, NEW p \in Procs, GroupReturns(p) PROVE IInv'
<1>1. /\ UNCHANGED <<jobs, running, reported>> /\ running[p] = {}
      /\ Go(p, "next") /\ UNCHANGED code
  BY DEF GroupReturns, GroupDone
<1>2. code[p] \in Int /\ code' = [code EXCEPT ![p] = code[p]]
  BY <1>1, SameCode DEF IInv
<1> QED  BY Zenon, <1>1, <1>2, Moves

LEMMA TakeStep == ASSUME IInv, NEW p \in Procs, Take(p) PROVE IInv'
<1>1. UNCHANGED <<jobs, running, reported>> /\ Cardinality(running[p]) < Limits[Default]
  BY DEF Take, MayTake, HasSlot
<1>2. ASSUME NEW c \in {1, 2}, LeaveBy(p, "drain", c) PROVE IInv'
  <2>1. c \in Int /\ Go(p, "drain") /\ code' = [code EXCEPT ![p] = c]
    BY <1>2 DEF LeaveBy
  <2> QED  BY Zenon, <1>1, <2>1, Moves
<1>3. CASE Go(p, "start") /\ UNCHANGED code
  <2>1. code[p] \in Int /\ code' = [code EXCEPT ![p] = code[p]]
    BY <1>3, SameCode DEF IInv
  <2> QED  BY Zenon, <1>1, <1>3, <2>1, Moves
<1> QED  BY <1>2, <1>3 DEF Take

\* A step of one run that ages the jobs and leaves what it watches alone.
LEMMA AgingMoves ==
    ASSUME IInv, Ages, NEW p \in Procs, UNCHANGED <<running, reported>>,
           NEW where \in {"fill", "open", "poll", "drain", "killed"},
           NEW c \in Int, Go(p, where), code' = [code EXCEPT ![p] = c]
    PROVE  IInv'
<1>1. /\ running[p] \subseteq DOMAIN jobs /\ reported[p] \subseteq DOMAIN jobs
      /\ running' = [running EXCEPT ![p] = running[p]]
      /\ reported' = [reported EXCEPT ![p] = reported[p]]
  BY DEF IInv, Shape
<1>2. where \in {"new", "next", "fill", "start", "open", "poll", "drain", "join"} \cup Gone
  BY DEF Gone
<1> QED  BY Zenon, <1>1, <1>2, OneRun DEF Go

LEMMA ReconcileStep == ASSUME IInv, NEW p \in Procs, Reconcile(p) PROVE IInv'
<1>1. PICK S : jobs \in Seq(JobOf(S))  BY DEF IInv, Shape
<1>2. PICK fails \in BOOLEAN :
          jobs' = [j \in DOMAIN jobs |->
                     IF IsDead(j) /\ ~fails THEN [jobs[j] EXCEPT !.row = "interrupted"]
                     ELSE jobs[j]]
  BY DEF Reconcile
<1>3. \A j \in DOMAIN jobs : jobs[j] \in JobOf(S)  BY <1>1
<1>4. \A j \in DOMAIN jobs :
         /\ [jobs[j] EXCEPT !.row = "interrupted"] \in JobOf(S)
         /\ [jobs[j] EXCEPT !.row = "interrupted"].by = jobs[j].by
         /\ [jobs[j] EXCEPT !.row = "interrupted"].state = jobs[j].state
  BY <1>3 DEF JobOf, Rows
<1>5. Ages  BY ZenonT(30), <1>1, <1>2, <1>3, <1>4, ChangeAges
<1>6. UNCHANGED <<running, reported>>  BY DEF Reconcile
<1>7. CASE LeaveBy(p, "drain", 1)
  <2>1. ASSUME NEW c \in Int, LeaveBy(p, "drain", c) PROVE IInv'
    BY Zenon, <1>5, <1>6, <2>1, AgingMoves DEF LeaveBy
  <2>2. 1 \in Int  OBVIOUS
  <2> QED  BY <1>7, <2>1, <2>2, Zenon
<1>8. CASE Go(p, "open") /\ UNCHANGED code
  <2>1. code[p] \in Int /\ code' = [code EXCEPT ![p] = code[p]]
    BY <1>8, SameCode DEF IInv
  <2> QED  BY Zenon, <1>5, <1>6, <1>8, <2>1, AgingMoves
<1> QED  BY <1>7, <1>8 DEF Reconcile

\* stop_on_signal asks jobs to stop, and changes nothing else about them.
LEMMA StopAges == ASSUME Shape, NEW p \in Procs, StopOnSignal(p) PROVE Ages
<1>1. PICK S : jobs \in Seq(JobOf(S))  BY DEF Shape
<1>2. \A j \in DOMAIN jobs : jobs[j] \in JobOf(S)  BY <1>1
<1>3. \A j \in DOMAIN jobs :
         /\ [jobs[j] EXCEPT !.asked = TRUE] \in JobOf(S)
         /\ [jobs[j] EXCEPT !.asked = TRUE].by = jobs[j].by
         /\ [jobs[j] EXCEPT !.asked = TRUE].state = jobs[j].state
  BY Zenon, <1>2 DEF JobOf
<1>4. CASE jobs' = Asked(p)
  BY ZenonT(30), <1>1, <1>2, <1>3, <1>4, ChangeAges DEF Asked
<1>5. CASE UNCHANGED jobs
  BY <1>5, UnchangedAges
<1> QED  BY <1>4, <1>5 DEF StopOnSignal

LEMMA StopOrPollStep == ASSUME IInv, NEW p \in Procs, StopOrPoll(p) PROVE IInv'
<1>1. Ages /\ UNCHANGED <<running, reported>>
  BY StopAges DEF StopOrPoll, IInv
<1>2. CASE LeaveBy(p, "drain", 130)
  <2>1. ASSUME NEW c \in Int, LeaveBy(p, "drain", c) PROVE IInv'
    BY Zenon, <1>1, <2>1, AgingMoves DEF LeaveBy
  <2>2. 130 \in Int  OBVIOUS
  <2> QED  BY <1>2, <2>1, <2>2, Zenon
<1>3. ASSUME NEW w \in {"fill", "poll"}, Go(p, w), UNCHANGED code PROVE IInv'
  <2>1. code[p] \in Int /\ code' = [code EXCEPT ![p] = code[p]]
    BY <1>3, SameCode DEF IInv
  <2> QED  BY Zenon, <1>1, <1>3, <2>1, AgingMoves
<1> QED  BY <1>2, <1>3 DEF StopOrPoll

\* The one step that starts a job: it is watched from the start.
LEMMA OpenJobStep == ASSUME IInv, NEW p \in Procs, OpenJob(p) PROVE IInv'
<1>1. CASE LeaveBy(p, "drain", 1) /\ UNCHANGED <<jobs, running, reported>>
  <2>1. ASSUME NEW c \in Int, LeaveBy(p, "drain", c) PROVE IInv'
    BY Zenon, <1>1, <2>1, Moves DEF LeaveBy
  <2>2. 1 \in Int  OBVIOUS
  <2> QED  BY <1>1, <2>1, <2>2, Zenon
<1>2. ASSUME jobs' = Append(jobs, [spec |-> starting[p], by |-> p, state |-> "running",
                                   row |-> "running", asked |-> FALSE, session |-> TRUE]),
             running' = [running EXCEPT ![p] = @ \cup {Len(jobs) + 1}],
             Go(p, "fill"), UNCHANGED <<code, reported>>
      PROVE  IInv'
  <2> DEFINE new == [spec |-> starting[p], by |-> p, state |-> "running",
                     row |-> "running", asked |-> FALSE, session |-> TRUE]
  <2>1. PICK S : jobs \in Seq(JobOf(S))  BY DEF IInv, Shape
  <2>2. new \in JobOf(S \cup {starting[p]}) /\ new.by = p  BY DEF JobOf, States, Rows
  <2>3. JobOf(S) \subseteq JobOf(S \cup {starting[p]})  BY DEF JobOf
  <2>4. jobs \in Seq(JobOf(S \cup {starting[p]}))  BY ZenonT(30), <2>1, <2>3, SeqMonotone
  <2> HIDE DEF new
  <2>5. jobs' = Append(jobs, new)  BY <1>2 DEF new
  <2>6. /\ jobs' \in Seq(JobOf(S \cup {starting[p]}))
        /\ DOMAIN jobs = 1..Len(jobs) /\ DOMAIN jobs' = 1..(Len(jobs) + 1)
        /\ Len(jobs) \in Nat
        /\ jobs'[Len(jobs) + 1] = new
        /\ \A j \in DOMAIN jobs : jobs'[j] = jobs[j]
    BY <2>2, <2>4, <2>5
  <2>7. /\ pc' = [pc EXCEPT ![p] = "fill"]
        /\ DOMAIN jobs \subseteq DOMAIN jobs' /\ Len(jobs) + 1 \in DOMAIN jobs'
        /\ DOMAIN jobs' = DOMAIN jobs \cup {Len(jobs) + 1}
    BY SMTT(30), <1>2, <2>6 DEF Go
  <2>8. Shape'
    <3>1. running' \in [Procs -> SUBSET (DOMAIN jobs')]  BY <1>2, <2>7 DEF IInv, Shape
    <3>2. reported' \in [Procs -> SUBSET (DOMAIN jobs')]
        BY Zenon, <1>2, <2>7 DEF IInv, Shape
    <3> QED  BY SMTT(30), <1>2, <2>6, <2>7, <3>1, <3>2 DEF IInv, Shape
  <2>9. ASSUME NEW q \in Procs PROVE Watching(q)'
    <3>1. /\ running[q] \subseteq running'[q] /\ reported'[q] = reported[q]
          /\ reported[q] \subseteq DOMAIN jobs /\ code'[q] = code[q]
          /\ q # p => running'[q] = running[q] /\ pc'[q] = pc[q]
          /\ q = p => Len(jobs) + 1 \in running'[q] /\ pc'[q] = "fill"
      BY Zenon, <1>2, <2>7 DEF IInv, Shape
    <3>2. \A j \in DOMAIN jobs' : jobs'[j].by = q => j \in running'[q] \cup reported'[q]
      BY Zenon, <2>2, <2>6, <2>7, <3>1 DEF IInv, Watching
    <3>3. \A j \in reported'[q] : jobs'[j].state # "running"
      BY <2>6, <3>1 DEF IInv, Watching
    <3> QED  BY Zenon, <3>1, <3>2, <3>3 DEF IInv, Watching
  <2> QED  BY <2>8, <2>9 DEF IInv
<1> QED  BY <1>1, <1>2 DEF OpenJob

\* Jobs that have ended go from what is watched to what was reported.
LEMMA ReportStep ==
    ASSUME IInv, Ages, NEW p \in Procs, NEW J \in SUBSET Ended(p), Report(p, J),
           NEW w \in {"fill", "drain"}, NEW c \in Int,
           pc' = [pc EXCEPT ![p] = w], code' = [code EXCEPT ![p] = c]
    PROVE  IInv'
<1> DEFINE R == running[p] \ J
           D == reported[p] \cup J
<1>1. running[p] \subseteq DOMAIN jobs /\ reported[p] \subseteq DOMAIN jobs
  BY DEF IInv, Shape
<1>2. J \subseteq running[p] /\ \A j \in J : jobs[j].state # "running"  BY DEF Ended
<1>3. /\ R \subseteq DOMAIN jobs /\ D \subseteq DOMAIN jobs
      /\ running[p] \cup reported[p] \subseteq R \cup D
      /\ \A j \in D \ reported[p] : jobs[j].state # "running"
  BY <1>1, <1>2
<1>4. running' = [running EXCEPT ![p] = R] /\ reported' = [reported EXCEPT ![p] = D]
  BY DEF Report
<1> HIDE DEF R, D
<1>5. w \in {"new", "next", "fill", "start", "open", "poll", "drain", "join"} \cup Gone
  OBVIOUS
<1> QED  BY Zenon, <1>3, <1>4, <1>5, OneRun

LEMMA PollStep == ASSUME IInv, NEW p \in Procs, Poll(p) PROVE IInv'
<1>1. Ages  BY UnchangedAges DEF IInv, Poll
<1>2. ASSUME NEW J \in SUBSET Ended(p), Report(p, J),
             NEW w \in {"fill", "drain"}, NEW c \in Int, Go(p, w),
             code' = [code EXCEPT ![p] = c]
      PROVE  IInv'
  BY Zenon, <1>1, <1>2, ReportStep DEF Go
<1>3. CASE Report(p, Ended(p)) /\ Go(p, "fill") /\ UNCHANGED code
  <2>1. code[p] \in Int /\ code' = [code EXCEPT ![p] = code[p]]
    BY <1>3, SameCode DEF IInv
  <2> QED  BY Zenon, <1>2, <1>3, <2>1
<1>4. CASE Report(p, {j \in Ended(p) : j <= Min(Bad(p))}) /\ LeaveBy(p, "drain", 1)
  <2>1. ASSUME NEW c \in Int, LeaveBy(p, "drain", c) PROVE IInv'
    <3>1. {j \in Ended(p) : j <= Min(Bad(p))} \in SUBSET Ended(p)  OBVIOUS
    <3> QED  BY Zenon, <1>2, <1>4, <2>1, <3>1 DEF LeaveBy
  <2>2. 1 \in Int  OBVIOUS
  <2> QED  BY <1>4, <2>1, <2>2, Zenon
<1> QED  BY <1>3, <1>4 DEF Poll

LEMMA DrainStep == ASSUME IInv, NEW p \in Procs, Drain(p) PROVE IInv'
<1>1. Ages  BY StopAges DEF IInv, Drain
<1>2. Report(p, Ended(p)) /\ UNCHANGED <<pc, code>> /\ pc[p] = "drain"
  BY DEF Drain
<1>3. /\ pc' = [pc EXCEPT ![p] = "drain"] /\ code' = [code EXCEPT ![p] = code[p]]
      /\ code[p] \in Int
  BY <1>2 DEF IInv, Shape
<1>4. Ended(p) \in SUBSET Ended(p)  OBVIOUS
<1> QED  BY Zenon, <1>1, <1>2, <1>3, <1>4, ReportStep

LEMMA LeavingSteps ==
    ASSUME IInv, NEW p \in Procs, Drained(p) \/ Throws(p) \/ Join(p) PROVE IInv'
<1>1. CASE Drained(p)
  <2>1. /\ UNCHANGED <<jobs, running, reported>> /\ running[p] = {}
        /\ Go(p, "join") /\ UNCHANGED code
    BY <1>1 DEF Drained, own
  <2>2. code[p] \in Int /\ code' = [code EXCEPT ![p] = code[p]]
    BY <2>1, SameCode DEF IInv
  <2> QED  BY Zenon, <2>1, <2>2, Moves
<1>2. CASE Throws(p)
  <2>1. UNCHANGED <<jobs, running, reported>> /\ LeaveBy(p, "join", 3)
    BY <1>2 DEF Throws
  <2>2. ASSUME NEW c \in Int, c = 3, LeaveBy(p, "join", c) PROVE IInv'
    BY Zenon, <2>1, <2>2, Moves DEF LeaveBy
  <2>3. 3 \in Int  OBVIOUS
  <2> QED  BY <2>1, <2>2, <2>3, Zenon
<1>3. CASE Join(p)
  <2>1. /\ UNCHANGED <<jobs, running, reported>> /\ pc[p] = "join"
        /\ Go(p, "exited") /\ UNCHANGED code
    BY <1>3 DEF Join, own
  <2>2. code[p] \in Int /\ code' = [code EXCEPT ![p] = code[p]]
    BY Zenon, <2>1, SameCode DEF IInv
  <2>3. code[p] # 3 => running[p] = {}  BY <2>1 DEF IInv, Watching
  <2>4. "exited" \in {"new", "next", "fill", "start", "open", "poll", "drain", "join"} \cup Gone
    BY DEF Gone
  <2> QED  BY Zenon, <2>1, <2>2, <2>3, <2>4, Moves
<1> QED  BY <1>1, <1>2, <1>3

-----------------------------------------------------------------------------
(* What happens to it *)

\* A step that only ages the jobs.
LEMMA OnlyAges == ASSUME IInv, Ages, UNCHANGED <<pc, code, running, reported>> PROVE IInv'
<1>1. Shape'  BY DEF IInv, Shape, Ages
<1>2. ASSUME NEW q \in Procs PROVE Watching(q)'  BY Bystander DEF IInv
<1> QED  BY <1>1, <1>2 DEF IInv

LEMMA KillStep == ASSUME IInv, NEW p \in Procs, Kill(p) PROVE IInv'
<1>1. PICK S : jobs \in Seq(JobOf(S))  BY DEF IInv, Shape
<1>2. \A j \in DOMAIN jobs : jobs[j] \in JobOf(S)  BY <1>1
<1>3. \A j \in DOMAIN jobs :
         /\ [jobs[j] EXCEPT !.state = "dead", !.session = FALSE] \in JobOf(S)
         /\ [jobs[j] EXCEPT !.state = "dead", !.session = FALSE].by = jobs[j].by
  BY Zenon, <1>2 DEF JobOf, States
<1>4. Ages  BY Zenon, <1>1, <1>2, <1>3, ChangeAges DEF Kill, Live
<1>5. UNCHANGED <<running, reported, code>> /\ Go(p, "killed")  BY Zenon DEF Kill, own
<1>6. code[p] \in Int /\ code' = [code EXCEPT ![p] = code[p]]
  BY <1>5, SameCode DEF IInv
<1> QED  BY Zenon, <1>4, <1>5, <1>6, AgingMoves

LEMMA JobSteps ==
    ASSUME IInv, NEW j \in DOMAIN jobs, JobEnds(j) \/ LoseSession(j) PROVE IInv'
<1>1. PICK S : jobs \in Seq(JobOf(S))  BY DEF IInv, Shape
<1>2. jobs[j] \in JobOf(S) /\ jobs \in [DOMAIN jobs -> JobOf(S)]  BY <1>1
<1>3. UNCHANGED <<pc, code, running, reported>>  BY Zenon DEF JobEnds, LoseSession, own
<1>4. ASSUME NEW job \in JobOf(S), job.by = jobs[j].by, jobs[j].state = "running",
             jobs' = [jobs EXCEPT ![j] = job]
      PROVE  IInv'
  <2>1. Ages  BY <1>1, <1>2, <1>4, ChangeAges
  <2> QED  BY <1>3, <2>1, OnlyAges
<1>5. CASE JobEnds(j)
  <2>1. PICK s \in {"succeeded", "failed"} \cup (IF jobs[j].asked THEN {"cancelled"} ELSE {}) :
            jobs' = [jobs EXCEPT ![j].state = s,
                                 ![j].row = IF jobs[j].session THEN s ELSE @,
                                 ![j].session = FALSE]
    BY Zenon, <1>5 DEF JobEnds
  <2> DEFINE job == [jobs[j] EXCEPT !.state = s,
                                    !.row = IF jobs[j].session THEN s ELSE @,
                                    !.session = FALSE]
  <2>2. s \in {"succeeded", "failed", "cancelled"}  BY <2>1
  <2>3. job \in JobOf(S) /\ job.by = jobs[j].by  BY Zenon, <1>2, <2>2 DEF JobOf, States, Rows
  <2>4. jobs' = [jobs EXCEPT ![j] = job]  BY Zenon, <1>2, <2>1 DEF JobOf
  <2>5. jobs[j].state = "running"  BY Zenon, <1>5 DEF JobEnds
  <2> HIDE DEF job
  <2> QED  BY Zenon, <1>4, <2>3, <2>4, <2>5
<1>6. CASE LoseSession(j)
  <2> DEFINE job == [jobs[j] EXCEPT !.session = FALSE]
  <2>1. job \in JobOf(S) /\ job.by = jobs[j].by  BY ZenonT(30), <1>2 DEF JobOf
  <2>2. jobs' = [jobs EXCEPT ![j] = job] /\ jobs[j].state = "running"
    BY <1>6 DEF LoseSession
  <2> HIDE DEF job
  <2> QED  BY Zenon, <1>4, <2>1, <2>2
<1> QED  BY <1>5, <1>6

LEMMA StepIInv == IInv /\ [Next]_vars => IInv'
<1> SUFFICES ASSUME IInv, [Next]_vars PROVE IInv'  OBVIOUS
<1>1. ASSUME NEW p \in Procs, Run(p) PROVE IInv'
  BY SMTT(30), <1>1, ListStep, NextGroupStep, GroupReturnsStep, TakeStep, ReconcileStep,
     OpenJobStep, StopOrPollStep, PollStep, DrainStep, LeavingSteps DEF Run
<1>2. ASSUME NEW p \in Procs, Signal(p) PROVE IInv'
  <2>1. UNCHANGED <<pc, code, running, reported, jobs>>  BY <1>2 DEF Signal, own
  <2> QED  BY <2>1, OnlyAges, UnchangedAges DEF IInv
<1>3. ASSUME NEW p \in Procs, Kill(p) PROVE IInv'  BY <1>3, KillStep
<1>4. ASSUME NEW j \in DOMAIN jobs, JobEnds(j) \/ LoseSession(j) PROVE IInv'
  BY <1>4, JobSteps
<1>5. CASE UNCHANGED vars
  <2>1. UNCHANGED <<pc, code, running, reported, jobs>>  BY <1>5 DEF vars, own
  <2> QED  BY SMTT(30), <2>1, OnlyAges, UnchangedAges DEF IInv
<1> QED  BY <1>1, <1>2, <1>3, <1>4, <1>5 DEF Next

LEMMA Inductive == Spec => []IInv
BY InitIInv, StepIInv, PTL DEF Spec

\* A run that leaves by itself, and not through an exception, has reported the
\* end of every job it started: for any number of runs, files and troubles.
THEOREM Watched == Spec => []WatchedToTheEnd
<1>1. IInv => WatchedToTheEnd
  BY DEF IInv, Watching, WatchedToTheEnd
<1> QED  BY Inductive, <1>1, PTL

-----------------------------------------------------------------------------
(* The next group, and the next of a group *)

\* After the last group, whatever was listed was done by this run.
LEMMA NextGroupKeeps == ASSUME IInv, Whole, NEW p \in Procs, NextGroup(p) PROVE Whole'
<1>1. TypeOK /\ Truthful /\ Files /\ InHand(p)  BY Zenon DEF Whole
<1>2. /\ pc[p] = "next" /\ starting[p] = 0 /\ running[p] = {}
      /\ UNCHANGED <<listed, todo, starting, running, reported, said, signal, jobs, entries,
                     troubles>>
  <2>1. /\ pc[p] = "next" /\ starting[p] = 0
        /\ UNCHANGED <<listed, todo, starting, running, reported, said, signal, jobs, entries,
                       troubles>>
    BY Zenon, <1>1 DEF NextGroup, calm, InHand, Begun
  <2>2. running[p] = {}
    BY Zenon, <2>1 DEF IInv, Watching
  <2> QED  BY Zenon, <2>1, <2>2
<1>3. Grows /\ RestTyped /\ DOMAIN jobs' = DOMAIN jobs
  BY SMTT(30), <1>1, <1>2, UnchangedGrows, RestSame
<1>4. CASE todo[p] = << >> /\ LeaveBy(p, "join", 0)
  <2>1. Moved(p, "join", 0, listed[p], todo[p], starting[p], running[p])
    BY Zenon, <1>1, <1>2, <1>4, AsItWas DEF Moved, LeaveBy, Go
  <2>2. ASSUME At(p, "join", 0, listed[p], todo[p], starting[p], running[p]) PROVE InHand(p)'
    <3>1. pc'[p] = "join" /\ listed'[p] = listed[p] /\ running'[p] = running[p]
      BY Zenon, <2>2 DEF At
    <3>2. ASSUME NEW s \in listed[p] PROVE DoneBy(p, s)
      <4>1. Underway(p, s) \/ DoneBy(p, s) \/ \E i \in DOMAIN todo[p] : s \in todo[p][i]
        BY ZenonT(30), <1>1, <1>2 DEF InHand, Covered, Working
      <4>2. ~Underway(p, s)  BY ZenonT(30), <1>1, <1>2, NotZero DEF Underway
      <4>3. ~\E i \in DOMAIN todo[p] : s \in todo[p][i]  BY SMTT(30), <1>4
      <4> QED  BY SMTT(30), <4>1, <4>2, <4>3
    <3>3. Left(p)'  BY SMTT(30), <1>3, <3>1, <3>2, StaysDone DEF Left
    <3> QED  BY Zenon, <1>1, <1>3, <3>1, <3>3, Leaves
  <2>3. Fits("join", 0, listed[p], todo[p], starting[p], running[p])
    BY ZenonT(30), <1>1, <1>3, AsItWas DEF Fits, Places
  <2> QED  BY Zenon, <1>3, <2>1, <2>2, <2>3, OneMoves
<1>5. CASE todo[p] # << >> /\ Go(p, "fill") /\ UNCHANGED code
  <2>1. Moved(p, "fill", code[p], listed[p], todo[p], starting[p], running[p])
    BY ZenonT(30), <1>1, <1>2, <1>5, AsItWas DEF Moved, Go
  <2>2. ASSUME At(p, "fill", code[p], listed[p], todo[p], starting[p], running[p])
        PROVE  InHand(p)'
    <3>1. /\ pc'[p] = "fill" /\ listed'[p] = listed[p] /\ todo'[p] = todo[p]
          /\ starting'[p] = starting[p] /\ running'[p] = running[p] /\ entries' = entries
      BY SMTT(30), <1>2, <2>2 DEF At
    <3>2. Begun(p)'  BY SMTT(30), <1>2, <1>5, <3>1 DEF Begun
    <3>3. pc[p] \in Working /\ pc'[p] \in Working  BY <1>2, <3>1 DEF Working
    <3> QED  BY Zenon, <1>1, <1>3, <3>1, <3>2, <3>3, GoesOn
  <2>3. Fits("fill", code[p], listed[p], todo[p], starting[p], running[p])
    BY ZenonT(30), <1>1, <1>3, AsItWas DEF Fits, Places
  <2> QED  BY Zenon, <1>3, <2>1, <2>2, <2>3, OneMoves
<1> QED  BY Zenon, <1>4, <1>5 DEF NextGroup

\* What is taken from the group being worked through waits for nothing.
LEMMA TakeKeeps ==
    ASSUME Whole, NEW p \in Procs, Take(p), Min(Head(todo[p])) \in Head(todo[p])
    PROVE  Whole'
<1> DEFINE t == todo[p]
           f == Min(Head(t))
           T == [t EXCEPT ![1] = t[1] \ {f}]
<1>1. TypeOK /\ Truthful /\ Files /\ InHand(p)  BY DEF Whole
<1>2. /\ pc[p] = "fill" /\ starting[p] = 0 /\ t # << >> /\ Head(t) # {}
      /\ UNCHANGED <<listed, running, reported, said, signal, jobs, entries, troubles>>
  BY <1>1 DEF Take, MayTake, calm, InHand, Begun
<1>3. Grows /\ RestTyped /\ DOMAIN jobs' = DOMAIN jobs
  BY SMTT(30), <1>1, <1>2, UnchangedGrows, RestSame
<1>4. t \in Seq(SUBSET Ids) /\ todo \in [Procs -> Seq(SUBSET Ids)]  BY <1>1 DEF TypeOK
<1>5. todo' = [todo EXCEPT ![p][1] = @ \ {f}]  BY DEF Take
<1>6. todo' = [todo EXCEPT ![p] = T]
  <2> HIDE DEF f
  <2> QED  BY <1>4, <1>5
<1>7. \/ \E c \in {1, 2} : LeaveBy(p, "drain", c) /\ UNCHANGED starting
      \/ Go(p, "start") /\ starting' = [starting EXCEPT ![p] = f] /\ UNCHANGED code
  BY Zenon DEF Take
<1>8. /\ \A s \in listed[p] : s # 0
      /\ \A i \in DOMAIN t : \A s \in t[i] : s \in Ids /\ \A d \in entries[s].deps : d # 0
  BY Zenon, <1>1, NotZero
<1>9. /\ \A i \in DOMAIN t : \A s \in t[i] : \A d \in entries[s].deps :
            \/ Done(d)
            \/ \E k \in DOMAIN t : k < i /\ d \in t[k]
            \/ i > 1 /\ Underway(p, d)
      /\ \A s \in listed[p] :
            Underway(p, s) \/ DoneBy(p, s) \/ \E i \in DOMAIN t : s \in t[i]
  BY Zenon, <1>1, <1>2 DEF InHand, Ordered, Covered, Working
<1>9a. f \in Head(t)  OBVIOUS
<1> HIDE DEF t
<1>10. 1 \in DOMAIN t /\ Head(t) = t[1] /\ t[1] \in SUBSET Ids /\ \A i \in DOMAIN t : i \in Nat
  BY <1>2, <1>4
<1>11. f \in t[1]  BY Zenon, <1>10, <1>9a
<1> HIDE DEF f
<1>12. /\ T \in Seq(SUBSET Ids) /\ DOMAIN T = DOMAIN t /\ T # << >> /\ T[1] = t[1] \ {f}
       /\ \A i \in DOMAIN t : i # 1 => T[i] = t[i]
  <2>1. T \in Seq(SUBSET Ids) /\ DOMAIN T = DOMAIN t  BY <1>4, <1>10
  <2>2. T # << >>  BY SMTT(30), <1>10, <2>1
  <2> QED  BY <1>4, <1>10, <2>1, <2>2
<1> HIDE DEF T
<1>13. ASSUME NEW c \in {1, 2}, LeaveBy(p, "drain", c), UNCHANGED starting PROVE Whole'
  <2>1. Moved(p, "drain", c, listed[p], T, starting[p], running[p])
    BY Zenon, <1>1, <1>2, <1>6, <1>13, AsItWas DEF Moved, LeaveBy, Go
  <2>2. Fits("drain", c, listed[p], T, starting[p], running[p]) /\ c # 0
    <3>1. c \in {0, 1, 2, 3, 130} /\ c # 0  BY SMTT(30)
    <3> QED  BY Zenon, <1>1, <1>3, <1>12, <3>1, AsItWas DEF Fits, Places
  <2> QED  BY SMTT(30), <1>3, <1>12, <2>1, <2>2, Drains
<1>14. CASE Go(p, "start") /\ starting' = [starting EXCEPT ![p] = f] /\ UNCHANGED code
  <2>1. Moved(p, "start", code[p], listed[p], T, f, running[p])
    BY Zenon, <1>1, <1>2, <1>6, <1>14, AsItWas DEF Moved, Go
  <2>2. Fits("start", code[p], listed[p], T, f, running[p])
    <3>1. f \in Ids \cup {0}  BY <1>10, <1>11
    <3> QED  BY Zenon, <1>1, <1>3, <1>12, <3>1, AsItWas DEF Fits, Places
  <2>3. ASSUME At(p, "start", code[p], listed[p], T, f, running[p]) PROVE InHand(p)'
    <3>1. /\ pc'[p] = "start" /\ listed'[p] = listed[p] /\ todo'[p] = T /\ starting'[p] = f
          /\ running'[p] = running[p] /\ entries' = entries /\ jobs' = jobs
      BY Zenon, <1>2, <2>3 DEF At
    <3>2. ASSUME NEW d, d # 0, Underway(p, d) PROVE Underway(p, d)'
      BY Zenon, <1>2, <3>1, <3>2 DEF Underway
    <3>3. \A d : d = f => Underway(p, d)'  BY Zenon, <3>1 DEF Underway
    <3>4. ASSUME NEW d \in entries[f].deps PROVE Done(d)
      <4>1. Done(d) \/ (\E k \in DOMAIN t : k < 1 /\ d \in t[k]) \/ 1 > 1
        BY Zenon, <1>9, <1>10, <1>11
      <4>2. ~(1 > 1) /\ \A k \in DOMAIN t : ~(k < 1)  BY <1>4
      <4> QED  BY Zenon, <4>1, <4>2
    <3>5. ASSUME NEW i \in DOMAIN T, NEW s \in T[i], NEW d \in entries[s].deps
          PROVE  \/ Done(d)'
                 \/ \E k \in DOMAIN T : k < i /\ d \in T[k]
                 \/ i > 1 /\ Underway(p, d)'
      <4>1. i \in DOMAIN t /\ s \in t[i] /\ d # 0  BY Zenon, <1>8, <1>10, <1>12
      <4>2. Done(d) => Done(d)'  BY Zenon, <1>3, StaysDone
      <4>3. ASSUME NEW k \in DOMAIN t, k < i, d \in t[k]
            PROVE  (\E e \in DOMAIN T : e < i /\ d \in T[e]) \/ (i > 1 /\ Underway(p, d)')
        <5>1. CASE d = f
          <6>1. i > 1  BY <1>4, <4>1, <4>3
          <6> QED  BY Zenon, <3>3, <5>1, <6>1
        <5>2. CASE d # f
          <6>1. k \in DOMAIN T /\ d \in T[k]  BY <1>12, <4>3, <5>2
          <6> QED  BY Zenon, <4>3, <6>1
        <5> QED  BY <5>1, <5>2
      <4> QED  BY ZenonT(30), <1>9, <3>2, <4>1, <4>2, <4>3
    <3>6. ASSUME NEW s \in listed[p]
          PROVE  Underway(p, s)' \/ DoneBy(p, s)' \/ \E i \in DOMAIN T : s \in T[i]
      <4>1. s # 0 /\ (DoneBy(p, s) => DoneBy(p, s)')  BY SMTT(30), <1>3, <1>8, StaysDone
      <4>2. ASSUME NEW i \in DOMAIN t, s \in t[i]
            PROVE  Underway(p, s)' \/ \E k \in DOMAIN T : s \in T[k]
        <5>1. CASE s = f  BY Zenon, <3>3, <5>1
        <5>2. CASE s # f
          <6>1. i \in DOMAIN T /\ s \in T[i]  BY <1>12, <4>2, <5>2
          <6> QED  BY <6>1
        <5> QED  BY Zenon, <5>1, <5>2
      <4> QED  BY Zenon, <1>9, <3>2, <4>1, <4>2
    <3>7. Ordered(p)'  BY Zenon, <3>1, <3>5 DEF Ordered
    <3>8. Covered(p)'  BY Zenon, <3>1, <3>6 DEF Covered
    <3>9. Begun(p)'
      <4>1. f \in Ids' /\ Ids' = Ids  BY Zenon, <1>10, <1>11, <3>1 DEF Ids
      <4>2. \A d \in entries[f].deps : Done(d)'  BY SMTT(30), <1>3, <3>4, StaysDone
      <4> QED  BY SMTT(30), <1>12, <3>1, <4>1, <4>2 DEF Begun
    <3>10. Left(p)'  BY <3>1 DEF Left
    <3>11. Owned(p)'  BY Zenon, <1>1, <3>1 DEF Owned, InHand
    <3> QED  BY SMTT(30), <3>7, <3>8, <3>9, <3>10, <3>11 DEF InHand
  <2> QED  BY SMTT(30), <1>3, <2>1, <2>2, <2>3, OneMoves
<1> QED  BY Zenon, <1>7, <1>13, <1>14

=============================================================================
