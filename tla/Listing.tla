------------------------------ MODULE Listing -------------------------------
(***************************************************************************)
(* listMigrations: MigrationRepository::scan and assemble as they run over *)
(* one repository, one pass over the files and then level after level.     *)
(***************************************************************************)
EXTENDS Repository

CONSTANT Inputs \* the repositories and ledgers a listing may meet: records of
                \* entries, dbs, unread (a file does not parse, repeats an id
                \* or its directory is missing) and complete (the manifest
                \* says it names every lineage)

\* A directory has finitely many files, and ids are numbers.
ASSUME ListingAssumption ==
    \A in \in Inputs : DOMAIN in.entries \subseteq Nat /\ IsFiniteSet(DOMAIN in.entries)

VARIABLES
    entries, dbs, unread, complete, \* what is read
    pc,
    status,    \* id -> status
    remaining, \* runnable and not placed
    levels,    \* the ready lists, in order
    problems

input == <<entries, dbs, unread, complete>>
vars == <<input, pc, status, remaining, levels, problems>>

Placed == UNION {levels[i] : i \in DOMAIN levels}

\* "order": each level as groups that may run together.
Order == [i \in DOMAIN levels |-> ParallelSubsets(entries, dbs, levels[i])]

TypeOK ==
    /\ pc \in {"scan", "assemble", "done"}
    /\ status \in [DOMAIN entries -> Statuses]
    /\ remaining \subseteq {s \in DOMAIN entries : status[s] \in Runnable}
    /\ levels \in Seq(SUBSET DOMAIN entries)
    /\ remaining \cap Placed = {}
    /\ problems \subseteq {"unread", "connection", "modified", "missing", "drift",
                           "nothing", "blocked", "cycle"}

Init ==
    /\ \E in \in Inputs :
          /\ entries = in.entries /\ dbs = in.dbs
          /\ unread = in.unread /\ complete = in.complete
    /\ pc = "scan"
    /\ status = [s \in DOMAIN entries |-> "pending"]
    /\ remaining = {} /\ levels = << >> /\ problems = {}

\* Every file is classified and gated, and what stops a deployment is noted.
Scan ==
    /\ pc = "scan"
    /\ status' = StatusOf(entries, dbs)
    /\ problems' = ScanProblems(entries, dbs, complete, status') \cup
                      (IF unread THEN {"unread"} ELSE {})
    /\ remaining' = {s \in DOMAIN entries : status'[s] \in Runnable}
    /\ pc' = "assemble"
    /\ UNCHANGED <<input, levels>>

\* Everything that waits for nothing is the next level.
PlaceLevel ==
    /\ pc = "assemble"
    /\ LET ready == Ready(entries, status, remaining, Placed)
       IN  /\ ready # {}
           /\ levels' = Append(levels, ready)
           /\ remaining' = remaining \ ready
    /\ UNCHANGED <<input, pc, status, problems>>

\* Nothing is ready and something remains: it waits for what will not run, or
\* for itself.
Stuck ==
    /\ pc = "assemble" /\ remaining # {}
    /\ Ready(entries, status, remaining, Placed) = {}
    /\ problems' = problems \cup
          {IF Blocked(entries, status, remaining, Placed) # {} THEN "blocked" ELSE "cycle"}
    /\ pc' = "done"
    /\ UNCHANGED <<input, status, remaining, levels>>

Ordered ==
    /\ pc = "assemble" /\ remaining = {}
    /\ pc' = "done"
    /\ UNCHANGED <<input, status, remaining, levels, problems>>

Next == Scan \/ PlaceLevel \/ Stuck \/ Ordered

Spec == Init /\ [][Next]_vars

-----------------------------------------------------------------------------
(* Properties *)

\* assemble's levels: whatever runs has every dependency that is listed
\* applied already or in an earlier level, never in its own and never held,
\* modified or in progress.
DepsFirst ==
    \A i \in DOMAIN levels : \A s \in levels[i] :
        \A d \in entries[s].deps \cap DOMAIN entries :
            status[d] = "applied" \/ \E j \in 1..(i - 1) : d \in levels[j]

\* The groups of the order that a specification is in.
GroupsWith(s) ==
    {at \in (DOMAIN levels) \X (1..Cardinality(DOMAIN entries)) :
        at[2] \in DOMAIN Order[at[1]] /\ s \in Order[at[1]][at[2]]}

\* A listing without problems leaves nothing out: everything pending or
\* failed is in the order once, in one group of one level, and each of its
\* dependencies, listed or not, is applied or comes before it.
WholeOrRefused ==
    pc = "done" /\ problems = {} =>
        \A s \in DOMAIN entries : status[s] \in Runnable =>
            /\ Cardinality(GroupsWith(s)) = 1
            /\ \A d \in entries[s].deps :
                  IF d \in DOMAIN entries
                  THEN status[d] = "applied" \/ d \in Placed
                  ELSE AppliedSomewhere(dbs, d)

\* A path along depends_on that comes back to where it began.
HasCycle(S) ==
    \E n \in 1..Cardinality(S) : \E path \in [0..n -> S] :
        /\ path[0] = path[n]
        /\ \A i \in 1..n : path[i] \in entries[path[i - 1]].deps

\* A cycle is reported only where depends_on has one among what remains, and
\* never for a dependency that is merely held, modified or in progress
\* (assemble).
CycleIsReal == "cycle" \in problems => HasCycle(remaining)

\* Two of one group share no relation and both had complete evidence, unless
\* their databases are provably different (parallel_subsets).
GroupsIndependent ==
    \A i \in DOMAIN levels : \A g \in DOMAIN Order[i] :
        \A s, t \in Order[i][g] : s # t =>
            \/ ProvablyDifferent(dbs[entries[s].conn], dbs[entries[t].conn])
            \/ /\ entries[s].rels \cap entries[t].rels = {}
               /\ entries[s].complete /\ entries[t].complete

=============================================================================
