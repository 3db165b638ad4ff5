----------------------------- MODULE Repository -----------------------------
(***************************************************************************)
(* MigrationRepository: how a directory of specifications is classified    *)
(* against the ledgers of the databases it names, gated, and ordered.      *)
(*                                                                         *)
(* An id is a number, and numbers follow the order of the files.  entries  *)
(* maps the id of each file that was read to                               *)
(*    digest, epoch, conn       what it says and where it belongs          *)
(*    database, environment, release    its gates, None where it has none  *)
(*    deps                      depends_on, a set of ids                   *)
(*    rels, complete            the relations it touches, as derived, and  *)
(*                              whether nothing opaque was met             *)
(* dbs maps each connection to what its database says, read once:          *)
(*    name, identity            None where it could not be read; a         *)
(*                              database that cannot be reached says       *)
(*                              nothing at all                             *)
(*    environment, ready, live, retired    the gates' tables               *)
(*    applied                   epoch -> id -> the digests of its jobs     *)
(***************************************************************************)
EXTENDS FiniteSetsExt, Sequences

None == "none"

Runnable == {"pending", "failed"}

Held == {"wrong_database", "wrong_environment", "retired_epoch",
         "held_for_epoch", "held_for_release"}

Statuses == Runnable \cup Held \cup
            {"applied", "modified_after_apply", "in_progress", "unknown_connection"}

-----------------------------------------------------------------------------
(* classify and gate *)

\* What the ledger says of this digest in its own lineage.
Classify(e, a) ==
    IF e.digest \in a.running THEN "in_progress"
    ELSE IF e.digest \in a.succeeded THEN "applied"
    ELSE IF a.succeeded # {} THEN "modified_after_apply"
    ELSE IF e.digest \in a.failed THEN "failed"
    ELSE "pending"

WrongDatabase(e, db) ==
    e.database # None /\ db.name # None /\ e.database # db.name

\* An unlabelled database matches no environment.
WrongEnvironment(e, db) ==
    e.environment # None /\ e.environment # db.environment

HeldForEpoch(e, db) == e.epoch \notin db.live /\ db.live # {}

HeldForRelease(e, db) == e.release # None /\ e.release \notin db.ready

\* Asked of what would run, and of nothing else.
Gate(e, db, status) ==
    IF status \notin Runnable THEN status
    ELSE IF WrongDatabase(e, db) THEN "wrong_database"
    ELSE IF WrongEnvironment(e, db) THEN "wrong_environment"
    ELSE IF e.epoch \in db.retired THEN "retired_epoch"
    ELSE IF HeldForEpoch(e, db) THEN "held_for_epoch"
    ELSE IF HeldForRelease(e, db) THEN "held_for_release"
    ELSE status

\* A connection the configuration does not define has no ledger to ask.
StatusOf(entries, dbs) ==
    [s \in DOMAIN entries |->
        LET e == entries[s]  db == dbs[e.conn]
        IN  IF e.conn \notin DOMAIN dbs THEN "unknown_connection"
            ELSE Gate(e, db, Classify(e, db.applied[e.epoch][s]))]

-----------------------------------------------------------------------------
(* What stops a deployment before it starts *)

\* Succeeded in any database of the listing, in any epoch.
AppliedSomewhere(dbs, d) ==
    \E c \in DOMAIN dbs : \E ep \in DOMAIN dbs[c].applied :
        dbs[c].applied[ep][d].succeeded # {}

EpochsClaimed(entries) == {entries[s].epoch : s \in DOMAIN entries}

\* Applied, or being applied, in a lineage this repository answers for, and
\* described by no file.
Drifted(entries, dbs, complete) ==
    \E c \in DOMAIN dbs : \E ep \in DOMAIN dbs[c].applied \ dbs[c].retired :
    \E d \in DOMAIN dbs[c].applied[ep] :
        /\ complete \/ ep \in EpochsClaimed(entries)
        /\ d \in DOMAIN entries => entries[d].epoch # ep
        /\ dbs[c].applied[ep][d].succeeded \cup dbs[c].applied[ep][d].running # {}

\* A repository that describes nothing, over a ledger that records something.
DescribesNothing(entries, dbs) ==
    /\ DOMAIN entries = {}
    /\ \E c \in DOMAIN dbs : \E ep \in DOMAIN dbs[c].applied :
          \E d \in DOMAIN dbs[c].applied[ep] : dbs[c].applied[ep][d].digests # {}

\* Something would run that depends on what nothing answers for.
MissingDep(entries, dbs, status) ==
    \E s \in DOMAIN entries : \E d \in entries[s].deps \ DOMAIN entries :
        status[s] \in Runnable /\ ~AppliedSomewhere(dbs, d)

HasStatus(entries, status, which) == \E s \in DOMAIN entries : status[s] = which

ScanProblems(entries, dbs, complete, status) ==
    {p \in {"drift", "nothing", "modified", "missing", "connection"} :
        CASE p = "drift" -> Drifted(entries, dbs, complete)
          [] p = "nothing" -> DescribesNothing(entries, dbs)
          [] p = "modified" -> HasStatus(entries, status, "modified_after_apply")
          [] p = "connection" -> HasStatus(entries, status, "unknown_connection")
          [] p = "missing" -> MissingDep(entries, dbs, status)}

-----------------------------------------------------------------------------
(* assemble: levels from depends_on *)

\* Mutant: only what would run is waited for.
Waits_runnable(entries, status, placed, s, d) ==
    d \in entries[s].deps \cap DOMAIN entries /\ status[d] \in Runnable /\ d \notin placed

\* A dependency that is not listed was reported as missing, or is applied.
Waits(entries, status, placed, s, d) ==
    d \in entries[s].deps \cap DOMAIN entries /\ status[d] # "applied" /\ d \notin placed

Ready(entries, status, remaining, placed) ==
    {s \in remaining : ~\E d \in DOMAIN entries : Waits(entries, status, placed, s, d)}

\* Mutant: a dependency in a bad state is not told from a cycle.
Blocked_never(entries, status, remaining, placed) == {}

\* What waits for a specification that will not run.
Blocked(entries, status, remaining, placed) ==
    {s \in remaining : \E d \in DOMAIN entries :
        Waits(entries, status, placed, s, d) /\ status[d] \notin Runnable}

-----------------------------------------------------------------------------
(* parallel_subsets: within a level, what may run at the same time *)

\* The exact identity where both are known, otherwise the names.
ProvablyDifferent(a, b) ==
    IF a.identity # None /\ b.identity # None
    THEN a.identity # b.identity
    ELSE a.name # None /\ b.name # None /\ a.name # b.name

\* Relations that overlap, or evidence that is incomplete, deny it.
MayJoin(entries, first, group, k) ==
    /\ entries[k].rels \cap group.rels = {}
    /\ entries[first].complete /\ entries[k].complete

\* Mutant: the relations of what joined are not added to the group's.
Consider_firstOnly(entries, dbs, first, k, group) ==
    IF \/ ProvablyDifferent(dbs[entries[first].conn], dbs[entries[k].conn])
       \/ MayJoin(entries, first, group, k)
    THEN [group EXCEPT !.specs = @ \cup {k}]
    ELSE group

\* One more specification is held against the group that first began.
Consider(entries, dbs, first, k, group) ==
    IF ProvablyDifferent(dbs[entries[first].conn], dbs[entries[k].conn])
    THEN [group EXCEPT !.specs = @ \cup {k}]
    ELSE IF MayJoin(entries, first, group, k)
    THEN [specs |-> group.specs \cup {k}, rels |-> group.rels \cup entries[k].rels]
    ELSE group

\* The group that the first of a list begins, the others taken in order.
GroupOf(entries, dbs, first, others) ==
    MapThenFoldSet(LAMBDA k, group : Consider(entries, dbs, first, k, group),
                   [specs |-> {first}, rels |-> entries[first].rels],
                   LAMBDA k : k, LAMBDA S : Max(S), others).specs

\* Mutant: what joined a group begins one of its own as well.
ParallelSubsets_untaken(entries, dbs, ready) ==
    LET groups[S \in SUBSET ready] ==
            IF S = {} THEN << >>
            ELSE <<GroupOf(entries, dbs, Min(S), S \ {Min(S)})>> \o groups[S \ {Min(S)}]
    IN  groups[ready]

ParallelSubsets(entries, dbs, ready) ==
    LET groups[S \in SUBSET ready] ==
            IF S = {} THEN << >>
            ELSE LET g == GroupOf(entries, dbs, Min(S), S \ {Min(S)})
                 IN  <<g>> \o groups[S \ g]
    IN  groups[ready]

=============================================================================
