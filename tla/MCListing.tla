----------------------------- MODULE MCListing ------------------------------
(* Small repositories: one family for the order, one for the gates, one for *)
(* the groups.                                                              *)
EXTENDS Listing

Files == 1..3
Ids == 1..4   \* 4 is in no file; a ledger may know it

Entry == [digest |-> "a", epoch |-> "live", conn |-> "main", database |-> None,
          environment |-> None, release |-> None, deps |-> {}, rels |-> {},
          complete |-> TRUE]

Row(succeeded, running, failed) ==
    [digests |-> succeeded \cup running \cup failed, succeeded |-> succeeded,
     running |-> running, failed |-> failed]

Fresh == Row({}, {}, {})
Applied == Row({"a"}, {}, {})
Rerun == Row({"a"}, {"a"}, {})
Other == Row({"b"}, {}, {"a"})
Running == Row({}, {"a"}, {})
Failed == Row({}, {}, {"a", "b"})

Ledger(live, old) == [live |-> live, old |-> old]

Empty == [d \in Ids |-> Fresh]

DB == [name |-> "db", identity |-> "x", environment |-> None, ready |-> {},
       live |-> {"live"}, retired |-> {"old"}, applied |-> Ledger(Empty, Empty)]

Repositories(entrySets, databases, completes) ==
    [entries : entrySets, dbs : databases, unread : {FALSE}, complete : completes]

\* A file that does not parse beside one that does, and one that names a
\* connection nobody defined, with another that may depend on it.
FaultyInputs ==
    [entries : {<<[Entry EXCEPT !.conn = c], [Entry EXCEPT !.deps = d]>> :
                   c \in {"main", "other"}, d \in {{}, {1}}},
     dbs : {[main |-> DB]}, unread : BOOLEAN, complete : {FALSE}]

\* Every graph of dependencies, over every mix of what was applied, runs or is
\* held; the fourth id applied in a retired lineage, or nowhere.
OrderInputs ==
    Repositories(
        {[s \in Files |-> [Entry EXCEPT !.deps = deps[s],
                                       !.release = IF s \in held THEN "r" ELSE None]] :
            deps \in {f \in [Files -> SUBSET Ids] : \A s \in Files : s \notin f[s]},
            held \in {{}, {1}, {3}}},
        {[main |-> [DB EXCEPT !.applied =
            Ledger([d \in Ids |-> IF d \in Files THEN row[d] ELSE Fresh],
                   [Empty EXCEPT ![4] = old])]] :
            row \in [Files -> {Fresh, Applied, Running}], old \in {Fresh, Applied}},
        {FALSE})

\* One file and every gate; ids with no file in either lineage.
GateInputs ==
    Repositories(
        {[s \in files |-> [Entry EXCEPT !.database = d, !.environment = env,
                                       !.release = r, !.epoch = ep]] :
            files \in {{}, {1}}, d \in {None, "db"}, env \in {None, "prod"},
            r \in {None, "r"}, ep \in {"live", "old"}},
        {[main |-> [DB EXCEPT !.name = name, !.environment = label, !.ready = ready,
                              !.live = live,
                              !.applied = Ledger([Empty EXCEPT ![1] = row],
                                                 [Empty EXCEPT ![2] = row])]] :
            name \in {None, "db", "other"}, label \in {None, "prod"},
            ready \in {{}, {"r"}}, live \in {{}, {"live"}},
            row \in {Fresh, Applied, Rerun, Other, Failed}},
        BOOLEAN)

\* The files of one level, touching any of two relations, with and without
\* complete evidence, in the databases given.
Grouped(files, conns, databases) ==
    Repositories([files -> {[Entry EXCEPT !.rels = rels, !.conn = conn, !.complete = sure] :
                           rels \in SUBSET {"r", "t"}, conn \in conns, sure \in BOOLEAN}],
            databases, {FALSE})

\* One database, its identity read or not.
OneDatabase ==
    Grouped(Ids, {"main"}, {[main |-> [DB EXCEPT !.identity = i]] : i \in {None, "x"}})

AllInputs == OrderInputs \cup GateInputs \cup FaultyInputs \cup OneDatabase

\* Two databases of one name, as shards are: GroupsIndependent does not hold of
\* them (README, Known limits).
TwoDatabases ==
    Grouped(Files, {"x", "y"}, {[c \in {"x", "y"} |-> [DB EXCEPT !.identity = c]]})

=============================================================================
