------------------------------ MODULE Database ------------------------------
(***************************************************************************)
(* PostgreSQL, as the planner's statements use it.                         *)
(*                                                                         *)
(* A database is a set of facts, tuples of strings: <<"col", t, c>>,       *)
(* <<"invalid", i>>, <<"reads", v, c>>.  Names are unique across it.       *)
(* Facts about rows (RowFacts) are not in the catalog: a statement can     *)
(* trip over them, a plan cannot see them.                                 *)
(*                                                                         *)
(* A statement says what it needs and what must be absent, which rows make *)
(* it fail, what it adds and takes away, which tables it reads in full     *)
(* (scan) and which it locks against writers: those it names (xlock) and   *)
(* others (also).  slow is the planner's: the tables the plan says are     *)
(* kept from writers while they are read.                                  *)
(***************************************************************************)
EXTENDS Naturals, Sequences, FiniteSets

Nothing ==
    [op |-> "", needs |-> {}, lacks |-> {}, rows |-> {}, adds |-> {}, dels |-> {},
     drops |-> {}, leaves |-> {}, ren |-> <<>>, scan |-> {}, xlock |-> {}, also |-> {},
     slow |-> {}, valid |-> {}, walk |-> {}, unread |-> {}]

\* What the catalog shows of a database.
RowFacts == {"nulls", "bad", "dups", "rows", "behind", "stale"}

Observe(db) == {f \in db : f[1] \notin RowFacts}

Mentions(f, names) == \E k \in 2..Len(f) : f[k] \in names

\* What goes with a name: the indexes and constraints on a column, the index
\* behind a constraint, the columns of a table.
PartOf(db, names) ==
    names \cup {f[2] : f \in {g \in db : g[1] = "on" /\ g[3] \in names}}
          \cup {f[3] : f \in {g \in db : g[1] \in {"col", "idx", "con", "trigger", "policy"}
                                         /\ g[2] \in names}}

Gone(db, names) == PartOf(db, PartOf(db, names))

\* No CASCADE is ever written: a reader that stays refuses the drop.
Kept(db, names) ==
    \E f \in db : f[1] = "reads" /\ f[3] \in names /\ f[2] \notin names

PartitionsOf(db, t) == {f[3] : f \in {g \in db : g[1] = "part" /\ g[2] = t}}
IndexesOf(db, t) == {f[3] : f \in {g \in db : g[1] = "idx" /\ g[2] = t}}
DefaultPartition(db, t) == {f[3] : f \in {g \in db : g[1] = "default" /\ g[2] = t}}

\* An index made ON ONLY a partitioned table is valid when every partition
\* has one attached to it.
IsValid(db, t, i) ==
    /\ <<"idx", t, i>> \in db /\ <<"invalid", i>> \notin db
    /\ <<"only", i>> \in db =>
           \A p \in PartitionsOf(db, t) :
               \E j \in IndexesOf(db, p) : <<"attached", j, i>> \in db

\* The statement is accepted: everything but the rows.  valid: the indexes
\* it needs, or checks, to be valid; unread: what no view may read.
Can(db, s) ==
    /\ s.needs \subseteq db
    /\ s.lacks \cap db = {}
    /\ ~Kept(db, Gone(db, s.drops))
    /\ \A e \in s.valid : IsValid(db, e[1], e[2])
    /\ \A f \in db : f[1] = "reads" => f[3] \notin s.unread

Renamed(f, ren) == [k \in DOMAIN f |-> IF k > 1 /\ f[k] = ren[1] THEN ren[2] ELSE f[k]]

Do(db, s) ==
    LET gone == Gone(db, s.drops)
        left == {f \in db \ s.dels : ~Mentions(f, gone)} \cup s.adds
    IN  IF s.ren = <<>> THEN left ELSE {Renamed(f, s.ren) : f \in left}

\* A valid CHECK, or NOT NULL, implies what a statement would scan for.
Proved(db, x) ==
    \/ <<"notnull", x>> \in db
    \/ \E f \in db : f[1] = "proves" /\ f[3] = x /\ <<"notvalid", f[2]>> \notin db

\* The tables a statement reads in full: scan holds <<t, x, y, ...>> for a
\* table that is read unless each of x, y, ... is proved.
Scans(db, s) ==
    {e[1] : e \in {d \in s.scan : \E k \in 2 .. Len(d) : ~Proved(db, d[k])}}

---------------------------------------------------------------------------
\* Tables and columns.

CreateRel(n, kind, adds) ==
    [Nothing EXCEPT !.op = "create", !.lacks = {<<"rel", n>>},
                    !.adds = {<<"rel", n>>, <<"kind", n, kind>>} \cup adds]

DropRel(n) ==
    [Nothing EXCEPT !.op = "drop", !.needs = {<<"rel", n>>}, !.drops = {n}, !.xlock = {n}]

\* The tables a foreign key references, by the key of theirs it rests on.
ReferencedBy(db, k) ==
    {f[2] : f \in {g \in db : g[1] = "con" /\ <<"reads", k, g[3]>> \in db}}

\* DROP TABLE locks beside the table the parent it is a partition of, that
\* one's DEFAULT partition and the tables its foreign keys reference.
LockedByDrop(db, t) ==
    LET parents == {f[2] : f \in {g \in db : g[1] = "part" /\ g[3] = t}}
        keys == {f[3] : f \in {g \in db : g[1] = "con" /\ g[2] = t}}
    IN  (parents \cup UNION {DefaultPartition(db, p) : p \in parents}
                 \cup UNION {ReferencedBy(db, k) : k \in keys}) \ {t}

DropTable(db, t) == [DropRel(t) EXCEPT !.also = LockedByDrop(db, t)]

AlterTable(t, needs, adds, dels) ==
    [Nothing EXCEPT !.op = "alter", !.needs = {<<"rel", t>>} \cup needs,
                    !.adds = adds, !.dels = dels, !.xlock = {t}]

\* A rename: the old name is there and the new one is free.
RenameTo(t, needs, lacks, from, to) ==
    [AlterTable(t, needs, {}, {}) EXCEPT !.op = "rename", !.lacks = lacks, !.ren = <<from, to>>]

\* Without a default the rows there are hold NULL in the new column.
AddColumn(t, c, type, filled) ==
    [AlterTable(t, {}, {<<"col", t, c>>, <<"type", c, type>>}
                       \cup (IF filled THEN {} ELSE {<<"nulls", c>>}), {})
        EXCEPT !.op = "add column", !.lacks = {<<"col", t, c>>}]

\* A new type reads, and may rewrite, the whole table.
AlterType(t, c, from, to) ==
    [AlterTable(t, {<<"col", t, c>>, <<"type", c, from>>}, {<<"type", c, to>>}, {<<"type", c, from>>})
        EXCEPT !.op = "alter type", !.unread = {c}, !.scan = {<<t, "rows">>}]

\* A trigger that fills a column: new rows hold no NULL there.
CreateTrigger(t, g, adds) ==
    [AlterTable(t, {}, {<<"trigger", t, g>>} \cup adds, {})
        EXCEPT !.op = "create trigger", !.lacks = {<<"trigger", t, g>>}]

DropTrigger(t, g) ==
    [AlterTable(t, {<<"trigger", t, g>>}, {}, {}) EXCEPT !.op = "drop trigger", !.drops = {g}]

DropColumn(t, c) ==
    [AlterTable(t, {<<"col", t, c>>}, {}, {}) EXCEPT !.op = "drop column", !.drops = {c}]

\* SET NOT NULL reads the table unless a valid check proves the column.
SetNotNull(t, c) ==
    [AlterTable(t, {<<"col", t, c>>}, {<<"notnull", c>>}, {})
        EXCEPT !.op = "set not null", !.rows = {<<"nulls", c>>}, !.scan = {<<t, c>>}]

---------------------------------------------------------------------------
\* Constraints.  "proves" relates a check to what it implies.

AddConstraint(t, k, type, facts, rows) ==
    [AlterTable(t, {}, {<<"con", t, k>>, <<"contype", k, type>>} \cup facts, {})
        EXCEPT !.op = "add constraint", !.lacks = {<<"con", t, k>>},
               !.rows = rows, !.scan = {<<t, "rows">>}]

\* NOT VALID: enforced for new rows, nothing is read.
AddNotValid(t, k, type, facts) ==
    [AddConstraint(t, k, type, facts \cup {<<"notvalid", k>>}, {})
        EXCEPT !.op = "add not valid", !.scan = {}]

\* VALIDATE reads the table under a lock writers work through.
Validate(t, k, rows) ==
    [AlterTable(t, {<<"con", t, k>>}, {}, {<<"notvalid", k>>})
        EXCEPT !.op = "validate", !.rows = rows, !.scan = {<<t, "rows">>}, !.xlock = {}]

DropConstraint(t, k) ==
    [AlterTable(t, {<<"con", t, k>>}, {}, {}) EXCEPT !.op = "drop constraint", !.drops = {k}]

---------------------------------------------------------------------------
\* Indexes.

IndexFacts(t, i, cols, unique) ==
    {<<"rel", i>>, <<"idx", t, i>>} \cup {<<"on", i, c>> : c \in cols}
        \cup (IF unique THEN {<<"unique", i>>} ELSE {})

\* A plain build keeps writers out while it reads the table.
CreateIndex(t, i, cols, unique) ==
    [Nothing EXCEPT !.op = "create index", !.needs = {<<"rel", t>>} \cup {<<"col", t, c>> : c \in cols},
        !.lacks = {<<"rel", i>>}, !.adds = IndexFacts(t, i, cols, unique),
        !.rows = IF unique THEN {<<"dups", c>> : c \in cols} ELSE {},
        !.scan = {<<t, "rows">>}, !.xlock = {t}]

\* CONCURRENTLY keeps nobody out, and leaves an invalid index when it does
\* not finish.
CreateIndexConcurrently(t, i, cols, unique) ==
    [CreateIndex(t, i, cols, unique) EXCEPT !.op = "create index concurrently",
        !.leaves = IndexFacts(t, i, cols, unique) \cup {<<"invalid", i>>}, !.xlock = {}]

DropIndex(t, i) ==
    [Nothing EXCEPT !.op = "drop index", !.needs = {<<"idx", t, i>>}, !.drops = {i}, !.xlock = {t}]

DropIndexConcurrently(t, i) ==
    [DropIndex(t, i) EXCEPT !.op = "drop index concurrently",
        !.leaves = {<<"invalid", i>>}, !.xlock = {}]

RenameIndex(t, from, to) ==
    [Nothing EXCEPT !.op = "rename index", !.needs = {<<"idx", t, from>>},
        !.lacks = {<<"rel", to>>}, !.ren = <<from, to>>]

\* What the statement that makes a key enforces beside uniqueness.
KeyFacts(type, cols) == IF type = "p" THEN {<<"notnull", c>> : c \in cols} ELSE {}
KeyRows(type, cols) == IF type = "p" THEN {<<"nulls", c>> : c \in cols} ELSE {}

\* ADD CONSTRAINT ... USING INDEX gives the index the constraint's name.  A
\* primary key reads the table for NULLs unless its columns are NOT NULL.
UsingIndex(t, k, type, i, cols) ==
    [AlterTable(t, {<<"unique", i>>}, {<<"con", t, k>>, <<"contype", k, type>>}
                                          \cup KeyFacts(type, cols), {})
        EXCEPT !.op = "using index", !.lacks = {<<"con", t, k>>}, !.valid = {<<t, i>>},
               !.rows = KeyRows(type, cols), !.ren = <<i, k>>,
               !.scan = IF type = "p" THEN {<<t, c>> : c \in cols} ELSE {}]

\* ADD CONSTRAINT that builds its index, under the lock it takes.
AddKey(t, k, type, cols, rows) ==
    [AddConstraint(t, k, type, IndexFacts(t, k, cols, type # "x") \cup KeyFacts(type, cols),
                   rows \cup KeyRows(type, cols))
        EXCEPT !.op = "add key", !.lacks = @ \cup {<<"rel", k>>}]

\* ... ON ONLY the partitioned table: nothing is read, nothing is enforced
\* until the partitions' own are attached.
AddKeyOnly(t, k, type, cols) ==
    [AddKey(t, k, type, cols, {}) EXCEPT !.adds = @ \cup {<<"only", k>>}, !.rows = {}, !.scan = {}]

AttachIndex(p, j, i) ==
    [Nothing EXCEPT !.op = "attach index", !.needs = {<<"idx", p, j>>, <<"only", i>>},
        !.lacks = {<<"invalid", j>>}, !.adds = {<<"attached", j, i>>}]

\* verify_index_valid reads the catalog and changes nothing.
VerifyValid(t, i) == [Nothing EXCEPT !.op = "verify", !.valid = {<<t, i>>}]

\* CREATE INDEX ... ON ONLY a partitioned table reads nothing.
CreateIndexOnly(t, i, cols, unique) ==
    [CreateIndex(t, i, cols, unique) EXCEPT !.adds = @ \cup {<<"only", i>>},
        !.rows = {}, !.scan = {}]

CommentOn(n) == [Nothing EXCEPT !.op = "comment", !.needs = {<<"rel", n>>}, !.adds = {<<"comment", n>>}]

\* REINDEX CONCURRENTLY: "stale" is an index that answers with old values.
Reindex(t, i) ==
    [Nothing EXCEPT !.op = "reindex", !.needs = {<<"idx", t, i>>}, !.dels = {<<"stale", i>>},
                    !.scan = {<<t, "rows">>}]

---------------------------------------------------------------------------
\* Objects other than tables.

Alter(n, needs, adds, dels) ==
    [Nothing EXCEPT !.op = "alter object", !.needs = {<<"rel", n>>} \cup needs,
                    !.adds = adds, !.dels = dels]

RenameRel(n, to) ==
    [Alter(n, {}, {}, {}) EXCEPT !.lacks = {<<"rel", to>>}, !.ren = <<n, to>>]

CreateOrReplace(n, kind, adds) == [CreateRel(n, kind, adds) EXCEPT !.lacks = {}]

\* ALTER TYPE ... ADD VALUE.
AddLabel(type, v) ==
    [Alter(type, {}, {<<"label", type, v>>, <<"fresh", v>>}, {})
        EXCEPT !.lacks = {<<"label", type, v>>}]

---------------------------------------------------------------------------
\* Partitions.

\* ATTACH reads the candidate unless the bound and NOT NULL of the key are
\* proved, and the DEFAULT partition whatever is proved.
AttachPartition(t, p, keys, default) ==
    [AlterTable(p, {<<"kind", t, "partitioned_table">>}, {<<"part", t, p>>}, {})
        EXCEPT !.op = "attach", !.lacks = {<<"part", t, p>>},
               !.rows = {<<"bad", p>>}, !.also = default,
               !.scan = {<<p, p>>} \cup {<<p, k>> : k \in keys} \cup {<<d, "rows">> : d \in default}]

\* What a detached partition keeps of its parent: nothing.  The DEFAULT
\* partition is locked as the two are.
DetachPartition(t, p, default) ==
    [AlterTable(t, {<<"part", t, p>>}, {},
                {<<"part", t, p>>, <<"detaching", t, p>>, <<"default", t, p>>})
        EXCEPT !.op = "detach", !.lacks = {<<"detaching", t, p>>}, !.xlock = {t, p},
               !.also = default \ {p}]

\* CONCURRENTLY marks it first, and stays marked when it does not finish.
DetachConcurrently(t, p) ==
    [DetachPartition(t, p, {}) EXCEPT !.op = "detach concurrently", !.xlock = {},
                                  !.leaves = {<<"detaching", t, p>>}]

FinalizeDetach(t, p) ==
    [DetachPartition(t, p, {}) EXCEPT !.op = "detach finalize", !.needs = {<<"detaching", t, p>>},
                                  !.lacks = {}, !.xlock = {p}]

---------------------------------------------------------------------------
\* Rows.

\* A row cannot hold an enum label that is not committed yet ("fresh").
WriteRows(t, cols, adds, dels, rows) ==
    [Nothing EXCEPT !.op = "write", !.needs = {<<"rel", t>>} \cup {<<"col", t, c>> : c \in cols},
        !.lacks = {<<"fresh", f[3]>> : f \in {g \in adds : g[1] = "rows"}},
        !.adds = adds, !.dels = dels, !.rows = rows]

Commit(db) == {f \in db : f[1] # "fresh"}

\* A keyset walk, which goes by these columns.
Walk(s, cols) == [s EXCEPT !.op = "walk", !.walk = cols]

SetVal(seq) == [Nothing EXCEPT !.op = "setval", !.dels = {<<"behind", seq>>}]

CreateIfNotExists(n) == [CreateRel(n, "table", {}) EXCEPT !.lacks = {}]

=============================================================================
