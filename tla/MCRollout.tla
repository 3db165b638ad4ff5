------------------------------ MODULE MCRollout ------------------------------
(* One scenario for each recipe and for each way a recipe forks, on tables  *)
(* of one to three columns.                                                 *)
EXTENDS Rollout

\* A table with a primary key on id.
Table(t, id) ==
    {<<"rel", t>>, <<"kind", t, "table">>, <<"col", t, id>>, <<"type", id, "int">>, <<"notnull", id>>,
     <<"con", t, t \o "_pkey">>, <<"contype", t \o "_pkey", "p">>}
        \cup IndexFacts(t, t \o "_pkey", {id}, TRUE)

Column(t, c) == {<<"col", t, c>>, <<"type", c, "int">>}

Big == {<<"big", "t">>}
T == Table("t", "id") \cup Column("t", "a")
TB == T \cup Big

Does(spec, d, ws, want) ==
    [spec |-> spec, db |-> d, writes |-> ws, want |-> want, refuse |-> FALSE, once |-> FALSE]
Refuses(spec, d) == [Does(spec, d, {}, <<>>) EXCEPT !.refuse = TRUE]

---------------------------------------------------------------------------
\* Constraints.

Check == [kind |-> "add_check_constraint", table |-> "t", name |-> "k", comment |-> "why"]
Reference == [kind |-> "add_foreign_key", table |-> "t", name |-> "fk",
               references |-> "r_pkey", references_table |-> "r"]
NotNull(c, keep) == [kind |-> "set_not_null", table |-> "t", column |-> c, keep_check |-> keep]
DropCon(k) == [kind |-> "drop_constraint", table |-> "t", name |-> k]
NN == "t_a_laswell_nn"

K == {<<"con", "t", "k">>, <<"contype", "k", "c">>}
FK == {<<"con", "t", "fk">>, <<"contype", "fk", "f">>, <<"reads", "fk", "r_pkey">>}
WantFK == AddConstraint("t", "fk", "f", {<<"reads", "fk", "r_pkey">>}, {})
WantNN == <<AddConstraint("t", NN, "c", {<<"proves", NN, "a">>}, {}), SetNotNull("t", "a")>>

ConstraintScenarios(n) ==
    CASE n = "check" -> Does(<<Check>>, TB, {<<"bad", "k">>}, <<AddConstraint("t", "k", "c", {}, {})>>)
      [] n = "check begun" ->
             Does(<<Check>>, TB \cup K \cup {<<"notvalid", "k">>}, {},
                  <<Validate("t", "k", {})>>)
      [] n = "check in one step" ->
             Does(<<Check>>, TB \cup {<<"one_step", "t">>}, {<<"bad", "k">>},
                  <<AddConstraint("t", "k", "c", {}, {})>>)
      [] n = "foreign key" ->
             Does(<<Reference>>, TB \cup Table("r", "rid"), {<<"bad", "fk">>}, <<WantFK>>)
      [] n = "foreign key in one step" ->
             Does(<<Reference>>, TB \cup Table("r", "rid") \cup {<<"one_step", "t">>}, {}, <<WantFK>>)
      [] n = "not null" ->
             Does(<<NotNull("a", FALSE)>>, TB, {<<"nulls", "a">>}, <<SetNotNull("t", "a")>>)
      [] n = "not null kept" -> Does(<<NotNull("a", TRUE)>>, TB, {<<"nulls", "a">>}, WantNN)
      [] n = "not null in one step" ->
             Does(<<NotNull("a", FALSE)>>, TB \cup {<<"one_step", "t">>}, {<<"nulls", "a">>},
                  <<SetNotNull("t", "a")>>)
      [] n = "drop check" -> Does(<<DropCon("k")>>, TB \cup K, {}, <<DropConstraint("t", "k")>>)
      [] n = "drop foreign key" ->
             Does(<<DropCon("fk")>>, TB \cup Table("r", "rid") \cup FK, {}, <<DropConstraint("t", "fk")>>)
      [] n = "drop referenced key" ->
             Refuses(<<DropCon("t_pkey")>>, TB \cup {<<"reads", "other_fk", "t_pkey">>})
      [] n = "not null of no column" -> Refuses(<<NotNull("b", FALSE)>>, TB)

ConstraintNames ==
    {"check", "check begun", "check in one step", "foreign key", "foreign key in one step",
     "not null", "not null kept", "not null in one step", "drop check", "drop foreign key", "drop referenced key",
     "not null of no column"}

---------------------------------------------------------------------------
\* Keys.  pt has the partitions p1 and p2, each with columns of its own name.

Key(kind, t, name, cols) ==
    [kind |-> kind, table |-> t, name |-> name, columns |-> cols, equal |-> cols, gist |-> FALSE,
     without_overlaps |-> FALSE, period |-> "", comment |-> "why"]
Unique == Key("add_unique_constraint", "t", "u", {"a"})
Primary == Key("add_primary_key", "n", "n_pkey", {"b"})
Exclusion(t, cols) == [Key("add_exclusion_constraint", t, "x", cols) EXCEPT !.gist = TRUE]
Overlaps == [Unique EXCEPT !.gist = TRUE, !.without_overlaps = TRUE, !.period = "a"]

N == {<<"rel", "n">>, <<"kind", "n", "table">>, <<"big", "n">>} \cup Column("n", "b")

Parts(t, ps) ==
    {<<"rel", t>>, <<"kind", t, "partitioned_table">>, <<"partkey", t, "k">>, <<"strategy", t, "RANGE">>,
     <<"col", t, "k">>, <<"type", "k", "int">>, <<"notnull", "k">>}
        \cup UNION {{<<"rel", p>>, <<"kind", p, "table">>, <<"part", t, p>>, <<"big", p>>,
                     <<"col", p, "k">>} : p \in ps}
PT == Parts("pt", {"p1", "p2"})

WantParts(name, type) ==
    <<AddKeyOnly("pt", name, type, {"k"}),
      AddKey("p1", "p1_" \o name, type, {"k"}, {}), AttachIndex("p1", "p1_" \o name, name),
      AddKey("p2", "p2_" \o name, type, {"k"}, {}), AttachIndex("p2", "p2_" \o name, name)>>

KeyScenarios(n) ==
    CASE n = "unique" ->
             Does(<<Unique>>, TB, {<<"dups", "a">>}, <<AddKey("t", "u", "u", {"a"}, {})>>)
      [] n = "unique of a small table" ->
             Does(<<Unique>>, T, {<<"dups", "a">>}, <<AddKey("t", "u", "u", {"a"}, {})>>)
      [] n = "unique by an index" ->
             Does(<<Unique>>, TB \cup IndexFacts("t", "i", {"a"}, TRUE), {},
                  <<UsingIndex("t", "u", "u", "i", {"a"})>>)
      [] n = "unique beside a partial index" ->
             Does(<<Unique>>, TB \cup IndexFacts("t", "i", {"a"}, TRUE) \cup {<<"partial", "i">>}, {},
                  <<AddKey("t", "u", "u", {"a"}, {})>>)
      [] n = "primary" ->
             Does(<<Primary>>, N, {<<"nulls", "b">>, <<"dups", "b">>},
                  <<AddKey("n", "n_pkey", "p", {"b"}, {})>>)
      [] n = "primary by an index" ->
             Does(<<Primary>>, N \cup IndexFacts("n", "i", {"b"}, TRUE), {<<"nulls", "b">>},
                  <<UsingIndex("n", "n_pkey", "p", "i", {"b"})>>)
      [] n = "second primary" -> Refuses(<<Key("add_primary_key", "t", "p", {"a"})>>, TB)
      [] n = "unique on partitions" ->
             Does(<<Key("add_unique_constraint", "pt", "u", {"k"})>>, PT, {<<"dups", "k">>},
                  WantParts("u", "u"))
      [] n = "primary on partitions" ->
             Does(<<Key("add_primary_key", "pt", "u", {"k"})>>, PT, {}, WantParts("u", "p"))
      [] n = "unique without the partition key" ->
             Refuses(<<Key("add_unique_constraint", "pt", "u", {"a"})>>, PT \cup Column("pt", "a"))
      [] n = "exclusion" ->
             Does(<<Exclusion("t", {"a"})>>, T, {<<"dups", "a">>}, <<AddKey("t", "x", "x", {"a"}, {})>>)
      [] n = "exclusion of a big table" ->
             Does(<<Exclusion("t", {"a"})>>, TB, {<<"dups", "a">>}, <<AddKey("t", "x", "x", {"a"}, {})>>)
      [] n = "exclusion on partitions" ->
             Does(<<Exclusion("pt", {"k"})>>, PT, {}, WantParts("x", "x"))
      [] n = "exclusion over a column gist cannot hold" ->
             Refuses(<<Exclusion("t", {"a"})>>, T \cup {<<"nogist", "a">>})
      [] n = "key without overlaps" ->
             Does(<<Overlaps>>, TB \cup {<<"range", "a">>}, {}, <<AddKey("t", "u", "u", {"a"}, {})>>)
      [] n = "key without overlaps of no range" -> Refuses(<<Overlaps>>, T)

KeyNames ==
    {"unique", "unique of a small table", "unique by an index", "unique beside a partial index",
     "primary", "primary by an index", "second primary", "unique on partitions",
     "primary on partitions", "unique without the partition key", "exclusion",
     "exclusion of a big table", "exclusion on partitions",
     "exclusion over a column gist cannot hold", "key without overlaps",
     "key without overlaps of no range"}

---------------------------------------------------------------------------
\* Rows.

Rows(kind, form) ==
    [kind |-> kind, table |-> "t", key |-> {"id"}, columns |-> {"id", "a"}, form |-> form,
     many |-> FALSE, paced |-> "default", overriding |-> "", on_conflict |-> "refuse",
     conflict_target |-> {"id"}, conflict_where |-> FALSE, update_columns |-> {}, twice |-> FALSE,
     preserve |-> "", makes |-> {<<"rows", "t", "new">>}, unmakes |-> {},
     matched |-> "update", not_matched |-> "insert", by_source |-> "keep"]
Insert(form) == Rows("insert_rows", form)
Update == [Rows("update_rows", "values") EXCEPT !.preserve = "saved"]
Delete(form) == [Rows("delete_rows", form) EXCEPT !.makes = {}, !.unmakes = {<<"rows", "t", "old">>}]
Merge == Rows("merge_rows", "values")
Copy == Rows("copy_rows", "values")
Fill(key) == [kind |-> "backfill", table |-> "t", columns |-> {"a"}, walk_key |-> key, preserve |-> "saved",
              makes |-> {<<"rows", "t", "new">>}, unmakes |-> {}]

Serial == {<<"rel", "ids">>, <<"sequence", "id", "ids">>}
Old == {<<"rows", "t", "old">>}
Sixteen == {<<"version", "before17">>}
NewRows == WriteRows("t", {}, {<<"rows", "t", "new">>}, {}, {})
NoOldRows == WriteRows("t", {}, {}, Old, {})
Saved == CreateIfNotExists("saved")
\* id is unique only within a, which the batches of a module's table share.
Pairs == (TB \ {<<"unique", "t_pkey">>}) \cup {<<"notnull", "a">>}
             \cup IndexFacts("t", "pair", {"a", "id"}, TRUE) \cup {<<"leads", "pair", "a">>}

RowScenarios(n) ==
    CASE n = "insert" -> Does(<<Insert("values")>>, TB \cup Serial, {}, <<NewRows>>)
      [] n = "insert in batches" ->
             Does(<<[Insert("select") EXCEPT !.on_conflict = "nothing"]>>, TB \cup Serial, {}, <<NewRows>>)
      [] n = "upsert" -> Does(<<[Insert("values") EXCEPT !.on_conflict = "update"]>>, TB, {}, <<NewRows>>)
      [] n = "upsert of the key alone" ->
             Refuses(<<[Insert("values") EXCEPT !.on_conflict = "update", !.columns = {"id"}]>>, TB)
      [] n = "upsert by no key" ->
             Refuses(<<[Insert("values") EXCEPT !.on_conflict = "nothing", !.conflict_target = {"a"}]>>, TB)
      [] n = "insert into a generated column" -> Refuses(<<Insert("values")>>, TB \cup {<<"generated", "a">>})
      [] n = "insert twice" -> Refuses(<<[Insert("values") EXCEPT !.twice = TRUE]>>, TB)
      [] n = "update" -> Does(<<Update>>, TB, {}, <<Saved, NewRows>>)
      [] n = "update in batches" -> Does(<<[Update EXCEPT !.many = TRUE]>>, TB, {}, <<Saved, NewRows>>)
      [] n = "update by no key" -> Refuses(<<[Update EXCEPT !.key = {"a"}]>>, TB)
      [] n = "delete where" -> Does(<<Delete("where")>>, TB \cup Old, {}, <<NoOldRows>>)
      [] n = "delete" ->
             Does(<<[Delete("values") EXCEPT !.preserve = "saved"]>>, TB \cup Old, {}, <<Saved, NoOldRows>>)
      [] n = "delete where, confined to the key" ->
             Refuses(<<Delete("where")>>, TB \cup Old \cup {<<"confined", "t", "id">>})
      [] n = "merge" -> Does(<<Merge>>, TB \cup Serial, {}, <<NewRows>>)
      [] n = "merge in batches" ->
             Does(<<[Merge EXCEPT !.many = TRUE]>>, TB \cup Serial, {}, <<NewRows>>)
      [] n = "merge in batches before 17" -> Refuses(<<[Merge EXCEPT !.many = TRUE]>>, TB \cup Sixteen)
      [] n = "copy" -> Does(<<Copy>>, TB \cup Serial, {}, <<NewRows>>)
      [] n = "backfill" -> Does(<<Fill("id")>>, TB, {}, <<Saved, NewRows>>)
      [] n = "backfill by two columns" -> Does(<<Fill("id")>>, Pairs, {}, <<Saved, NewRows>>)
      [] n = "backfill confined" ->
             Does(<<Fill("id")>>, Pairs \cup {<<"confined", "t", "a">>}, {}, <<Saved, NewRows>>)
      [] n = "backfill by no key" -> Refuses(<<Fill("a")>>, TB)
      [] n = "backfill by an invalid index" ->
             Refuses(<<Fill("a")>>, TB \cup IndexFacts("t", "i", {"a"}, TRUE) \cup {<<"invalid", "i">>})

RowNames ==
    {"insert", "insert in batches", "upsert", "upsert of the key alone", "upsert by no key",
     "insert into a generated column", "insert twice", "update", "update in batches",
     "update by no key", "delete where", "delete", "delete where, confined to the key", "merge",
     "merge in batches", "merge in batches before 17", "copy", "backfill",
     "backfill by two columns", "backfill confined", "backfill by no key",
     "backfill by an invalid index"}

---------------------------------------------------------------------------
\* Columns and views.

AddCol(c, fill, default) ==
    [kind |-> "add_column", table |-> "t", column |-> c, type |-> "int", nullable |-> fill = "" /\ ~default,
     default |-> default, fill |-> fill, after |-> "drop_trigger", key |-> {}, paced |-> TRUE]
ChangeType == [kind |-> "alter_column_type", table |-> "t", column |-> "a", type |-> "bigint"]
DropCol(c) == [kind |-> "drop_column", table |-> "t", column |-> c]
View(v) == [kind |-> "replace_view", name |-> v, reads |-> {"t", "id"}]

Views ==
    {<<"rel", "v">>, <<"kind", "v", "view">>, <<"reads", "v", "t">>, <<"reads", "v", "a">>,
     <<"owner", "v", "app">>, <<"option", "v", "security_barrier">>, <<"grant", "v", "reader">>,
     <<"rel", "w">>, <<"kind", "w", "view">>, <<"reads", "w", "v">>, <<"comment", "w">>,
     <<"trigger", "w", "instead">>,
     <<"rel", "m">>, <<"kind", "m", "matview">>, <<"reads", "m", "w">>, <<"reads", "m", "a">>}
        \cup IndexFacts("m", "m_idx", {}, TRUE)

NewColumn(c) ==
    [AddColumn("t", c, "int", TRUE) EXCEPT !.adds = @ \cup {<<"notnull", c>>}]
WantType == [AlterType("t", "a", "int", "bigint") EXCEPT !.unread = {}]
Mat == {<<"rel", "m">>, <<"kind", "m", "matview">>, <<"reads", "m", "a">>, <<"owner", "m", "app">>}

ColumnScenarios(n) ==
    CASE n = "column" -> Does(<<AddCol("b", "", FALSE)>>, TB, {}, <<AddColumn("t", "b", "int", FALSE)>>)
      [] n = "column with a default" -> Does(<<AddCol("b", "", TRUE)>>, TB, {}, <<NewColumn("b")>>)
      [] n = "filled column" -> Does(<<AddCol("b", "id", FALSE)>>, TB, {}, <<NewColumn("b")>>)
      [] n = "filled column, trigger kept" ->
             Does(<<[AddCol("b", "id", FALSE) EXCEPT !.after = "keep"]>>, TB, {},
                  <<NewColumn("b"), CreateTrigger("t", "t_b_laswell_fill",
                                                  {<<"fills", "t_b_laswell_fill", "b">>})>>)
      [] n = "two filled columns" ->
             Does(<<AddCol("b", "id", FALSE), AddCol("c", "a", FALSE)>>, TB, {},
                  <<NewColumn("b"), NewColumn("c")>>)
      [] n = "a column filled from another filled one" ->
             Does(<<AddCol("b", "id", FALSE), AddCol("c", "b", FALSE)>>, TB, {},
                  <<NewColumn("b"), NewColumn("c")>>)
      [] n = "filled column with a default" ->
             Does(<<AddCol("b", "id", TRUE)>>, TB, {},
                  <<NewColumn("b"), WriteRows("t", {}, {<<"rows", "t", "b">>}, {}, {})>>)
      [] n = "filled column of a table without a key" ->
             Refuses(<<[AddCol("c", "b", FALSE) EXCEPT !.table = "n"]>>, N)
      [] n = "column of another type" -> Refuses(<<[AddCol("a", "", FALSE) EXCEPT !.type = "text"]>>, TB)
      [] n = "type under views" -> Does(<<ChangeType>>, TB \cup Views, {}, <<WantType>>)
      [] n = "drop column" -> Does(<<DropCol("a")>>, TB \cup IndexFacts("t", "i", {"a"}, FALSE), {},
                                   <<DropColumn("t", "a")>>)
      [] n = "drop column under a view" -> Refuses(<<DropCol("a")>>, TB \cup Views)
      [] n = "new view" -> Does(<<View("v")>>, TB, {}, <<CreateRel("v", "view", ViewFacts(View("v")))>>)
      [] n = "replace view" ->
             Does(<<View("v")>>, TB \cup Views, {},
                  <<[Alter("v", {}, {<<"reads", "v", "id">>}, {<<"reads", "v", "a">>})
                       EXCEPT !.needs = {}]>>)
      [] n = "replace materialized view" ->
             Does(<<View("m")>>, TB \cup Mat, {},
                  <<Alter("m", {}, ViewFacts(View("m")), {<<"reads", "m", "a">>})>>)
      [] n = "replace what is no view" -> Refuses(<<View("t")>>, TB)

ColumnNames ==
    {"column", "column with a default", "filled column", "filled column, trigger kept",
     "two filled columns", "a column filled from another filled one", "filled column with a default",
     "filled column of a table without a key", "column of another type", "type under views",
     "drop column", "drop column under a view", "new view", "replace view",
     "replace materialized view", "replace what is no view"}

---------------------------------------------------------------------------
\* Indexes.  h is a table a module keeps in the chunks h1 and h2.

Index(t, unique, equivalent) ==
    [kind |-> "create_index", table |-> t, name |-> "i", columns |-> {"a"}, unique |-> unique,
     shape |-> "btree", on_equivalent_index |-> equivalent]
DropIdx(i) == [kind |-> "drop_index", table |-> "t", name |-> i]

WantIndex(t, unique) ==
    [CreateIndex(t, "i", {"a"}, unique) EXCEPT !.adds = @ \cup {<<"shape", "i", "btree">>}]
Other == IndexFacts("t", "j", {"a"}, FALSE) \cup {<<"shape", "j", "btree">>}
Busy == {<<"busy", "t">>}
NoConc(t) == {<<"no_concurrent", t>>}

H == {<<"rel", "h">>, <<"kind", "h", "table">>, <<"big", "h">>} \cup Column("h", "a") \cup NoConc("h")
Chunks == UNION {{<<"rel", p>>, <<"chunk", "h", p>>} : p \in {"h1", "h2"}}
WantChunks ==
    <<[WantIndex("h", FALSE) EXCEPT !.adds = @ \cup {<<"only", "i">>}],
      CreateIndex("h1", "h1_i", {}, FALSE), CreateIndex("h2", "h2_i", {}, FALSE)>>

IndexScenarios(n) ==
    CASE n = "index" -> Does(<<Index("t", FALSE, "refuse")>>, TB, {}, <<WantIndex("t", FALSE)>>)
      [] n = "unique index" ->
             Does(<<Index("t", TRUE, "refuse")>>, TB, {<<"dups", "a">>}, <<WantIndex("t", TRUE)>>)
      [] n = "index of a small table" ->
             Does(<<Index("t", FALSE, "refuse")>>, T, {}, <<WantIndex("t", FALSE)>>)
      [] n = "index over an invalid one" ->
             Does(<<Index("t", FALSE, "refuse")>>,
                  TB \cup IndexFacts("t", "i", {"a"}, FALSE) \cup {<<"invalid", "i">>}, {},
                  <<DropIndex("t", "i"), WantIndex("t", FALSE)>>)
      [] n = "index there under another name" -> Refuses(<<Index("t", FALSE, "refuse")>>, TB \cup Other)
      [] n = "index adopted" -> Does(<<Index("t", FALSE, "adopt")>>, TB \cup Other, {}, <<>>)
      [] n = "index renamed" ->
             Does(<<Index("t", FALSE, "rename")>>, TB \cup Other, {}, <<RenameIndex("t", "j", "i")>>)
      [] n = "index by parts" ->
             Does(<<Index("h", FALSE, "refuse")>>, H \cup Chunks, {}, WantChunks)
      [] n = "index by a module's option" ->
             Does(<<Index("h", FALSE, "refuse")>>, H \cup {<<"per_part", "h">>}, {}, <<WantIndex("h", FALSE)>>)
      [] n = "index under a lock" ->
             Does(<<Index("h", TRUE, "refuse")>>, H, {<<"dups", "a">>}, <<WantIndex("h", TRUE)>>)
      [] n = "key under a lock" ->
             Does(<<Unique>>, TB \cup NoConc("t"), {<<"dups", "a">>}, <<AddKey("t", "u", "u", {"a"}, {})>>)
      [] n = "drop index" -> Does(<<DropIdx("j")>>, TB \cup Other, {}, <<DropIndex("t", "j")>>)
      [] n = "drop index in use" -> Does(<<DropIdx("j")>>, TB \cup Other \cup Busy, {}, <<DropIndex("t", "j")>>)
      [] n = "drop index of a key" -> Refuses(<<DropIdx("t_pkey")>>, TB)

IndexNames ==
    {"index", "unique index", "index of a small table", "index over an invalid one",
     "index there under another name", "index adopted", "index renamed", "index by parts",
     "index by a module's option", "index under a lock", "key under a lock", "drop index", "drop index in use",
     "drop index of a key"}

---------------------------------------------------------------------------
\* Tables, partitions and names.

NewTable(t, facts, kind) ==
    [kind |-> "create_table", table |-> t, facts |-> facts, partition_of |-> "", bound |-> "",
     without_overlaps |-> FALSE, period |-> "", scalars |-> {}, columns |-> {}, relkind |-> kind]
NewPart(p, bound) ==
    [NewTable(p, {<<"col", p, "k">>}, "table") EXCEPT !.partition_of = "pt", !.bound = bound]
New == Table("z", "zid") \ {<<"rel", "z">>, <<"kind", "z", "table">>}
Period == [NewTable("z", New, "table") EXCEPT !.without_overlaps = TRUE, !.period = "zid",
                                              !.columns = {"zid", "room"}, !.scalars = {"room"}]
DropTab == [kind |-> "drop_table", table |-> "t"]
Rename(kind, what, to) == [kind |-> kind, table |-> "t", column |-> what, name |-> what, to |-> to]
Attach == [kind |-> "attach_partition", table |-> "pt", partition |-> "q", bound |-> "RANGE", keys |-> {"qk"}]
Detach(p) == [kind |-> "detach_partition", table |-> "pt", partition |-> p]
P3 == {<<"rel", "p3">>, <<"kind", "p3", "table">>, <<"part", "pt", "p3">>, <<"big", "p3">>}
DefaultP2 == {<<"default", "pt", "p2">>}

Q == {<<"rel", "q">>, <<"kind", "q", "table">>, <<"big", "q">>, <<"notnull", "qk">>} \cup Column("q", "qk")
WantPart(p) ==
    CreateRel(p, "table", {<<"col", p, "k">>, <<"part", "pt", p>>})

TableScenarios(n) ==
    CASE n = "table" -> Does(<<NewTable("z", New, "table")>>, T, {}, <<CreateRel("z", "table", New)>>)
      [] n = "table with a period" ->
             Does(<<Period>>, T \cup {<<"rel", "btree_gist">>}, {}, <<CreateRel("z", "table", New)>>)
      [] n = "table with a period and no btree_gist" -> Refuses(<<Period>>, T)
      [] n = "partition" -> Does(<<NewPart("p3", "RANGE")>>, PT, {}, <<WantPart("p3")>>)
      [] n = "partition beside a default" ->
             Does(<<NewPart("p3", "RANGE")>>, PT \cup DefaultP2, {<<"bad", "p3">>}, <<WantPart("p3")>>)
      [] n = "default partition" ->
             Does(<<NewPart("p3", "DEFAULT")>>, PT, {},
                  <<[WantPart("p3") EXCEPT !.adds = @ \cup {<<"default", "pt", "p3">>}]>>)
      [] n = "partition of another kind" -> Refuses(<<NewPart("p3", "LIST")>>, PT)
      [] n = "drop table" -> Does(<<DropTab>>, T, {}, <<DropRel("t")>>)
      [] n = "drop table with a foreign key" ->
             Does(<<DropTab>>, T \cup Table("r", "rid") \cup FK, {}, <<DropRel("t")>>)
      [] n = "drop partition" ->
             Does(<<[DropTab EXCEPT !.table = "p3"]>>, PT \cup P3 \cup DefaultP2, {}, <<DropRel("p3")>>)
      [] n = "drop table under a view" -> Refuses(<<DropTab>>, T \cup Views)
      [] n = "drop referenced table" -> Refuses(<<DropTab>>, T \cup {<<"reads", "other_fk", "t_pkey">>})
      [] n = "rename table" ->
             Does(<<Rename("rename_table", "", "z")>>, TB, {},
                  <<RenameTo("t", {}, {}, "t", "z")>>)
      [] n = "rename column" ->
             Does(<<Rename("rename_column", "a", "b")>>, TB \cup Views, {}, <<RenameTo("t", {}, {}, "a", "b")>>)
      [] n = "rename column to another" -> Refuses(<<Rename("rename_column", "a", "id")>>, TB)
      [] n = "rename constraint" ->
             Does(<<Rename("rename_constraint", "k", "l")>>, TB \cup K, {}, <<RenameTo("t", {}, {}, "k", "l")>>)
      [] n = "attach" ->
             Does(<<Attach>>, PT \cup Q, {<<"bad", "q">>}, <<AttachPartition("pt", "q", {}, {})>>)
      [] n = "attach with no bound to prove" ->
             Does(<<[Attach EXCEPT !.bound = "HASH"]>>, PT \cup Q, {<<"bad", "q">>},
                  <<AttachPartition("pt", "q", {}, {})>>)
      [] n = "attach beside a default" ->
             Does(<<Attach>>, PT \cup Q \cup DefaultP2, {<<"bad", "q">>}, <<AttachPartition("pt", "q", {}, {})>>)
      [] n = "detach" -> Does(<<Detach("p1")>>, PT, {}, <<DetachPartition("pt", "p1", {})>>)
      [] n = "detach beside a default" ->
             Does(<<Detach("p1")>>, PT \cup DefaultP2, {}, <<DetachPartition("pt", "p1", {})>>)
      [] n = "detach the default" ->
             Does(<<Detach("p2")>>, PT \cup DefaultP2, {}, <<DetachPartition("pt", "p2", {})>>)
      [] n = "detach begun" ->
             Does(<<Detach("p1")>>, PT \cup {<<"detaching", "pt", "p1">>}, {}, <<FinalizeDetach("pt", "p1")>>)

TableNames ==
    {"table", "table with a period", "table with a period and no btree_gist", "partition",
     "partition beside a default", "default partition", "partition of another kind", "drop table",
     "drop table with a foreign key", "drop partition", "drop table under a view",
     "drop referenced table", "rename table", "rename column", "rename column to another",
     "rename constraint", "attach", "attach with no bound to prove", "attach beside a default",
     "detach", "detach beside a default", "detach the default", "detach begun"}

---------------------------------------------------------------------------
\* Objects, security and the properties of a table.

Obj(kind, name) ==
    [kind |-> kind, name |-> name, facts |-> {<<"option", name, "new">>}, gone |-> {<<"option", name, "old">>},
     to |-> "", type_kind |-> "enum", value |-> "blue", returns |-> "int", version |-> "", add_check |-> "",
     not_null |-> FALSE, connect |-> FALSE, with_data |-> FALSE, object_type |-> "aggregate", reads |-> {}]
OnTable(kind, name) ==
    [kind |-> kind, table |-> "t", name |-> name, trigger |-> name, column |-> "a", columns |-> {"a"},
     facts |-> {<<"option", "a", "new">>}, gone |-> {<<"option", "a", "old">>}, enabled |-> TRUE,
     force |-> TRUE, identity |-> "always"]

There(n, kind) == {<<"rel", n>>, <<"kind", n, kind>>, <<"option", n, "old">>, <<"on", n, n>>}
Used(n) == {<<"reads", "other", n>>}
Makes(kind, n, relkind, more) ==
    Does(<<Obj(kind, n)>>, T \cup more, {}, <<CreateRel(n, relkind, {<<"option", n, "new">>})>>)
Drops(kind, n, relkind) == Does(<<Obj(kind, n)>>, T \cup There(n, relkind), {}, <<DropRel(n)>>)
Alters(kind, n, relkind) ==
    Does(<<Obj(kind, n)>>, T \cup There(n, relkind), {},
         <<Alter(n, {}, {<<"option", n, "new">>}, {<<"option", n, "old">>})>>)
Sets(kind, more) ==
    Does(<<OnTable(kind, "s")>>, TB \cup {<<"option", "a", "old">>} \cup more, {},
         <<AlterTable("t", {}, {<<"option", "a", "new">>}, {<<"option", "a", "old">>})>>)
Facts(in, more, adds, dels) == Does(<<in>>, TB \cup more, {}, <<AlterTable("t", {}, adds, dels)>>)

\* The column a of a big table is of the domain o.
Domain == There("o", "domain") \cup (TB \ {<<"type", "a", "int">>}) \cup {<<"type", "a", "o">>}
DomainOf(facts) == [Obj("alter_domain", "o") EXCEPT !.facts = facts, !.gone = {}]

ObjectScenarios(n) ==
    CASE n \in {"create_schema", "create_sequence"} ->
             Makes(n, "o", IF n = "create_schema" THEN "schema" ELSE "sequence", {})
      [] n = "create_type" -> Makes(n, "o", "enum", {})
      [] n = "create_type of another kind" -> Refuses(<<Obj("create_type", "o")>>, There("o", "domain"))
      [] n = "create_extension" -> Makes(n, "o", "extension", {<<"available", "o">>})
      [] n = "create_extension unknown" -> Refuses(<<Obj("create_extension", "o")>>, T)
      [] n \in {"create_publication", "create_subscription"} ->
             Makes(n, "o", IF n = "create_publication" THEN "publication" ELSE "subscription", {})
      [] n = "create_subscription that connects" ->
             Does(<<[Obj("create_subscription", "o") EXCEPT !.connect = TRUE]>>, T, {},
                  <<CreateRel("o", "subscription", {<<"option", "o", "new">>, <<"slot", "o">>})>>)
      [] n = "create_object" -> Makes(n, "o", "aggregate", {})
      [] n = "create_materialized_view" -> Makes(n, "o", "matview", {})
      [] n = "create_function" ->
             Does(<<Obj(n, "o")>>, There("o", "function") \cup {<<"returns", "o", "int">>} \cup Used("o"), {},
                  <<Alter("o", {}, {<<"option", "o", "new">>}, {})>>)
      [] n = "create_function of another result" ->
             Refuses(<<Obj("create_function", "o")>>, There("o", "function") \cup {<<"returns", "o", "text">>})
      [] n = "add_enum_value" ->
             Does(<<Obj(n, "o")>>, There("o", "enum"), {}, <<Alter("o", {}, {<<"label", "o", "blue">>}, {})>>)
      [] n \in {"drop_schema", "drop_extension", "drop_type", "drop_function", "drop_sequence",
                "drop_publication", "drop_subscription", "drop_object", "drop_statistics"} -> Drops(n, "o", "any")
      [] n = "drop_view" -> Drops(n, "o", "view")
      [] n = "drop_type in use" -> Refuses(<<Obj("drop_type", "o")>>, There("o", "enum") \cup Used("o"))
      [] n = "drop_view that is a table" -> Refuses(<<Obj("drop_view", "t")>>, T)
      [] n \in {"alter_sequence", "alter_schema", "alter_function", "alter_view", "alter_publication",
                "alter_subscription", "alter_object", "security_label", "set_owner", "grant",
                "revoke"} -> Alters(n, "o", "any")
      [] n = "alter_schema to another name" ->
             Does(<<[Obj("alter_schema", "o") EXCEPT !.to = "q", !.facts = {}, !.gone = {}]>>,
                  There("o", "schema"), {}, <<RenameRel("o", "q")>>)
      [] n \in {"alter_default_privileges", "import_foreign_schema"} ->
             Does(<<[Obj(n, "o") EXCEPT !.gone = {}]>>, There("o", "any"), {},
                  <<Alter("o", {}, {<<"option", "o", "new">>}, {})>>)
      [] n = "alter_extension" ->
             Does(<<[Obj(n, "o") EXCEPT !.version = "2"]>>, There("o", "extension") \cup {<<"at", "o", "1">>}, {},
                  <<Alter("o", {}, {<<"option", "o", "new">>, <<"at", "o", "2">>}, {<<"at", "o", "1">>})>>)
      [] n = "alter_domain" -> Alters(n, "o", "domain")
      [] n = "alter_domain to not null" ->
             Does(<<[DomainOf({}) EXCEPT !.not_null = TRUE]>>, Domain, {<<"nulls", "a">>},
                  <<Alter("o", {}, {<<"notnull", "o">>}, {})>>)
      [] n = "alter_domain with a check" ->
             [Does(<<[DomainOf({}) EXCEPT !.add_check = "dk"]>>, Domain, {},
                   <<Alter("o", {}, {<<"con", "o", "dk">>}, {})>>) EXCEPT !.once = TRUE]
      [] n = "set_comment" -> Does(<<Obj(n, "t")>>, T, {}, <<CommentOn("t")>>)
      [] n \in {"alter_column_default", "alter_policy", "set_column_options", "set_table_options",
                "set_replica_identity", "cluster_on", "set_logged", "set_tablespace",
                "set_access_method"} -> Sets(n, {<<"policy", "t", "s">>})
      [] n = "alter_policy of none" -> Refuses(<<OnTable("alter_policy", "s")>>, T)
      [] n = "drop_not_null" -> Facts(OnTable(n, "s"), {<<"notnull", "a">>}, {}, {<<"notnull", "a">>})
      [] n = "set_identity" ->
             Does(<<OnTable(n, "s")>>, TB, {<<"nulls", "a">>},
                  <<AlterTable("t", {}, {<<"notnull", "a">>, <<"identity", "a">>}, {})>>)
      [] n = "drop identity" ->
             Facts([OnTable("set_identity", "s") EXCEPT !.identity = ""], {<<"identity", "a">>}, {},
                   {<<"identity", "a">>})
      [] n = "drop_expression" -> Facts(OnTable(n, "s"), {<<"generated", "a">>}, {}, {<<"generated", "a">>})
      [] n = "set_row_security" -> Facts(OnTable(n, "s"), {}, {<<"rls", "t">>, <<"forced", "t">>}, {})
      [] n = "set_row_security off" ->
             Facts([OnTable("set_row_security", "s") EXCEPT !.enabled = FALSE, !.force = FALSE],
                   {<<"rls", "t">>}, {}, {<<"rls", "t">>})
      [] n = "create_policy" -> Facts(OnTable(n, "s"), {}, {<<"policy", "t", "s">>, <<"option", "a", "new">>}, {})
      [] n = "drop_policy" ->
             Facts(OnTable(n, "s"), {<<"policy", "t", "s">>}, {}, {<<"policy", "t", "s">>})
      [] n = "set_trigger_state" ->
             Facts(OnTable(n, "s"), {<<"trigger", "t", "s">>, <<"off", "s">>}, {}, {<<"off", "s">>})
      [] n = "set_trigger_state of none" -> Refuses(<<OnTable("set_trigger_state", "s")>>, T)
      [] n = "create_trigger" ->
             Facts(OnTable(n, "s"), {}, {<<"trigger", "t", "s">>, <<"option", "a", "new">>}, {})
      [] n = "drop_trigger" -> Facts(OnTable(n, "s"), {<<"trigger", "t", "s">>}, {}, {<<"trigger", "t", "s">>})
      [] n = "create_table_as" ->
             Does(<<[OnTable(n, "s") EXCEPT !.table = "z"] @@ [with_data |-> TRUE]>>, T, {},
                  <<CreateRel("z", "table", {<<"option", "a", "new">>})>>)
      [] n = "create_statistics" -> Facts(OnTable(n, "s"), {}, {<<"rel", "s">>, <<"kind", "s", "statistics">>,
                                                               <<"on", "s", "a">>}, {})
      [] n = "create_rule" -> Facts(OnTable(n, "s"), {}, {<<"rel", "s">>, <<"kind", "s", "rule">>,
                                                         <<"on", "s", "t">>}, {})
      [] n = "drop_rule" -> Does(<<OnTable(n, "s")>>, T \cup There("s", "rule"), {}, <<DropRel("s")>>)

ObjectNames ==
    {"create_schema", "create_sequence", "create_type", "create_type of another kind",
     "create_extension", "create_extension unknown", "create_publication", "create_subscription",
     "create_subscription that connects", "create_object", "create_materialized_view",
     "create_function", "create_function of another result", "add_enum_value", "drop_schema",
     "drop_extension", "drop_type", "drop_function", "drop_sequence", "drop_publication",
     "drop_subscription", "drop_object", "drop_statistics", "drop_view", "drop_type in use",
     "drop_view that is a table", "alter_sequence", "alter_schema", "alter_function", "alter_view",
     "alter_publication", "alter_subscription", "alter_object", "security_label", "set_owner",
     "grant", "revoke", "alter_schema to another name", "alter_default_privileges",
     "import_foreign_schema", "alter_extension", "alter_domain", "alter_domain to not null",
     "alter_domain with a check", "set_comment",
     "alter_column_default", "alter_policy", "set_column_options", "set_table_options",
     "set_replica_identity", "cluster_on", "set_logged", "set_tablespace", "set_access_method",
     "alter_policy of none", "drop_not_null", "set_identity", "drop identity", "drop_expression",
     "set_row_security", "set_row_security off", "create_policy", "drop_policy",
     "set_trigger_state", "set_trigger_state of none", "create_trigger", "drop_trigger",
     "create_table_as", "create_statistics", "create_rule", "drop_rule"}

---------------------------------------------------------------------------
\* Text search, and specifications of several intents: each is planned
\* against what the ones before it leave, and planned again when some of
\* them are done.

Mapping(dict) == [kind |-> "set_text_search_mapping", name |-> "ts", tokens |-> {"word"}, dictionary |-> dict]
Config == {<<"rel", "ts">>, <<"kind", "ts", "tsconfig">>, <<"token", "ts", "word">>, <<"maps", "ts", "word", "d1">>,
           <<"rel", "d1">>, <<"rel", "d2">>}
WantMap == Alter("ts", {}, {<<"maps", "ts", "word", "d2">>}, {<<"maps", "ts", "word", "d1">>})
NewConfig == [Obj("create_object", "ts") EXCEPT !.object_type = "tsconfig", !.facts = {}]

IndexOn(t, c, i) == [Index(t, FALSE, "refuse") EXCEPT !.columns = {c}, !.name = i]
WantIndexOn(t, c, i) ==
    [CreateIndex(t, i, {c}, FALSE) EXCEPT !.adds = @ \cup {<<"shape", i, "btree">>}]
InsertZ == [Insert("values") EXCEPT !.table = "z", !.key = {"zid"}, !.columns = {"zid"}, !.on_conflict = "nothing",
                                    !.conflict_target = {"zid"}, !.makes = {<<"rows", "z", "new">>}]
RowsZ == WriteRows("z", {}, {<<"rows", "z", "new">>}, {}, {})

ChainScenarios(n) ==
    CASE n = "map tokens" -> Does(<<Mapping("d2")>>, Config, {}, <<WantMap>>)
      [] n = "map to no dictionary" -> Refuses(<<Mapping("d3")>>, Config)
      [] n = "new configuration" ->
             Does(<<NewConfig, Mapping("d2")>>, {<<"rel", "d2">>}, {}, <<CreateRel("ts", "tsconfig", {<<"maps", "ts", "word", "d2">>})>>)
      [] n = "table, index, rows" ->
             Does(<<NewTable("z", New, "table"), IndexOn("z", "zid", "zi"), InsertZ>>, T \cup Busy, {},
                  <<CreateRel("z", "table", New), WantIndexOn("z", "zid", "zi"), RowsZ>>)
      [] n = "partitioned table, partition" ->
             Does(<<NewTable("pt", {<<"strategy", "pt", "RANGE">>, <<"col", "pt", "k">>}, "partitioned_table"),
                    NewPart("p3", "RANGE")>>, T, {},
                  <<CreateRel("pt", "partitioned_table", {<<"strategy", "pt", "RANGE">>, <<"col", "pt", "k">>}),
                    WantPart("p3")>>)
      [] n = "filled column, its index" ->
             Does(<<AddCol("b", "id", FALSE), IndexOn("t", "b", "bi")>>, TB, {},
                  <<NewColumn("b"), WantIndexOn("t", "b", "bi")>>)
      [] n = "filled columns, a key over one" ->
             Does(<<AddCol("b", "id", FALSE), AddCol("c", "a", FALSE),
                    Key("add_unique_constraint", "t", "u", {"b"})>>, TB, {<<"dups", "b">>},
                  <<NewColumn("b"), NewColumn("c"), AddKey("t", "u", "u", {"b"}, {})>>)
      [] n = "column renamed, its index" ->
             Does(<<Rename("rename_column", "a", "b"), IndexOn("t", "b", "bi")>>, TB, {},
                  <<RenameTo("t", {}, {}, "a", "b"), WantIndexOn("t", "b", "bi")>>)
      [] n = "index replaced" ->
             Does(<<DropIdx("j"), Index("t", FALSE, "refuse")>>, TB \cup Other, {},
                  <<DropIndex("t", "j"), WantIndex("t", FALSE)>>)
      [] n = "type changed, then indexed" ->
             Does(<<ChangeType, Index("t", FALSE, "refuse")>>, TB \cup Views, {},
                  <<WantType, WantIndex("t", FALSE)>>)
      [] n = "not null, then the key" ->
             Does(<<[NotNull("b", FALSE) EXCEPT !.table = "n"], Primary>>, N, {<<"nulls", "b">>},
                  <<AddKey("n", "n_pkey", "p", {"b"}, {})>>)
      [] n = "another primary key" ->
             Does(<<DropCon("t_pkey"), Key("add_primary_key", "t", "t_pk2", {"a"})>>, TB, {<<"nulls", "a">>},
                  <<DropConstraint("t", "t_pkey"), AddKey("t", "t_pk2", "p", {"a"}, {})>>)
      [] n = "index, then a walk by it" ->
             Does(<<Index("t", TRUE, "refuse"), Fill("a")>>, TB, {<<"dups", "a">>},
                  <<WantIndex("t", TRUE), Saved, NewRows>>)
      [] n = "detach, then drop" ->
             Does(<<Detach("p3"), [DropTab EXCEPT !.table = "p3"]>>, PT \cup P3, {},
                  <<DetachPartition("pt", "p3", {}), DropRel("p3")>>)
      [] n = "function, then its trigger" ->
             Does(<<Obj("create_function", "f"), OnTable("create_trigger", "s"), Check>>, TB, {<<"bad", "k">>},
                  <<CreateRel("f", "function", {<<"option", "f", "new">>, <<"returns", "f", "int">>}),
                    CreateTrigger("t", "s", {<<"option", "a", "new">>}), AddConstraint("t", "k", "c", {}, {})>>)
      [] n = "rows, then a constraint" ->
             Does(<<[Insert("values") EXCEPT !.on_conflict = "nothing"], Check, DropCon("t_u")>>,
                  TB \cup {<<"con", "t", "t_u">>, <<"contype", "t_u", "c">>}, {<<"bad", "k">>},
                  <<NewRows, AddConstraint("t", "k", "c", {}, {}), DropConstraint("t", "t_u")>>)
      [] n = "column renamed, then not null" ->
             Does(<<Rename("rename_column", "a", "b"), NotNull("b", FALSE)>>, TB, {},
                  <<RenameTo("t", {}, {}, "a", "b"), SetNotNull("t", "b")>>)
      [] n = "column dropped, then not null" -> Refuses(<<DropCol("a"), NotNull("a", FALSE)>>, TB)
      [] n = "constraint renamed, its old name dropped" ->
             Does(<<Rename("rename_constraint", "k", "l"), DropCon("k")>>, TB \cup K, {},
                  <<RenameTo("t", {}, {}, "k", "l")>>)
      [] n = "unique, then an upsert by it" ->
             Does(<<Unique, [Insert("values") EXCEPT !.on_conflict = "nothing", !.conflict_target = {"a"}]>>,
                  TB, {<<"dups", "a">>}, <<AddKey("t", "u", "u", {"a"}, {}), NewRows>>)
      [] n = "detach, then a key over the others" ->
             Does(<<Detach("p2"), Key("add_unique_constraint", "pt", "u", {"k"})>>, PT, {},
                  <<DetachPartition("pt", "p2", {})>> \o SubSeq(WantParts("u", "u"), 1, 3))
      [] n = "policy, then its change" ->
             Does(<<OnTable("create_policy", "s"),
                    [OnTable("alter_policy", "s") EXCEPT !.facts = {<<"option", "s", "new">>}, !.gone = {}]>>, TB, {},
                  <<AlterTable("t", {}, {<<"policy", "t", "s">>, <<"option", "a", "new">>, <<"option", "s", "new">>}, {})>>)
      [] n = "trigger, then off" ->
             Does(<<OnTable("create_trigger", "s"), [OnTable("set_trigger_state", "s") EXCEPT !.enabled = FALSE]>>,
                  TB, {},
                  <<CreateTrigger("t", "s", {<<"option", "a", "new">>}), AlterTable("t", {}, {<<"off", "s">>}, {})>>)
      [] n = "table renamed, then nullable" ->
             Does(<<Rename("rename_table", "", "z"), [OnTable("drop_not_null", "s") EXCEPT !.table = "z"]>>,
                  TB \cup {<<"notnull", "a">>}, {},
                  <<RenameTo("t", {}, {}, "t", "z"), AlterTable("z", {}, {}, {<<"notnull", "a">>})>>)
      [] n = "type, then a label" ->
             Does(<<Obj("create_type", "o"), Obj("add_enum_value", "o")>>, T, {},
                  <<CreateRel("o", "enum", {<<"option", "o", "new">>, <<"label", "o", "blue">>})>>)
      [] n = "a standby" -> Refuses(<<Check>>, TB \cup {<<"server", "standby">>})
      [] n = "a module that cannot be read" -> Refuses(<<Check>>, TB \cup {<<"unread", "citus">>})
      [] n = "a table that cannot be read" -> Refuses(<<Check>>, TB \cup {<<"blocked", "t">>})

ChainNames ==
    {"map tokens", "map to no dictionary", "new configuration", "table, index, rows",
     "partitioned table, partition", "filled column, its index", "filled columns, a key over one",
     "column renamed, its index", "index replaced", "type changed, then indexed",
     "not null, then the key", "another primary key", "index, then a walk by it",
     "detach, then drop", "function, then its trigger", "rows, then a constraint",
     "column renamed, then not null", "column dropped, then not null",
     "constraint renamed, its old name dropped", "unique, then an upsert by it",
     "detach, then a key over the others", "policy, then its change", "trigger, then off",
     "table renamed, then nullable", "type, then a label", "a standby",
     "a module that cannot be read", "a table that cannot be read"}

---------------------------------------------------------------------------
\* Where the code and what is said of it part, and so in no passing run: a
\* label used in the transaction that adds it; indexes left stale by a stop
\* after the new mapping; a bound that is proved and a partition that is read
\* all the same, its key being nullable; a column the retry finds NOT NULL,
\* which the intent that added it says is nullable; a partitioned index half
\* built.

Label == Obj("add_enum_value", "o")
UseLabel == [Insert("values") EXCEPT !.makes = {<<"rows", "t", "blue">>}, !.on_conflict = "nothing"]
TsIndex == IndexFacts("t", "tsi", {"a"}, FALSE) \cup {<<"uses", "tsi", "ts">>}

OpenScenarios(n) ==
    CASE n = "label, then a row with it" ->
             Does(<<Label, UseLabel>>, T \cup There("o", "enum"), {},
                  <<Alter("o", {}, {<<"label", "o", "blue">>}, {}),
                    WriteRows("t", {}, {<<"rows", "t", "blue">>}, {}, {})>>)
      [] n = "map tokens under an index" -> Does(<<Mapping("d2")>>, TB \cup Config \cup TsIndex, {}, <<WantMap>>)
      [] n = "attach by a nullable key" ->
             Does(<<Attach>>, PT \cup (Q \ {<<"notnull", "qk">>}), {}, <<AttachPartition("pt", "q", {}, {})>>)
      [] n = "column, not null, index" ->
             Does(<<AddCol("b", "", FALSE), NotNull("b", FALSE), Index("t", FALSE, "refuse")>>, TB, {},
                  <<NewColumn("b"), WantIndex("t", FALSE)>>)
      [] n = "index of a partitioned table" ->
             Does(<<IndexOn("pt", "k", "i")>>, PT, {},
                  <<[WantIndexOn("pt", "k", "i") EXCEPT !.adds = @ \cup {<<"only", "i">>}],
                    CreateIndex("p1", "p1_i", {"k"}, FALSE), AttachIndex("p1", "p1_i", "i"),
                    CreateIndex("p2", "p2_i", {"k"}, FALSE), AttachIndex("p2", "p2_i", "i")>>)

LabelNames == {"label, then a row with it"}
OpenNames == LabelNames \cup {"map tokens under an index", "attach by a nullable key",
                              "column, not null, index", "index of a partitioned table"}

---------------------------------------------------------------------------
MCNames ==
    ConstraintNames \cup KeyNames \cup RowNames \cup ColumnNames \cup IndexNames
        \cup TableNames \cup ObjectNames \cup ChainNames

ScenarioOf(n) ==
    CASE n \in ConstraintNames -> ConstraintScenarios(n)
      [] n \in KeyNames -> KeyScenarios(n)
      [] n \in RowNames -> RowScenarios(n)
      [] n \in ColumnNames -> ColumnScenarios(n)
      [] n \in IndexNames -> IndexScenarios(n)
      [] n \in TableNames -> TableScenarios(n)
      [] n \in ObjectNames -> ObjectScenarios(n)
      [] n \in ChainNames -> ChainScenarios(n)
      [] n \in OpenNames -> OpenScenarios(n)

\* Evaluated once.
Scenarios == [n \in MCNames \cup OpenNames |-> ScenarioOf(n)]

MCScenario(n) == Scenarios[n]

=============================================================================
