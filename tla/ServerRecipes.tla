---------------------------- MODULE ServerRecipes ----------------------------
(***************************************************************************)
(* The kinds that read little or nothing before they act: replication, the *)
(* physical properties of a table, objects PostgreSQL has and the planner  *)
(* has no decision for; and the mapping of a text search configuration.    *)
(***************************************************************************)
EXTENDS ObjectRecipes

\* plan_replication
CreatePublication(in) == Txn(<<CreateRel(in.name, "publication", in.facts)>>)
AlterPublication(in) == Txn(<<Alter(in.name, {}, in.facts, in.gone)>>)
DropPublication(in) == Txn(<<DropRel(in.name)>>)

\* A subscription that connects makes a slot on the publisher, which no
\* transaction here can take back.
CreateSubscription(in) ==
    LET create == CreateRel(in.name, "subscription", in.facts)
    IN  IF in.connect
        THEN Outside(<<[create EXCEPT !.adds = @ \cup {<<"slot", in.name>>}]>>)
        ELSE Txn(<<create>>)

AlterSubscription(in) == Txn(<<Alter(in.name, {}, in.facts, in.gone)>>)
DropSubscription(in) == Outside(<<[DropRel(in.name) EXCEPT !.dels = {<<"slot", in.name>>}]>>)

PlanReplication(in) ==
    CASE in.kind = "create_publication" -> CreatePublication(in)
      [] in.kind = "alter_publication" -> AlterPublication(in)
      [] in.kind = "drop_publication" -> DropPublication(in)
      [] in.kind = "create_subscription" -> CreateSubscription(in)
      [] in.kind = "alter_subscription" -> AlterSubscription(in)
      [] in.kind = "drop_subscription" -> DropSubscription(in)

---------------------------------------------------------------------------
\* plan_final_kinds, plan_generic_object and plan_relation_extras

AlterObject(in) == RenameAndAlter(in)

\* Filled as it is created, in a transaction of its own.
CreateFilled(in, obs, n, kind) ==
    CASE Exists(obs, n) -> Satisfied
      [] in.with_data -> OwnTxn(<<CreateRel(n, kind, in.facts), CommentOn(n)>>)
      [] OTHER -> Txn(<<CreateRel(n, kind, in.facts), CommentOn(n)>>)

CreateTableAs(in, obs) == CreateFilled(in, obs, in.table, "table")
CreateMaterializedView(in, obs) == CreateFilled(in, obs, in.name, "matview")

ImportForeignSchema(in) == OwnTxn(<<Alter(in.name, {}, in.facts, {})>>)
SecurityLabel(in) == Txn(<<Alter(in.name, {}, in.facts, in.gone)>>)
AlterDefaultPrivileges(in) == Txn(<<[Nothing EXCEPT !.op = "alter", !.adds = in.facts, !.dels = in.gone]>>)

PlanGenericObject(in) ==
    IF in.kind = "create_object" THEN Txn(<<CreateRel(in.name, in.object_type, in.facts)>>)
    ELSE Txn(<<DropRel(in.name)>>)

\* Statistics and rules belong to their table.
CreateStatistics(in, obs) ==
    IF ~Exists(obs, in.table) \/ ~(in.columns \subseteq ColumnsOf(obs, in.table)) THEN Conflict
    ELSE Txn(<<[CreateRel(in.name, "statistics", {<<"on", in.name, c>> : c \in in.columns})
                  EXCEPT !.needs = {<<"rel", in.table>>}]>>)

CreateRule(in, obs) ==
    IF ~Exists(obs, in.table) THEN Conflict
    ELSE Txn(<<[AlterTable(in.table, {}, {<<"rel", in.name>>, <<"kind", in.name, "rule">>,
                                          <<"on", in.name, in.table>>}, {})
                  EXCEPT !.lacks = {<<"rel", in.name>>}]>>)

DropStatistics(in) == Txn(<<DropRel(in.name)>>)
DropRule(in) == Txn(<<[DropRel(in.name) EXCEPT !.xlock = {in.table}]>>)

---------------------------------------------------------------------------
\* plan_physical

\* An identity column is NOT NULL, and gets there by the recipe for that.
SetIdentity(in, obs) ==
    LET t == in.table
        c == in.column
    IN  IF in.identity = "" THEN Txn(<<AlterTable(t, {<<"identity", c>>}, {}, {<<"identity", c>>})>>)
        ELSE (IF <<"notnull", c>> \in obs THEN <<>>
              ELSE PlanSetNotNull([kind |-> "set_not_null", table |-> t, column |-> c,
                                   keep_check |-> FALSE], obs))
             \o OwnTxn(<<[AlterTable(t, {<<"notnull", c>>}, {<<"identity", c>>}, {})
                            EXCEPT !.lacks = {<<"identity", c>>}]>>)

DropExpression(in) ==
    Txn(<<AlterTable(in.table, {<<"generated", in.column>>}, {}, {<<"generated", in.column>>})>>)

\* The kinds that only set what the intent says.  A column's statistics target
\* alone would lock less; storage and compression take the lock given here.
SetProperties(in) == Txn(<<AlterTable(in.table, {}, in.facts, in.gone)>>)

SetColumnOptions(in) == SetProperties(in)
SetTableOptions(in) == Txn(<<[AlterTable(in.table, {}, in.facts, in.gone) EXCEPT !.xlock = {}]>>)
SetReplicaIdentity(in) == SetProperties(in)
ClusterOn(in) == Txn(<<[AlterTable(in.table, {}, in.facts, in.gone) EXCEPT !.xlock = {}]>>)

\* The kinds that rewrite the table, and say so: nothing shortens it.
Rewrite(in) ==
    OwnTxn(<<[AlterTable(in.table, {}, in.facts, in.gone)
                EXCEPT !.op = "rewrite", !.scan = {<<in.table, "rows">>}, !.slow = {in.table}]>>)

SetLogged(in) == Rewrite(in)
SetTablespace(in) == Rewrite(in)
SetAccessMethod(in) == Rewrite(in)

PlanPhysical(in, obs) ==
    CASE ~Exists(obs, in.table) -> Conflict
      [] in.column # "" /\ ~HasColumn(obs, in.table, in.column) -> Conflict
      [] in.kind = "set_identity" -> SetIdentity(in, obs)
      [] in.kind = "drop_expression" -> DropExpression(in)
      [] in.kind = "set_column_options" -> SetColumnOptions(in)
      [] in.kind = "set_table_options" -> SetTableOptions(in)
      [] in.kind = "set_logged" -> SetLogged(in)
      [] in.kind = "set_tablespace" -> SetTablespace(in)
      [] in.kind = "set_access_method" -> SetAccessMethod(in)
      [] in.kind = "set_replica_identity" -> SetReplicaIdentity(in)
      [] in.kind = "cluster_on" -> ClusterOn(in)

---------------------------------------------------------------------------
\* plan_set_text_search_mapping: the mapping of one configuration, and the
\* indexes built with it.  in.dictionary is "" to map the tokens to nothing.

\* Each index built with the configuration, and its table.
BuiltWith(obs, config) ==
    {<<f[2], f[3]>> : f \in {g \in obs : g[1] = "idx" /\ <<"uses", g[3], config>> \in obs}}

\* What each of the tokens maps to now.
Mapped(obs, config, token) ==
    {f[4] : f \in {g \in obs : g[1] = "maps" /\ g[2] = config /\ g[3] = token}}

Wanted(in) == IF in.dictionary = "" THEN {} ELSE {in.dictionary}

\* A dictionary that is not there, and cannot come with an extension this
\* specification creates.
Unresolved(in, obs) ==
    /\ \E d \in Wanted(in) : ~Exists(obs, d)
    /\ \A f \in obs : f[1] = "created" => ~HasKind(obs, f[2], "extension")

\* The tokens whose mapping is another.
Remapped(in, obs) == {tk \in in.tokens : Mapped(obs, in.name, tk) # Wanted(in)}

AlterMapping(in, obs) ==
    Alter(in.name, {<<"rel", d>> : d \in Wanted(in)},
          {<<"maps", in.name, tk, d>> : tk \in Remapped(in, obs), d \in Wanted(in)}
              \cup {<<"stale", e[2]>> : e \in BuiltWith(obs, in.name)},
          {f \in obs : f[1] = "maps" /\ f[2] = in.name /\ f[3] \in Remapped(in, obs)})

\* A configuration this specification creates: dropped if it was copied,
\* then added, and nothing is built with it yet.
MapNew(in, obs) ==
    Txn(<<Alter(in.name, {}, {<<"maps", in.name, tk, d>> : tk \in in.tokens, d \in Wanted(in)},
                {f \in obs : f[1] = "maps" /\ f[2] = in.name /\ f[3] \in in.tokens})>>)

\* The indexes a module lets be rebuilt concurrently.
RebuildIndexes(in, obs) ==
    FoldLeft(LAMBDA acc, e : acc \o Outside(<<Reindex(e[1], e[2])>>)
                                 \o Txn(<<VerifyValid(e[1], e[2])>>),
             <<>>, SetToSeq({e \in BuiltWith(obs, in.name) : ~NoConcurrent(obs, e[1])}))

PlanSetTextSearchMapping(in, obs) ==
    CASE ~Exists(obs, in.name) -> Conflict
      [] <<"created", in.name>> \in obs -> MapNew(in, obs)
      [] Unresolved(in, obs) -> Conflict
      [] \E tk \in in.tokens : <<"token", in.name, tk>> \notin obs -> Conflict
      [] Remapped(in, obs) = {} -> Satisfied
      [] OTHER -> OwnTxn(<<AlterMapping(in, obs)>>) \o RebuildIndexes(in, obs)

=============================================================================
