----------------------------- MODULE Projection -----------------------------
(***************************************************************************)
(* project: what the planner takes the catalog to show once an intent it   *)
(* has just planned is applied, for the intents after it.  Several kinds   *)
(* are not projected, and several only in part: the definitions say what   *)
(* the code keeps, not what the statements will do.                        *)
(***************************************************************************)
EXTENDS ServerRecipes

Without(obs, tags, name) == {f \in obs : ~(f[1] \in tags /\ f[2] = name)}

\* An object that is there, or is not: nothing else is kept of it.
Present(obs, n, kind, more) == obs \cup {<<"rel", n>>, <<"kind", n, kind>>} \cup more
Absent(obs, n) == {f \in obs : ~Mentions(f, {n})}

Tagged(facts, tags) == {f \in facts : f[1] \in tags}

---------------------------------------------------------------------------
\* Objects that are not relations.

ProjectConfiguration(in, obs) ==
    IF in.kind = "create_object" THEN Present(obs, in.name, in.object_type, {<<"created", in.name>>})
    ELSE Absent(obs, in.name)

\* A dictionary that is not there yet does not count.
ProjectMapping(in, obs) ==
    IF <<"created", in.name>> \in obs THEN obs
    ELSE {f \in obs : ~(f[1] = "maps" /\ f[2] = in.name /\ f[3] \in in.tokens)}
             \cup {<<"maps", in.name, tk, d>> : tk \in in.tokens,
                                                d \in {e \in Wanted(in) : Exists(obs, e)}}

ObjectKinds ==
    {"create_schema", "create_extension", "create_type", "add_enum_value", "create_function",
     "create_sequence", "drop_schema", "drop_extension", "drop_type", "drop_function",
     "drop_sequence"}

ProjectObject(in, obs) ==
    CASE in.kind = "create_schema" -> Present(obs, in.name, "schema", {})
      [] in.kind = "create_extension" -> Present(obs, in.name, "extension", {<<"created", in.name>>})
      [] in.kind = "create_type" -> Present(obs, in.name, in.type_kind, Tagged(in.facts, {"label"}))
      [] in.kind = "add_enum_value" -> obs \cup {<<"label", in.name, in.value>>}
      [] in.kind = "create_function" ->
             Present(obs, in.name, "function", {<<"returns", in.name, in.returns>>})
      [] in.kind = "create_sequence" -> Present(obs, in.name, "sequence", {})
      [] OTHER -> Absent(obs, in.name)

---------------------------------------------------------------------------
\* Tables.

\* project_key_index: valid, unique and behind its constraint.
ProjectKeyIndex(t, k, cols) == IndexFacts(t, k, cols, TRUE)

ProjectColumn(obs, t, c, type, notnull) ==
    Without(obs, {"type", "notnull"}, c) \cup {<<"col", t, c>>, <<"type", c, type>>}
        \cup (IF notnull THEN {<<"notnull", c>>} ELSE {})

ProjectAlterColumn(in, obs) ==
    LET c == in.column
    IN  CASE in.kind = "set_not_null" -> obs \cup {<<"notnull", c>>}
          [] in.kind = "drop_not_null" -> obs \ {<<"notnull", c>>}
          [] in.kind = "alter_column_type" -> Without(obs, {"type"}, c) \cup {<<"type", c, in.type>>}

\* Only the column: an index or a constraint on it stays.
ProjectDropColumn(in, obs) ==
    Without(obs \ {<<"col", in.table, in.column>>}, {"type", "notnull"}, in.column)

\* Only the entry of that name: an index keeps the column's old name.
ProjectRenameColumn(in, obs) ==
    {IF f \in {<<"col", in.table, in.column>>} \/ (f[1] \in {"type", "notnull"} /\ f[2] = in.column)
     THEN Renamed(f, <<in.column, in.to>>) ELSE f : f \in obs}

\* A valid index, whatever was there under the name.
ProjectIndex(in, obs) ==
    Without(obs, {"invalid", "only", "on", "unique", "shape"}, in.name)
        \cup IndexFacts(in.table, in.name, in.columns, in.unique)
        \cup {<<"shape", in.name, in.shape>>}

ConstraintFacts == {"contype", "notvalid", "proves", "reads"}

ProjectConstraint(in, obs) ==
    LET obs1 == obs \cup {<<"con", in.table, in.name>>, <<"contype", in.name, ConType(in)>>}
    IN  CASE in.kind = "add_primary_key" ->
                 obs1 \cup {<<"notnull", c>> : c \in in.columns}
                      \cup ProjectKeyIndex(in.table, in.name, in.columns)
          [] in.kind = "add_unique_constraint" ->
                 obs1 \cup ProjectKeyIndex(in.table, in.name, in.columns)
          [] OTHER -> obs1

\* The constraint goes; the index behind it stays in the projection.
ProjectDropConstraint(in, obs) ==
    Without(obs \ {<<"con", in.table, in.name>>}, ConstraintFacts, in.name)

ProjectRenameConstraint(in, obs) ==
    {IF f = <<"con", in.table, in.name>> \/ (f[1] \in ConstraintFacts /\ f[2] = in.name)
     THEN Renamed(f, <<in.name, in.to>>) ELSE f : f \in obs}

\* The columns, the key's index and, for a partition, the parent's list.
ProjectTable(in, obs) ==
    LET key == {f[2] : f \in Tagged(in.facts, {"unique"})}
        default == in.bound = "DEFAULT"
    IN  Present(obs, in.table, in.relkind, Tagged(in.facts, {"col", "type", "notnull", "strategy"}))
            \cup {f \in in.facts : f[1] \in {"idx", "on", "unique"} /\ Mentions(f, key)}
            \cup (IF in.partition_of = "" THEN {} ELSE {<<"part", in.partition_of, in.table>>})
            \cup (IF default THEN {<<"default", in.partition_of, in.table>>} ELSE {})

\* The table's own entry moves; what other entries say of it does not.
ProjectRenameTable(in, obs) ==
    {IF f[1] \in {"rel", "kind", "col", "idx", "con", "trigger", "policy", "partkey", "rls", "forced"}
        /\ f[2] = in.table
     THEN Renamed(f, <<in.table, in.to>>) ELSE f : f \in obs}

ProjectSecurity(in, obs) ==
    LET flag(o, tag, on) == IF on THEN o \cup {<<tag, in.table>>} ELSE o \ {<<tag, in.table>>}
    IN  CASE in.kind = "set_row_security" ->
                 flag(flag(obs, "rls", in.enabled), "forced", in.force)
          [] in.kind = "create_policy" -> obs \cup {<<"policy", in.table, in.name>>}
          [] in.kind = "drop_policy" -> obs \ {<<"policy", in.table, in.name>>}
          [] in.kind = "set_trigger_state" ->
                 IF in.enabled THEN obs \ {<<"off", in.trigger>>} ELSE obs \cup {<<"off", in.trigger>>}
          [] in.kind = "create_trigger" ->
                 (obs \ {<<"off", in.name>>}) \cup {<<"trigger", in.table, in.name>>}
          [] in.kind = "drop_trigger" -> obs \ {<<"trigger", in.table, in.name>>}
          [] OTHER -> obs

ProjectPartition(in, obs) ==
    IF in.kind = "attach_partition" THEN obs \cup {<<"part", in.table, in.partition>>}
    ELSE obs \ {<<"part", in.table, in.partition>>}

---------------------------------------------------------------------------
\* project.  The kinds that name no table and no object return before the
\* switch: views and materialized views are among them.

Project(in, obs) ==
    CASE in.kind \in {"create_object", "drop_object"} ->
             IF in.object_type = "tsconfig" THEN ProjectConfiguration(in, obs) ELSE obs
      [] in.kind \in ObjectKinds -> ProjectObject(in, obs)
      [] in.kind = "set_text_search_mapping" -> ProjectMapping(in, obs)
      [] in.kind = "add_column" -> ProjectColumn(obs, in.table, in.column, in.type, ~in.nullable)
      [] in.kind \in {"set_not_null", "drop_not_null", "alter_column_type"} -> ProjectAlterColumn(in, obs)
      [] in.kind = "drop_column" -> ProjectDropColumn(in, obs)
      [] in.kind = "rename_column" -> ProjectRenameColumn(in, obs)
      [] in.kind = "create_index" -> ProjectIndex(in, obs)
      [] in.kind = "drop_index" -> Absent(obs, in.name)
      [] in.kind \in {"add_primary_key", "add_unique_constraint", "add_exclusion_constraint"} ->
             ProjectConstraint(in, obs)
      [] in.kind = "drop_constraint" -> ProjectDropConstraint(in, obs)
      [] in.kind = "rename_constraint" -> ProjectRenameConstraint(in, obs)
      [] in.kind = "create_table" -> ProjectTable(in, obs)
      [] in.kind = "create_table_as" -> Present(obs, in.table, "table", {})
      [] in.kind = "drop_table" -> Absent(obs, in.table)
      [] in.kind = "rename_table" -> ProjectRenameTable(in, obs)
      [] in.kind \in {"attach_partition", "detach_partition"} -> ProjectPartition(in, obs)
      [] in.kind \in {"set_row_security", "create_policy", "drop_policy", "set_trigger_state",
                      "create_trigger", "drop_trigger"} -> ProjectSecurity(in, obs)
      [] OTHER -> obs

=============================================================================
