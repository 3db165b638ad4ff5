------------------------------- MODULE Planner -------------------------------
(***************************************************************************)
(* plan_migration: the intents of a specification in order, each planned   *)
(* against what the ones before it will leave, and the steps put into      *)
(* transactions.                                                           *)
(***************************************************************************)
EXTENDS Projection, PlanGroups

\* The dispatch on an intent's kind, add_column aside.
PlanTableIntent(in, obs) ==
    CASE in.kind = "create_index" -> PlanCreateIndex(in, obs)
      [] in.kind = "backfill" -> PlanBackfill(in, obs)
      [] in.kind = "drop_index" -> PlanDropIndex(in, obs)
      [] in.kind = "set_not_null" -> PlanSetNotNull(in, obs)
      [] in.kind = "add_foreign_key" -> PlanAddForeignKey(in, obs)
      [] in.kind = "add_exclusion_constraint" -> PlanAddExclusionConstraint(in, obs)
      [] in.kind = "set_text_search_mapping" -> PlanSetTextSearchMapping(in, obs)
      [] in.kind = "add_check_constraint" -> PlanAddCheckConstraint(in, obs)
      [] in.kind = "drop_constraint" -> PlanDropConstraint(in, obs)
      [] in.kind = "alter_column_type" -> PlanAlterColumnType(in, obs)
      [] in.kind = "drop_column" -> PlanDropColumn(in, obs)
      [] in.kind = "replace_view" -> PlanReplaceView(in, obs)
      [] in.kind \in {"add_unique_constraint", "add_primary_key"} -> PlanUniqueLike(in, obs)
      [] in.kind = "attach_partition" -> PlanAttachPartition(in, obs)
      [] in.kind = "detach_partition" -> PlanDetachPartition(in, obs)
      [] in.kind \in {"rename_table", "rename_column", "rename_constraint"} -> PlanRename(in, obs)
      [] in.kind = "create_table" -> PlanCreateTable(in, obs)
      [] in.kind = "drop_table" -> PlanDropTable(in, obs)

PlanRowsIntent(in, obs) ==
    CASE in.kind = "delete_rows" -> PlanDeleteRows(in, obs)
      [] in.kind = "insert_rows" -> PlanInsertRows(in, obs)
      [] in.kind = "update_rows" -> PlanUpdateRows(in, obs)
      [] in.kind = "merge_rows" -> PlanMergeRows(in, obs)
      [] in.kind = "copy_rows" -> PlanCopyRows(in, obs)

PlanServerIntent(in, obs) ==
    CASE in.kind \in {"create_object", "drop_object"} -> PlanGenericObject(in)
      [] in.kind = "alter_object" -> AlterObject(in)
      [] in.kind = "create_table_as" -> CreateTableAs(in, obs)
      [] in.kind = "import_foreign_schema" -> ImportForeignSchema(in)
      [] in.kind = "security_label" -> SecurityLabel(in)
      [] in.kind = "alter_default_privileges" -> AlterDefaultPrivileges(in)
      [] in.kind = "create_materialized_view" -> CreateMaterializedView(in, obs)
      [] in.kind = "create_statistics" -> CreateStatistics(in, obs)
      [] in.kind = "drop_statistics" -> DropStatistics(in)
      [] in.kind = "create_rule" -> CreateRule(in, obs)
      [] in.kind = "drop_rule" -> DropRule(in)

PlanAlterMisc(in, obs) ==
    CASE in.kind = "alter_column_default" -> AlterColumnDefault(in, obs)
      [] in.kind = "drop_not_null" -> DropNotNull(in, obs)
      [] in.kind = "alter_sequence" -> AlterSequence(in, obs)
      [] in.kind = "alter_schema" -> AlterSchema(in, obs)
      [] in.kind = "alter_extension" -> AlterExtension(in, obs)
      [] in.kind = "alter_domain" -> AlterDomain(in, obs)
      [] in.kind = "alter_function" -> AlterFunction(in, obs)
      [] in.kind = "alter_view" -> AlterView(in, obs)
      [] in.kind = "alter_policy" -> AlterPolicy(in, obs)
      [] in.kind = "set_comment" -> SetComment(in)
      [] in.kind = "set_owner" -> SetOwner(in)

PlanObject(in, obs) ==
    CASE in.kind = "create_schema" -> CreateSchema(in, obs)
      [] in.kind = "drop_schema" -> DropSchema(in, obs)
      [] in.kind = "create_extension" -> CreateExtension(in, obs)
      [] in.kind = "drop_extension" -> DropExtension(in, obs)
      [] in.kind = "create_type" -> CreateType(in, obs)
      [] in.kind = "drop_type" -> DropType(in, obs)
      [] in.kind = "add_enum_value" -> AddEnumValue(in, obs)
      [] in.kind = "create_function" -> CreateFunction(in, obs)
      [] in.kind = "drop_function" -> DropFunction(in, obs)
      [] in.kind = "create_sequence" -> CreateSequence(in, obs)
      [] in.kind = "drop_sequence" -> DropSequence(in, obs)
      [] in.kind = "drop_view" -> DropView(in, obs)

ReplicationKinds == {"create_publication", "alter_publication", "drop_publication",
                     "create_subscription", "alter_subscription", "drop_subscription"}
PhysicalKinds == {"set_identity", "drop_expression", "set_column_options", "set_table_options",
                  "set_logged", "set_tablespace", "set_access_method", "set_replica_identity",
                  "cluster_on"}
SecurityKinds == {"create_trigger", "drop_trigger", "set_row_security", "create_policy",
                  "drop_policy", "set_trigger_state", "grant", "revoke"}
RowKinds == {"delete_rows", "insert_rows", "update_rows", "merge_rows", "copy_rows"}
ServerKinds == {"create_object", "drop_object", "alter_object", "create_table_as",
                "import_foreign_schema", "security_label", "alter_default_privileges",
                "create_materialized_view", "create_statistics", "drop_statistics",
                "create_rule", "drop_rule"}
AlterKinds == {"alter_column_default", "drop_not_null", "alter_sequence", "alter_schema",
               "alter_extension", "alter_domain", "alter_function", "alter_view",
               "alter_policy", "set_comment", "set_owner"}

PlanIntent(in, obs) ==
    CASE in.kind \in ReplicationKinds -> PlanReplication(in)
      [] in.kind \in PhysicalKinds -> PlanPhysical(in, obs)
      [] in.kind \in SecurityKinds -> PlanSecurity(in, obs)
      [] in.kind \in RowKinds -> PlanRowsIntent(in, obs)
      [] in.kind \in ServerKinds -> PlanServerIntent(in, obs)
      [] in.kind \in AlterKinds -> PlanAlterMisc(in, obs)
      [] in.kind \in ObjectKinds \cup {"drop_view"} -> PlanObject(in, obs)
      [] OTHER -> PlanTableIntent(in, obs)

---------------------------------------------------------------------------
\* append_creation_comment: on the last step that has a statement to run.

Commented == {"add_foreign_key", "add_check_constraint", "add_unique_constraint",
              "add_primary_key", "add_exclusion_constraint", "create_trigger", "create_policy",
              "create_rule", "create_extension", "create_publication", "create_subscription"}

AppendCreationComment(in, steps) ==
    LET comment == [Nothing EXCEPT !.op = "comment", !.adds = {<<"comment", in.name>>}]
        last == Max({0} \cup {i \in DOMAIN steps : /\ steps[i].action = "apply" /\ steps[i].sql # <<>>
                                                  /\ steps[i].sql[1].op # "verify"})
    IN  IF "comment" \notin DOMAIN in \/ in.kind \notin Commented \/ last = 0 THEN steps
        ELSE [steps EXCEPT ![last].sql = Append(@, comment)]

---------------------------------------------------------------------------
\* The loop over the intents: the steps so far, what the catalog will show,
\* and the add_columns an earlier one of their group planned.

PlanEmitted(spec, obs, i, led) ==
    CASE i \in led -> Satisfied
      [] spec[i].kind = "add_column" ->
             LET group == FilledColumnGroup(spec, i)
             IN  PlanAddColumns(IF group = <<>> THEN <<spec[i]>> ELSE group, obs)
      [] OTHER -> PlanIntent(spec[i], obs)

\* The other columns of a group are there, and NOT NULL, once it applies.
ProjectGroup(spec, obs, i, members, steps) ==
    IF ~Applies(steps) THEN obs
    ELSE FoldLeft(LAMBDA o, j : ProjectColumn(o, spec[j].table, spec[j].column, spec[j].type, TRUE),
                  obs, SetToSeq(members))

PlanNext(spec, acc, i) ==
    LET emitted == PlanEmitted(spec, acc.obs, i, acc.led)
        members == IF i \in acc.led THEN {}
                   ELSE (i + 1) .. (i + Len(FilledColumnGroup(spec, i)) - 1)
        locked == TakeWeakerLockFirst(spec[i], acc.obs, emitted)
        steps == AppendCreationComment(spec[i], locked)
        obs == ProjectGroup(spec, acc.obs, i, members, emitted)
    IN  [steps |-> acc.steps \o steps,
         obs |-> IF steps # <<>> /\ steps[1].action = "apply" THEN Project(spec[i], obs) ELSE obs,
         led |-> acc.led \cup members]

\* Refused before the first intent is planned: the server is too old for
\* the specification or a standby, a module could not read its catalog, a
\* table could not be read for a lock on it.
Unplannable(spec, obs) ==
    \/ {<<"server", "too old">>, <<"server", "standby">>} \cap obs # {}
    \/ \E f \in obs : f[1] = "unread"
    \/ \E i \in DOMAIN spec : "table" \in DOMAIN spec[i] /\ <<"blocked", spec[i].table>> \in obs

\* The check that follows an index build, of the index it makes.
VerifyBuilt(step) ==
    LET made == UNION {step.sql[i].adds : i \in DOMAIN step.sql}
        f == CHOOSE g \in made : g[1] = "idx"
    IN  <<VerifyValid(f[2], f[3])>>

Grouped(steps) ==
    FlattenSeq([i \in DOMAIN steps |->
        LET step == [class |-> steps[i].class, group |-> TxnGroup(steps, i), sql |-> steps[i].sql,
                     retry |-> steps[i].retry, first |-> steps[i].first]
        IN  CASE steps[i].action # "apply" \/ steps[i].sql = <<>> -> <<>>
              [] steps[i].class = "build" ->
                     <<step, [step EXCEPT !.class = "verify", !.sql = VerifyBuilt(steps[i])]>>
              [] OTHER -> <<step>>])

PlanMigration(spec, obs) ==
    LET all == FoldLeft(LAMBDA acc, i : PlanNext(spec, acc, i),
                        [steps |-> <<>>, obs |-> obs, led |-> {}], [i \in DOMAIN spec |-> i])
    IN  IF Unplannable(spec, obs) THEN [ok |-> FALSE, steps |-> <<>>]
        ELSE [ok |-> ~Conflicts(all.steps), steps |-> Grouped(all.steps)]

=============================================================================
