----------------------------- MODULE RowRecipes -----------------------------
(***************************************************************************)
(* planner_dml.h: the intents that write rows.  An intent says which row   *)
(* facts it makes true (makes) and false (unmakes); keys and column lists  *)
(* are sets of columns.                                                    *)
(***************************************************************************)
EXTENDS KeyRecipes

\* What the recipes for rows share.

\* decide_pacing: small literal lists in one transaction, the rest in
\* batches when there is a key to walk by.
DecidePacing(in, key_available) ==
    LET want == IF in.paced # "default" THEN in.paced = "yes"
                ELSE in.form # "values" \/ in.many
    IN  want /\ key_available

\* row_target_ok
RowTargetOk(in, obs) ==
    /\ Exists(obs, in.table)
    /\ ~HasKind(obs, in.table, "view") /\ ~HasKind(obs, in.table, "matview")
    /\ in.key \subseteq ColumnsOf(obs, in.table)

\* refuse_unwritable_columns
RefuseUnwritableColumns(in, obs) ==
    \E c \in in.columns :
        \/ ~HasColumn(obs, in.table, c)
        \/ <<"generated", c>> \in obs
        \/ <<"always", c>> \in obs /\ in.overriding # "system"

\* refuse_duplicate_keys: twice says that a key is given two rows.
RefuseDuplicateKeys(in) ==
    in.form = "values" /\ in.key # {} /\ in.key \subseteq in.columns /\ in.twice

\* row_key_is_unique
RowKeyIsUnique(in, obs) ==
    IF Cardinality(in.key) = 1
    THEN \E c \in in.key : UniqueKeyIndex(obs, in.table, c) # {}
    ELSE \E i \in IndexesOf(obs, in.table) :
             ProvesKey(obs, in.table, i) /\ IndexColumns(obs, i) \subseteq in.key

\* Rows written with the values of a column that has a sequence leave it
\* behind them.
SequencesOf(in, obs) ==
    {f[3] : f \in {g \in obs : g[1] = "sequence" /\ g[2] \in in.columns}}

\* Mutant: not after rows written in batches.
EmitSequenceCatchup_whole(in, obs) ==
    IF DecidePacing(in, TRUE) THEN <<>>
    ELSE FoldLeft(LAMBDA acc, s : acc \o Txn(<<SetVal(s)>>), <<>>, SetToSeq(SequencesOf(in, obs)))

\* emit_sequence_catchup
EmitSequenceCatchup(in, obs) ==
    FoldLeft(LAMBDA acc, s : acc \o Txn(<<SetVal(s)>>), <<>>, SetToSeq(SequencesOf(in, obs)))

InsertsBehind(in, obs) == {<<"behind", s>> : s \in SequencesOf(in, obs)}

\* attach_pacing_detail: batches of the source, by the key (paced_statement
\* takes equal keys together, so the key need not be unique); or one
\* transaction.
PacedOrWhole(in, key_available, write) ==
    IF DecidePacing(in, key_available) THEN Batches(<<write>>)
    ELSE Txn(<<write>>)

---------------------------------------------------------------------------
\* plan_insert_rows

\* The unique index ON CONFLICT would use; a partial one only when the
\* intent states a predicate.
Arbiter(in, obs) ==
    \E i \in IndexesOf(obs, in.table) :
        /\ IsValid(obs, in.table, i) /\ <<"unique", i>> \in obs
        /\ <<"expression", i>> \notin obs
        /\ IndexColumns(obs, i) = in.conflict_target
        /\ in.conflict_where <=> <<"partial", i>> \in obs

UpdateColumns(in, target) ==
    IF in.update_columns # {} THEN in.update_columns ELSE in.columns \ target

PlanInsertRows(in, obs) ==
    CASE ~RowTargetOk(in, obs) -> Conflict
      [] RefuseUnwritableColumns(in, obs) \/ RefuseDuplicateKeys(in) -> Conflict
      [] in.on_conflict # "refuse" /\ ~Arbiter(in, obs) -> Conflict
      [] in.on_conflict = "update" /\ UpdateColumns(in, in.conflict_target) = {} -> Conflict
      [] OTHER ->
            PacedOrWhole(in, in.key # {},
                WriteRows(in.table, in.columns, in.makes \cup InsertsBehind(in, obs), in.unmakes,
                          IF in.on_conflict = "refuse" THEN in.makes ELSE {}))
                \o EmitSequenceCatchup(in, obs)

---------------------------------------------------------------------------
\* plan_update_rows and plan_delete_rows

PlanUpdateRows(in, obs) ==
    CASE ~RowTargetOk(in, obs) -> Conflict
      [] RefuseUnwritableColumns(in, obs) \/ RefuseDuplicateKeys(in) -> Conflict
      [] ~RowKeyIsUnique(in, obs) -> Conflict
      [] OTHER -> PlanPreserve(in)
                      \o PacedOrWhole(in, TRUE, WriteRows(in.table, in.columns, in.makes,
                                                          in.unmakes, {}))

\* The rows a predicate names are always deleted in batches, by value,
\* whatever "paced" says.
DeleteByPredicate(in, obs, write) ==
    IF RequiredConfinement(obs, in.table) # {} /\ RequiredConfinement(obs, in.table) = in.key
    THEN Conflict
    ELSE Batches(<<write>>)

PlanDeleteRows(in, obs) ==
    LET write == WriteRows(in.table, {}, in.makes, in.unmakes, {})
    IN  CASE ~RowTargetOk(in, obs) \/ RefuseDuplicateKeys(in) -> Conflict
          [] in.form = "where" -> PlanPreserve(in) \o DeleteByPredicate(in, obs, write)
          [] OTHER -> PlanPreserve(in) \o PacedOrWhole(in, TRUE, write)

---------------------------------------------------------------------------
\* plan_merge_rows and plan_copy_rows

\* Mutant: the version is not asked.
MergeNeedsNewer_unasked(in, obs) == DecidePacing(in, TRUE) \/ in.by_source = "delete"

\* MERGE ... RETURNING and WHEN NOT MATCHED BY SOURCE came with 17.
MergeNeedsNewer(in, obs) ==
    /\ <<"version", "before17">> \in obs
    /\ DecidePacing(in, TRUE) \/ in.by_source = "delete"

PlanMergeRows(in, obs) ==
    LET insert == in.not_matched = "insert"
        behind == IF insert THEN InsertsBehind(in, obs) ELSE {}
    IN  CASE ~RowTargetOk(in, obs) \/ RefuseDuplicateKeys(in) -> Conflict
          [] insert /\ RefuseUnwritableColumns(in, obs) -> Conflict
          [] ~RowKeyIsUnique(in, obs) \/ MergeNeedsNewer(in, obs) -> Conflict
          [] in.by_source = "delete" /\ DecidePacing(in, TRUE) -> Conflict
          [] in.matched = "update" /\ UpdateColumns(in, in.key) = {} -> Conflict
          [] OTHER -> PlanPreserve(in)
                          \o PacedOrWhole(in, TRUE, WriteRows(in.table, in.columns,
                                              in.makes \cup behind, in.unmakes, {}))
                          \o (IF insert THEN EmitSequenceCatchup(in, obs) ELSE <<>>)

\* COPY has no batch boundary and no ON CONFLICT.
PlanCopyRows(in, obs) ==
    CASE ~RowTargetOk(in, obs) \/ RefuseUnwritableColumns(in, obs) -> Conflict
      [] OTHER -> Txn(<<WriteRows(in.table, in.columns, in.makes \cup InsertsBehind(in, obs),
                                  in.unmakes, in.makes)>>)
                      \o EmitSequenceCatchup(in, obs)

=============================================================================
