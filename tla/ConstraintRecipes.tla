-------------------------- MODULE ConstraintRecipes --------------------------
(***************************************************************************)
(* The recipes that put a rule on a table a live application writes to:    *)
(* the rule first, for new rows only, then the scan of the old ones under  *)
(* a lock nobody notices.                                                  *)
(***************************************************************************)
EXTENDS PlannerBase

\* plan_add_check_constraint
AddCheckOneStep(in) ==
    OwnTxn(<<Slowly(AddConstraint(in.table, in.name, "c", {}, {<<"bad", in.name>>}), {in.table})>>)

ValidateStep(in, rows) == OwnTxn(<<Validate(in.table, in.name, rows)>>)

\* Add for new rows unless an earlier attempt did, then validate.
AddThenValidate(in, obs, add, tables) ==
    CASE ConstraintState(obs, in.table, in.name) = "valid" -> Satisfied
      [] ConstraintState(obs, in.table, in.name) = "not valid" ->
             ValidateStep(in, {<<"bad", in.name>>})
      [] OTHER -> Briefly(OwnTxn(<<add>>), tables) \o ValidateStep(in, {<<"bad", in.name>>})

PlanAddCheckConstraint(in, obs) ==
    CASE ~Exists(obs, in.table) -> Conflict
      [] ValidatesInOneStep(obs, in.table) -> AddCheckOneStep(in)
      [] OTHER -> AddThenValidate(in, obs, AddNotValid(in.table, in.name, "c", {}), {in.table})

\* plan_add_foreign_key: writers of the referenced table are locked out too,
\* and the key it references cannot be dropped under it.
ForeignKey(in, add) ==
    [add EXCEPT !.needs = @ \cup {<<"rel", in.references_table>>},
                !.adds = @ \cup {<<"reads", in.name, in.references>>},
                !.also = {in.references_table}]

AddForeignKeyOneStep(in) ==
    OwnTxn(<<Slowly(ForeignKey(in, AddConstraint(in.table, in.name, "f", {}, {<<"bad", in.name>>})),
                    {in.table, in.references_table})>>)

PlanAddForeignKey(in, obs) ==
    CASE ~Exists(obs, in.table) -> Conflict
      [] ValidatesInOneStep(obs, in.table) -> AddForeignKeyOneStep(in)
      [] OTHER -> AddThenValidate(in, obs, ForeignKey(in, AddNotValid(in.table, in.name, "f", {})),
                                  {in.table, in.references_table})

\* plan_set_not_null: the check named after the column, NOT VALID and then
\* validated, so that SET NOT NULL has nothing to scan for.
CheckName(t, c) == t \o "_" \o c \o "_laswell_nn"

AddNotNullCheck(t, k, cols) ==
    Briefly(OwnTxn(<<AddNotValid(t, k, "c", {<<"proves", k, c>> : c \in cols})>>), {t})

ValidateNotNullCheck(t, k, cols) ==
    OwnTxn(<<Validate(t, k, {<<"nulls", c>> : c \in cols})>>)

\* Mutant: the check is not validated before SET NOT NULL.
NotNullRecipe_unvalidated(t, k, cols, set, have, keep) ==
    (IF have = "absent" THEN AddNotNullCheck(t, k, cols) ELSE <<>>)
        \o OwnTxn(set)
        \o (IF keep THEN <<>> ELSE OwnTxn(<<DropConstraint(t, k)>>))

NotNullRecipe(t, k, cols, set, have, keep) ==
    (IF have = "absent" THEN AddNotNullCheck(t, k, cols) ELSE <<>>)
        \o (IF have # "valid" THEN ValidateNotNullCheck(t, k, cols) ELSE <<>>)
        \o Briefly(OwnTxn(set), {t})
        \o (IF keep THEN <<>> ELSE Briefly(OwnTxn(<<DropConstraint(t, k)>>), {t}))

PlanSetNotNull(in, obs) ==
    LET t == in.table
        c == in.column
        k == CheckName(t, c)
    IN  CASE ~Exists(obs, t) \/ ~HasColumn(obs, t, c) -> Conflict
          [] <<"notnull", c>> \in obs -> Satisfied
          [] ValidatesInOneStep(obs, t) -> OwnTxn(<<Slowly(SetNotNull(t, c), {t})>>)
          [] OTHER -> NotNullRecipe(t, k, {c}, <<SetNotNull(t, c)>>,
                                    ConstraintState(obs, t, k), in.keep_check)

\* plan_drop_constraint: a foreign key that rests on it refuses it; dropping
\* a foreign key locks the table it references as well.
PlanDropConstraint(in, obs) ==
    CASE ~Exists(obs, in.table) -> Conflict
      [] <<"con", in.table, in.name>> \notin obs -> Satisfied
      [] ReadersOf(obs, {in.name}) # {} -> Conflict
      [] OTHER -> Txn(<<[DropConstraint(in.table, in.name)
                              EXCEPT !.also = ReferencedBy(obs, in.name)]>>)

=============================================================================
