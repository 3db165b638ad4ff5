---------------------------- MODULE ColumnRecipes ----------------------------
(***************************************************************************)
(* The recipes that add, change and remove columns.                        *)
(***************************************************************************)
EXTENDS RowRecipes

\* plan_add_column_plain: one catalog change, or the reason there is none.
\* In the intent, default says there is one and fill where the values of a
\* column without one come from ("" nowhere).
ExistingColumn(in, obs) ==
    CASE in.type # "" /\ <<"type", in.column, in.type>> \notin obs -> Conflict
      [] <<"notnull", in.column>> \in obs /\ in.nullable -> Conflict
      [] OTHER -> Satisfied

AddColumnStatement(in) ==
    LET add == AddColumn(in.table, in.column, in.type, in.default)
    IN  IF in.nullable THEN add ELSE [add EXCEPT !.adds = @ \cup {<<"notnull", in.column>>}]

PlanAddColumnPlain(in, obs) ==
    CASE ~Exists(obs, in.table) -> Conflict
      [] HasColumn(obs, in.table, in.column) -> ExistingColumn(in, obs)
      [] ~in.nullable /\ ~in.default -> Conflict
      [] OTHER -> Txn(<<AddColumnStatement(in)>>)

---------------------------------------------------------------------------
\* filled_column_group: adjacent intents one trigger and one walk can fill.

FilledTogether(lead, next) ==
    /\ next.kind = "add_column" /\ next.fill # ""
    /\ next.default = lead.default /\ next.table = lead.table
    /\ next.after = lead.after /\ next.key = lead.key /\ next.paced = lead.paced

Entangled(group, next) ==
    \E i \in DOMAIN group : group[i].column = next.fill \/ group[i].fill = next.column

FilledColumnGroup(intents, first) ==
    LET fits(n) == \A i \in first + 1 .. n :
                       /\ FilledTogether(intents[first], intents[i])
                       /\ ~Entangled(SubSeq(intents, first, i - 1), intents[i])
        last == CHOOSE n \in first .. Len(intents) :
                    fits(n) /\ (n = Len(intents) \/ ~fits(n + 1))
    IN  IF intents[first].kind # "add_column" \/ intents[first].fill = "" THEN <<>>
        ELSE SubSeq(intents, first, last)

---------------------------------------------------------------------------
\* plan_add_columns_filled: nullable with a trigger for new rows, the walk
\* for old ones, NOT NULL last.

Filler(group) == group[1].table \o "_" \o group[1].column \o "_laswell_fill"

Columns(group) == {group[i].column : i \in DOMAIN group}

\* The columns that are not there, and those not yet NOT NULL.
Missing(group, obs) == SelectSeq(group, LAMBDA in : ~HasColumn(obs, in.table, in.column))
Pending(group, obs) == SelectSeq(group, LAMBDA in : <<"notnull", in.column>> \notin obs)

OtherType(group, obs) ==
    \E i \in DOMAIN group :
        /\ HasColumn(obs, group[i].table, group[i].column) /\ group[i].type # ""
        /\ <<"type", group[i].column, group[i].type>> \notin obs

WalkKey(in, obs) ==
    LET keys == IF in.key # {} THEN in.key ELSE DefaultFillKey(obs, in.table)
    IN  IF keys = {} THEN "" ELSE CHOOSE k \in keys : TRUE

DropFiller(group) ==
    Briefly(OwnTxn(<<DropTrigger(group[1].table, Filler(group))>>), {group[1].table})

\* Step 1: the columns that are missing and the trigger.
AddAndFill(group, obs) ==
    LET t == group[1].table
        g == Filler(group)
        cols == [i \in DOMAIN Missing(group, obs) |->
                    AddColumn(t, Missing(group, obs)[i].column, Missing(group, obs)[i].type, FALSE)]
        function == [Nothing EXCEPT !.op = "create function",
                        !.adds = {<<"fills", g, c>> : c \in Columns(group)}]
        has_trigger == <<"trigger", t, g>> \in obs
    IN  IF Missing(group, obs) = <<>> /\ has_trigger THEN <<>>
        ELSE Briefly(OwnTxn(cols \o <<function>>
                                \o (IF has_trigger THEN <<>> ELSE <<CreateTrigger(t, g, {})>>)), {t})

DoAll(db, stmts) == FoldLeft(Do, db, stmts)

\* The catalog as step 1 leaves it.
AfterAdd(group, obs) ==
    DoAll(obs, FoldLeft(LAMBDA acc, s : acc \o s.sql, <<>>, AddAndFill(group, obs))) \
        {<<"nulls", c>> : c \in Columns(group)}

\* The walk over the rows still NULL; the passes of several sources, and
\* the one statement of "paced": false, come to the same rows.
FillPending(group, obs, key) ==
    LET cols == Columns(Pending(group, obs))
    IN  PlanBackfill([table |-> group[1].table, columns |-> cols, walk_key |-> key,
                      makes |-> {}, unmakes |-> {<<"nulls", c>> : c \in cols},
                      preserve |-> ""], AfterAdd(group, obs))

\* One check for all the columns, unless there is one column or a module
\* allows no separate validation.
NotNullPending(group, obs) ==
    LET t == group[1].table
        pending == Pending(group, obs)
        k == CheckName(t, group[1].column)
    IN  IF Len(pending) > 1 /\ ~ValidatesInOneStep(obs, t)
        THEN NotNullRecipe(t, k, Columns(pending),
                           [i \in DOMAIN pending |-> SetNotNull(t, pending[i].column)],
                           ConstraintState(obs, t, k), FALSE)
        ELSE FoldLeft(LAMBDA acc, in : acc \o PlanSetNotNull(
                          [kind |-> "set_not_null", table |-> t, column |-> in.column,
                           keep_check |-> FALSE], AfterAdd(group, obs)),
                      <<>>, pending)

PlanAddColumnsFilled(group, obs) ==
    LET in == group[1]
        drop == IF in.after = "drop_trigger" THEN DropFiller(group) ELSE <<>>
        fill == FillPending(group, obs, WalkKey(in, obs))
    IN  CASE ~Exists(obs, in.table) \/ OtherType(group, obs) -> Conflict
          [] Pending(group, obs) = <<>> ->
                 IF drop # <<>> /\ <<"trigger", in.table, Filler(group)>> \in obs
                 THEN drop ELSE Satisfied
          [] WalkKey(in, obs) = "" -> Conflict
          [] Conflicts(fill) -> AddAndFill(group, obs) \o fill
          [] OTHER -> AddAndFill(group, obs) \o fill \o NotNullPending(group, obs) \o drop

---------------------------------------------------------------------------
\* plan_defaulted_fill: NOT NULL with a default from the first step; the
\* walk writes the rows whose value is not the default.

DefaultedFill(group, obs) ==
    LET in == group[1]
        key == WalkKey(in, obs)
    IN  IF key = "" THEN Conflict
        ELSE PlanBackfill([table |-> in.table, columns |-> Columns(group), walk_key |-> key,
                           makes |-> {<<"rows", in.table, c>> : c \in Columns(group)},
                           unmakes |-> {}, preserve |-> ""], obs)

\* plan_add_columns_defaulted
PlanAddColumnsDefaulted(group, obs) ==
    LET plain == FoldLeft(LAMBDA acc, in : acc \o PlanAddColumnPlain(in, obs), <<>>, group)
        after == obs \cup UNION {{<<"col", in.table, in.column>>, <<"type", in.column, in.type>>,
                                  <<"notnull", in.column>>} : in \in ToSet(group)}
    IN  IF Conflicts(plain) THEN plain ELSE plain \o DefaultedFill(group, after)

\* plan_add_column, and the group it leads.
PlanAddColumns(group, obs) ==
    CASE group[1].fill # "" /\ group[1].default -> PlanAddColumnsDefaulted(group, obs)
      [] group[1].fill # "" -> PlanAddColumnsFilled(group, obs)
      [] OTHER -> PlanAddColumnPlain(group[1], obs)

=============================================================================
