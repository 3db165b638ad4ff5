----------------------------- MODULE ViewRecipes -----------------------------
(***************************************************************************)
(* Views in the way of a column: which to drop, in which order, and what   *)
(* to put back; and the recipes that do it.                                *)
(***************************************************************************)
EXTENDS ColumnRecipes

IsView(obs, v) == HasKind(obs, v, "view") \/ HasKind(obs, v, "matview")

ViewsReading(obs, names) == {v \in ReadersOf(obs, names) : IsView(obs, v)}

\* dependent_views: every view above a table, at its greatest depth.
DependentViews(obs, t) ==
    LET more(views) == views \cup ViewsReading(obs, views)
    IN  more(more(more(ViewsReading(obs, {t} \cup ColumnsOf(obs, t)))))

ViewLevel(obs, views) ==
    LET level[v \in views] ==
            1 + Max({0} \cup {level[w] : w \in {x \in views : <<"reads", v, x>> \in obs}})
    IN  level

\* views_to_rebuild: the ones that use the column and the ones above those,
\* the deepest first.
ViewsToRebuild(obs, t, c) ==
    LET views == DependentViews(obs, t)
        more(some) == some \cup (ViewsReading(obs, some) \cap views)
        affected == more(more(more(ViewsReading(obs, {c}) \cap views)))
        level == ViewLevel(obs, views)
    IN  SetToSortSeq(affected, LAMBDA v, w : level[v] > level[w])

\* emit_view_drops
EmitViewDrops(order) == [i \in DOMAIN order |-> DropRel(order[i])]

\* Mutant: the grants are forgotten.
Restored_ungranted == {"rel", "kind", "reads", "owner", "option", "idx", "on", "unique", "comment",
                       "trigger"}

\* What of a view the catalog reading carries and the rebuild restores: its
\* definition, owner, options, indexes, comments, grants and triggers.
Restored == {"rel", "kind", "reads", "owner", "option", "idx", "on", "unique", "comment",
             "grant", "trigger"}

\* emit_view_recreates
RecreateView(obs, v) ==
    LET own == Gone(obs, {v})
        facts == {f \in obs : f[1] \in Restored /\ f[2] \in own}
    IN  [CreateRel(v, "view", {}) EXCEPT
            !.needs = {<<"rel", f[3]>> : f \in {g \in facts : g[1] = "reads" /\ Exists(obs, g[3])}},
            !.adds = facts]

EmitViewRecreates(obs, order) ==
    [i \in DOMAIN order |-> RecreateView(obs, order[Len(order) + 1 - i])]

---------------------------------------------------------------------------

TypeOf(obs, c) == CHOOSE ty \in {f[3] : f \in {g \in obs : g[1] = "type" /\ g[2] = c}} : TRUE

\* plan_alter_column_type: one transaction, the views around it.
PlanAlterColumnType(in, obs) ==
    LET order == ViewsToRebuild(obs, in.table, in.column)
    IN  CASE ~Exists(obs, in.table) \/ ~HasColumn(obs, in.table, in.column) -> Conflict
          [] <<"type", in.column, in.type>> \in obs -> Satisfied
          [] OTHER -> OwnTxn(EmitViewDrops(order)
                                 \o <<Slowly(AlterType(in.table, in.column, TypeOf(obs, in.column),
                                                       in.type), {in.table})>>
                                 \o EmitViewRecreates(obs, order))

\* plan_drop_column: a view that reads it cannot be put back.
PlanDropColumn(in, obs) ==
    CASE ~Exists(obs, in.table) -> Conflict
      [] ~HasColumn(obs, in.table, in.column) -> Satisfied
      [] ViewsToRebuild(obs, in.table, in.column) # <<>> -> Conflict
      [] OTHER -> OwnTxn(<<DropColumn(in.table, in.column)>>)

\* plan_replace_view
ViewFacts(in) == {<<"reads", in.name, x>> : x \in in.reads}

ReplaceView(in, obs) ==
    [Nothing EXCEPT !.op = "replace view", !.needs = {<<"rel", in.name>>},
        !.adds = ViewFacts(in) \cup {f \in obs : f[1] = "option" /\ f[2] = in.name},
        !.dels = {f \in obs : f[1] = "reads" /\ f[2] = in.name}, !.xlock = {in.name}]

\* A materialized view is dropped and made again; of what hung on it only
\* the owner comes back.
RemakeMatview(in, obs) ==
    <<DropRel(in.name),
      CreateRel(in.name, "matview",
                ViewFacts(in) \cup {f \in obs : f[1] = "owner" /\ f[2] = in.name})>>

PlanReplaceView(in, obs) ==
    CASE ~Exists(obs, in.name) -> Txn(<<CreateRel(in.name, "view", ViewFacts(in))>>)
      [] HasKind(obs, in.name, "view") -> Txn(<<ReplaceView(in, obs)>>)
      [] HasKind(obs, in.name, "matview") -> OwnTxn(RemakeMatview(in, obs))
      [] OTHER -> Conflict

=============================================================================
