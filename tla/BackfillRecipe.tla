--------------------------- MODULE BackfillRecipe ---------------------------
(***************************************************************************)
(* plan_backfill, and the readings of indexes that tell which columns a    *)
(* walk may go by.  Keys and column lists are sets of columns.             *)
(***************************************************************************)
EXTENDS ConstraintRecipes

IndexColumns(obs, i) == {f[3] : f \in {g \in obs : g[1] = "on" /\ g[2] = i}}

\* Valid, unique, over plain columns and every row: what proves a key.
ProvesKey(obs, t, i) ==
    /\ IsValid(obs, t, i) /\ <<"unique", i>> \in obs
    /\ <<"expression", i>> \notin obs /\ <<"partial", i>> \notin obs

\* required_confinement: the column batches must stay within one value of.
RequiredConfinement(obs, t) == {f[3] : f \in {g \in obs : g[1] = "confined" /\ g[2] = t}}

\* unique_key_index: the key alone.
UniqueKeyIndex(obs, t, key) ==
    {i \in IndexesOf(obs, t) : ProvesKey(obs, t, i) /\ IndexColumns(obs, i) = {key}}

\* unique_index_containing: the key and others, all NOT NULL; the primary
\* key first, then the shortest.
UniqueIndexContaining(obs, t, key) ==
    LET usable == {i \in IndexesOf(obs, t) :
                      /\ ProvesKey(obs, t, i) /\ key \in IndexColumns(obs, i)
                      /\ Cardinality(IndexColumns(obs, i)) > 1
                      /\ \A c \in IndexColumns(obs, i) : <<"notnull", c>> \in obs}
        primary == {i \in usable : <<"contype", i, "p">> \in obs}
        best == IF primary # {} THEN primary ELSE usable
    IN  {i \in best : \A j \in best :
            Cardinality(IndexColumns(obs, i)) <= Cardinality(IndexColumns(obs, j))}

\* unique_group_key_index: (group, key), in that order.
UniqueGroupKeyIndex(obs, t, key, required) ==
    {i \in IndexesOf(obs, t) :
        /\ ProvesKey(obs, t, i) /\ Cardinality(IndexColumns(obs, i)) = 2
        /\ key \in IndexColumns(obs, i) /\ <<"leads", i, key>> \notin obs
        /\ required \subseteq IndexColumns(obs, i)}

\* default_fill_key: a column of the primary key, not the one batches are
\* confined by unless it is the whole key.
DefaultFillKey(obs, t) ==
    LET primary == UNION {IndexColumns(obs, i) :
                            i \in {j \in IndexesOf(obs, t) : <<"contype", j, "p">> \in obs}}
    IN  IF Cardinality(primary) > 1 THEN primary \ RequiredConfinement(obs, t) ELSE primary

\* plan_preserve: the side table exists before the first row is saved.
PlanPreserve(in) ==
    IF in.preserve = "" THEN <<>> ELSE OwnTxn(<<CreateIfNotExists(in.preserve)>>)

---------------------------------------------------------------------------
\* plan_backfill: by the key alone, by a whole unique index, or by the key
\* within each value of a group column.

\* Mutant: any index that holds the key will do.
WalkColumns_keyed(obs, t, key) ==
    IF \E i \in IndexesOf(obs, t) : key \in IndexColumns(obs, i) THEN {key} ELSE {}

WalkColumns(obs, t, key) ==
    LET confined == RequiredConfinement(obs, t)
    IN  CASE confined = {} /\ UniqueKeyIndex(obs, t, key) # {} -> {key}
          [] confined = {} /\ UniqueIndexContaining(obs, t, key) # {} ->
                 IndexColumns(obs, CHOOSE i \in UniqueIndexContaining(obs, t, key) : TRUE)
          [] confined = {key} -> {}
          [] UniqueGroupKeyIndex(obs, t, key, confined) # {} ->
                 IndexColumns(obs, CHOOSE i \in UniqueGroupKeyIndex(obs, t, key, confined) : TRUE)
          [] OTHER -> {}

BackfillStep(in, walk) ==
    Batches(<<Walk(WriteRows(in.table, in.columns, in.makes, in.unmakes, {}), walk)>>)

PlanBackfill(in, obs) ==
    LET walk == WalkColumns(obs, in.table, in.walk_key)
    IN  CASE ~Exists(obs, in.table) -> Conflict
          [] ~(in.columns \subseteq ColumnsOf(obs, in.table)) -> Conflict
          [] walk = {} -> Conflict
          [] OTHER -> PlanPreserve(in) \o BackfillStep(in, walk)

=============================================================================
