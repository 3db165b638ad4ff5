----------------------------- MODULE KeyRecipes -----------------------------
(***************************************************************************)
(* The constraints an index is behind: primary keys, unique constraints,   *)
(* keys with a period and exclusion constraints.  The order of the columns *)
(* in a key is left out: a key is a set of columns.                        *)
(***************************************************************************)
EXTENDS BackfillRecipe, SequencesExt

ConType(in) == CASE in.kind = "add_primary_key" -> "p"
                 [] in.kind = "add_unique_constraint" -> "u"
                 [] OTHER -> "x"

Partitioned(obs, t) == HasKind(obs, t, "partitioned_table")

\* A constraint on a partitioned table whose index still misses partitions.
Unfinished(in, obs) ==
    /\ Partitioned(obs, in.table)
    /\ {<<"con", in.table, in.name>>, <<"contype", in.name, ConType(in)>>} \subseteq obs
    /\ ~IsValid(obs, in.table, in.name)

ChildName(p, name) == p \o "_" \o name

PartitionKey(obs, t) == {f[3] : f \in {g \in obs : g[1] = "partkey" /\ g[2] = t}}

\* What both recipes for a partitioned table refuse, given the columns the
\* constraint compares for equality.
RefusedOnPartitions(obs, t, name, equal) ==
    \/ PartitionKey(obs, t) = {}
    \/ ~(PartitionKey(obs, t) \subseteq equal)
    \/ \E p \in PartitionsOf(obs, t) :
           Partitioned(obs, p) \/ Len(ChildName(p, name)) > 63

\* The parent's constraint, then the steps of each partition that are not
\* done yet, then the check that the last attachment made it valid.
ByPartition(in, obs, parent, partSteps) ==
    (IF <<"con", in.table, in.name>> \in obs THEN <<>>
     ELSE Briefly(OwnTxn(<<parent>>), {in.table}))
        \o FoldLeft(LAMBDA acc, p : acc \o partSteps[p], <<>>,
                    SetToSeq(PartitionsOf(obs, in.table)))
        \o Txn(<<VerifyValid(in.table, in.name)>>)

AttachStep(in, obs, p) ==
    LET child == ChildName(p, in.name)
    IN  IF IsValid(obs, p, child) /\ <<"attached", child, in.name>> \in obs THEN <<>>
        ELSE OwnTxn(<<AttachIndex(p, child, in.name)>>)

---------------------------------------------------------------------------
\* plan_unique_on_partitions

\* Mutant: the invalid index of an earlier attempt is not dropped.
BuildOnPartition_over(in, obs, p) ==
    LET child == ChildName(p, in.name)
    IN  IF IsValid(obs, p, child) THEN <<>>
        ELSE Outside(<<CreateIndexConcurrently(p, child, in.columns, TRUE)>>)

BuildOnPartition(in, obs, p) ==
    LET child == ChildName(p, in.name)
        build == CreateIndexConcurrently(p, child, in.columns, TRUE)
    IN  CASE IsValid(obs, p, child) -> <<>>
          [] <<"idx", p, child>> \in obs -> Outside(<<DropIndexConcurrently(p, child), build>>)
          [] OTHER -> Outside(<<build>>)

AdoptOnPartition(in, obs, p) ==
    LET child == ChildName(p, in.name)
    IN  IF IsValid(obs, p, child) /\ <<"con", p, child>> \in obs THEN <<>>
        ELSE Briefly(OwnTxn(<<UsingIndex(p, child, ConType(in), child, in.columns)>>), {p})

PlanUniqueOnPartitions(in, obs) ==
    LET t == in.table
        taken(p) == /\ IsValid(obs, p, ChildName(p, in.name))
                    /\ <<"unique", ChildName(p, in.name)>> \notin obs
        part == [p \in PartitionsOf(obs, t) |->
                    BuildOnPartition(in, obs, p) \o AdoptOnPartition(in, obs, p)
                        \o AttachStep(in, obs, p)]
    IN  CASE RefusedOnPartitions(obs, t, in.name, in.columns) -> Conflict
          [] \E p \in PartitionsOf(obs, t) : taken(p) -> Conflict
          [] PartitionsOf(obs, t) = {} ->
                 Briefly(OwnTxn(<<AddKey(t, in.name, ConType(in), in.columns, {})>>), {t})
          [] OTHER -> ByPartition(in, obs, AddKeyOnly(t, in.name, ConType(in), in.columns), part)

---------------------------------------------------------------------------
\* plan_locked_build and plan_locked_build_on_partitions: constraints that
\* no statement builds without keeping readers and writers out, and so the
\* plan says.

LockedKey(in, t, name) ==
    AddKey(t, name, ConType(in), in.columns, {<<"dups", c>> : c \in in.columns})

PlanLockedBuildOnPartitions(in, obs) ==
    LET t == in.table
        bare(p) == /\ <<"idx", p, ChildName(p, in.name)>> \in obs
                   /\ <<"con", p, ChildName(p, in.name)>> \notin obs
        build(p) == IF <<"idx", p, ChildName(p, in.name)>> \in obs THEN <<>>
                    ELSE Briefly(OwnTxn(<<Slowly(LockedKey(in, p, ChildName(p, in.name)), {p})>>), {p})
        part == [p \in PartitionsOf(obs, t) |-> build(p) \o AttachStep(in, obs, p)]
    IN  CASE RefusedOnPartitions(obs, t, in.name, in.equal) -> Conflict
          [] \E p \in PartitionsOf(obs, t) : bare(p) -> Conflict
          [] PartitionsOf(obs, t) = {} ->
                 OwnTxn(<<AddKey(t, in.name, ConType(in), in.columns, {})>>)
          [] OTHER -> ByPartition(in, obs, AddKeyOnly(t, in.name, ConType(in), in.columns), part)

\* "nogist": a base type GiST has no operator class for.
PlanLockedBuild(in, obs) ==
    CASE in.gist /\ (\E c \in in.columns : <<"nogist", c>> \in obs) -> Conflict
      [] Partitioned(obs, in.table) -> PlanLockedBuildOnPartitions(in, obs)
      [] SmallAndQuiet(obs, in.table) -> Txn(<<LockedKey(in, in.table, in.name)>>)
      [] OTHER -> OwnTxn(<<Slowly(LockedKey(in, in.table, in.name), {in.table})>>)

PresentConstraint(in, obs) ==
    IF <<"contype", in.name, ConType(in)>> \in obs THEN Satisfied ELSE Conflict

PlanAddExclusionConstraint(in, obs) ==
    CASE ~Exists(obs, in.table) \/ ~(in.columns \subseteq ColumnsOf(obs, in.table)) -> Conflict
      [] <<"con", in.table, in.name>> \in obs /\ ~Unfinished(in, obs) -> PresentConstraint(in, obs)
      [] OTHER -> PlanLockedBuild(in, obs)

---------------------------------------------------------------------------
\* plan_unique_like

\* Mutant: the key an earlier attempt began counts as another one.
SecondPrimaryKey_own(in, obs) ==
    /\ in.kind = "add_primary_key"
    /\ \E f \in obs : f[1] = "con" /\ f[2] = in.table /\ <<"contype", f[3], "p">> \in obs

SecondPrimaryKey(in, obs) ==
    /\ in.kind = "add_primary_key" /\ ~Unfinished(in, obs)
    /\ \E f \in obs : f[1] = "con" /\ f[2] = in.table /\ <<"contype", f[3], "p">> \in obs

\* A primary key makes its columns NOT NULL first, by the recipe for that.
KeyColumnsNotNull(in, obs) ==
    IF in.kind # "add_primary_key" THEN <<>>
    ELSE FoldLeft(LAMBDA acc, c : acc \o PlanSetNotNull(
                      [kind |-> "set_not_null", table |-> in.table, column |-> c,
                       keep_check |-> FALSE], obs),
                  <<>>, SetToSeq({c \in in.columns : <<"notnull", c>> \notin obs}))

\* An index that can become the constraint as it is.
Backing(in, obs) ==
    {i \in IndexesOf(obs, in.table) :
        /\ IsValid(obs, in.table, i) /\ <<"unique", i>> \in obs
        /\ <<"expression", i>> \notin obs /\ <<"partial", i>> \notin obs
        /\ {f[3] : f \in {g \in obs : g[1] = "on" /\ g[2] = i}} = in.columns}

MakeKey(in, obs) ==
    LET t == in.table
        k == in.name
        type == ConType(in)
    IN  CASE in.without_overlaps /\ <<"range", in.period>> \notin obs -> Conflict
          [] in.without_overlaps -> PlanLockedBuild(in, obs)
          [] Partitioned(obs, t) -> PlanUniqueOnPartitions(in, obs)
          [] Backing(in, obs) # {} ->
                 OwnTxn(<<UsingIndex(t, k, type, CHOOSE i \in Backing(in, obs) : TRUE, in.columns)>>)
          [] SmallAndQuiet(obs, t) -> Txn(<<LockedKey(in, t, k)>>)
          [] NoConcurrent(obs, t) -> Txn(<<Slowly(LockedKey(in, t, k), {t})>>)
          [] OTHER -> Outside(<<CreateIndexConcurrently(t, k, in.columns, TRUE)>>)
                          \o OwnTxn(<<UsingIndex(t, k, type, k, in.columns)>>)

PlanUniqueLike(in, obs) ==
    CASE ~Exists(obs, in.table) \/ ~(in.columns \subseteq ColumnsOf(obs, in.table)) -> Conflict
      [] <<"con", in.table, in.name>> \in obs /\ ~Unfinished(in, obs) -> PresentConstraint(in, obs)
      [] SecondPrimaryKey(in, obs) -> Conflict
      [] OTHER -> KeyColumnsNotNull(in, obs) \o MakeKey(in, obs)

=============================================================================
