---------------------------- MODULE TableRecipes ----------------------------
(***************************************************************************)
(* Tables, their partitions and their names.  An intent's facts are what   *)
(* CREATE TABLE declares beside the table itself; bound is the kind of a   *)
(* partition's bound ("RANGE", "LIST", "HASH", "DEFAULT").                 *)
(***************************************************************************)
EXTENDS IndexRecipes

\* plan_create_partition
BoundRefused(in, obs) ==
    \/ in.bound = "DEFAULT" /\ <<"strategy", in.partition_of, "HASH">> \in obs
    \/ in.bound # "DEFAULT" /\ (\E f \in obs : /\ f[1] = "strategy" /\ f[2] = in.partition_of
                                              /\ f[3] # in.bound)
    \/ in.bound = "DEFAULT" /\ DefaultPartition(obs, in.partition_of) # {}

CreatePartitionStatement(in, obs) ==
    LET default == DefaultPartition(obs, in.partition_of)
    IN  [CreateRel(in.table, "table", in.facts \cup {<<"part", in.partition_of, in.table>>}
             \cup (IF in.bound = "DEFAULT" THEN {<<"default", in.partition_of, in.table>>} ELSE {}))
            EXCEPT !.needs = {<<"kind", in.partition_of, "partitioned_table">>},
                   !.rows = {<<"bad", in.table>>}, !.xlock = {in.partition_of}, !.also = default,
                   !.scan = {<<d, "rows">> : d \in default}, !.slow = default]

PlanCreatePartition(in, obs) ==
    CASE Exists(obs, in.table) ->
             IF <<"part", in.partition_of, in.table>> \in obs THEN Satisfied ELSE Conflict
      [] ~Exists(obs, in.partition_of) \/ ~Partitioned(obs, in.partition_of) -> Conflict
      [] BoundRefused(in, obs) -> Conflict
      [] OTHER -> Txn(<<CreatePartitionStatement(in, obs), CommentOn(in.table)>>)

\* plan_create_table: the period of a key without overlaps is no scalar, and
\* the other scalar columns of it need btree_gist.
PeriodRefused(in, obs) ==
    /\ in.without_overlaps
    /\ \/ in.period \in in.scalars
       \/ ~Exists(obs, "btree_gist") /\ (in.columns \ {in.period}) \cap in.scalars # {}

PlanCreateTable(in, obs) ==
    CASE in.partition_of # "" -> PlanCreatePartition(in, obs)
      [] Exists(obs, in.table) -> Satisfied
      [] PeriodRefused(in, obs) -> Conflict
      [] OTHER -> Txn(<<CreateRel(in.table, in.relkind, in.facts), CommentOn(in.table)>>)

\* plan_drop_table: the views that read it and the foreign keys that reference
\* it, its own included, would have to go first.
ReferencedKeys(obs, t) == {f[3] : f \in {g \in obs : g[1] = "con" /\ g[2] = t}}

PlanDropTable(in, obs) ==
    CASE ~Exists(obs, in.table) -> Satisfied
      [] DependentViews(obs, in.table) # {} -> Conflict
      [] ReadersOf(obs, ReferencedKeys(obs, in.table)) # {} -> Conflict
      [] OTHER -> Txn(<<DropTable(obs, in.table)>>)

---------------------------------------------------------------------------
\* plan_rename

\* The new name alone says the rename has been applied.
RenameOf(from_there, to_there, rename) ==
    CASE to_there /\ ~from_there -> Satisfied
      [] ~from_there \/ to_there -> Conflict
      [] OTHER -> Txn(<<rename>>)

RenameColumn(in, obs) ==
    RenameOf(HasColumn(obs, in.table, in.column), HasColumn(obs, in.table, in.to),
             RenameTo(in.table, {<<"col", in.table, in.column>>}, {<<"col", in.table, in.to>>},
                      in.column, in.to))

RenameConstraint(in, obs) ==
    RenameOf(<<"con", in.table, in.name>> \in obs, <<"con", in.table, in.to>> \in obs,
             RenameTo(in.table, {<<"con", in.table, in.name>>}, {<<"con", in.table, in.to>>},
                      in.name, in.to))

RenameTable(in) ==
    IF in.table = in.to THEN Satisfied
    ELSE Txn(<<RenameTo(in.table, {}, {<<"rel", in.to>>}, in.table, in.to)>>)

PlanRename(in, obs) ==
    CASE ~Exists(obs, in.table) -> Conflict
      [] in.kind = "rename_table" -> RenameTable(in)
      [] in.kind = "rename_column" -> RenameColumn(in, obs)
      [] OTHER -> RenameConstraint(in, obs)

---------------------------------------------------------------------------
\* plan_attach_partition

\* bounds_as_check, of a single key column: a lower and an upper bound or a
\* list of values.  It says nothing about NULL.
BoundCheck(in, obs) ==
    IF in.bound \in {"RANGE", "LIST"} /\ Cardinality(PartitionKey(obs, in.table)) = 1
    THEN {<<"proves", in.partition \o "_laswell_bound", in.partition>>} ELSE {}

ProveBound(in, obs) ==
    LET k == in.partition \o "_laswell_bound"
        have == ConstraintState(obs, in.partition, k)
    IN  (IF have # "absent" THEN <<>>
         ELSE OwnTxn(<<AddNotValid(in.partition, k, "c", BoundCheck(in, obs))>>))
            \o (IF have = "valid" THEN <<>>
                ELSE OwnTxn(<<Validate(in.partition, k, {<<"bad", in.partition>>})>>))

\* in.keys are the partition's columns for the key of its parent.  The plan
\* says that the DEFAULT partition is read, and the candidate where there is
\* no bound to prove.
AttachAndUnprove(in, obs) ==
    LET default == DefaultPartition(obs, in.table)
        attach(read) == OwnTxn(<<Slowly(AttachPartition(in.table, in.partition, in.keys, default),
                                        default \cup read)>>)
        k == in.partition \o "_laswell_bound"
    IN  IF BoundCheck(in, obs) = {} THEN attach({in.partition})
        ELSE ProveBound(in, obs) \o attach({}) \o OwnTxn(<<DropConstraint(in.partition, k)>>)

PlanAttachPartition(in, obs) ==
    CASE ~Exists(obs, in.table) \/ ~Partitioned(obs, in.table) -> Conflict
      [] ~Exists(obs, in.partition) -> Conflict
      [] <<"part", in.table, in.partition>> \in obs -> Satisfied
      [] OTHER -> AttachAndUnprove(in, obs)

\* plan_detach_partition; "before14" is a server without CONCURRENTLY.
DetachConcurrentlyHere(in, obs) ==
    /\ <<"version", "before14">> \notin obs
    /\ DefaultPartition(obs, in.table) = {}
    /\ <<"big", in.partition>> \in obs \/ <<"busy", in.table>> \in obs

PlanDetachPartition(in, obs) ==
    CASE ~Exists(obs, in.table) -> Conflict
      [] <<"detaching", in.table, in.partition>> \in obs ->
             Outside(<<FinalizeDetach(in.table, in.partition)>>)
      [] <<"part", in.table, in.partition>> \notin obs -> Satisfied
      [] DetachConcurrentlyHere(in, obs) -> Outside(<<DetachConcurrently(in.table, in.partition)>>)
      [] OTHER -> OwnTxn(<<DetachPartition(in.table, in.partition,
                                           DefaultPartition(obs, in.table))>>)

=============================================================================
