---------------------------- MODULE IndexRecipes ----------------------------
(***************************************************************************)
(* create_index and drop_index.  An intent's shape stands for the access   *)
(* method, the INCLUDE columns, operator classes, orderings, storage       *)
(* options and predicate, normalised as plan_create_index compares them;   *)
(* parts are what a module says the table consists of ("chunk" facts).     *)
(***************************************************************************)
EXTENDS ViewRecipes

MakeIndex(in, create) ==
    <<[create EXCEPT !.adds = @ \cup {<<"shape", in.name, in.shape>>},
                     !.leaves = IF @ = {} THEN @ ELSE @ \cup {<<"shape", in.name, in.shape>>}],
      CommentOn(in.name)>>

---------------------------------------------------------------------------
\* plan_index_by_parts

IndexParts(obs, t) == {f[3] : f \in {g \in obs : g[1] = "chunk" /\ g[2] = t}}

\* index_part_name
IndexPartName(p, name) == p \o "_" \o name

\* index_parts_missing
IndexPartsMissing(obs, t, name) ==
    {p \in IndexParts(obs, t) : ~IsValid(obs, p, IndexPartName(p, name))}

PartNamesFit(obs, t, name) ==
    \A p \in IndexParts(obs, t) : Len(IndexPartName(p, name)) <= 63

BuildPart(in, obs, p) ==
    LET child == IndexPartName(p, in.name)
        build == CreateIndexConcurrently(p, child, {}, FALSE)
    IN  Build(IF <<"idx", p, child>> \in obs THEN <<DropIndexConcurrently(p, child), build>>
              ELSE <<build>>)

PlanIndexByParts(in, obs, parent_exists) ==
    LET missing == IndexPartsMissing(obs, in.table, in.name)
    IN  IF parent_exists /\ missing = {} THEN Satisfied
        ELSE (IF parent_exists THEN <<>>
              ELSE Briefly(OwnTxn(MakeIndex(in,
                        CreateIndexOnly(in.table, in.name, in.columns, FALSE))), {in.table}))
                 \o FoldLeft(LAMBDA acc, p : acc \o BuildPart(in, obs, p), <<>>, SetToSeq(missing))

---------------------------------------------------------------------------
\* plan_create_index

\* A valid index of another name that is this one in all but the name.
Equivalent(in, obs) ==
    {i \in IndexesOf(obs, in.table) \ {in.name} :
        /\ IsValid(obs, in.table, i) /\ <<"expression", i>> \notin obs
        /\ IndexColumns(obs, i) = in.columns /\ <<"shape", i, in.shape>> \in obs
        /\ in.unique <=> <<"unique", i>> \in obs}

PlanEquivalent(in, obs) ==
    LET same == CHOOSE i \in Equivalent(in, obs) : TRUE
    IN  CASE <<"con", in.table, same>> \in obs -> Conflict
          [] in.on_equivalent_index = "refuse" -> Conflict
          [] in.on_equivalent_index = "adopt" -> Satisfied
          [] OTHER -> Txn(<<RenameIndex(in.table, same, in.name), CommentOn(in.name)>>)

\* The declared name is taken by a valid index.
PlanPresentIndex(in, obs) ==
    IF /\ IndexParts(obs, in.table) # {} /\ ~in.unique
       /\ PartNamesFit(obs, in.table, in.name) /\ IndexPartsMissing(obs, in.table, in.name) # {}
    THEN PlanIndexByParts(in, obs, TRUE)
    ELSE Satisfied

PlainBuild(in, obs) == SmallAndQuiet(obs, in.table) /\ ~in.unique

\* An invalid index of that name goes first, in the same step.
DropInvalid(in, obs) ==
    CASE <<"idx", in.table, in.name>> \notin obs -> <<>>
      [] NoConcurrent(obs, in.table) \/ PlainBuild(in, obs) -> <<DropIndex(in.table, in.name)>>
      [] OTHER -> <<DropIndexConcurrently(in.table, in.name)>>

\* No concurrent build here: by parts, one part at a time by an option of
\* the module ("per_part"), or under a lock that keeps writers out.
BuildWithoutConcurrently(in, obs) ==
    LET plain == CreateIndex(in.table, in.name, in.columns, in.unique)
    IN  CASE /\ ~in.unique /\ <<"idx", in.table, in.name>> \notin obs
             /\ IndexParts(obs, in.table) # {} /\ PartNamesFit(obs, in.table, in.name) ->
                 PlanIndexByParts(in, obs, FALSE)
          [] <<"per_part", in.table>> \in obs
             /\ (in.unique => <<"per_part_unique", in.table>> \in obs) ->
                 Build(DropInvalid(in, obs) \o MakeIndex(in,
                     [plain EXCEPT !.leaves = @ \cup plain.adds \cup {<<"invalid", in.name>>},
                                   !.xlock = {}]))
          [] OTHER -> Txn(DropInvalid(in, obs) \o MakeIndex(in, Slowly(plain, {in.table})))

BuildIndex(in, obs) ==
    CASE NoConcurrent(obs, in.table) /\ ~PlainBuild(in, obs) -> BuildWithoutConcurrently(in, obs)
      [] PlainBuild(in, obs) ->
             Txn(DropInvalid(in, obs)
                     \o MakeIndex(in, CreateIndex(in.table, in.name, in.columns, FALSE)))
      [] OTHER ->
             Build(DropInvalid(in, obs)
                       \o MakeIndex(in, CreateIndexConcurrently(in.table, in.name, in.columns, in.unique)))

---------------------------------------------------------------------------
\* plan_partitioned_index: each partition concurrently, the parent ON ONLY,
\* the attachments.  It does not look at what an earlier attempt left.

UniqueNeedsPartitionKey(in, obs) ==
    /\ in.unique
    /\ PartitionKey(obs, in.table) = {} \/ ~(PartitionKey(obs, in.table) \subseteq in.columns)

PartitionedIndexRefused(in, obs) ==
    \/ PartitionsOf(obs, in.table) = {}
    \/ UniqueNeedsPartitionKey(in, obs)
    \/ \E p \in PartitionsOf(obs, in.table) :
           Partitioned(obs, p) \/ Len(ChildName(p, in.name)) > 63

PlanPartitionedIndex(in, obs) ==
    LET parts == SetToSeq(PartitionsOf(obs, in.table))
        child(p) == ChildName(p, in.name)
        each(Step1(_)) == FoldLeft(LAMBDA acc, p : acc \o Step1(p), <<>>, parts)
        build(p) == Build(<<CreateIndexConcurrently(p, child(p), in.columns, in.unique)>>)
        attach(p) == Txn(<<AttachIndex(p, child(p), in.name)>>)
    IN  IF PartitionedIndexRefused(in, obs) THEN Conflict
        ELSE each(build)
             \o OwnTxn(MakeIndex(in, CreateIndexOnly(in.table, in.name, in.columns, in.unique)))
             \o each(attach)
             \o Txn(<<VerifyValid(in.table, in.name)>>)

PlanCreateIndex(in, obs) ==
    CASE ~Exists(obs, in.table) -> Conflict
      [] IsValid(obs, in.table, in.name) -> PlanPresentIndex(in, obs)
      [] Equivalent(in, obs) # {} -> PlanEquivalent(in, obs)
      [] Partitioned(obs, in.table) -> PlanPartitionedIndex(in, obs)
      [] OTHER -> BuildIndex(in, obs)

---------------------------------------------------------------------------
\* plan_drop_index

PlanDropIndex(in, obs) ==
    CASE ~Exists(obs, in.table) -> Conflict
      [] <<"idx", in.table, in.name>> \notin obs -> Satisfied
      [] <<"con", in.table, in.name>> \in obs -> Conflict
      [] NoConcurrent(obs, in.table) \/ <<"busy", in.table>> \notin obs ->
             Txn(<<DropIndex(in.table, in.name)>>)
      [] OTHER -> Outside(<<DropIndexConcurrently(in.table, in.name)>>)

=============================================================================
