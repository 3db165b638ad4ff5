----------------------------- MODULE PlannerBase -----------------------------
(***************************************************************************)
(* planner_base.h and the helpers every recipe of planner.h shares: the    *)
(* steps a recipe emits, and the readings of the catalog it decides by.    *)
(*                                                                         *)
(* A recipe is an operator of an intent and of what the catalog shows (the *)
(* facts of Database!Observe); it returns the steps it pushes.             *)
(***************************************************************************)
EXTENDS Database

\* Step: its transaction class ("txn" is kRequired or kOptional, "build" a
\* kForbidden create_index), the verdict, and the statements.  own asks for a
\* transaction boundary before it; retry is detail.exclusive_retry, and first
\* the tables the LOCK TABLE before its statements names.
Step(class, own, sql) ==
    [class |-> class, own |-> own, action |-> "apply", sql |-> sql, retry |-> FALSE, first |-> {}]

Txn(sql) == <<Step("txn", FALSE, sql)>>
OwnTxn(sql) == <<Step("txn", TRUE, sql)>>
Outside(sql) == <<Step("forbidden", FALSE, sql)>>
Build(sql) == <<Step("build", FALSE, sql)>>
Batches(sql) == <<Step("batch", FALSE, sql)>>

\* weaker_lock_first: SHARE UPDATE EXCLUSIVE on the tables is waited for
\* first, and every lock the step asks for then has a short timeout and is
\* asked for again.
WeakerLockFirst(step, tables) == [step EXCEPT !.retry = TRUE, !.first = tables]
Briefly(steps, tables) == [i \in DOMAIN steps |-> WeakerLockFirst(steps[i], tables)]

\* A warning or the step's text says that writers of the tables wait while
\* they are read.
Slowly(s, tables) == [s EXCEPT !.slow = tables]

\* Nothing to do, and cannot be done: one step that says so.
Satisfied == <<[Step("txn", FALSE, <<>>) EXCEPT !.action = "satisfied"]>>
Conflict == <<[Step("txn", FALSE, <<>>) EXCEPT !.action = "conflict"]>>

Conflicts(steps) == \E i \in DOMAIN steps : steps[i].action = "conflict"
Applies(steps) == \E i \in DOMAIN steps : steps[i].action = "apply"

---------------------------------------------------------------------------
\* Readings.

Exists(obs, t) == <<"rel", t>> \in obs
HasColumn(obs, t, c) == <<"col", t, c>> \in obs
HasKind(obs, n, kind) == <<"kind", n, kind>> \in obs
ColumnsOf(obs, t) == {f[3] : f \in {g \in obs : g[1] = "col" /\ g[2] = t}}
ReadersOf(obs, names) == {f[2] : f \in {g \in obs : g[1] = "reads" /\ g[3] \in names}}

\* constraint_state
ConstraintState(obs, t, k) ==
    IF <<"con", t, k>> \notin obs THEN "absent"
    ELSE IF <<"notvalid", k>> \in obs THEN "not valid" ELSE "valid"

\* constraint_traits: a module says that VALIDATE CONSTRAINT is refused here.
ValidatesInOneStep(obs, t) == <<"one_step", t>> \in obs

\* index_traits: a module says that no concurrent build works here.
NoConcurrent(obs, t) == <<"no_concurrent", t>> \in obs

\* Small, and nobody waits for a lock on it.
SmallAndQuiet(obs, t) == <<"big", t>> \notin obs /\ <<"busy", t>> \notin obs

---------------------------------------------------------------------------
\* take_weaker_lock_first: the same for every other step that locks out
\* readers or writers of a table that is there.

LockFirstKinds ==
    {"add_column", "drop_column", "alter_column_type", "drop_constraint",
     "rename_table", "rename_column", "rename_constraint", "drop_table",
     "create_trigger", "drop_trigger", "set_trigger_state", "set_row_security",
     "create_policy", "alter_policy", "drop_policy", "alter_column_default",
     "drop_not_null", "set_identity", "drop_expression", "set_column_options",
     "set_logged", "set_tablespace", "set_access_method", "set_replica_identity",
     "create_rule", "drop_rule", "set_owner", "add_primary_key",
     "add_unique_constraint", "add_exclusion_constraint", "add_check_constraint",
     "add_foreign_key", "set_not_null", "create_index", "drop_index"}

\* Mutant: the partition an intent attaches is forgotten.
LockFirst_parent(in) ==
    IF in.kind \in LockFirstKinds /\ "table" \in DOMAIN in THEN {in.table} ELSE {}

LockFirst(in) ==
    CASE in.kind \in LockFirstKinds /\ "table" \in DOMAIN in -> {in.table}
      [] in.kind = "attach_partition" -> {in.partition}
      [] in.kind = "detach_partition" -> {in.table, in.partition}
      [] in.kind = "create_table" /\ "partition_of" \in DOMAIN in -> {in.partition_of}
      [] OTHER -> {}

Lockable(obs, in) ==
    {t \in LockFirst(in) : HasKind(obs, t, "table") \/ HasKind(obs, t, "partitioned_table")}

TakesExclusive(step) ==
    /\ step.action = "apply" /\ step.class = "txn" /\ step.sql # <<>> /\ ~step.retry
    /\ \E i \in DOMAIN step.sql : step.sql[i].xlock \cup step.sql[i].also # {}
    /\ \A i \in DOMAIN step.sql : step.sql[i].op # "validate"
    /\ step.sql[1].op # "rename index"

TakeWeakerLockFirst(in, obs, steps) ==
    IF Lockable(obs, in) = {} THEN steps
    ELSE [i \in DOMAIN steps |->
            IF TakesExclusive(steps[i]) THEN WeakerLockFirst(steps[i], Lockable(obs, in))
            ELSE steps[i]]

=============================================================================
