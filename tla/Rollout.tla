------------------------------- MODULE Rollout -------------------------------
(***************************************************************************)
(* A specification carried to a live database: planned, run, stopped at    *)
(* any point, planned again from what the catalog then shows, while the    *)
(* application goes on writing rows.                                       *)
(*                                                                         *)
(* A scenario is a specification, the database it meets, the rows the      *)
(* application may write, the statements (want) that would do the same on  *)
(* a database nobody uses, whether it has to be refused, and whether its   *)
(* plan is one that cannot be begun twice (once).                          *)
(***************************************************************************)
EXTENDS Planner

CONSTANTS
    Names,           \* the scenarios
    Scenario(_),     \* [spec, db, writes, want, refuse, once] of each
    MakePlan(_, _),  \* the planner: Planner!PlanMigration
    MaxInterrupts,   \* how often a run is stopped
    MaxWrites        \* how often the application writes an offending row

VARIABLES
    sc,        \* the scenario
    db,        \* the committed database
    plan,      \* the plan of the current attempt
    pos, at,   \* the next step, and its next statement where they commit one by one
    status,    \* new, running, stopped, failed, refused, broken or done
    tries,     \* how often it has been planned
    blocked,   \* tables writers were locked out of for a whole scan
    stops, writes

vars == <<sc, db, plan, pos, at, status, tries, blocked, stops, writes>>

Spec0 == Scenario(sc).spec
Db0 == Scenario(sc).db
Goal == DoAll(Db0, Scenario(sc).want)

NoPlan == [ok |-> FALSE, steps |-> <<>>]

Init ==
    /\ sc \in Names
    /\ db = Scenario(sc).db
    /\ plan = NoPlan /\ pos = 1 /\ at = 1 /\ status = "new" /\ tries = 0
    /\ blocked = {} /\ stops = 0 /\ writes = 0

---------------------------------------------------------------------------
\* What the run of a statement comes to.

Verdict(d, s) == CASE ~Can(d, s) -> "broken"
                   [] s.rows \cap d # {} -> "failed"
                   [] OTHER -> "running"

\* What a statement locks against writers until its transaction ends.
Locks(s) == s.xlock \cup s.also

\* The tables a statement reads in full under a lock its transaction holds
\* that keeps writers out, where that is more than a moment and nothing in
\* the plan says so of the statement.
LongLocks(d, s, held) ==
    {t \in Scans(d, s) \cap (held \cup Locks(s)) : <<"big", t>> \in d} \ s.slow

RunOne(acc, s) ==
    IF acc.status # "running" THEN acc
    ELSE [db |-> Do(acc.db, s), status |-> Verdict(acc.db, s), held |-> acc.held \cup Locks(s),
          blocked |-> acc.blocked \cup LongLocks(acc.db, s, acc.held)]

\* A transaction: all of it or nothing.
Transaction(d, stmts) ==
    LET run == FoldLeft(RunOne, [db |-> d, status |-> "running", held |-> {}, blocked |-> {}], stmts)
    IN  [run EXCEPT !.db = IF run.status = "running" THEN Commit(run.db) ELSE d]

Step1 == plan.steps[pos]

\* The steps from pos that share its transaction.
GroupEnd ==
    CHOOSE n \in pos .. Len(plan.steps) :
        /\ \A i \in pos .. n : plan.steps[i].class = "txn" /\ plan.steps[i].group = Step1.group
        /\ n < Len(plan.steps) => \/ plan.steps[n + 1].class # "txn"
                                  \/ plan.steps[n + 1].group # Step1.group

---------------------------------------------------------------------------
\* The planner and the executor.

\* The operator does what the plan of a unique constraint says: an invalid
\* index left under the constraint's name is dropped before the next try.
Leftover ==
    {i \in UNION {IF Spec0[k].kind \in {"add_unique_constraint", "add_primary_key"}
                  THEN {Spec0[k].name} ELSE {} : k \in DOMAIN Spec0} : <<"invalid", i>> \in db}

Plan ==
    /\ status \in {"new", "stopped"} /\ Leftover = {}
    /\ plan' = MakePlan(Spec0, Observe(db))
    /\ status' = IF plan'.ok THEN "running" ELSE "refused"
    /\ pos' = 1 /\ at' = 1
    /\ tries' = IF tries < 2 THEN tries + 1 ELSE tries
    /\ UNCHANGED <<sc, db, blocked, stops, writes>>

RunTransaction ==
    /\ status = "running" /\ pos <= Len(plan.steps) /\ Step1.class = "txn"
    /\ LET stmts == FlattenSeq([i \in 1 .. GroupEnd - pos + 1 |-> plan.steps[pos + i - 1].sql])
           run == Transaction(db, stmts)
       IN  /\ db' = run.db
           /\ status' = run.status
           /\ blocked' = blocked \cup run.blocked
           /\ pos' = IF run.status = "running" THEN GroupEnd + 1 ELSE pos
    /\ UNCHANGED <<sc, plan, at, tries, stops, writes>>

\* Statements no transaction holds together, a verification and a walk.
RunStatement ==
    /\ status = "running" /\ pos <= Len(plan.steps) /\ Step1.class # "txn"
    /\ LET s == Step1.sql[at]
           last == at = Len(Step1.sql)
       IN  /\ status' = Verdict(db, s)
           /\ blocked' = blocked \cup LongLocks(db, s, {})
           /\ db' = CASE Verdict(db, s) = "running" -> Do(db, s)
                      [] Verdict(db, s) = "failed" -> db \cup s.leaves
                      [] OTHER -> db
           /\ pos' = IF status' = "running" /\ last THEN pos + 1 ELSE pos
           /\ at' = IF status' # "running" THEN at ELSE IF last THEN 1 ELSE at + 1
    /\ UNCHANGED <<sc, plan, tries, stops, writes>>

Finish ==
    /\ status = "running" /\ pos > Len(plan.steps)
    /\ status' = "done"
    /\ UNCHANGED <<sc, db, plan, pos, at, tries, blocked, stops, writes>>

\* Cancelled, killed or disconnected: the open transaction is rolled back,
\* a statement outside one leaves what it leaves.
Interrupt ==
    /\ status = "running" /\ pos <= Len(plan.steps) /\ stops < MaxInterrupts
    /\ ~Scenario(sc).once
    /\ status' = "stopped" /\ stops' = stops + 1
    /\ \/ db' = db
       \/ /\ Step1.class \in {"forbidden", "build"} /\ Step1.sql[at].leaves # {}
          /\ Verdict(db, Step1.sql[at]) = "running"
          /\ db' = db \cup Step1.sql[at].leaves
    /\ UNCHANGED <<sc, plan, pos, at, tries, blocked, writes>>

---------------------------------------------------------------------------
\* The application and the operator.

\* A row the schema in force refuses cannot be written.
Refused(f) ==
    CASE f[1] = "nulls" ->
            \/ \A g \in db : ~(g[1] = "col" /\ g[3] = f[2])
            \/ <<"notnull", f[2]>> \in db
            \/ \E g \in db : g[1] = "type" /\ g[2] = f[2] /\ <<"notnull", g[3]>> \in db
            \/ \E g \in db : g[1] \in {"proves", "fills"} /\ g[3] = f[2]
      [] f[1] = "bad" -> \E g \in db : g[1] \in {"con", "proves", "part"} /\ g[3] = f[2]
      [] f[1] = "dups" ->
            \E g \in db : g[1] = "on" /\ g[3] = f[2] /\ <<"unique", g[2]>> \in db
                              /\ <<"invalid", g[2]>> \notin db

AppWrites ==
    /\ writes < MaxWrites /\ status \in {"new", "running", "stopped"}
    /\ \E f \in Scenario(sc).writes \ db : ~Refused(f) /\ db' = db \cup {f}
    /\ writes' = writes + 1
    /\ UNCHANGED <<sc, plan, pos, at, status, tries, blocked, stops>>

\* The rows that failed a step are mended; the job is started again.
RepairRows ==
    /\ status = "failed"
    /\ db' = {f \in db : f[1] \notin {"nulls", "bad", "dups"}}
    /\ status' = "stopped"
    /\ UNCHANGED <<sc, plan, pos, at, tries, blocked, stops, writes>>

DropLeftover ==
    /\ status = "stopped" /\ Leftover # {}
    /\ db' = Do(db, [Nothing EXCEPT !.drops = Leftover])
    /\ UNCHANGED <<sc, plan, pos, at, status, tries, blocked, stops, writes>>

Advance == Plan \/ RunTransaction \/ RunStatement \/ Finish \/ RepairRows \/ DropLeftover

Next == Advance \/ Interrupt \/ AppWrites

\* The job runs on, and somebody retries it: weak fairness of Advance, which
\* is enabled until the job has ended.
Fairness == []<>(status \in {"done", "refused", "broken"}) \/ []<><<Advance>>_vars

Spec == Init /\ [][Next]_vars /\ Fairness

---------------------------------------------------------------------------
\* Properties.

\* A plan without a conflict runs: no statement of it is refused for what
\* the catalog holds -- a name that is taken, a column not there yet, a view
\* in the way, an index that is not valid -- on the first attempt and on
\* every later one, wherever the earlier ones stopped (plan_migration plans
\* each intent against the projection, and each attempt from the catalog).
StepsApply == status # "broken"

\* A run that finishes has done what was asked, all of it and nothing else:
\* no helper trigger or index is left, no view, grant, option or row is
\* lost, whatever stopped the attempts before it.  Left out are comments, and
\* a check that says no more than a NOT NULL or a partition's bound: see
\* NoCheckLeft.
Redundant(d) ==
    {g[2] : g \in {f \in d : f[1] = "proves" /\ (\/ <<"notnull", f[3]>> \in d
                                                \/ \E h \in d : h[1] = "part" /\ h[3] = f[3])}}

Compared(d) ==
    {f \in d : f[1] \notin {"nulls", "bad", "dups", "comment"} /\ ~Mentions(f, Redundant(d))}

DoneMeansIdeal == status = "done" => Compared(db) = Compared(Goal)

\* The check a recipe adds for a while is gone when the run is done.  It does
\* not hold of a run stopped between the statement that makes the check
\* redundant and the one that drops it (README, Known limits).
NoCheckLeft == status = "done" => Redundant(db) \subseteq Redundant(Goal)

\* What has been planned once is not refused when it is planned again: the
\* state an interrupted run leaves is one the recipes recognise as their own.
ResumeAccepted == status = "refused" => tries = 1

\* Whoever uses the database meanwhile misses nothing that is there before
\* and after: a view being rebuilt, its grants, an index, a constraint, a
\* trigger.  (An index that was invalid to begin with may be rebuilt.)
Stays ==
    {f \in Db0 \cap Goal : /\ f[1] \notin RowFacts
                          /\ \A g \in Db0 : g[1] = "invalid" => ~Mentions(f, {g[2]})}

KeepsWhatStays == Stays \subseteq db

\* No transaction keeps writers out of a big table while it reads it from
\* end to end, unless the plan said so of that table: checks are validated
\* first under a lock that lets writers in, and indexes are built
\* concurrently.  Where there is no such way -- a module that allows none, a
\* key without overlaps, a DEFAULT partition, a domain, a rewrite -- whoever
\* reads the plan knows before it runs (Slowly).
ShortLocks == blocked = {}

\* Whoever waits for a lock that keeps writers out does not make the others
\* wait behind it.  Every table a transaction's statement names and locks so,
\* and that was there before, is waited for with the weaker lock first; for
\* any other table the statement locks, the request gives up soon and the
\* step is tried again (weaker_lock_first, run_step's exclusive_retry).  An
\* ALTER DOMAIN is left out: the tables with a column of the type are locked
\* with neither (README, Known limits).
QueuesBriefly ==
    status = "running" =>
        \A i \in DOMAIN plan.steps : plan.steps[i].class = "txn" =>
            LET step == plan.steps[i]
            IN  \A j \in DOMAIN step.sql :
                    /\ {t \in step.sql[j].xlock : HasKind(Db0, t, "table")
                                                    \/ HasKind(Db0, t, "partitioned_table")}
                           \subseteq step.first
                    /\ step.sql[j].also # {} => step.retry \/ step.sql[j].op = "alter domain"

\* When a backfill walks a table, the columns it goes by are those of a
\* valid unique index over every row (WalkColumns), so that no row is
\* skipped and none is met twice.
WalksByKey ==
    (status = "running" /\ pos <= Len(plan.steps)) =>
        \A i \in DOMAIN Step1.sql :
            Step1.sql[i].op = "walk" =>
                \E f \in db : /\ f[1] = "idx" /\ ProvesKey(db, f[2], f[3])
                             /\ IndexColumns(db, f[3]) = Step1.sql[i].walk

\* A migration that can be done gets done and one that cannot is refused: a
\* stop or a row in the way costs an attempt, never the migration.
Completes == <>(status = IF Scenario(sc).refuse THEN "refused" ELSE "done")

=============================================================================
