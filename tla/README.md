# pg_laswell in TLA+

pg_laswell applies signed migration specifications to PostgreSQL databases that
are in use. A specification is planned against what the database holds now; the
plan is a list of steps; a worker runs them, paced by what an observer sees of
the sessions that wait behind it; a ledger in the database (schema `laswell`)
records every job and step. This directory models the parts of it in which
processes, connections and failures meet, checks them with TLC on small
instances, and proves the properties that matter most with TLAPS.

All source paths below are relative to `src/cpp/src/`. `PROJECT.json` has the
correspondence of every definition to source lines, the hazards at the lines
where they bite, the runs, and for each property of a passing run a mutation of
the model (an operator named `<Definition>_<mutation>`) that breaks it.

## 1. The system

| part | source | state | operations |
|---|---|---|---|
| Specification parser | `spec.h` | none | parse, validate |
| Planner | `planner.h`, `planner_base.h`, `planner_dml.h` | none (pure) | intents and observations to steps; grouping of steps into transactions |
| Catalog observation | `catalog.h`, `observations.h` | none | queries |
| Executor | `executor.h` | plan, position, open group, `uncommitted_`, job state | run, execute, retry of a lock, cancel, fail, succeed |
| Paced backfill | `executor.h`, `planner_dml.h` | cursor, upper bound, open transaction, `laswell.backfill_cursor` | batch, commit, pause, resume from a cursor, single statement, verify |
| Observer and pacing | `jobs.h` | `PacingState` atomics, contention and quiet counts | tick, throttle, pause, cancel a statement |
| OperationGate | `jobs.h` | statements in flight, ceiling | acquire, release, configure |
| JobRegistry | `jobs.h` | the jobs of a process | create, find, running_count, join_all |
| Ledger | `ledger.h`, `src/sql/bootstrap.sql` | migration, job, step and cursor rows; advisory locks | open_job, begin/record/roll back steps, finish_job, reconcile_dead_jobs |
| Sessions | `session.h` | connections and their transactions | read sessions, write sessions, cache |
| Migration repository | `repository.h` | none kept | classify, gate, order, group |
| Deployment runner | `deploy.h`, `deploy_main.cpp`, `signals.h` | groups left, jobs watched, signal | list, start, watch, drain, exit |
| Tools, MCP server | `tools.h`, `server.h`, `main.cpp` | none of their own | plan, start, status, cancel, list |
| Trust | `trust.h`, `canonical.h` | trusted signers | verify |
| Configuration | `config.h` | none | parse, validate |
| Extension modules | `modules/` | none | recipes and guards for Citus, TimescaleDB, pg_cron, pgvector |

How they interact: a run of `pg_laswell` lists the repository against the ledger,
then starts the specifications of one group after another with the tool
`startMigration`. That plans the specification, opens a job in the ledger on a
coordination connection that holds the job's advisory locks, and starts a worker
thread. The worker runs steps on a connection of its own and writes what it does
on the coordination connection; the two fail apart. One observer thread per
connection looks at `pg_stat_activity` on a third connection and speaks to the
worker through atomics and through query cancellations.

What makes it hard, and what the models are built around:

* a step's work and the ledger's word for it are committed on different
  connections, in different transactions, and the process may die between them;
* a transaction group is undone and run again for a lock, after its steps have
  been reported as done;
* a cancellation is a request to the server that may hit the statement meant, a
  later one or none;
* a cursor written by an attempt that died is trusted by the next, over a table
  the application has written since;
* several runs over one ledger list, start, fail and die at different moments;
* observations come late, fail, or come from an observer that watches another
  server;
* the jobs of one process share a gate, a registry and a server, and the rows that
  say which of them still live outlast the sessions that prove it;
* a plan that was stopped anywhere is made again from what the catalog then shows,
  and has to recognise its own half-done work.

## 2. Modules

| module | models | composed with |
|---|---|---|
| `Backfill` | `run_backfill`: one paced step and its attempts, by key or by group | a step of `Executor` |
| `PlanGroups` | the end of `plan_spec`: groups and checks of builds (pure) | gives `Executor` its plans (in `MCExecutor`) |
| `Migration` | abstract: what a plan promises of the database | implemented by `Executor` |
| `Executor` | `run`, `execute`, the ledger rows of one job, reconciliation | |
| `Pacing` | observers, `PacingState`, and the worker that reads it | |
| `Repository` | classify, gate, problems, levels, groups (pure) | used by `Listing` and `Deployment` |
| `Listing` | `scan` and `assemble` over one repository | |
| `Deployment` | overlapping runs, their jobs, `startMigration`, one ledger | contains a listing as one step |
| `Jobs` | `startMigration`, `JobRegistry`, `OperationGate`, advisory locks and reconciliation: the jobs of one process | a job is a cut-down `Executor` |
| `Database` | PostgreSQL as the planner's statements use it (external) | observed by the planner, changed by `Rollout` |
| `PlannerBase`, `ConstraintRecipes`, `BackfillRecipe`, `KeyRecipes`, `RowRecipes`, `ColumnRecipes`, `ViewRecipes`, `IndexRecipes`, `TableRecipes`, `ObjectRecipes`, `ServerRecipes` | the recipe of every kind of intent (pure) | each extends the one before |
| `Projection`, `Planner` | `project`, `plan_migration` (pure) | uses the recipes and `PlanGroups` |
| `Rollout` | a specification planned, run, stopped, planned again, on a database in use | composes `Planner` and `Database` |
| `MC*` | constants for TLC | |
| `*Proofs` | theorems and their proofs; `RunProofs` and `DeploymentProofs` are both about `Deployment`, and `BackfillProofs` is about `BackfillRecipe` too | each extends the module it is about |
| `AlgorithmProofs` | induction and recursive definitions, and what they give about `PlanGroups` and `Repository` | used by `ListingProofs` and `DeploymentProofs` |

### Backfill

The table is the set of keys of its rows (`present`) and of those that match the
filter (`todo`). The worker's open transaction is `txn`. `pc` follows
`run_backfill`: read the upper bound, try a single statement (`"paced": false`),
then batches up to `batch_cap_rows`, a final batch that finds nothing, the commit
with the cursor in it, and `verify_remaining`. A batch is any non-empty prefix of
the rows it could take, so throttling, `batch_bytes` and the planner's `LIMIT` are
all inside it. A composite key is its rank in index order. A grouped walk
(`run_grouped_batch`) has actions of its own: `Look` begins an iteration of its
loop, `GroupBatch` takes rows of the group, `GroupEnd` gives way to a commit,
`NextGroup` skips, `SkippedOnly` spends the budget of groups, `LastGroup` ends. A
group is the position before its first key, so that the pair the code keeps as a
cursor is one position in the same order; `at` is the copy the function works on.
Between the statements of one batch the application's writes commute with those
before or after it, so a batch is one step. `Resume` is the start of the next
attempt: it reads the cursor of the earlier ones (`resume_cursor`) and tests it
(`cursor_is_stale`). A step whose rows come from the specification's values or
select (`sourced`) reads those whether they are done or not, has no filter, and
takes the cursor unchecked. Beside the worker the operator cancels, the process
gets a signal, the observer cancels a statement, the application writes rows, a
statement fails, the answer to a commit is lost, and the process dies.
`StopNowCancelled` is `run`'s handler: when the observer's cancellation follows a
signal and meets a statement outside the walk's own try blocks (`Unguarded`: BEGIN,
the bound, the cursor's INSERT, the verification), the job ends cancelled and its
open transaction is lost. `undone`, `dirtied` and `earlier` are history for the
properties.

* `WalkComplete`: a walk that ended left only rows the application dirtied since,
  rows a cancelled batch gave back, keys not above the start position, and, where
  the cursor could not be checked, the first two of earlier attempts.
* `CancelKeepsBatch`: a cancelled job stands where it last committed, or lost its
  last transaction, rows and cursor together, to the cancellation of a signal.
* `AttemptEnds`: every attempt ends; a grouped walk passes every run of groups
  without work.

### PlanGroups, Migration and Executor

`PlanGroups!Planned` turns the shapes of emitted steps into a plan.
`MCExecutor` feeds `Executor` with every short plan made that way, so the
assumption `WellGrouped` that `Executor` makes of plans is evaluated on the
planner's own grouping; `AlgorithmProofs!PlansAreGrouped` proves it of every plan.
`Executor` follows `execute`'s loop: group boundaries, the
step, its record, the retry of a lock from the group's first step, and the ends
(`succeed`, `cancelled`, `fail`) that roll back, write the ledger, release the
locks and only then publish the state. `coord` is the coordination connection:
usable, stuck in a failed transaction, or dead; every ledger write may fail, and
the code swallows it. `Crash` ends the process at any step; `Reconcile` is
`reconcile_dead_jobs` of a later one.

* `ImplementsMigration`: `applied` refines `Migration`: whole groups, in plan order.
* `StepsToldTrue`, `FinishedLedgerTrue`, `NoOrphanedSuccess`, `SucceededMeansAll`:
  what jobStatus and the ledger say of steps and jobs is so; the exception is a
  commit whose answer was lost (`inDoubt`).
* `JobEnds`: a job whose process lives reaches a terminal state.

### Pacing

One job, the observer of its server (`Own`) and those of other connections of the
process (`Foreign`). A tick has the steps of the code: stop requests, the reading,
the application of the reading to the ladder, the cancellation. A cancellation
sets `cancel_requested` and then lands on whatever the worker's backend runs, or
on nothing, or cannot be sent (`SendFails`); it is sent once. `mine` are the sessions behind the worker's locks, `theirs` those
behind a session the worker let past. `kind` is the step the job is in: a walk, a
single statement, or other SQL: in a transaction with or without
`statement_timeout`, or outside one and without it (`Untimed`).

* `NoFlapping`: the pause flag never changes twice within the dwell.
* `BreakerTrips`: `contention_dwell_ticks` contended readings in a row pause.
* `CommitsForWaiter`: one more batch at most after the worker is told of a waiter.
* `StopEnds`: a job that was asked to stop ends, however long its statement would
  run; the exception is a statement without a timeout that never returns and that no
  stop reaches (`Unreached`): the one cancellation is spent, or only `cancelJob` asked
  and the statement is not a walk's.
* `PauseEnds`: pauses end.

### Repository and Listing

`Repository` has the pure part: `Classify` and `Gate` give each file its status
against the ledger of the database it names; `ScanProblems` is what refuses a
deployment; `Waits`, `Ready` and `Blocked` are the tests of `assemble`'s loop, and
`ParallelSubsets` is the greedy grouping of a level. `Listing` is one scan,
level by level. What a file touches (`rels`, `complete`) is derived from the
catalog by code that is not modelled; the derivation is an input.

* `DepsFirst`: a placed file has every listed dependency applied or placed earlier.
* `WholeOrRefused`: a listing without problems places everything runnable once.
* `CycleIsReal`: a cycle is reported only where `depends_on` has one.
* `GroupsIndependent`: two files of one group share no relation and both have
  complete evidence, or are on provably different databases.

### Deployment

Each run is a process with the program counter of `Deployment::run` and
`run_group`: list, next group, fill, start, open, poll, drain, join. Starting is
two steps, because `startMigration` reconciles and counts on one connection and
opens the job on another. A job is a record: its specification, its run, its
state in memory, its row in the ledger, whether it was asked to stop, and whether
its coordination session, and with it its locks, still lives. Jobs end as they
like, except that only one that was asked ends cancelled. Troubles are signals,
deaths of a process, lost sessions and exceptions; their number is bounded.

* `DependencyOrder`: no job runs before a job of each dependency has succeeded,
  whichever run did it.
* `ExitZeroMeansDone`: exit 0 means all that was listed as runnable was done.
* `WatchedToTheEnd`: a run that leaves, except through an exception, has shown
  the end of every job it started.
* `SlotFree`: a run is not refused for a limit of its own making.
* `StopEnds`: after a signal a run that has listed ends.

### Jobs

The caller answers one `startMigration` at a time: gates, reconciliation, the limit,
`create`, the migration's record, the locks, the row, the launch; each may fail where
the code may, and a gate that refuses changes nothing. A job is a record: its state,
its position in the plan, its open transaction, its slot, whether it was asked to
stop. A session is its pid and its locks; pids are handed out again after a loss.
A row has the pid and the time by which `job_is_dead_sql` judges it; the time of a
session of another role is hidden from a caller that may not read it (`Hidden`). The worker takes
a slot for a group, a batch or a lone step, waits for it in bounded looks, and tries
a group again when a lock times out. `limit` and `inFlight` are the gate's; every
start sets `limit` again, and `highest` remembers the largest.

* `CeilingHolds`: the gate counts the slots held, and no more jobs are at work than
  the highest ceiling declared, leaving out one that was asked to stop and one that
  began where none was declared.
* `NeverWaitsInside`: a job waits for a slot with no transaction open and no slot.
* `SharedTargetsSerialise`: two jobs that share a key are not at work together while
  both sessions live.
* `CountedIsUnderway`: what counts against `max_concurrent_jobs` has a worker or is
  being started, save where `open_job` threw.
* `MarkedIsGone`, `DeadAreMarked`: a row is marked interrupted only when its session
  is gone, and a start that reconciles leaves none that is, unless a later session
  whose time it may not read has the same pid and holds the same key.
* `JobsEnd`: every job that was launched ends.

Left to other modules: pauses and the abort for contention (`Pacing`), the records of
steps (`Executor`). A session takes its locks, and gives them back, in one step.

### Database, the recipes, Planner and Rollout

A database is a set of facts, tuples of names: a column, its NOT NULL, an index, its
invalidity, what a view reads, what a constraint proves. Facts about rows (nulls,
duplicates, offenders) are in the database and not in what the planner observes. A
statement is a record of what it needs, what must not be there, which row facts make
it fail, what it adds and takes away, what it reads in full, and what it locks against
writers: the tables it names (`xlock`) and those PostgreSQL locks with them (`also`: a
referenced table, a parent, its DEFAULT partition, the tables that use a domain).
`slow` are the tables of which the plan says that their writers wait for the whole of
it. A step has the tables it waits for with the weaker lock first (`first`) and
whether it asks for its locks briefly and again (`retry`). Each recipe is an operator from an intent and the observed facts to steps or
a conflict, with the branches of the C++ function of the same name; key columns are
sets, and wording, estimates and budgets are left out. `PlanMigration` plans each
intent against `Project` of the ones before it and groups the steps as `PlanGroups`
does. `Rollout` has the planner as a parameter, `MakePlan`, which every configuration
sets to `PlanMigration`, and runs such a plan: a transaction at a time, or a statement at a time
outside one. Unless it is one that cannot be begun twice (`once`; Known limits), it
may be stopped before any of these, or in a concurrent build, which
leaves its invalid index as one does that fails on a duplicate. The application writes
rows the schema in force allows; after a failure the rows in the way are mended, an
invalid index under a constraint's name is dropped as the plan says, and the
specification is planned again.

* `StepsApply`: no statement of a plan is refused for what the catalog holds.
* `DoneMeansIdeal`: a finished run left what the specification asks for and nothing
  else, whatever stopped the attempts before it; comments, and checks that say no more
  than a NOT NULL or a partition's bound, are not compared.
* `ResumeAccepted`: what was planned once is not refused when it is planned again.
* `KeepsWhatStays`: nothing that is there before and after is missing in between.
* `ShortLocks`: no transaction reads a big table in full under a lock that keeps
  writers out, unless the plan says so of that table beforehand: a rewrite, a form a
  module wants in one step, a build where none is concurrent, a constraint only an
  index build makes, a DEFAULT partition, a domain.
* `QueuesBriefly`: every table a step names and locks so, and that was there before, is
  waited for with the weaker lock first; other tables its statements lock are asked for
  briefly and again. `alter_domain` is excepted (Known limits).
* `WalksByKey`: a backfill walks the columns of a valid unique index over every row.
* `Completes`: a specification that can be done gets done, one that cannot is refused.

## 3. Runs

| run | expects | instance |
|---|---|---|
| `backfill_walk` | pass | 3 keys in 2 groups, walked by key, by group, from the specification's rows, or in one statement; batches of 2, cap 2, 1 group passed over in a batch, 2 attempts, 1 cancelled batch, 1 application write |
| `backfill_cancelled_batch` | violation of `CursorClaim` | 3 keys, batches of 1, cap 3, 1 attempt, 1 cancelled batch |
| `backfill_empty_group` | violation of `AttemptEnds` | 2 groups of 1 key, the first of them the empty string; 1 attempt, nothing else happens |
| `executor_jobs` | pass | every plan of up to 2 emitted steps of 6 shapes, those of 3 that begin with a plain one; 2 lock attempts |
| `executor_interrupted` | violation of `InterruptedStepsTrue` | plans of up to 2 steps, the coordination connection never fails |
| `pacing_one_observer` | pass | thresholds 1, 2, 0; dwell 2; 2 waiters; 2 batches to a transaction |
| `pacing_two_observers` | violation of `BreakerTrips` | the same with an observer of another server |
| `listing_order` | pass | every graph of 3 files, every gate, 4 files of one level over 2 relations |
| `deployment_runs` | pass | 2 runs over 2 files (chained with 2 troubles, independent with none), 1 run over 4 files with 1 |
| `jobs_server` | pass | 8 sequences of 2 or 3 calls over 5 specifications and 3 connections (ceilings of 1 and 2, and none); 2 pids, 2 tries of a lock, up to 1 lost session and 2 stops |
| `rollout_recipes` | pass | a scenario for each recipe and for the ways it forks, and chains of intents, one or more for every kind the projection keeps; 3 stops, 2 application writes |
| `rollout_label` | violation of `StepsApply` | ALTER TYPE ... ADD VALUE followed by a use of the label, nothing else happens |

Why these bounds are enough for the cases of interest:

* Backfill: a batch takes one or two of three rows and a transaction ends at two,
  so that a transaction has one batch or two and another follows it; one cancelled
  batch in an attempt and one attempt after it, which resumes from what the first
  left. A first group of two keys and one of one: a batch may end inside a group or
  with it, the walk resumes in either, and a batch may do no more than pass over a
  group without work. (The same with four keys in three groups and two passed over
  holds too; it takes TLC four minutes.)
* Executor: groups of one, two and three steps, each kind of step before and after
  each other, and one retry of a group with a step already reported.
* Pacing: a dwell of two, so that a count can be begun and broken; a queue that
  reaches the pause threshold; a transaction of two batches, so that a waiter can
  come in either.
* Listing: three files make a cycle with something that waits for it, a chain and
  a fork, with a fourth id that only the ledger knows. Four files make
  groups whose third member must be compared with the second.
* Deployment: two runs that both see a dependency unapplied, the loss of the
  session of one, and the death of the other. A limit of two jobs and a level of
  three fills the slots.
* Jobs: two jobs at a gate of one, a third that changes the ceiling, a shared target,
  and a specification whose job died started again with its pid handed out.
* Rollout: three stops reach a stop inside the repair of a stop; two writes are an
  offending row before and after a rule is declared.

`CHECK_DEADLOCK FALSE` is set in every configuration: a job, a listing and a run
end, and nothing happens after.

### Fairness

* `Backfill`, `Executor`: weak fairness of the worker's thread. Every wait in it is
  bounded (`lock_timeout`, `statement_timeout`, `max_pause_s`), and a statement
  that cannot succeed fails. The statements without a timeout are assumed to return:
  what else may become of them is in `Pacing`. Nothing is assumed of cancellations,
  the application, or crashes.
* `Pacing`: weak fairness of the worker between its statements, of the return or the
  timeout of a statement that has one, and of each observer's thread, which sleeps for
  a fixed interval. A statement without a timeout may run for ever, and readings may
  fail for ever. `statement_timeout_ms` is taken to be on, as by default; 0 would make
  every statement one without.
* `Deployment`: weak fairness of a run once it has listed (its loops poll), and of
  the end of a job that was *asked* to stop, which is `StopEnds` of `Pacing` (and so
  supposes that the one cancellation is not lost on a statement without a timeout) and
  `JobEnds` of `Executor`. A job that was not asked need never end, and signals,
  deaths and losses need never come. A listing is not assumed to end.
* `Jobs`: weak fairness of each worker: a statement returns or times out (one without a
  timeout is assumed to return), and the gate
  is looked at again every 50 ms. Callers need not call, stop or lose anything.
* `Rollout`: weak fairness of the job together with whoever starts it again and mends the
  rows in its way: without an operator a stopped job stays stopped. Stops are bounded.

### Where the code and its documentation disagree

Five runs show it; each is in `PROJECT.json` under `findings` with the lines
quoted.

* `CursorClaim`: a batch cancelled for a waiter rolls back the earlier batches of
  its transaction, and the cursor in memory stays past them; the next commit
  records it. The rows are found again only by `verify_remaining` or by a later
  attempt's staleness test, which is why `WalkComplete` excuses them (`undone`).
* `AttemptEnds` where a group's value is the empty string: `maybe` makes it NULL, so
  the group that follows it is itself, and the walk looks at it for ever.
* `InterruptedStepsTrue`: reconciliation marks a dead job interrupted and touches
  only its running steps; the steps of an open group still read succeeded.
* `BreakerTrips` with a second observer: each observer ticks over every job, and
  one that sees no waiters resets the count.
* `StepsApply` for a label: `own_transaction` begins a transaction at its step and
  does not end it after, so the next intent uses the label in the transaction that
  added it.

### Known limits

Met while modelling, and outside what the runs check. Some have a definition that
states what would be wanted; it does not hold.

* `NothingSkipped` (Backfill): the start of a walk by one key is the value 0, which is
  also a key; `WalkComplete` is about the keys above it. Composite and grouped walks
  start at NULL.
* A walk over rows of the specification has nothing to check a cursor against
  (`executor.h:1551`), so the cursor `CursorClaim` is about, past rows a cancelled batch
  gave back, is trusted by the next attempt, and those rows are not visited again
  (`WalkComplete` excuses them: `earlier`).
* `signals.h:47` says of a signal that "a walk commits the batch it is in and its
  cursor". A cancellation that the observer had asked for before the signal, and that
  arrives at the cursor's INSERT, ends the job cancelled without either
  (`executor.h:473`; `CancelKeepsBatch` excepts it).
* A stop does not reach a statement without a timeout (`executor.h:802`, `918`) once
  the one cancellation has been sent and failed, found nothing or met another statement
  (`jobs.h:716`), nor, where it is `cancelJob`'s, one that is not a walk's (`jobs.h:480`);
  `tools.h:1105` says that such a build may stall (`StopEnds` excepts it: `Unreached`).
* `PacingNeverFails` (Pacing): a cancellation that arrives after its batch hits the
  cursor statement, where it is an error.
* `ResumesWhenDrained` (Pacing): a paused worker holds no lock, so the count of
  sessions behind it is zero whatever is queued.
* `GroupsIndependent` over two databases (`MCListing!TwoDatabases`): a file of another
  database than the group's first joins without being compared with the rest of the
  group (`repository.h:1220`).
* `SlotFree` over connections with different limits: `run_group` caps its jobs by the
  limit of the connection it was pointed at (`deploy.h:440`), `startMigration` counts
  them against that of the specification's own (`tools.h:984`), so a run may be refused
  for jobs it started itself.
* Jobs: `operation_slot` gives a stopped job an empty slot and `open_group` and
  `run_nontransactional` go on uncounted (`CeilingHolds` excepts a job asked to stop);
  a start whose `open_job` throws leaves its job planned, and counted, for the life of
  the process (`CountedIsUnderway` excepts it); the comment at `jobs.h:179` fears a wait
  at the gate inside a transaction, which `NeverWaitsInside` rules out; a plan is made
  before the locks are taken (`tools.h:958`); a dead job is taken for a live one by a
  role that may not read when the session began that has its pid and key now
  (`ledger.h:528`; `DeadAreMarked` excepts it).
* Locks: `planner.h:1671` says "EVERY step that asks for a lock the application queues
  behind, on a table that is already there, takes the weaker lock first". It is taken on
  the table the intent names, or its partition and parent; a referenced table of a drop, the parent
  and the DEFAULT partition have the short timeout alone (`planner.h:1725`), and the
  tables that use an altered domain have neither (`planner.h:4553`, `4589`;
  `QueuesBriefly` excepts them).
* `NoCheckLeft` (Rollout): a run stopped between the statement that makes a temporary
  check redundant and its DROP is planned again as satisfied, and the check stays.
* Planner sequences that are not among the scenarios because a property is known to
  fail, or not to be decided, for them. Stopped and planned again:
  `set_text_search_mapping` before its REINDEX; `[add_column, set_not_null, ...]` after
  the second; an index on a partitioned table; `alter_domain` adding a check, whose ADD
  CONSTRAINT is planned whatever is there (`planner.h:4539`; its scenario is not stopped);
  `rename_table` with a later transaction behind it; an `insert` that refuses
  duplicates. Several intents over one object: a check or a foreign key, a dropped column's indexes, views and renamed equivalent
  indexes are not projected. Others: a NOT NULL column with a default over a nullable one of
  the same name is found satisfied; a unique index over nullable columns counts as a
  walk's key; a comment is lost when the build before it ran alone; `set_row_security`
  off does not reset FORCE.

## 4. Proofs

The proof modules hold for every value of the constants under the assumptions
named in the modules they extend. Those are: `KeysAssumption`, `BatchAssumption`,
`StepsAssumption`, `GroupsAssumption` (every row has a group), `BoundAssumption`
(Backfill); `PlansAssumption` (plans are
`WellGrouped`) and `AttemptsAssumption` (Executor); `ObserversAssumption`,
`LadderAssumption` (what `validate_executor` accepts) and `BoundAssumption`
(Pacing); `ListingAssumption` (a repository is finitely many files, named by
numbers); `DeploymentAssumption` (limits are positive, a repository is finite and
depends on its own files, connections are declared); `JobsAssumption` (Jobs). What the
executor assumes of plans is itself proved of the planner (`PlansAreGrouped`). Apart
from those about recipes, two theorems have a hypothesis of their own. `IndependentGroups` assumes that no two
connections lead to databases that are provably different, and `SlotAlwaysFree` that no
connection allows fewer jobs than the one a run is pointed at; without them the code
does not do what they say (section 3, Known limits).

| theorem | states | inductive invariant |
|---|---|---|
| `BackfillProofs!TypeCorrect` | `[]TypeOK` | itself |
| `BackfillProofs!Completeness` | `[]WalkComplete` | `Passed`: every row at or below the cursor, and below the one `run_grouped_batch` works on, is written, in the table or the open transaction, or excused; `Finished`; `WithinBound`: no row to do lies beyond the upper bound; `Recorded`: of a cursor that cannot be checked, the same as `Passed` for every attempt that recorded one |
| `BackfillProofs!CancelAtBoundary` | `CancelKeepsBatch` | `Settled`: outside a transaction that holds rows, the cursor in memory is where the walk began or what it committed |
| `BackfillProofs!NotNullStepByStep`, `CheckStepByStep`, `ForeignKeyStepByStep` | from any database, the first step of `plan_set_not_null`, `plan_add_check_constraint`, `plan_add_foreign_key` is accepted, scans nothing it locks and waits for all it locks with the weaker lock first (`RunsBriefly`), and planning again after it gives exactly the rest | none: each is about one plan and the next, in every state of the constraint |
| `BackfillProofs!BackfillWalksByKey` | a walk `plan_backfill` plans goes by the columns of an index that still proves them a key when the walk starts | none |
| `ExecutorProofs!TypeCorrect` | `[]TypeOK` | itself |
| `ExecutorProofs!Refinement` | `ImplementsMigration` | `Position`: the open transaction holds exactly the changes of the open group so far, and all before that group is durable |
| `ExecutorProofs!StepsTruth`, `LedgerTruth`, `NoOrphans`, `SuccessIsComplete` | `[]` of the four properties of Executor | `Position`, with `Truth` of both accounts of the steps and `LedgerHeld` |
| `AlgorithmProofs!PlansAreGrouped` | `Planned(steps)` is `WellGrouped`, whatever the recipes emit | by induction over the steps: `PlanSoFar`, what the first `n` of them became |
| `PacingProofs!TypeCorrect` | `[]TypeOK` | itself |
| `PacingProofs!Hysteresis` | `NoFlapping` | `CountsAreFresh`: ticks counted towards the next change came after the last |
| `PacingProofs!CommitTrigger` | `[]CommitsForWaiter` | `ToldIsLast` |
| `PacingProofs!Breaker` | `[]BreakerTrips` where `Foreign = {}` | `OneCount`: the job's count is its observer's |
| `ListingProofs!TypeCorrect`, `LevelsFollowDependencies`, `NothingLeftOut` | `[]TypeOK`, `[]DepsFirst`, and an order without problems holds all that is runnable | `TypeOK`, `DepsFirst` and `Accounted`: what is runnable is placed or remains |
| `ListingProofs!WholeListing` | `[]WholeOrRefused` | with `Scanned`: the findings of the scan are kept; `LevelsApart`: no specification is in two levels; and `AlgorithmProofs!ParallelSubsetsSplit` |
| `ListingProofs!ApartFromTheFirst`, `IndependentGroups` | two of one group that may be in the database of its first share no relation and have complete evidence; `[]GroupsIndependent` on one server | the same, and `AlgorithmProofs!GroupOfApart` |
| `ListingProofs!CyclesAreReal` | `[]CycleIsReal` | `Stalled`: where a cycle was reported, all that remains waits for something that remains |
| `RunProofs!Watched` | `[]WatchedToTheEnd` | `Watching`: every job a run started is watched, or reported, until it leaves through an exception |
| `DeploymentProofs!WithinTheCap`, `SlotAlwaysFree` | when a run asks for a job, fewer of its jobs are alive than its cap; `[]SlotFree` where no connection allows less | the same |
| `DeploymentProofs!TypeCorrect`, `DependenciesFirst`, `ZeroMeansDone` | `[]TypeOK`, `[]DependencyOrder`, `[]ExitZeroMeansDone` | `Whole`: the ledger's successes are real (`Truthful`), and each run's groups wait for nothing but what is done, under way or in an earlier group (`Ordered`), hold with what is under way and done all that was listed (`Covered`), and are left only when done or for a reason (`Left`) |
| `JobsProofs!Invariants` | `[]` of the invariants beside | `Shapes`; `GateInv`: where a transaction may be open and a slot held; `CountInv`: the gate counts the slots that are held; `LifeInv`: a job without a worker has ended, is being started, or was left by an exception; `PlaceInv`: where a worker is in its plan; `SessionInv`: the session of a running row has its pid, is no younger than it and holds all its keys (`OwnSession`), two sessions share no key and no pid, and one that has the pid of another job's running row is younger than the row (`ApartFrom`) |
| `JobsProofs!TypeCorrect`, `CeilingKept`, `CountedUnderway`, `WaitsOutside`, `TargetsSerialise`, `NoneMarkedAlive`, `NoneLeftDead` | `[]TypeOK`, `[]CeilingHolds`, `[]CountedIsUnderway`, `[]NeverWaitsInside`, `[]SharedTargetsSerialise`, `[]MarkedIsGone`, `DeadAreMarked` | the same |

The invariants are needed because none of the properties mentions the worker's
position: that a finished walk left nothing follows only from what held of the
cursor at every batch, and that a finished ledger is true only from what was in
the open transaction when each row was written. That a grouped walk may skip a group
rests on two facts about positions, `RowAhead` and `NothingBetween`: a row past the
cursor is in its group or in one that follows, and none lies between a group with
nothing left and the next. That `job_is_dead_sql` is right rests on times: a row still
running was opened after its session began and before any later use of its pid.

What a recursive definition computes is proved by induction. `AlgorithmProofs` states
induction and the existence of recursive functions with sets and functions where the
library's theorems take operators. From that it shows that plans are well grouped
(`PlanGrows`) and that the loop of `parallel_subsets` splits a level into groups that
keep apart (`ParallelSubsetsSplit`, `GroupOfApart`), and `DeploymentProofs` that
`Levels` and `Groups` put nothing before what it depends on (`LevelsOrdered`,
`GroupsOrdered`). `RunProofs` follows a run's steps from there. That overlapping runs keep the order of dependencies then rests on one
fact, that a success is never taken back (`Grows`): whatever a run found done when it
listed is done whatever other runs do since.

The theorems about recipes are what `ResumeAccepted`, `ShortLocks`, `QueuesBriefly` and `WalksByKey` of
Rollout ask of three recipes and of the walk, for any set of facts and whatever rows the
application writes between two steps; applied again to what a step leaves, they follow a
recipe to its end. They assume the table is there, that no vendor module asks for one
step (`one_step`), and for NOT NULL that the name of the recipe's check is its own
(`OwnCheck`). A run stopped between SET NOT NULL and the drop of the check finds nothing
to plan, so the check stays: the theorem says so, and `NoCheckLeft` shows it
(section 3). `BackfillRecipe` and what it extends use no sequence operator beyond `\o`,
which is what keeps these proofs small; the recipes after it fold over sets of columns
and partitions.

`TypeOK` of Backfill, Executor, Pacing and Listing is proved and so not among the
invariants of their runs; that of Deployment and of Jobs is both proved and checked.

Model-checked only:

* the liveness properties (`AttemptEnds`, `JobEnds`, `StopEnds`, `PauseEnds`, `JobsEnd`,
  `Completes`), since fairness is out of the prover's reach;
* the properties of `Rollout` themselves, which follow whole specifications, one scenario
  at a time, through every recipe: beyond the recipes above there is no invariant shorter
  than the recipes.

## 5. Not modelled

* Progress estimates, throttled sleeps, invariants queries of a walk, and the readings
  a vendor module makes after a failure.
* `ConnectionCache`, the chain and its rehearsal (`--chain`), `--dry-run`, `--status`.
* The trust gates are a refusal without a cause; signatures and canonical bytes are
  cryptography and byte layout, outside what a model checker can say.
* The planner's budgets, row estimates and warnings; the order of columns in a key.
* The specification parser and configuration parsing: long validations of one input,
  without state. The extension modules' recipes and guards, which need each extension's
  own catalog.
* The derivation of what a specification touches from the catalog (`repository.h:772`),
  taken by `Listing` as an input; it is made once, before the first level runs.
* Which signal came: a run is asked to stop, or its process dies.
* Catalog queries are I/O. The text of SQL, messages and JSON is left out throughout.

## 6. Plan

1. A projection of checks, foreign keys, dropped columns' indexes and views: the
   sequences under Known limits become scenarios of `rollout_recipes` as the code gains
   them.
2. The extension modules' recipes over the facts of `Database`.
3. The chain and its rehearsal, with `ConnectionCache`.
