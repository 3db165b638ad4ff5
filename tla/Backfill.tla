------------------------------ MODULE Backfill ------------------------------
(***************************************************************************)
(* One own_txn_per_batch step of a plan, as Executor::run_backfill runs    *)
(* it: a keyset walk over the rows that match the step's filter, or over   *)
(* the rows the specification brings, in batches, several batches to a     *)
(* transaction, with the walk's cursor written in the transaction of the   *)
(* rows it describes; and the attempts that follow one another when a job  *)
(* is cancelled, fails, is aborted or dies, each resuming from the cursor  *)
(* an earlier one committed.                                               *)
(*                                                                         *)
(* The table is the set of its keys.  A row is to do when it matches the   *)
(* filter; where the rows come from the specification, they are the table  *)
(* and one is to do until the target holds what it says.  Keys are         *)
(* integers; a composite key is its rank in index order.                   *)
(* What a batch writes, how long it takes and how many bytes its keys have *)
(* are left out: a batch is any non-empty prefix of the rows it could      *)
(* take, no longer than BatchRows (batch_bytes, a throttled batch_rows / 2 *)
(* and the planner's LIMIT all cut a prefix).                              *)
(*                                                                         *)
(* A grouped walk takes the values of a group column one after another and *)
(* the keys inside each (run_grouped_batch).  Its cursor, a pair of group  *)
(* and key, is a position among the keys too: a group is the position      *)
(* before its first key, GroupCursor's "this group, from the beginning".   *)
(***************************************************************************)
EXTENDS Integers, FiniteSets

CONSTANTS
    Keys,         \* the keys a row of the table may have
    BatchRows,    \* executor.batch_rows
    BatchCapRows, \* executor.batch_cap_rows
    GroupStarts,  \* the groups of a grouped walk, each the position before it
    GroupsPerBatch, \* kGroupsPerBatch
    Steps,        \* the steps that may be run
    MaxAttempts,  \* bound: jobs started for this specification
    MaxCancels,   \* bound: cancellations the observer asks for
    MaxAppWrites  \* bound: writes of the application

ASSUME KeysAssumption == Keys \subseteq Int

ASSUME BatchAssumption == BatchRows \in Nat \ {0} /\ BatchCapRows \in Nat \ {0}

\* k comes after position p and no other group begins in between.
Within(p, k) == p < k /\ \A s \in GroupStarts : ~(p < s /\ s <= k)

\* paced: FALSE for "paced": false, one statement is tried first.
\* filled: a trigger fills every row the application writes.
\* bounded: the plan carries upper_bound_sql, which needs filled.
\* verify: the step carries verify_remaining.
\* grouped: batch_mode is "grouped", and then no bound is read.
\* sourced: the rows are the specification's values or select, and "where"
\* is empty: paced_statement, which neither groups nor bounds.
ASSUME StepsAssumption ==
    /\ Steps \subseteq [paced : BOOLEAN, filled : BOOLEAN,
                        bounded : BOOLEAN, verify : BOOLEAN,
                        grouped : BOOLEAN, sourced : BOOLEAN]
    /\ \A s \in Steps : s.bounded => s.filled /\ ~s.grouped
    /\ \A s \in Steps : s.sourced => s.paced /\ ~s.filled /\ ~s.grouped

\* Every row has a group where a walk is grouped.
ASSUME GroupsAssumption ==
    /\ GroupStarts \subseteq Int
    /\ GroupsPerBatch \in Nat \ {0}
    /\ (\E s \in Steps : s.grouped) =>
          \A k \in Keys : \E s \in GroupStarts : Within(s, k)

ASSUME BoundAssumption ==
    /\ MaxAttempts \in Nat /\ MaxCancels \in Nat /\ MaxAppWrites \in Nat

Attempts == 1..MaxAttempts

\* resume_cursor's "0", which is also the position a walk starts after.
Start == 0

Outcomes == {"none", "running", "succeeded", "failed", "cancelled",
             "interrupted", "aborted_contention"}

\* The states whose cursor a later job resumes from (resume_cursor's query).
\* A job that died has no finished_at until it is marked interrupted.
Resumable == {"running", "failed", "cancelled", "interrupted",
              "aborted_contention"}

VARIABLES
    step,       \* the step of the plan
    present,    \* keys of the table's rows, committed
    todo,       \* those that match the step's filter, committed
    txn,        \* keys written by the worker's open transaction
    pc,         \* where the worker is
    cursor,     \* run_backfill's cursor
    resumed,    \* resumed_from
    hasUpto,    \* the walk has an upper bound that is not NULL ...
    upto,       \* ... and this is it
    at,         \* run_grouped_batch's own cursor ...
    looked,     \* ... and how many groups it has looked at
    attempt,    \* the job now running, or the last one
    outcome,    \* attempt -> laswell.job.state
    hasCursor,  \* attempts that have a row in laswell.backfill_cursor
    saved,      \* attempt -> its last_key
    cancelStop,      \* pacing.cancel_stop
    stopNow,         \* pacing.stop_now: it was a signal
    cancelRequested, \* pacing.cancel_requested
    cancels, appWrites, \* how often the two bounded actions happened
    undone,     \* history: keys this attempt wrote and a cancelled batch's
                \* rollback took back
    dirtied,    \* history: keys the application made match since this
                \* attempt read its cursor
    earlier     \* history: what the two were before this attempt

table == <<present, todo>>
walk == <<txn, cursor>>
seek == <<at, looked>>
bound == <<resumed, hasUpto, upto, at, looked>>
ledger == <<hasCursor, saved>>
flags == <<cancelStop, stopNow, cancelRequested>>
bounds == <<step, cancels, appWrites>>
history == <<undone, dirtied, earlier>>
vars == <<table, walk, bound, ledger, flags, bounds, history,
          pc, attempt, outcome>>

PCs == {"idle", "bound", "single", "statement", "top", "batch", "look",
        "select", "final", "commit", "verify"}

\* The worker's transaction is open.
InTransaction == pc \in {"batch", "look", "select", "final", "commit"}

FlagsOK == {hasUpto, cancelStop, stopNow, cancelRequested} \subseteq BOOLEAN

TypeOK ==
    /\ step \in Steps
    /\ present \subseteq Keys
    /\ todo \subseteq present
    /\ txn \subseteq present
    /\ ~InTransaction => txn = {}
    /\ pc \in PCs
    /\ cursor \in Int /\ resumed \in Int /\ upto \in Int
    /\ at \in Int /\ looked \in 0..GroupsPerBatch
    /\ pc = "select" => looked < GroupsPerBatch
    /\ attempt \in 0..MaxAttempts
    /\ outcome \in [Attempts -> Outcomes]
    /\ pc # "idle" => attempt \in Attempts /\ outcome[attempt] = "running"
    /\ hasCursor \subseteq Attempts
    /\ \A a \in hasCursor : a <= attempt
    /\ saved \in [Attempts -> Int]
    /\ FlagsOK
    /\ cancels \in 0..MaxCancels
    /\ appWrites \in 0..MaxAppWrites
    /\ undone \cup dirtied \cup earlier \subseteq Keys

Init ==
    /\ step \in Steps
    /\ present \in SUBSET Keys
    /\ todo = present
    /\ txn = {}
    /\ pc = "idle"
    /\ cursor = Start /\ resumed = Start
    /\ hasUpto = FALSE /\ upto = Start
    /\ at = Start /\ looked = 0
    /\ attempt = 0
    /\ outcome = [a \in Attempts |-> "none"]
    /\ hasCursor = {}
    /\ saved = [a \in Attempts |-> Start]
    /\ cancelStop = FALSE /\ stopNow = FALSE /\ cancelRequested = FALSE
    /\ cancels = 0 /\ appWrites = 0
    /\ undone = {} /\ dirtied = {} /\ earlier = {}

-----------------------------------------------------------------------------
(* Starting and resuming *)

\* Mutant: a cursor is trusted as it stands.
Stale_trusted(from) == FALSE

\* at.group.empty(): a grouped walk at p has not started -- or is in the group
\* whose value is the empty string, which lies at the start position.
Unset(p) == \A s \in GroupStarts : s <= p => s = Start

\* cursor_is_stale: a row at or below the cursor still matches the filter.
\* Without a filter nothing is asked; a grouped cursor without a group claims
\* nothing.
Stale(from) ==
    /\ ~step.sourced
    /\ step.grouped => ~Unset(from)
    /\ \E k \in todo : k <= from

\* The attempts whose cursor may be resumed from.
Resumes == {a \in hasCursor : outcome[a] \in Resumable}

\* The last of them: ORDER BY updated_at DESC LIMIT 1, attempts being
\* serialised by the specification's advisory lock.
IsLatest(a) == a \in Resumes /\ \A b \in Resumes : b <= a

\* resume_cursor.  A ledger that cannot be read is one more reason to start
\* from the beginning.
ResumeCursor(c) ==
    \/ c = Start
    \/ \E a \in Resumes : IsLatest(a) /\ c = saved[a] /\ ~Stale(saved[a])

\* The next job for this specification: it starts, and its walk reads where
\* to resume.
Resume ==
    /\ pc = "idle"
    /\ attempt < MaxAttempts
    /\ attempt' = attempt + 1
    /\ outcome' = [outcome EXCEPT ![attempt + 1] = "running"]
    /\ \E c \in {Start} \cup {saved[a] : a \in hasCursor} :
          /\ ResumeCursor(c)
          /\ cursor' = c
          /\ resumed' = c
    /\ hasUpto' = FALSE
    /\ at' = Start /\ looked' = 0
    /\ pc' = "bound"
    /\ cancelStop' = FALSE /\ stopNow' = FALSE
    /\ cancelRequested' = FALSE
    /\ undone' = {}
    /\ dirtied' = {}
    /\ earlier' = earlier \cup undone \cup dirtied
    /\ UNCHANGED <<table, txn, upto, ledger, bounds>>

\* The upper bound, read once where the plan asks for it: the highest key
\* there is, NULL for an empty table.  Then the one statement or the walk.
ReadBound ==
    /\ pc = "bound"
    /\ IF step.bounded /\ present # {}
       THEN /\ hasUpto' = TRUE
            /\ upto' \in present
            /\ \A k \in present : k <= upto'
       ELSE UNCHANGED <<hasUpto, upto>>
    /\ pc' = IF ~step.paced /\ resumed = Start THEN "single" ELSE "top"
    /\ UNCHANGED <<table, walk, resumed, seek, ledger, flags, bounds, history,
                   attempt, outcome>>

\* The job ends in state s; a transaction still open goes with it.
EndAs(s) ==
    /\ outcome' = [outcome EXCEPT ![attempt] = s]
    /\ pc' = "idle"
    /\ txn' = {}

-----------------------------------------------------------------------------
(* The one statement of "paced": false *)

\* The slot is there: a job told to stop ends here, any other begins the
\* transaction.
SingleBegin ==
    /\ pc = "single"
    /\ ~cancelStop
    /\ pc' = "statement"
    /\ UNCHANGED <<table, walk, bound, ledger, flags, bounds, history,
                   attempt, outcome>>

SingleStatement ==
    /\ pc = "statement"
    /\ todo' = {}
    /\ pc' = "verify"
    /\ UNCHANGED <<present, walk, bound, ledger, flags, bounds, history,
                   attempt, outcome>>

\* The observer cancelled it, or it waited out lock_timeout: nothing of it is
\* kept and the walk does the work.
SingleGivesWay ==
    /\ pc = "statement"
    /\ \/ ~cancelStop /\ cancelRequested /\ cancelRequested' = FALSE
       \/ UNCHANGED cancelRequested
    /\ pc' = "top"
    /\ UNCHANGED <<table, walk, bound, ledger, cancelStop, stopNow, bounds,
                   history, attempt, outcome>>

SingleCancelled ==
    /\ pc \in {"single", "statement"}
    /\ cancelStop
    /\ cancelRequested' = (pc = "single" /\ cancelRequested)
    /\ EndAs("cancelled")
    /\ UNCHANGED <<table, cursor, bound, ledger, cancelStop, stopNow, bounds,
                   history, attempt>>

-----------------------------------------------------------------------------
(* The walk *)

\* Between transactions the walk sees an operator's cancellation ...
Cancelled ==
    /\ pc = "top"
    /\ cancelStop
    /\ EndAs("cancelled")
    /\ UNCHANGED <<table, cursor, bound, ledger, flags, bounds, history,
                   attempt>>

\* ... and a pause, which lasts too long or ends.
AbortContention ==
    /\ pc = "top"
    /\ ~cancelStop
    /\ EndAs("aborted_contention")
    /\ UNCHANGED <<table, cursor, bound, ledger, flags, bounds, history,
                   attempt>>

\* The slot is there and the transaction begins.
Begin ==
    /\ pc = "top"
    /\ ~cancelStop
    /\ pc' = IF step.grouped THEN "look" ELSE "batch"
    /\ at' = cursor /\ looked' = 0
    /\ UNCHANGED <<table, walk, resumed, hasUpto, upto, ledger, flags, bounds, history,
                   attempt, outcome>>

\* The rows a batch's statement reads: those that match the filter, or all of
\* the specification's, done or not.
Read == IF step.sourced THEN present ELSE todo

\* The rows a batch selects from: past the cursor, inside the bound, as the
\* open transaction sees them.
Candidates ==
    {k \in Read \ txn : cursor < k /\ (hasUpto => k <= upto)}

\* The batch that ends at key m: a prefix of the candidates.
BatchUpTo(m) == {k \in Candidates : k <= m}

\* Mutant: the byte budget can stop a batch before its first key.
BatchEnds_zeroKeys ==
    {m \in Candidates : Cardinality(BatchUpTo(m)) <= BatchRows} \cup {cursor}

\* The last key of a batch.
BatchEnds == {m \in Candidates : Cardinality(BatchUpTo(m)) <= BatchRows}

\* run_paced_batch, and what the loop does after it: go on in this
\* transaction, or commit -- for a lock waiter, for the interval, and always
\* at the row cap.
Batch ==
    /\ pc = "batch"
    /\ \E m \in BatchEnds :
          /\ txn' = txn \cup BatchUpTo(m)
          /\ cursor' = m
    /\ pc' \in IF Cardinality(txn') >= BatchCapRows
               THEN {"commit"} ELSE {"batch", "commit"}
    /\ UNCHANGED <<table, bound, ledger, flags, bounds, history,
                   attempt, outcome>>

\* A batch that found nothing ends the walk.
LastBatch ==
    /\ pc = "batch"
    /\ Candidates = {}
    /\ pc' = "final"
    /\ UNCHANGED <<table, walk, bound, ledger, flags, bounds, history,
                   attempt, outcome>>

-----------------------------------------------------------------------------
(* The grouped walk: one run_grouped_batch is a pass over "look" and "select" *)

\* The groups that have a row, whether it matches the filter or not.
Groups == {s \in GroupStarts : \E k \in present : Within(s, k)}

\* What groups_sql selects from: the groups after the one p is in, all of them
\* when its parameter is NULL.
Following(p) == IF Unset(p) THEN Groups ELSE {s \in Groups : s > p}

\* groups_sql, LIMIT 1.
IsNextGroup(p, g) == g \in Following(p) /\ \A s \in Following(p) : g <= s

\* The rows the confined select sees: of this group, past the key.
InGroup == {k \in todo \ txn : Within(at, k)}

InGroupUpTo(m) == {k \in InGroup : k <= m}

\* A batch's size: batch_rows, or half of it when throttled.
BatchSizes == {BatchRows, IF BatchRows = 1 THEN 1 ELSE BatchRows \div 2}

\* An iteration begins: with the cursor's group, or the first where it has none.
Look ==
    /\ pc = "look"
    /\ looked < GroupsPerBatch
    /\ IF Unset(at) THEN IsNextGroup(at, at') ELSE at' = at
    /\ pc' = "select"
    /\ UNCHANGED <<table, walk, resumed, hasUpto, upto, looked, ledger, flags,
                   bounds, history, attempt, outcome>>

\* The group has rows to do: a prefix of them is written, and the loop goes on
\* or commits as after any batch.
GroupBatch ==
    /\ pc = "select"
    /\ \E m \in InGroup :
          /\ Cardinality(InGroupUpTo(m)) <= BatchRows
          /\ txn' = txn \cup InGroupUpTo(m)
          /\ cursor' = m
          /\ at' = m
    /\ looked' = 0
    /\ pc' \in IF Cardinality(txn') >= BatchCapRows
               THEN {"commit"} ELSE {"look", "commit"}
    /\ UNCHANGED <<table, resumed, hasUpto, upto, ledger, flags, bounds,
                   history, attempt, outcome>>

\* commit_first: the group has none left and the transaction holds a batch's
\* rows, so it commits before it asks which group is next.
GroupEnd ==
    /\ pc = "select"
    /\ InGroup = {}
    /\ \E b \in BatchSizes : Cardinality(txn) >= b
    /\ cursor' = at
    /\ pc' = "commit"
    /\ UNCHANGED <<table, txn, bound, ledger, flags, bounds, history,
                   attempt, outcome>>

\* The group has none left: the next one is looked at.
NextGroup ==
    /\ pc = "select"
    /\ InGroup = {}
    /\ \E b \in BatchSizes : Cardinality(txn) < b
    /\ IsNextGroup(at, at')
    /\ looked' = looked + 1
    /\ pc' = "look"
    /\ UNCHANGED <<table, walk, resumed, hasUpto, upto, ledger, flags, bounds,
                   history, attempt, outcome>>

\* Mutant: a batch that only skipped groups is taken for the end of the walk.
SkippedOnly_final ==
    /\ pc = "look"
    /\ looked >= GroupsPerBatch
    /\ cursor' = at
    /\ pc' = "final"
    /\ UNCHANGED <<table, txn, bound, ledger, flags, bounds, history,
                   attempt, outcome>>

\* skipped_only: the budget is spent on groups without work.  The cursor has
\* moved and is committed.
SkippedOnly ==
    /\ pc = "look"
    /\ looked >= GroupsPerBatch
    /\ cursor' = at
    /\ pc' = "commit"
    /\ UNCHANGED <<table, txn, bound, ledger, flags, bounds, history,
                   attempt, outcome>>

\* No group follows: the walk is finished.
LastGroup ==
    /\ \/ pc = "look" /\ looked < GroupsPerBatch /\ Unset(at)
       \/ /\ pc = "select" /\ InGroup = {}
          /\ \E b \in BatchSizes : Cardinality(txn) < b
    /\ Following(at) = {}
    /\ cursor' = at
    /\ pc' = "final"
    /\ UNCHANGED <<table, txn, bound, ledger, flags, bounds, history,
                   attempt, outcome>>

Grouping ==
    Look \/ GroupBatch \/ GroupEnd \/ NextGroup \/ SkippedOnly \/ LastGroup

-----------------------------------------------------------------------------
(* The end of a transaction *)

\* A batch's statement is cancelled and the observer had asked for it: the
\* transaction is rolled back and the walk goes on -- with the cursor where the
\* batches before it in this transaction had brought it.
BatchCancelled ==
    /\ pc \in {"batch", "look", "select"}
    /\ cancelRequested
    /\ cancelRequested' = FALSE
    /\ undone' = undone \cup txn
    /\ txn' = {}
    /\ pc' = "top"
    /\ UNCHANGED <<table, cursor, bound, ledger, cancelStop, stopNow, bounds,
                   dirtied, earlier, attempt, outcome>>

\* Mutant: the cursor is not written with the rows.
Commit_cursorApart ==
    /\ pc \in {"commit", "final"}
    /\ todo' = todo \ txn
    /\ txn' = {}
    /\ pc' = IF pc = "final" THEN "verify" ELSE "top"
    /\ UNCHANGED <<present, cursor, bound, ledger, flags, bounds, history,
                   attempt, outcome>>

\* The cursor is written and the transaction commits, rows and cursor at once.
Commit ==
    /\ pc \in {"commit", "final"}
    /\ todo' = todo \ txn
    /\ saved' = [saved EXCEPT ![attempt] = cursor]
    /\ hasCursor' = hasCursor \cup {attempt}
    /\ txn' = {}
    /\ pc' = IF pc = "final" THEN "verify" ELSE "top"
    /\ UNCHANGED <<present, cursor, bound, flags, bounds, history,
                   attempt, outcome>>

\* verify_remaining and assert_invariants, on the worker's connection.
Succeed ==
    /\ pc = "verify"
    /\ step.verify => todo = {}
    /\ EndAs("succeeded")
    /\ UNCHANGED <<table, cursor, bound, ledger, flags, bounds, history,
                   attempt>>

-----------------------------------------------------------------------------
(* What goes wrong *)

\* A statement fails (a timeout, an error, the connection), verify_remaining
\* selects a row, or an invariant changed: the job fails.
Fail ==
    /\ pc # "idle"
    /\ EndAs("failed")
    /\ UNCHANGED <<table, cursor, bound, ledger, flags, bounds, history,
                   attempt>>

\* The statements neither the single statement's nor a batch's try block holds:
\* BEGIN, the bound, the cursor's own INSERT, the verification.
Unguarded == {"bound", "single", "top", "commit", "final", "verify"}

\* run(): one of those is cancelled, the job has asked for it and the process
\* was told to stop.  That is a cancelled job, whatever its transaction held.
StopNowCancelled ==
    /\ pc \in Unguarded
    /\ cancelStop /\ stopNow /\ cancelRequested
    /\ cancelRequested' = FALSE
    /\ EndAs("cancelled")
    /\ UNCHANGED <<table, cursor, bound, ledger, cancelStop, stopNow, bounds,
                   history, attempt>>

\* The server commits and the answer is lost: the job fails, its work is kept.
CommitInDoubt ==
    /\ \/ /\ pc \in {"commit", "final"}
          /\ todo' = todo \ txn
          /\ saved' = [saved EXCEPT ![attempt] = cursor]
          /\ hasCursor' = hasCursor \cup {attempt}
       \/ /\ pc = "statement"
          /\ todo' = {}
          /\ UNCHANGED ledger
    /\ EndAs("failed")
    /\ UNCHANGED <<present, cursor, bound, flags, bounds, history, attempt>>

\* The process dies; its job is marked interrupted when the next run starts.
Crash ==
    /\ pc # "idle"
    /\ EndAs("interrupted")
    /\ UNCHANGED <<table, cursor, bound, ledger, flags, bounds, history,
                   attempt>>

-----------------------------------------------------------------------------
(* Everyone else *)

\* cancelJob.
OperatorCancel ==
    /\ pc # "idle"
    /\ ~cancelStop
    /\ cancelStop' = TRUE
    /\ UNCHANGED <<table, walk, bound, ledger, stopNow, cancelRequested, bounds,
                   history, pc, attempt, outcome>>

\* stop_jobs, on a signal.
Signal ==
    /\ pc # "idle"
    /\ ~stopNow
    /\ stopNow' = TRUE /\ cancelStop' = TRUE
    /\ UNCHANGED <<table, walk, bound, ledger, cancelRequested, bounds,
                   history, pc, attempt, outcome>>

\* The observer asks for a cancellation: of the statement in flight, or of
\* none when it comes between two statements, and then the flag stays.
ObserverCancel ==
    /\ pc # "idle"
    /\ ~cancelRequested
    /\ cancels < MaxCancels
    /\ cancels' = cancels + 1
    /\ cancelRequested' = TRUE
    /\ UNCHANGED <<table, walk, bound, ledger, cancelStop, stopNow, step,
                   appWrites, history, pc, attempt, outcome>>

\* The application writes a row that the worker has not locked.  A trigger
\* fills it, or it matches the filter again.
AppWrite(k) ==
    /\ appWrites < MaxAppWrites
    /\ appWrites' = appWrites + 1
    /\ k \notin txn
    /\ present' = present \cup {k}
    /\ IF step.filled
       THEN todo' = todo \ {k} /\ UNCHANGED dirtied
       ELSE todo' = todo \cup {k} /\ dirtied' = dirtied \cup {k}
    /\ UNCHANGED <<walk, bound, ledger, flags, step, cancels, undone, earlier,
                   pc, attempt, outcome>>

Worker ==
    \/ ReadBound \/ SingleBegin \/ SingleStatement \/ SingleGivesWay \/ SingleCancelled
    \/ Cancelled \/ AbortContention \/ Begin
    \/ Batch \/ LastBatch
    \/ Grouping
    \/ BatchCancelled \/ Commit \/ Succeed

Next ==
    \/ Resume
    \/ Worker
    \/ Fail \/ StopNowCancelled \/ CommitInDoubt \/ Crash
    \/ OperatorCancel \/ Signal \/ ObserverCancel
    \/ \E k \in Keys : AppWrite(k)

Spec == Init /\ [][Next]_vars

\* A worker that is not blocked runs on: every wait in it is bounded
\* (lock_timeout, statement_timeout, max_pause_s), and a statement that cannot
\* succeed fails.
FairSpec == Spec /\ WF_vars(Worker \/ Fail)

-----------------------------------------------------------------------------
(* Properties *)

\* When a walk has ended, the rows that are still to do are only
\*   - rows the application wrote after this attempt had read its cursor,
\*   - rows whose write a cancelled batch's rollback took back in this attempt,
\*   - rows whose key is not above the position a walk starts after,
\*   - and, where the rows come from the specification and resume_cursor has
\*     nothing to check a cursor against, the first two of earlier attempts.
\* What earlier attempts left undone below their cursor is never among them
\* where there is a filter: a cursor is checked before it is trusted
\* (cursor_is_stale).
WalkComplete ==
    pc = "verify" =>
        \A k \in todo : \/ k \in dirtied \/ k \in undone \/ k <= Start
                        \/ step.sourced /\ k \in earlier

\* A cancelled job stopped at a batch boundary: the position its walk reached
\* is the one in backfill_cursor.  The exceptions are a walk that had not
\* begun, one that a cancelled batch's rollback took rows back from, and one
\* whose cursor the cancellation of a signal met as it was being written
\* (run): its transaction is lost, the rows and the cursor together.
CancelKeepsBatch ==
    [][ \A a \in Attempts :
          outcome[a] = "running" /\ outcome'[a] = "cancelled" =>
             \/ /\ txn = {}
                /\ \/ cursor = resumed
                   \/ a \in hasCursor /\ saved[a] = cursor
                   \/ undone # {}
             \/ /\ pc \in {"commit", "final"} /\ stopNow
                /\ UNCHANGED <<todo, ledger>> ]_vars

\* Every attempt ends: nothing a batch meets makes the walk spin.
AttemptEnds == (pc # "idle") ~> (pc = "idle")

\* "A cursor is a claim: everything at or below this key is done"
\* (executor.h, resume_cursor), where the application writes nothing.
CursorClaim ==
    \A a \in hasCursor : \A k \in todo : k > saved[a]

\* Every row is walked: a walk that ended left none, where the application
\* writes nothing and no batch was cancelled.  It does not hold: a key at or
\* below the start position is never selected (README, Known limits).
NothingSkipped == pc = "verify" => todo = {}

=============================================================================
