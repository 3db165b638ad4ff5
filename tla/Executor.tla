------------------------------ MODULE Executor ------------------------------
(***************************************************************************)
(* Executor::run and execute: one job running one plan on its worker       *)
(* connection, with the ledger kept beside it on the coordination          *)
(* connection.  The two connections fail apart, and the process may die    *)
(* between any two writes; a later process reconciles what it left.        *)
(*                                                                         *)
(* A paced walk is one step here; module Backfill opens it up.             *)
(***************************************************************************)
EXTENDS PlanGroups

CONSTANTS
    Plans,           \* the plans a job may be given
    MaxLockAttempts, \* tries of an exclusive lock before patience is spent
    LedgerMayFail    \* whether the coordination connection may fail

ASSUME PlansAssumption ==
    /\ Plans \subseteq Seq(PlanSteps)
    /\ \A p \in Plans : WellGrouped(p)

ASSUME AttemptsAssumption == MaxLockAttempts \in Nat \ {0}

VARIABLES
    plan,            \* job_->plan["steps"]
    pc,              \* where the worker is
    at,              \* the loop's index (from 1; ordinals are dense)
    currentGroup,    \* current_group, one more than the code's
    groupOpen,       \* group_open: the worker holds a transaction
    groupFirst,      \* group_first
    groupAttempt,    \* group_attempt
    uncommitted,     \* uncommitted_
    mem,             \* job_->steps: what jobStatus says of each step
    job,             \* job_->state
    ending,          \* the terminal state the job is about to be given
    cancelStop,      \* pacing.cancel_stop
    stopNow,         \* pacing.stop_now
    cancelRequested, \* pacing.cancel_requested
    alive,           \* the process
    coord,           \* coordination_: usable, stuck in a transaction, or dead
    locked,          \* the job's advisory lock is held
    led,             \* laswell.step.state
    ledJob,          \* laswell.job.state
    pending,         \* steps whose changes are in the open transaction
    applied,         \* steps whose changes are durable
    inDoubt          \* history: durable, but the worker was told otherwise

control == <<currentGroup, groupOpen, groupFirst, groupAttempt, uncommitted>>
cancels == <<cancelStop, stopNow, cancelRequested>>
ledger  == <<coord, locked, led, ledJob>>
database == <<pending, applied, inDoubt>>
vars == <<plan, pc, at, control, mem, job, ending, cancels, alive, ledger,
          database>>

N == Len(plan)

Step == plan[at]

StepStates == {"none", "running", "succeeded", "failed", "rolled_back",
               "cancelled", "skipped_satisfied", "lock_not_acquired",
               "interrupted"}

Terminal == {"succeeded", "failed", "cancelled", "aborted_contention"}

\* What the plan promises of the database.
M == INSTANCE Migration WITH plan <- plan, applied <- applied, Plans <- Plans

Changes(p) == M!Changes(p)

FlagsOK ==
    {groupOpen, cancelStop, stopNow, cancelRequested, alive, locked}
        \subseteq BOOLEAN

TypeOK ==
    /\ plan \in Seq(PlanSteps)
    /\ pc \in {"connect", "top", "boundary", "run", "record", "retry",
               "rollback", "finish", "publish", "ended"}
    /\ at \in 1..(N + 1)
    /\ pc \in {"boundary", "run", "record", "retry"} => at <= N /\ Step.apply
    /\ currentGroup \in Nat
    /\ groupFirst \in Nat
    /\ groupAttempt \in 1..MaxLockAttempts
    /\ uncommitted \subseteq DOMAIN plan
    /\ pending \subseteq Changes(plan)
    /\ applied \subseteq Changes(plan)
    /\ inDoubt \subseteq Changes(plan)
    /\ mem \in [DOMAIN plan -> StepStates]
    /\ led \in [DOMAIN plan -> StepStates]
    /\ job \in {"planned", "running"} \cup Terminal
    /\ ending \in {"none"} \cup Terminal
    /\ ledJob \in {"running", "interrupted"} \cup Terminal
    /\ coord \in {"ok", "stuck", "dead"}
    /\ FlagsOK

Init ==
    /\ plan \in Plans
    /\ pc = "connect" /\ at = 1
    /\ currentGroup = 0 /\ groupOpen = FALSE
    /\ groupFirst = 0 /\ groupAttempt = 1
    /\ uncommitted = {}
    /\ mem = [i \in DOMAIN plan |-> "none"]
    /\ job = "planned" /\ ending = "none"
    /\ cancelStop = FALSE /\ stopNow = FALSE /\ cancelRequested = FALSE
    /\ alive = TRUE
    /\ coord = "ok" /\ locked = TRUE
    /\ led = [i \in DOMAIN plan |-> "none"] /\ ledJob = "running"
    /\ pending = {} /\ applied = {} /\ inDoubt = {}

-----------------------------------------------------------------------------
(* The ledger's writes: each a transaction of its own on the coordination  *)
(* connection, and each one's failure swallowed.                           *)

\* Mutant: a failed write leaves the connection usable.
WriteSteps_forgiving(rows) ==
    /\ \/ coord = "ok" /\ led' = rows
       \/ (coord # "ok" \/ LedgerMayFail) /\ led' = led
    /\ UNCHANGED <<coord, locked, ledJob>>

\* A write of the step rows.  One that throws leaves coordination_'s
\* transaction open, and every later begin throws.
WriteSteps(rows) ==
    /\ \/ coord = "ok" /\ led' = rows /\ coord' = coord
       \/ coord = "ok" /\ LedgerMayFail /\ led' = led /\ coord' = "stuck"
       \/ coord # "ok" /\ led' = led /\ coord' = coord
    /\ UNCHANGED <<locked, ledJob>>

RecordStep(i, state) ==
    /\ mem' = [mem EXCEPT ![i] = state]
    /\ WriteSteps([led EXCEPT ![i] = state])

\* The rows of steps that were recorded and then rolled back.
RolledBack(rows) ==
    [i \in DOMAIN plan |-> IF i \in uncommitted /\ rows[i] = "succeeded"
                           THEN "rolled_back" ELSE rows[i]]

\* The rows finish_job leaves: nothing of an ended job is still running.
Closed(rows, state) ==
    [i \in DOMAIN plan |->
        IF rows[i] # "running" THEN rows[i]
        ELSE IF state = "cancelled" THEN "cancelled" ELSE "failed"]

-----------------------------------------------------------------------------
(* execute                                                                  *)

\* The worker's connection, and the job is running.
Connect ==
    /\ pc = "connect" /\ alive
    /\ job' = "running" /\ pc' = "top"
    /\ UNCHANGED <<plan, at, control, mem, ending, cancels, alive, ledger, database>>

ConnectFails ==
    /\ pc = "connect" /\ alive
    /\ ending' = "failed" /\ pc' = "rollback"
    /\ UNCHANGED <<plan, at, control, mem, job, cancels, alive, ledger, database>>

\* Mutant: the rolled back group is not marked.
CancelAtTop_silent ==
    /\ pc = "top" /\ alive /\ at <= N /\ cancelStop
    /\ pending' = {} /\ groupOpen' = FALSE
    /\ ending' = "cancelled" /\ pc' = "finish"
    /\ UNCHANGED <<plan, at, currentGroup, groupFirst, groupAttempt, uncommitted,
                   mem, job, cancels, alive, ledger, applied, inDoubt>>

\* cancel_stop is looked at before every step.
CancelAtTop ==
    /\ pc = "top" /\ alive /\ at <= N /\ cancelStop
    /\ pending' = {} /\ groupOpen' = FALSE
    /\ ending' = "cancelled" /\ pc' = "rollback"
    /\ UNCHANGED <<plan, at, currentGroup, groupFirst, groupAttempt, uncommitted,
                   mem, job, cancels, alive, ledger, applied, inDoubt>>

Satisfied ==
    /\ pc = "top" /\ alive /\ at <= N /\ ~cancelStop /\ ~Step.apply
    /\ RecordStep(at, "skipped_satisfied")
    /\ at' = at + 1
    /\ UNCHANGED <<plan, pc, control, job, ending, cancels, alive, database>>

BeginStep ==
    /\ pc = "top" /\ alive /\ at <= N /\ ~cancelStop /\ Step.apply
    /\ WriteSteps([led EXCEPT ![at] = "running"])
    /\ pc' = "boundary"
    /\ UNCHANGED <<plan, at, control, mem, job, ending, cancels, alive, database>>

\* worker.commit() and group_committed().
CommitGroup ==
    /\ applied' = applied \cup pending
    /\ pending' = {} /\ uncommitted' = {} /\ groupOpen' = FALSE
    /\ UNCHANGED inDoubt

\* Mutant: group_committed runs although the commit threw.
CommitThrows_cleared ==
    /\ UNCHANGED <<applied, inDoubt>>
    /\ pending' = {} /\ groupOpen' = FALSE /\ uncommitted' = {}
    /\ ending' = "failed" /\ pc' = "rollback"
    /\ UNCHANGED <<currentGroup, groupFirst, groupAttempt>>

\* The commit throws: the group was refused, or committed with the answer
\* lost.  uncommitted_ is kept for group_rolled_back.
CommitThrows ==
    /\ \/ UNCHANGED <<applied, inDoubt>>
       \/ applied' = applied \cup pending /\ inDoubt' = inDoubt \cup pending
    /\ pending' = {} /\ groupOpen' = FALSE
    /\ ending' = "failed" /\ pc' = "rollback"
    /\ UNCHANGED <<uncommitted, currentGroup, groupFirst, groupAttempt>>

NeedsOwn(s) == s.class \in {"forbidden", "batch"}

Crossing == Step.group + 1 # currentGroup \/ NeedsOwn(Step)

Boundary ==
    /\ pc = "boundary" /\ alive
    /\ IF Crossing /\ groupOpen
       THEN CommitGroup
       ELSE UNCHANGED <<database, uncommitted, groupOpen>>
    /\ currentGroup' = Step.group + 1
    /\ pc' = "run"
    /\ UNCHANGED <<plan, at, groupFirst, groupAttempt, mem, job, ending, cancels,
                   alive, ledger>>

BoundaryThrows ==
    /\ pc = "boundary" /\ alive /\ Crossing /\ groupOpen
    /\ CommitThrows
    /\ UNCHANGED <<plan, at, mem, job, cancels, alive, ledger>>

\* open_group: a group tried again from its first step keeps its count.
OpenGroup ==
    /\ groupOpen' = TRUE
    /\ IF ~groupOpen /\ groupFirst # at
       THEN groupFirst' = at /\ groupAttempt' = 1
       ELSE UNCHANGED <<groupFirst, groupAttempt>>

\* run_in_transaction and run_copy: recorded as succeeded before the commit.
RunInTransaction ==
    /\ pc = "run" /\ alive /\ Step.class = "txn"
    /\ OpenGroup
    /\ pending' = pending \cup {at}
    /\ RecordStep(at, "succeeded")
    /\ uncommitted' = uncommitted \cup {at}
    /\ at' = at + 1 /\ pc' = "top"
    /\ UNCHANGED <<plan, currentGroup, job, ending, cancels, alive, applied, inDoubt>>

\* The exclusive lock did not come: worker.rollback().
LockTimesOut ==
    /\ pc = "run" /\ alive /\ Step.class = "txn" /\ Step.retry
    /\ IF ~groupOpen /\ groupFirst # at
       THEN groupFirst' = at /\ groupAttempt' = 1
       ELSE UNCHANGED <<groupFirst, groupAttempt>>
    /\ groupOpen' = FALSE /\ pending' = {}
    /\ pc' = "retry"
    /\ UNCHANGED <<plan, at, currentGroup, uncommitted, mem, job, ending, cancels,
                   alive, ledger, applied, inDoubt>>

\* group_rolled_back, and then one of three: the job was cancelled, patience
\* is spent, or the group is run again from its first step.
RetryCancelled ==
    /\ pc = "retry" /\ alive /\ cancelStop
    /\ mem' = RolledBack(mem) /\ WriteSteps(RolledBack(led))
    /\ uncommitted' = {}
    /\ ending' = "cancelled" /\ pc' = "finish"
    /\ UNCHANGED <<plan, at, currentGroup, groupOpen, groupFirst, groupAttempt,
                   job, cancels, alive, database>>

RetryGivesUp ==
    /\ pc = "retry" /\ alive /\ ~cancelStop
    /\ mem' = [RolledBack(mem) EXCEPT ![at] = "lock_not_acquired"]
    /\ WriteSteps([RolledBack(led) EXCEPT ![at] = "lock_not_acquired"])
    /\ uncommitted' = {}
    /\ ending' = "failed" /\ pc' = "rollback"
    /\ UNCHANGED <<plan, at, currentGroup, groupOpen, groupFirst, groupAttempt,
                   job, cancels, alive, database>>

\* The steps from groupFirst on are forgotten, and the loop goes back.
RunAgain(first, attempt) ==
    /\ pc = "retry" /\ alive /\ ~cancelStop /\ groupAttempt < MaxLockAttempts
    /\ mem' = [i \in DOMAIN plan |->
                  IF i >= groupFirst THEN "none" ELSE RolledBack(mem)[i]]
    /\ WriteSteps(RolledBack(led))
    /\ uncommitted' = {}
    /\ groupAttempt' = attempt
    /\ at' = first /\ pc' = "top"
    /\ UNCHANGED <<plan, currentGroup, groupOpen, groupFirst, job, ending, cancels,
                   alive, database>>

\* Mutant: only the step whose lock timed out is run again.
RetryGroup_fromHere == RunAgain(at, groupAttempt + 1)

\* Mutant: the attempts are not counted.
RetryGroup_uncounted == RunAgain(groupFirst, groupAttempt)

RetryGroup == RunAgain(groupFirst, groupAttempt + 1)

\* run_nontransactional, and run_backfill to its end: durable as they return.
RunAlone ==
    /\ pc = "run" /\ alive /\ NeedsOwn(Step)
    /\ applied' = applied \cup {at}
    /\ pc' = "record"
    /\ UNCHANGED <<plan, at, control, mem, job, ending, cancels, alive, ledger,
                   pending, inDoubt>>

\* verify_index_valid, the index being valid.
VerifyIndexValid ==
    /\ pc = "run" /\ alive /\ Step.class = "verify"
    /\ pc' = "record"
    /\ UNCHANGED <<plan, at, control, mem, job, ending, cancels, alive, ledger,
                   database>>

RecordAlone ==
    /\ pc = "record" /\ alive
    /\ RecordStep(at, "succeeded")
    /\ at' = at + 1 /\ pc' = "top"
    /\ UNCHANGED <<plan, control, job, ending, cancels, alive, database>>

\* Mutant: the loop goes on after a cancelled walk.
WalkCancelled_fallsThrough ==
    /\ pc = "run" /\ alive /\ Step.class = "batch" /\ cancelStop
    /\ at' = at + 1 /\ pc' = "top"
    /\ UNCHANGED <<plan, control, mem, job, ending, cancels, alive, ledger, database>>

\* A walk sees cancel_stop between its batches, and ends the job itself.
WalkCancelled ==
    /\ pc = "run" /\ alive /\ Step.class = "batch" /\ cancelStop
    /\ ending' = "cancelled" /\ pc' = "finish"
    /\ UNCHANGED <<plan, at, control, mem, job, cancels, alive, ledger, database>>

\* wait_while_paused gives up after max_pause_s.
WalkAborts ==
    /\ pc = "run" /\ alive /\ Step.class = "batch"
    /\ job' = "aborted_contention" /\ ending' = "aborted_contention"
    /\ pc' = "rollback"
    /\ UNCHANGED <<plan, at, control, mem, cancels, alive, ledger, database>>

\* What run()'s handler makes of the exception: a statement cancelled for a
\* process that was told to stop is a cancelled job, not a failed one.
HandledAs(canceled) ==
    IF canceled /\ stopNow /\ cancelStop /\ cancelRequested
    THEN ending' = "cancelled" /\ cancelRequested' = FALSE
    ELSE ending' = "failed" /\ UNCHANGED cancelRequested

\* The statement, or a setting around it, throws.  The open transaction goes
\* with the worker's session; a statement of its own may have been kept with
\* its answer lost.
StepThrows ==
    /\ pc = "run" /\ alive
    /\ \/ \E state \in {"failed", "lock_not_acquired"} : RecordStep(at, state)
       \/ UNCHANGED <<mem, ledger>>
    /\ \/ UNCHANGED <<applied, inDoubt>>
       \/ /\ NeedsOwn(Step)
          /\ applied' = applied \cup {at} /\ inDoubt' = inDoubt \cup {at}
    /\ pending' = {} /\ groupOpen' = FALSE
    /\ \E canceled \in BOOLEAN : HandledAs(canceled)
    /\ pc' = "rollback"
    /\ UNCHANGED <<plan, at, currentGroup, groupFirst, groupAttempt, uncommitted,
                   job, cancelStop, stopNow, alive>>

\* Past the last step: the last group's commit, and succeed().
LastCommit ==
    /\ pc = "top" /\ alive /\ at = N + 1
    /\ CommitGroup
    /\ ending' = "succeeded" /\ pc' = "finish"
    /\ UNCHANGED <<plan, at, currentGroup, groupFirst, groupAttempt, mem, job,
                   cancels, alive, ledger>>

LastCommitThrows ==
    /\ pc = "top" /\ alive /\ at = N + 1 /\ groupOpen
    /\ CommitThrows
    /\ UNCHANGED <<plan, at, mem, job, cancels, alive, ledger>>

-----------------------------------------------------------------------------
(* The end of a job: group_rolled_back, then the ledger, then the state.   *)

GroupRolledBack ==
    /\ pc = "rollback" /\ alive
    /\ mem' = RolledBack(mem) /\ WriteSteps(RolledBack(led))
    /\ uncommitted' = {}
    /\ pc' = "finish"
    /\ UNCHANGED <<plan, at, currentGroup, groupOpen, groupFirst, groupAttempt,
                   job, ending, cancels, alive, database>>

\* Ledger::finish_job, with release_locks: a coordination connection that is
\* stuck cannot unlock either, and says nothing of it.
FinishJob ==
    /\ pc = "finish" /\ alive
    /\ \/ /\ coord = "ok"
          /\ ledJob' = ending /\ led' = Closed(led, ending)
          /\ locked' = FALSE /\ UNCHANGED coord
       \/ /\ coord = "ok" /\ LedgerMayFail
          /\ coord' = "stuck" /\ UNCHANGED <<ledJob, led, locked>>
       \/ coord # "ok" /\ UNCHANGED ledger
    /\ pc' = "publish"
    /\ UNCHANGED <<plan, at, control, mem, job, ending, cancels, alive, database>>

\* The state jobStatus reads; the job's Ledger, and its connection, go next.
Publish ==
    /\ pc = "publish" /\ alive
    /\ job' = ending /\ pc' = "ended" /\ locked' = FALSE
    /\ UNCHANGED <<plan, at, control, mem, ending, cancels, alive, coord, led,
                   ledJob, database>>

-----------------------------------------------------------------------------
(* Around the worker                                                        *)

\* cancelJob, or a signal (stop_on_signal sets both flags).
Cancel ==
    /\ alive /\ job = "running"
    /\ cancelStop' = TRUE /\ stopNow' \in {stopNow, TRUE}
    /\ UNCHANGED <<plan, pc, at, control, mem, job, ending, cancelRequested, alive,
                   ledger, database>>

\* The observer asks the server to cancel the statement in flight: the
\* process was told to stop, or (a walk) someone waits for it.
RequestCancel ==
    /\ alive /\ pc = "run" /\ ~cancelRequested
    /\ (cancelStop /\ stopNow) \/ Step.class = "batch"
    /\ cancelRequested' = TRUE
    /\ UNCHANGED <<plan, pc, at, control, mem, job, ending, cancelStop, stopNow,
                   alive, ledger, database>>

\* The coordination connection is lost, and its session's lock with it.
CoordinationDies ==
    /\ LedgerMayFail /\ alive /\ coord # "dead" /\ pc # "ended"
    /\ coord' = "dead" /\ locked' = FALSE
    /\ UNCHANGED <<plan, pc, at, control, mem, job, ending, cancels, alive, led,
                   ledJob, database>>

Crash ==
    /\ alive /\ pc # "ended"
    /\ alive' = FALSE /\ groupOpen' = FALSE /\ pending' = {} /\ locked' = FALSE
    /\ UNCHANGED <<plan, pc, at, currentGroup, groupFirst, groupAttempt, uncommitted,
                   mem, job, ending, cancels, coord, led, ledJob, applied, inDoubt>>

\* reconcile_dead_jobs, called by a later run of some process.
Reconcile ==
    /\ ledJob = "running" /\ ~locked
    /\ ledJob' = "interrupted"
    /\ led' = [i \in DOMAIN plan |-> IF led[i] = "running" THEN "interrupted"
                                     ELSE led[i]]
    /\ UNCHANGED <<plan, pc, at, control, mem, job, ending, cancels, alive, coord,
                   locked, database>>

\* execute's loop: before a step, and between groups.
LoopStep ==
    \/ Connect \/ ConnectFails \/ CancelAtTop \/ Satisfied \/ BeginStep
    \/ Boundary \/ BoundaryThrows

\* A step of a group, and the group run again for its lock.
GroupStep ==
    \/ RunInTransaction \/ LockTimesOut \/ RetryCancelled \/ RetryGivesUp
    \/ RetryGroup

\* A step of its own, and the step that fails.
LoneStep ==
    \/ RunAlone \/ VerifyIndexValid \/ RecordAlone \/ WalkCancelled
    \/ WalkAborts \/ StepThrows

\* The last commit, and the end of the job.
EndStep ==
    LastCommit \/ LastCommitThrows \/ GroupRolledBack \/ FinishJob \/ Publish

Worker == LoopStep \/ GroupStep \/ LoneStep \/ EndStep

\* What others do.
Aside == Cancel \/ RequestCancel \/ CoordinationDies \/ Crash \/ Reconcile

Next == Worker \/ Aside

Spec == Init /\ [][Next]_vars

\* Every statement returns or throws in time (statement and lock timeouts, or
\* an answer from the server), so the worker's thread keeps going.
FairSpec == Spec /\ WF_vars(Worker)

-----------------------------------------------------------------------------
(* Properties                                                               *)

\* The database only ever changes by whole transaction groups, and by steps
\* that have none, in the order of the plan: whatever fails, is cancelled,
\* crashes or is tried again for a lock, no part of a group is durable
\* without the rest, and nothing is durable before what precedes it.
ImplementsMigration == M!Spec

Told(rows, i) ==
    /\ rows[i] = "succeeded" => i \in applied \/ plan[i].class = "verify"
    /\ i \in applied \ inDoubt => rows[i] = "succeeded"

\* When a job has ended, jobStatus says of every step what became of it: it
\* reads succeeded exactly when its changes are durable.  Only a commit whose
\* answer was lost may be durable and read otherwise.
StepsToldTrue == pc = "ended" => \A i \in DOMAIN plan : Told(mem, i)

\* A job the ledger calls finished has a ledger without gaps, although writes
\* of it may fail and no failure is reported: every step reads what became of
\* it, and none is still running.
FinishedLedgerTrue ==
    ledJob \in Terminal =>
        \A i \in DOMAIN plan : Told(led, i) /\ led[i] # "running"

\* While the process lives, a step the ledger calls succeeded is durable or is
\* one that group_rolled_back will still correct.
NoOrphanedSuccess ==
    alive =>
        \A i \in DOMAIN plan :
            led[i] = "succeeded" /\ coord = "ok" =>
                i \in applied \cup uncommitted \/ plan[i].class = "verify"

\* A job that jobStatus says succeeded did everything its plan asked for, and
\* the ledger, if its connection held, already says so.
SucceededMeansAll ==
    job = "succeeded" =>
        /\ Changes(plan) \subseteq applied
        /\ coord = "ok" => ledJob = "succeeded"

\* A job whose process lives reaches a terminal state.
JobEnds == <>(~alive \/ pc = "ended")

\* A step whose statement had returned before its transaction was lost reads
\* rolled_back, not succeeded (pg_laswell(1), the states of a step), also
\* once a later run has set the ledger right about a job that died.
InterruptedStepsTrue ==
    ledJob = "interrupted" =>
        \A i \in DOMAIN plan :
            led[i] = "succeeded" => i \in applied \/ plan[i].class = "verify"

=============================================================================
