--------------------------- MODULE ExecutorProofs ---------------------------
(***************************************************************************)
(* The proofs about module Executor, for every set of plans the planner's  *)
(* grouping may produce and every number of lock attempts: what the        *)
(* database holds at each position of the worker, and what jobStatus and   *)
(* the ledger say of it.  (AlgorithmProofs: the grouping produces them.)   *)
(***************************************************************************)
EXTENDS Executor, TLAPS

\* The changes of plan p before step i, and those of a stretch of it.
Before(p, i) == {j \in Changes(p) : j < i}
Stretch(p, i, k) == {j \in Changes(p) : i <= j /\ j < k}

\* No transaction group has steps on both sides of i.
NoStraddle(p, i) ==
    \A j, k \in Changes(p) :
        j < i /\ i <= k /\ p[j].class = "txn" /\ p[k].class = "txn"
            => p[j].group # p[k].group

\* Where the open group began, or where the next one may.
Base == IF groupOpen THEN groupFirst ELSE at

InLoop == {"connect", "top", "boundary", "run"}

\* The open transaction holds exactly the changes of the open group so far,
\* and everything before that group is durable.
GroupSoFar ==
    /\ NoStraddle(plan, Base)
    /\ applied = Before(plan, Base)
    /\ pending = Stretch(plan, Base, at)
    /\ uncommitted = pending
    /\ inDoubt = {}
    /\ groupOpen => groupFirst \in pending
    /\ \A i \in pending : plan[i].class = "txn" /\ plan[i].group + 1 = currentGroup

\* The worker's position, while its process lives.
Position ==
    /\ pc \in InLoop => GroupSoFar
    /\ pc = "connect" => ~groupOpen
    /\ pc = "run" => currentGroup = Step.group + 1
    /\ pc = "run" /\ Step.class # "txn" => pending = {} /\ ~groupOpen
    /\ pc = "record" =>
          /\ Step.class # "txn" /\ ~groupOpen
          /\ NoStraddle(plan, at)
          /\ applied = Before(plan, at) \cup ({at} \cap Changes(plan))
          /\ pending = {} /\ uncommitted = {} /\ inDoubt = {}
    /\ pc = "retry" =>
          /\ groupFirst \in 1..at /\ ~groupOpen
          /\ NoStraddle(plan, groupFirst)
          /\ applied = Before(plan, groupFirst)
          /\ uncommitted = Stretch(plan, groupFirst, at)
          /\ pending = {} /\ inDoubt = {}
    /\ pc \in {"rollback", "finish", "publish", "ended"} =>
          /\ pending = {} /\ ~groupOpen
          /\ uncommitted \cap applied \subseteq inDoubt
          /\ pc # "rollback" => uncommitted = {}
    /\ inDoubt \subseteq applied

\* The terminal state, before and after it is published.
Ending ==
    /\ job = "succeeded" => pc = "ended" /\ ending = "succeeded"
    /\ ending = "succeeded" =>
          pc \in {"finish", "publish", "ended"} /\ Changes(plan) \subseteq applied
    /\ pc \in {"rollback", "finish", "publish", "ended"} => ending # "none"
    /\ pc = "ended" => alive /\ job = ending

\* The types, the position, the end, and a transaction that dies with its
\* process.
Durable ==
    /\ TypeOK
    /\ plan \in Plans
    /\ alive => Position
    /\ ~alive => pending = {}
    /\ Ending

-----------------------------------------------------------------------------
(* Types                                                                    *)

\* A plan is a sequence of steps, numbered densely.
LEMMA PlanFacts ==
    ASSUME plan \in Seq(PlanSteps)
    PROVE  /\ N \in Nat /\ DOMAIN plan = 1..N
           /\ \A i \in DOMAIN plan :
                 /\ i \in Nat /\ 1 <= i /\ i <= N
                 /\ plan[i].group \in Nat
                 /\ plan[i].class \in StepClasses
<1>1. N \in Nat /\ DOMAIN plan = 1..N
    BY DEF N
<1>2. ASSUME NEW i \in DOMAIN plan
      PROVE  plan[i] \in PlanSteps
    BY <1>1
<1>3. QED
    BY <1>1, <1>2 DEF PlanSteps

\* The flags stay flags: each action sets them to a constant or keeps them.
LEMMA FlagsStep == FlagsOK /\ [Next]_vars => FlagsOK'
<1> SUFFICES ASSUME FlagsOK, [Next]_vars PROVE FlagsOK'
    OBVIOUS
<1> USE DEF FlagsOK
<1>1. CASE UNCHANGED vars
    BY <1>1, Zenon DEF vars, control, cancels, ledger
<1>2. CASE LoopStep
  <2>1. CASE Connect
      BY <2>1, Zenon DEF Connect, control, cancels, ledger
  <2>2. CASE ConnectFails
      BY <2>2, Zenon DEF ConnectFails, control, cancels, ledger
  <2>3. CASE CancelAtTop
      BY <2>3, Zenon DEF CancelAtTop, control, cancels, ledger
  <2>4. CASE Satisfied
      BY <2>4, Zenon DEF Satisfied, RecordStep, WriteSteps, control, cancels, ledger
  <2>5. CASE BeginStep
      BY <2>5, Zenon DEF BeginStep, WriteSteps, control, cancels, ledger
  <2>6. CASE Boundary
      BY <2>6, Zenon DEF Boundary, CommitGroup, control, cancels, ledger
  <2>7. CASE BoundaryThrows
      BY <2>7, Zenon DEF BoundaryThrows, CommitThrows, control, cancels, ledger
  <2>8. QED
    BY Zenon, <1>2, <2>1, <2>2, <2>3, <2>4, <2>5, <2>6, <2>7 DEF LoopStep
<1>3. CASE GroupStep
  <2>1. CASE RunInTransaction
      BY <2>1, Zenon DEF RunInTransaction, OpenGroup, RecordStep, WriteSteps, control,
         cancels, ledger
  <2>2. CASE LockTimesOut
      BY <2>2, Zenon DEF LockTimesOut, control, cancels, ledger
  <2>3. CASE RetryCancelled
      BY <2>3, Zenon DEF RetryCancelled, WriteSteps, control, cancels, ledger
  <2>4. CASE RetryGivesUp
      BY <2>4, Zenon DEF RetryGivesUp, WriteSteps, control, cancels, ledger
  <2>5. CASE RetryGroup
      BY <2>5, Zenon DEF RetryGroup, RunAgain, WriteSteps, control, cancels, ledger
  <2>6. QED
    BY Zenon, <1>3, <2>1, <2>2, <2>3, <2>4, <2>5 DEF GroupStep
<1>4. CASE LoneStep
  <2>1. CASE RunAlone
      BY <2>1, Zenon DEF RunAlone, control, cancels, ledger
  <2>2. CASE VerifyIndexValid
      BY <2>2, Zenon DEF VerifyIndexValid, control, cancels, ledger
  <2>3. CASE RecordAlone
      BY <2>3, Zenon DEF RecordAlone, RecordStep, WriteSteps, control, cancels, ledger
  <2>4. CASE WalkCancelled
      BY <2>4, Zenon DEF WalkCancelled, control, cancels, ledger
  <2>5. CASE WalkAborts
      BY <2>5, Zenon DEF WalkAborts, control, cancels, ledger
  <2>6. CASE StepThrows
      BY <2>6, Zenon DEF StepThrows, RecordStep, WriteSteps, HandledAs, control, cancels, ledger
  <2>7. QED
    BY Zenon, <1>4, <2>1, <2>2, <2>3, <2>4, <2>5, <2>6 DEF LoneStep
<1>5. CASE EndStep
  <2>1. CASE LastCommit
      BY <2>1, Zenon DEF LastCommit, CommitGroup, control, cancels, ledger
  <2>2. CASE LastCommitThrows
      BY <2>2, Zenon DEF LastCommitThrows, CommitThrows, control, cancels, ledger
  <2>3. CASE GroupRolledBack
      BY <2>3, Zenon DEF GroupRolledBack, WriteSteps, control, cancels, ledger
  <2>4. CASE FinishJob
      BY <2>4, Zenon DEF FinishJob, control, cancels, ledger
  <2>5. CASE Publish
      BY <2>5, Zenon DEF Publish, Ending, control, cancels, ledger
  <2>6. QED
    BY Zenon, <1>5, <2>1, <2>2, <2>3, <2>4, <2>5 DEF EndStep
<1>6. CASE Aside
  <2>1. CASE Cancel
      BY <2>1, Zenon DEF Cancel, control, cancels, ledger
  <2>2. CASE RequestCancel
      BY <2>2, Zenon DEF RequestCancel, control, cancels, ledger
  <2>3. CASE CoordinationDies
      BY <2>3, Zenon DEF CoordinationDies, control, cancels, ledger
  <2>4. CASE Crash
      BY <2>4, Zenon DEF Crash, control, cancels, ledger
  <2>5. CASE Reconcile
      BY <2>5, Zenon DEF Reconcile, control, cancels, ledger
  <2>6. QED
    BY Zenon, <1>6, <2>1, <2>2, <2>3, <2>4, <2>5 DEF Aside
<1>7. QED
    BY Zenon, <1>1, <1>2, <1>3, <1>4, <1>5, <1>6 DEF Next, Worker

\* A record of a step leaves well-formed rows, whether or not it is written.
LEMMA RecordType ==
    ASSUME TypeOK, NEW i \in DOMAIN plan, NEW state \in StepStates,
           RecordStep(i, state)
    PROVE  /\ mem' \in [DOMAIN plan -> StepStates]
           /\ led' \in [DOMAIN plan -> StepStates]
           /\ coord' \in {"ok", "stuck", "dead"}
           /\ ledJob' = ledJob
<1>1. mem \in [DOMAIN plan -> StepStates] /\ led \in [DOMAIN plan -> StepStates]
      /\ coord \in {"ok", "stuck", "dead"}
    BY DEF TypeOK
<1>2. QED
    BY <1>1 DEF RecordStep, WriteSteps

\* Every step of the executor keeps its state well-formed.
LEMMA TypeStep ==
    ASSUME TypeOK, alive => Position, Ending, [Next]_vars
    PROVE  TypeOK'
<1> FlagsOK'
    BY FlagsStep DEF TypeOK
<1> N \in Nat /\ DOMAIN plan = 1..N /\ \A i \in DOMAIN plan : plan[i].group \in Nat
    BY PlanFacts DEF TypeOK
<1>1. CASE UNCHANGED vars
    BY AttemptsAssumption, <1>1 DEF vars, control, cancels, ledger, database, TypeOK, Step, N,
       StepStates
<1>2. CASE LoopStep
  <2>1. CASE Connect
      BY AttemptsAssumption, <2>1 DEF Connect, control, cancels, ledger, database, TypeOK, Step,
         N, StepStates
  <2>2. CASE ConnectFails
      BY AttemptsAssumption, <2>2 DEF ConnectFails, control, cancels, ledger, database, TypeOK,
         Step, N, StepStates, Terminal
  <2>3. CASE CancelAtTop
      BY AttemptsAssumption, <2>3 DEF CancelAtTop, control, cancels, ledger, database, TypeOK,
         Step, N, StepStates, Terminal
  <2>4. CASE Satisfied
      BY AttemptsAssumption, <2>4 DEF Satisfied, RecordStep, WriteSteps, control, cancels,
         ledger, database, TypeOK, Step, N, StepStates, Terminal
  <2>5. CASE BeginStep
      BY AttemptsAssumption, <2>5 DEF BeginStep, WriteSteps, control, cancels, ledger, database,
         TypeOK, Step, N, StepStates
  <2>6. CASE Boundary
      BY AttemptsAssumption, <2>6 DEF Boundary, CommitGroup, control, cancels, ledger, database,
         TypeOK, Step, N, StepStates
  <2>7. CASE BoundaryThrows
      BY AttemptsAssumption, <2>7 DEF BoundaryThrows, CommitThrows, control, cancels, ledger,
         database, TypeOK, Step, N, StepStates, Terminal
  <2>8. QED
    BY Zenon, <1>2, <2>1, <2>2, <2>3, <2>4, <2>5, <2>6, <2>7 DEF LoopStep
<1>3. CASE GroupStep
  <2>1. CASE RunInTransaction
    <3>1. at \in Changes(plan)
      BY AttemptsAssumption, <2>1 DEF RunInTransaction, Changes, M!Changes, TypeOK, Step, N,
         StepStates
    <3>2. RecordStep(at, "succeeded") /\ at \in DOMAIN plan
      BY AttemptsAssumption, <2>1 DEF RunInTransaction, TypeOK
    <3>3. QED
      BY AttemptsAssumption, <2>1, <3>1, <3>2, RecordType DEF RunInTransaction, OpenGroup,
         TypeOK, Step, N, StepStates
  <2>2. CASE LockTimesOut
      BY AttemptsAssumption, <2>2 DEF LockTimesOut, control, cancels, ledger, database, TypeOK,
         Step, N, StepStates
  <2>3. CASE RetryCancelled
      BY AttemptsAssumption, <2>3 DEF RetryCancelled, WriteSteps, RolledBack, control, cancels,
         ledger, database, TypeOK, Step, N, StepStates, Terminal
  <2>4. CASE RetryGivesUp
      BY AttemptsAssumption, Zenon, <2>4 DEF RetryGivesUp, WriteSteps, RolledBack, control,
         cancels, ledger, database, TypeOK, Step, N, StepStates, Terminal
  <2>5. CASE RetryGroup
      BY AttemptsAssumption, <2>5 DEF RetryGroup, RunAgain, WriteSteps, RolledBack, Position,
         control, cancels, ledger, database, TypeOK, Step, N, StepStates
  <2>6. QED
    BY Zenon, <1>3, <2>1, <2>2, <2>3, <2>4, <2>5 DEF GroupStep
<1>4. CASE LoneStep
  <2>1. CASE RunAlone
      BY AttemptsAssumption, <2>1 DEF RunAlone, Changes, M!Changes, NeedsOwn, control, cancels,
         ledger, database, TypeOK, Step, N, StepStates
  <2>2. CASE VerifyIndexValid
      BY AttemptsAssumption, <2>2 DEF VerifyIndexValid, control, cancels, ledger, database,
         TypeOK, Step, N, StepStates
  <2>3. CASE RecordAlone
    <3>1. RecordStep(at, "succeeded") /\ at \in DOMAIN plan
      BY <2>3 DEF RecordAlone, TypeOK
    <3>2. QED
      BY AttemptsAssumption, <2>3, <3>1, RecordType DEF RecordAlone, control, cancels, database,
         TypeOK, N, StepStates
  <2>4. CASE WalkCancelled
      BY AttemptsAssumption, <2>4 DEF WalkCancelled, control, cancels, ledger, database, TypeOK,
         Step, N, StepStates, Terminal
  <2>5. CASE WalkAborts
      BY AttemptsAssumption, <2>5 DEF WalkAborts, control, cancels, ledger, database, TypeOK,
         Step, N, StepStates, Terminal
  <2>6. CASE StepThrows
    <3>1. NeedsOwn(Step) => at \in Changes(plan)
      BY AttemptsAssumption, <2>6 DEF StepThrows, Changes, M!Changes, NeedsOwn, TypeOK, Step, N,
         StepStates
    <3>2. mem' \in [DOMAIN plan -> StepStates] /\ led' \in [DOMAIN plan -> StepStates]
          /\ coord' \in {"ok", "stuck", "dead"} /\ ledJob' = ledJob
      <4>1. CASE UNCHANGED <<mem, ledger>>
        BY AttemptsAssumption, <4>1 DEF ledger, TypeOK
      <4>2. CASE \E state \in {"failed", "lock_not_acquired"} : RecordStep(at, state)
        <5>1. PICK state \in {"failed", "lock_not_acquired"} : RecordStep(at, state)
          BY <4>2
        <5>2. state \in StepStates /\ at \in DOMAIN plan
          BY AttemptsAssumption, <2>6 DEF StepThrows, TypeOK, StepStates
        <5>3. QED
          BY <5>1, <5>2, RecordType
      <4>3. QED
        BY <2>6, <4>1, <4>2 DEF StepThrows
    <3>3. ending' \in {"none"} \cup Terminal
      BY AttemptsAssumption, <2>6, Zenon DEF StepThrows, HandledAs, TypeOK, Step, N, StepStates,
         Terminal
    <3>4. QED
      BY AttemptsAssumption, <2>6, <3>1, <3>2, <3>3 DEF StepThrows, TypeOK, Step, N, StepStates
  <2>7. QED
    BY Zenon, <1>4, <2>1, <2>2, <2>3, <2>4, <2>5, <2>6 DEF LoneStep
<1>5. CASE EndStep
  <2>1. CASE LastCommit
      BY AttemptsAssumption, <2>1 DEF LastCommit, CommitGroup, control, cancels, ledger,
         database, TypeOK, Step, N, StepStates, Terminal
  <2>2. CASE LastCommitThrows
      BY AttemptsAssumption, <2>2 DEF LastCommitThrows, CommitThrows, control, cancels, ledger,
         database, TypeOK, Step, N, StepStates, Terminal
  <2>3. CASE GroupRolledBack
      BY AttemptsAssumption, <2>3 DEF GroupRolledBack, WriteSteps, RolledBack, control, cancels,
         ledger, database, TypeOK, Step, N, StepStates
  <2>4. CASE FinishJob
      BY AttemptsAssumption, <2>4 DEF FinishJob, Closed, Ending, control, cancels, ledger,
         database, TypeOK, Step, N, StepStates
  <2>5. CASE Publish
      BY AttemptsAssumption, <2>5 DEF Publish, Ending, control, cancels, ledger, database,
         TypeOK, Step, N, StepStates
  <2>6. QED
    BY Zenon, <1>5, <2>1, <2>2, <2>3, <2>4, <2>5 DEF EndStep
<1>6. CASE Aside
  <2>1. CASE Cancel
      BY AttemptsAssumption, <2>1 DEF Cancel, control, cancels, ledger, database, TypeOK, Step,
         N, StepStates
  <2>2. CASE RequestCancel
      BY AttemptsAssumption, <2>2 DEF RequestCancel, control, cancels, ledger, database, TypeOK,
         Step, N, StepStates
  <2>3. CASE CoordinationDies
      BY AttemptsAssumption, <2>3 DEF CoordinationDies, control, cancels, ledger, database,
         TypeOK, Step, N, StepStates
  <2>4. CASE Crash
      BY AttemptsAssumption, <2>4 DEF Crash, control, cancels, ledger, database, TypeOK, Step,
         N, StepStates
  <2>5. CASE Reconcile
      BY AttemptsAssumption, <2>5 DEF Reconcile, control, cancels, ledger, database, TypeOK,
         Step, N, StepStates
  <2>6. QED
    BY Zenon, <1>6, <2>1, <2>2, <2>3, <2>4, <2>5 DEF Aside
<1>7. QED
    BY Zenon, <1>1, <1>2, <1>3, <1>4, <1>5, <1>6 DEF Next, Worker

-----------------------------------------------------------------------------
(* What a step may do                                                       *)

\* No step changes the plan, revives the process or mends its connection.
Lasting ==
    /\ plan' = plan /\ (alive' => alive) /\ (coord' = "ok" => coord = "ok")
    /\ ~alive' => pending' = {} \/ (~alive /\ pending' = pending)

\* The worker goes on: it may decide how the job ends, and tells nobody yet.
GoesOn ==
    /\ alive /\ alive' /\ pc \notin {"finish", "publish", "ended"}
    /\ pc' \notin {"publish", "ended"}
    /\ job' \in {job, "running", "aborted_contention"}
    /\ \/ ending' = ending /\ (pc' \in {"rollback", "finish"} => pc = "rollback")
       \/ ending' \in {"failed", "cancelled", "aborted_contention"}
       \/ /\ ending' = "succeeded" /\ pc' = "finish"
          /\ pc = "top" /\ at = N + 1 /\ applied' = applied \cup pending
    /\ UNCHANGED <<ledJob, locked>>

\* Others act, on the ledger at most, or the process dies.
LooksOn ==
    /\ UNCHANGED <<pc, job, ending, applied, inDoubt>>
    /\ alive' = alive \/ pc # "ended"
    /\ alive' => UNCHANGED <<plan, pc, at, control, database>>
    /\ \/ UNCHANGED <<alive, ledJob, led, locked>>
       \/ (~alive' \/ coord' # "ok") /\ UNCHANGED <<ledJob, led>>
       \/ /\ ledJob = "running" /\ ledJob' = "interrupted" /\ ~locked
          /\ UNCHANGED <<alive, coord>>

\* What a step may do to a record of the steps: rows before it, new after it.
Unsaid(rows, new) ==
    /\ UNCHANGED <<applied, inDoubt, uncommitted>> /\ pending' \subseteq pending
    /\ pc = "record" => pc' = pc /\ at' = at
    /\ \A i \in DOMAIN plan : new[i] = "succeeded" <=> rows[i] = "succeeded"

\* The group is committed, or was refused, or the answer was lost.
Committed(rows, new) ==
    /\ pc \in InLoop /\ new = rows /\ pending' = {}
    /\ (pc = "boundary" /\ Crossing) \/ at = N + 1
    /\ \/ /\ applied' = applied \cup pending /\ uncommitted' = {}
          /\ UNCHANGED inDoubt
       \/ UNCHANGED <<applied, inDoubt, uncommitted>>
       \/ /\ applied' = applied \cup pending /\ inDoubt' = inDoubt \cup pending
          /\ UNCHANGED uncommitted

\* A step that is begun, skipped or failed; one that failed may be durable.
Marked(rows, new) ==
    /\ pc \in {"top", "run"} /\ pending' \subseteq pending /\ UNCHANGED uncommitted
    /\ new = rows \/ \E state : state # "succeeded" /\ new = [rows EXCEPT ![at] = state]
    /\ \/ UNCHANGED <<applied, inDoubt>>
       \/ /\ pc = "run" /\ NeedsOwn(Step)
          /\ applied' = applied \cup {at} /\ inDoubt' = inDoubt \cup {at}

\* A step that succeeded: in the open group, or on its own, once durable.
Succeeded(rows, new) ==
    /\ new = [rows EXCEPT ![at] = "succeeded"] /\ UNCHANGED <<applied, inDoubt>>
    /\ \/ /\ pc = "run" /\ pending' = pending \cup {at}
          /\ uncommitted' = uncommitted \cup {at}
       \/ pc = "record" /\ UNCHANGED <<pending, uncommitted>>

\* A step of its own is durable, and not yet recorded.
Unrecorded(rows, new) ==
    /\ pc = "run" /\ NeedsOwn(Step) /\ pc' = "record" /\ at' = at /\ new = rows
    /\ applied' = applied \cup {at} /\ UNCHANGED <<inDoubt, uncommitted, pending>>

\* The group is rolled back, and what is to be run again may be forgotten.
Undone(rows, new) ==
    /\ pc \in {"retry", "rollback"} /\ uncommitted' = {}
    /\ UNCHANGED <<applied, inDoubt, pending>>
    /\ \A i \in DOMAIN plan :
          /\ new[i] = "succeeded" => rows[i] = "succeeded" /\ i \notin uncommitted
          /\ rows[i] = "succeeded" /\ i \notin uncommitted =>
                new[i] = "succeeded" \/ (pc = "retry" /\ (i >= groupFirst \/ i = at))

Rows(rows, new) ==
    \/ Unsaid(rows, new) \/ Committed(rows, new) \/ Marked(rows, new)
    \/ Succeeded(rows, new) \/ Unrecorded(rows, new) \/ Undone(rows, new)

Bookkeeping ==
    Rows(mem, mem') /\ (coord = "ok" /\ coord' = "ok" => Rows(led, led'))

\* Every step is of one of these kinds, or tells the end of the job; and it
\* writes of the steps, in jobStatus and in the ledger alike, what they say.
LEMMA StepKinds ==
    ASSUME TypeOK, [Next]_vars
    PROVE  /\ Lasting /\ Bookkeeping
           /\ Worker => GoesOn \/ FinishJob \/ Publish
           /\ Aside \/ UNCHANGED vars => LooksOn
<1> mem \in [DOMAIN plan -> StepStates] /\ led \in [DOMAIN plan -> StepStates]
    BY DEF TypeOK
<1>1. ASSUME UNCHANGED vars
      PROVE  Lasting /\ Bookkeeping /\ LooksOn
    BY <1>1 DEF vars, control, ledger, database, Lasting, Bookkeeping, Rows, Unsaid,
       LooksOn
<1>2. ASSUME LoopStep
      PROVE  Lasting /\ Bookkeeping /\ GoesOn
  <2>1. CASE Connect
      BY <2>1 DEF Connect, control, ledger, database, Lasting, Bookkeeping, Rows,
         Unsaid, GoesOn
  <2>2. CASE ConnectFails
      BY <2>2 DEF ConnectFails, control, ledger, database, Lasting, Bookkeeping, Rows,
         Unsaid, GoesOn
  <2>3. CASE CancelAtTop
      BY <2>3 DEF CancelAtTop, control, ledger, database, Lasting, Bookkeeping, Rows,
         Unsaid, GoesOn
  <2>4. CASE Satisfied
      BY Zenon, <2>4 DEF Satisfied, RecordStep, WriteSteps, control, ledger, database, Lasting,
         Bookkeeping, Rows, Marked, GoesOn
  <2>5. CASE BeginStep
      BY <2>5 DEF BeginStep, WriteSteps, control, ledger, database, Lasting,
         Bookkeeping, Rows, Unsaid, Marked, GoesOn
  <2>6. CASE Boundary
    <3>1. CASE Crossing /\ groupOpen
        BY <2>6, <3>1 DEF Boundary, CommitGroup, InLoop, control, ledger, database,
           Lasting, Bookkeeping, Rows, Committed, GoesOn
    <3>2. CASE ~(Crossing /\ groupOpen)
        BY <2>6, <3>2 DEF Boundary, control, ledger, database, Lasting, Bookkeeping,
           Rows, Unsaid, GoesOn
    <3>3. QED
      BY <3>1, <3>2
  <2>7. CASE BoundaryThrows
      BY <2>7 DEF BoundaryThrows, CommitThrows, InLoop, control, ledger, database,
         Lasting, Bookkeeping, Rows, Committed, GoesOn
  <2>8. QED
    BY Zenon, <1>2, <2>1, <2>2, <2>3, <2>4, <2>5, <2>6, <2>7 DEF LoopStep
<1>3. ASSUME GroupStep
      PROVE  Lasting /\ Bookkeeping /\ GoesOn
  <2>1. CASE RunInTransaction
      BY <2>1 DEF RunInTransaction, RecordStep, WriteSteps, control, ledger, database,
         Lasting, Bookkeeping, Rows, Succeeded, GoesOn
  <2>2. CASE LockTimesOut
      BY <2>2 DEF LockTimesOut, control, ledger, database, Lasting, Bookkeeping, Rows,
         Unsaid, GoesOn
  <2>3. CASE RetryCancelled
      BY <2>3 DEF RetryCancelled, WriteSteps, RolledBack, control, ledger, database,
         Lasting, Bookkeeping, Rows, Undone, GoesOn
  <2>4. CASE RetryGivesUp
      BY Zenon, <2>4 DEF RetryGivesUp, WriteSteps, RolledBack, control, ledger, database,
         Lasting, Bookkeeping, Rows, Undone, GoesOn
  <2>5. CASE RetryGroup
      BY <2>5 DEF RetryGroup, RunAgain, WriteSteps, RolledBack, control, ledger,
         database, Lasting, Bookkeeping, Rows, Undone, GoesOn
  <2>6. QED
    BY Zenon, <1>3, <2>1, <2>2, <2>3, <2>4, <2>5 DEF GroupStep
<1>4. ASSUME LoneStep
      PROVE  Lasting /\ Bookkeeping /\ GoesOn
  <2>1. CASE RunAlone
      BY <2>1 DEF RunAlone, control, ledger, database, Lasting, Bookkeeping, Rows,
         Unrecorded, GoesOn
  <2>2. CASE VerifyIndexValid
      BY <2>2 DEF VerifyIndexValid, control, ledger, database, Lasting, Bookkeeping,
         Rows, Unsaid, GoesOn
  <2>3. CASE RecordAlone
      BY <2>3 DEF RecordAlone, RecordStep, WriteSteps, control, ledger, database,
         Lasting, Bookkeeping, Rows, Succeeded, GoesOn
  <2>4. CASE WalkCancelled
      BY <2>4 DEF WalkCancelled, control, ledger, database, Lasting, Bookkeeping, Rows,
         Unsaid, GoesOn
  <2>5. CASE WalkAborts
      BY <2>5 DEF WalkAborts, control, ledger, database, Lasting, Bookkeeping, Rows,
         Unsaid, GoesOn
  <2>6. CASE StepThrows
      BY <2>6 DEF StepThrows, RecordStep, WriteSteps, HandledAs, control, ledger,
         database, Lasting, Bookkeeping, Rows, Marked, GoesOn
  <2>7. QED
    BY Zenon, <1>4, <2>1, <2>2, <2>3, <2>4, <2>5, <2>6 DEF LoneStep
<1>5. ASSUME EndStep
      PROVE  Lasting /\ Bookkeeping /\ (GoesOn \/ FinishJob \/ Publish)
  <2>1. CASE LastCommit
      BY <2>1 DEF LastCommit, CommitGroup, InLoop, control, ledger, database, Lasting,
         Bookkeeping, Rows, Committed, GoesOn
  <2>2. CASE LastCommitThrows
      BY <2>2 DEF LastCommitThrows, CommitThrows, InLoop, control, ledger, database,
         Lasting, Bookkeeping, Rows, Committed, GoesOn
  <2>3. CASE GroupRolledBack
      BY <2>3 DEF GroupRolledBack, WriteSteps, RolledBack, control, ledger, database,
         Lasting, Bookkeeping, Rows, Undone, GoesOn
  <2>4. CASE FinishJob
      BY Zenon, <2>4 DEF FinishJob, Closed, control, ledger, database, Lasting, Bookkeeping,
         Rows, Unsaid
  <2>5. CASE Publish
      BY <2>5 DEF Publish, control, ledger, database, Lasting, Bookkeeping, Rows, Unsaid
  <2>6. QED
    BY Zenon, <1>5, <2>1, <2>2, <2>3, <2>4, <2>5 DEF EndStep
<1>6. ASSUME Aside
      PROVE  Lasting /\ Bookkeeping /\ LooksOn
  <2>1. CASE Cancel
      BY <2>1 DEF Cancel, control, ledger, database, Lasting, Bookkeeping, Rows, Unsaid,
         LooksOn
  <2>2. CASE RequestCancel
      BY <2>2 DEF RequestCancel, control, ledger, database, Lasting, Bookkeeping, Rows,
         Unsaid, LooksOn
  <2>3. CASE CoordinationDies
      BY <2>3 DEF CoordinationDies, control, ledger, database, Lasting, Bookkeeping,
         Rows, Unsaid, LooksOn
  <2>4. CASE Crash
      BY Zenon, <2>4 DEF Crash, control, ledger, database, Lasting, Bookkeeping, Rows, Unsaid,
         LooksOn
  <2>5. CASE Reconcile
      BY Zenon, <2>5 DEF Reconcile, control, ledger, database, Lasting, Bookkeeping, Rows,
         Unsaid, LooksOn
  <2>6. QED
    BY Zenon, <1>6, <2>1, <2>2, <2>3, <2>4, <2>5 DEF Aside
<1>7. QED
    BY Zenon, <1>1, <1>2, <1>3, <1>4, <1>5, <1>6 DEF Next, Worker

-----------------------------------------------------------------------------
(* The worker's position                                                    *)

\* A step about to run is one of the plan's changes, unless it is a check.
LEMMA RunChanges ==
    ASSUME TypeOK, pc \in {"run", "record"}
    PROVE  at \in Changes(plan) <=> Step.class # "verify"
BY PlanFacts DEF TypeOK, Step, Changes, M!Changes

\* Steps are numbered from 1.
LEMMA ChangesNat ==
    ASSUME TypeOK
    PROVE  \A i \in Changes(plan) : i \in 1..N
BY PlanFacts DEF TypeOK, Changes, M!Changes

LEMMA Numbered ==
    ASSUME TypeOK
    PROVE  /\ N \in Nat /\ DOMAIN plan = 1..N /\ at \in Nat /\ groupFirst \in Nat
           /\ \A i \in Changes(plan) : i \in Nat /\ i \in 1..N
BY ChangesNat, PlanFacts DEF TypeOK

\* The stretches of a plan, as the worker moves along it.
LEMMA AlongThePlan ==
    ASSUME NEW p, \A i \in Changes(p) : i \in Nat, NEW k \in Nat
    PROVE  /\ Stretch(p, k, k) = {}
           /\ Before(p, k + 1) = Before(p, k) \cup ({k} \cap Changes(p))
           /\ k \notin Changes(p) \/ p[k].class # "txn" =>
                 (NoStraddle(p, k) => NoStraddle(p, k + 1))
           /\ \A b \in Nat : b <= k =>
                 /\ Stretch(p, b, k + 1) = Stretch(p, b, k) \cup ({k} \cap Changes(p))
                 /\ Before(p, k) = Before(p, b) \cup Stretch(p, b, k)
                 /\ Before(p, b) \cap Stretch(p, b, k) = {}
                 /\ k \notin Before(p, b) /\ k \notin Stretch(p, b, k)
<1>1. \A j \in Changes(p) : (j < k + 1 <=> j < k \/ j = k) /\ (k + 1 <= j => k <= j)
    OBVIOUS
<1>2. Stretch(p, k, k) = {} /\ Before(p, k + 1) = Before(p, k) \cup ({k} \cap Changes(p))
    BY DEF Stretch, Before
<1>3. k \notin Changes(p) \/ p[k].class # "txn" =>
          (NoStraddle(p, k) => NoStraddle(p, k + 1))
    BY <1>1 DEF NoStraddle
<1>4. ASSUME NEW b \in Nat, b <= k
      PROVE  /\ Stretch(p, b, k + 1) = Stretch(p, b, k) \cup ({k} \cap Changes(p))
             /\ Before(p, k) = Before(p, b) \cup Stretch(p, b, k)
             /\ Before(p, b) \cap Stretch(p, b, k) = {}
             /\ k \notin Before(p, b) /\ k \notin Stretch(p, b, k)
    BY <1>1, <1>4 DEF Stretch, Before
<1>5. QED
    BY <1>2, <1>3, <1>4

\* In the loop, what is open is apart from what is durable.
LEMMA LoopFacts ==
    ASSUME TypeOK, Position, pc \in InLoop
    PROVE  /\ GroupSoFar /\ Base \in Nat /\ Base <= at /\ pending \cap applied = {}
           /\ at \notin applied /\ at \notin pending
           /\ ~groupOpen => pending = {} /\ Base = at
           /\ Before(plan, at) = applied \cup pending
<1>1. at \in Nat /\ groupFirst \in Nat /\ \A i \in Changes(plan) : i \in Nat
    BY Zenon, Numbered
<1>2. GroupSoFar
    BY DEF Position
<1>3. Base \in Nat /\ Base <= at /\ (~groupOpen => Base = at)
    BY <1>1, <1>2 DEF GroupSoFar, Base, Stretch
<1>4. QED
    BY Zenon, <1>1, <1>2, <1>3, AlongThePlan DEF GroupSoFar

\* Crossing into another group commits the open one whole.
LEMMA BoundaryPosition ==
    ASSUME TypeOK, plan \in Plans, Position, Boundary
    PROVE  Position'
<1>1. plan' = plan /\ at' = at /\ groupFirst' = groupFirst /\ pc' = "run" /\ pc = "boundary"
      /\ currentGroup' = Step.group + 1
    BY DEF Boundary
<1>2. GroupSoFar /\ Base \in Nat /\ Base <= at /\ (~groupOpen => pending = {} /\ Base = at)
      /\ Before(plan, at) = applied \cup pending
    BY <1>1, LoopFacts DEF InLoop
<1>3. WellGrouped(plan) /\ Changes(plan) \subseteq DOMAIN plan /\ at \in DOMAIN plan
    BY <1>1, PlansAssumption, PlanFacts DEF Changes, M!Changes, TypeOK
<1>4. \A i \in DOMAIN plan : plan[i].group \in Nat
    BY PlanFacts DEF TypeOK
<1>5. at \in Nat /\ groupFirst \in Nat /\ \A i \in Changes(plan) : i \in Nat
    BY Zenon, Numbered
<1>6. groupOpen => /\ groupFirst \in Changes(plan) /\ groupFirst < at /\ groupFirst \in pending
                   /\ plan[groupFirst].class = "txn" /\ plan[groupFirst].group + 1 = currentGroup
    BY Zenon, <1>2 DEF GroupSoFar, Stretch
<1>7. CASE groupOpen /\ Crossing
  <2>1. applied' = applied \cup pending /\ pending' = {} /\ uncommitted' = {}
        /\ ~groupOpen' /\ inDoubt' = inDoubt
    BY <1>7 DEF Boundary, CommitGroup
  <2>2. NoStraddle(plan, at)
    <3> SUFFICES ASSUME NEW j \in Changes(plan), NEW k \in Changes(plan), j < at, at <= k,
                        plan[j].class = "txn", plan[k].class = "txn",
                        plan[j].group = plan[k].group
                 PROVE  FALSE
      BY DEF NoStraddle
    <3>1. plan[j].group = plan[at].group
      BY <1>3, <1>4, <1>5 DEF WellGrouped
    <3>2. plan[at].class = "txn"
      BY <1>3, <1>4, <1>5, <3>1 DEF WellGrouped
    <3>3. plan[at].group + 1 # currentGroup
      BY <1>7, <3>2 DEF Crossing, NeedsOwn, Step
    <3>4. CASE j < groupFirst
      BY <1>3, <1>4, <1>5, <1>6, <1>7, <3>1, <3>3, <3>4 DEF WellGrouped
    <3>5. CASE groupFirst <= j
      <4>1. j \in pending
        BY Zenon, <1>2, <1>7, <3>5 DEF GroupSoFar, Base, Stretch
      <4>2. QED
        BY Zenon, <1>2, <4>1, <3>1, <3>3 DEF GroupSoFar
    <3>6. QED
      BY <1>5, <3>4, <3>5
  <2>3. Base' = at /\ Stretch(plan, at, at) = {}
    BY Zenon, <1>1, <1>5, <2>1, AlongThePlan DEF Base
  <2>4. GroupSoFar'
    BY Zenon, <1>1, <1>2, <2>1, <2>2, <2>3 DEF GroupSoFar
  <2>5. QED
    BY <1>1, <1>2, <2>1, <2>4 DEF Position, GroupSoFar, InLoop, Step
<1>8. CASE ~(groupOpen /\ Crossing)
  <2>1. UNCHANGED <<applied, pending, inDoubt, uncommitted, groupOpen>>
    BY Zenon, <1>8 DEF Boundary, database
  <2>2. groupOpen => currentGroup = Step.group + 1 /\ Step.class = "txn"
    <3> SUFFICES ASSUME groupOpen
                 PROVE  currentGroup = Step.group + 1 /\ Step.class = "txn"
      OBVIOUS
    <3>1. currentGroup = Step.group + 1
      BY Zenon, <1>8 DEF Crossing
    <3>2. plan[groupFirst].group = plan[at].group
      BY <1>3, <1>4, <1>6, <3>1 DEF Step
    <3> QED BY Zenon, <1>3, <1>6, <3>1, <3>2 DEF Step, WellGrouped
  <2>3. Base' = Base /\ (~groupOpen => pending = {})
    BY <1>1, <1>2, <2>1 DEF Base
  <2>4. GroupSoFar'
    BY <1>1, <1>2, <2>1, <2>2, <2>3 DEF GroupSoFar
  <2>5. QED
    BY <1>1, <1>2, <2>1, <2>2, <2>3, <2>4 DEF Position, GroupSoFar, InLoop, Step
<1>9. QED
    BY <1>7, <1>8

\* The position is the worker's: what others do leaves it.
LEMMA SamePosition ==
    ASSUME Position, UNCHANGED <<plan, pc, at, control, database>>
    PROVE  Position'
<1>1. UNCHANGED <<plan, pc, at, currentGroup, groupOpen, groupFirst, uncommitted, pending,
                  applied, inDoubt>>
    BY DEF control, database
<1>2. Base' = Base /\ Step' = Step
    BY <1>1 DEF Base, Step
<1>3. GroupSoFar => GroupSoFar'
    BY Zenon, <1>1, <1>2 DEF GroupSoFar
<1>4. QED
    BY <1>1, <1>2, <1>3 DEF Position

\* Nothing moves once the end is decided and the transaction gone.
LEMMA EndKeepsPosition ==
    ASSUME Position, FinishJob \/ Publish
    PROVE  Position'
<1>1. pc \in {"finish", "publish"} /\ pc' \in {"publish", "ended"}
    BY DEF FinishJob, Publish
<1>2. UNCHANGED <<groupOpen, uncommitted, pending, applied, inDoubt>>
    BY DEF FinishJob, Publish, control, database
<1>3. /\ pending = {} /\ ~groupOpen /\ uncommitted = {}
      /\ uncommitted \cap applied \subseteq inDoubt /\ inDoubt \subseteq applied
    BY <1>1 DEF Position
<1>4. QED
    BY <1>1, <1>2, <1>3 DEF Position, InLoop

\* The loop is left, and the open transaction with it.
Leaves ==
    /\ pc' \in {"rollback", "finish"} /\ pending' = {} /\ ~groupOpen'
    /\ uncommitted' \cap applied' \subseteq inDoubt' /\ inDoubt' \subseteq applied'
    /\ pc' = "finish" => uncommitted' = {}

\* Every step of the executor keeps durable what precedes the open group, and
\* in the transaction exactly the group so far.
LEMMA PositionStep ==
    ASSUME TypeOK, plan \in Plans, alive => Position, [Next]_vars, alive'
    PROVE  Position'
<1>1. CASE LooksOn
    BY Zenon, <1>1, SamePosition, StepKinds DEF LooksOn, Lasting
<1>2. CASE FinishJob \/ Publish
    BY Zenon, <1>2, EndKeepsPosition, StepKinds DEF Lasting
<1>3. at \in Nat /\ groupFirst \in Nat /\ \A i \in Changes(plan) : i \in Nat
    BY Zenon, Numbered
<1>4. Leaves => Position'
    BY Zenon DEF Leaves, Position, InLoop
<1>5. pc' \in {"top", "boundary"} /\ GroupSoFar' => Position'
    BY DEF Position, GroupSoFar, InLoop
<1>6. CASE LoopStep
  <2>1. alive /\ pc \in {"connect", "top", "boundary"} /\ plan' = plan
    BY Zenon, <1>6, StepKinds DEF LoopStep, Connect, ConnectFails, CancelAtTop, Satisfied,
       BeginStep, Boundary, BoundaryThrows, Lasting
  <2>2. GroupSoFar /\ Base \in Nat /\ Base <= at /\ pending \cap applied = {}
        /\ (~groupOpen => pending = {} /\ Base = at)
    BY Zenon, <2>1, LoopFacts DEF InLoop
  <2>3. CASE Connect
      BY <1>5, <2>2, <2>3 DEF Connect, control, database, GroupSoFar, Base
  <2>4. CASE ConnectFails
    <3>1. pc' = "rollback" /\ UNCHANGED <<groupOpen, uncommitted, pending, applied, inDoubt>>
      BY <2>4 DEF ConnectFails, control, database
    <3>2. ~groupOpen /\ pending = {} /\ uncommitted = {} /\ inDoubt = {}
      BY Zenon, <2>1, <2>2, <2>4 DEF ConnectFails, Position, GroupSoFar
    <3>3. QED
      BY <1>4, <3>1, <3>2 DEF Leaves
  <2>5. CASE CancelAtTop
      BY Zenon, <1>4, <2>2, <2>5 DEF CancelAtTop, GroupSoFar, Leaves
  <2>6. CASE Satisfied
    <3>1. {at} \cap Changes(plan) = {}
      BY <2>6 DEF Satisfied, Changes, M!Changes, Step
    <3>2. UNCHANGED <<plan, pc, currentGroup, groupOpen, groupFirst, uncommitted, pending,
                      applied, inDoubt>> /\ at' = at + 1 /\ pc = "top"
      BY <2>6 DEF Satisfied, control, database
    <3>3. /\ Stretch(plan, Base, at + 1) = Stretch(plan, Base, at)
          /\ Before(plan, at + 1) = Before(plan, at)
          /\ NoStraddle(plan, at) => NoStraddle(plan, at + 1)
          /\ Stretch(plan, at + 1, at + 1) = {}
      <4>1. /\ Stretch(plan, Base, at + 1) = Stretch(plan, Base, at) \cup ({at} \cap Changes(plan))
            /\ Before(plan, at + 1) = Before(plan, at) \cup ({at} \cap Changes(plan))
            /\ at \notin Changes(plan) => (NoStraddle(plan, at) => NoStraddle(plan, at + 1))
        BY Zenon, <1>3, <2>2, AlongThePlan
      <4>2. Stretch(plan, at + 1, at + 1) = {}
        BY <1>3, AlongThePlan
      <4>3. QED
        BY <3>1, <4>1, <4>2
    <3>4. GroupSoFar'
      <4>1. CASE groupOpen
        BY Zenon, <2>2, <3>2, <3>3, <4>1 DEF GroupSoFar, Base
      <4>2. CASE ~groupOpen
        BY Zenon, <2>2, <3>2, <3>3, <4>2 DEF GroupSoFar, Base
      <4>3. QED
        BY Zenon, <4>1, <4>2
    <3>5. QED
      BY <1>5, <3>2, <3>4
  <2>7. CASE BeginStep
      BY <1>5, <2>2, <2>7 DEF BeginStep, control, database, GroupSoFar, Base
  <2>8. CASE Boundary
      BY Zenon, <2>1, <2>8, BoundaryPosition
  <2>9. CASE BoundaryThrows
      BY Zenon, <1>4, <2>2, <2>9 DEF BoundaryThrows, CommitThrows, GroupSoFar, Leaves
  <2>10. QED
    BY Zenon, <1>6, <2>3, <2>4, <2>5, <2>6, <2>7, <2>8, <2>9 DEF LoopStep
<1>7. CASE RunInTransaction \/ LockTimesOut
  <2>1. alive /\ pc = "run" /\ Step.class = "txn" /\ plan' = plan /\ currentGroup' = currentGroup
        /\ applied' = applied /\ inDoubt' = inDoubt /\ groupFirst' = Base
    BY Zenon, <1>7 DEF RunInTransaction, LockTimesOut, OpenGroup, Base
  <2>2. GroupSoFar /\ Base \in Nat /\ Base <= at /\ (~groupOpen => pending = {} /\ Base = at)
    BY <2>1, LoopFacts DEF InLoop
  <2>3. at \in Changes(plan) /\ currentGroup = Step.group + 1
    BY <2>1, RunChanges DEF Position
  <2>4. CASE RunInTransaction
    <3>1. at' = at + 1 /\ pc' = "top" /\ groupOpen'
          /\ pending' = pending \cup {at} /\ uncommitted' = uncommitted \cup {at}
      BY Zenon, <2>4 DEF RunInTransaction, OpenGroup
    <3>2. Stretch(plan, Base, at + 1) = Stretch(plan, Base, at) \cup {at}
      BY <1>3, <2>2, <2>3, AlongThePlan
    <3>3. Base' = Base /\ Base \in pending'
      BY Zenon, <2>1, <2>2, <3>1 DEF Base, GroupSoFar
    <3>4. GroupSoFar'
      BY Zenon, <2>1, <2>2, <2>3, <3>1, <3>2, <3>3 DEF GroupSoFar, Step
    <3>5. QED
      BY <1>5, <3>1, <3>4
  <2>5. CASE LockTimesOut
    <3>1. ~groupOpen' /\ pending' = {} /\ pc' = "retry" /\ at' = at /\ uncommitted' = uncommitted
      BY Zenon, <2>5 DEF LockTimesOut
    <3>2. Base \in 1..at
      BY <1>3, <2>2, ChangesNat DEF GroupSoFar, Base, Stretch, TypeOK
    <3>3. QED
      BY Zenon, <2>1, <2>2, <3>1, <3>2 DEF Position, GroupSoFar, InLoop
  <2>6. QED
    BY <1>7, <2>4, <2>5
<1>8. CASE RetryCancelled
    BY Zenon, <1>4, <1>8 DEF RetryCancelled, database, Position, Leaves
<1>9. CASE RetryGivesUp
  <2>1. alive /\ pc = "retry" /\ pc' = "rollback" /\ uncommitted' = {} /\ groupOpen' = groupOpen
        /\ UNCHANGED <<pending, applied, inDoubt>>
    BY <1>9 DEF RetryGivesUp, database
  <2>2. QED
    BY <1>4, <2>1 DEF Position, Leaves
<1>10. CASE RetryGroup
  <2>1. alive /\ pc = "retry" /\ at' = groupFirst /\ pc' = "top" /\ uncommitted' = {}
        /\ UNCHANGED <<plan, currentGroup, groupOpen, groupFirst, pending, applied, inDoubt>>
    BY Zenon, <1>10 DEF RetryGroup, RunAgain, database
  <2>2. Stretch(plan, groupFirst, groupFirst) = {} /\ Base' = groupFirst
    BY Zenon, <1>3, <2>1, AlongThePlan DEF Base
  <2>3. GroupSoFar'
    BY <2>1, <2>2 DEF Position, GroupSoFar
  <2>4. QED
    BY <1>5, <2>1, <2>3
<1>11. CASE RunAlone \/ VerifyIndexValid
  <2>1. alive /\ pc = "run" /\ pc' = "record" /\ Step.class # "txn"
        /\ UNCHANGED <<plan, at, groupOpen, uncommitted, pending, inDoubt>>
        /\ \/ Step.class # "verify" /\ applied' = applied \cup {at}
           \/ Step.class = "verify" /\ applied' = applied
    BY Zenon, <1>11 DEF RunAlone, VerifyIndexValid, NeedsOwn, control, database
  <2>2. GroupSoFar /\ pending = {} /\ ~groupOpen
    BY Zenon, <2>1 DEF Position, InLoop
  <2>3. Step' = Step /\ Base = at /\ applied' = applied \cup ({at} \cap Changes(plan))
    BY <2>1, <2>2, RunChanges DEF Step, Base
  <2>4. QED
    BY Zenon, <2>1, <2>2, <2>3 DEF Position, GroupSoFar, InLoop
<1>12. CASE RecordAlone
  <2>1. alive /\ pc = "record" /\ pc' = "top" /\ at' = at + 1
        /\ UNCHANGED <<plan, groupOpen, uncommitted, pending, applied, inDoubt>>
    BY <1>12 DEF RecordAlone, control, database
  <2>2. /\ Step.class # "txn" /\ ~groupOpen /\ NoStraddle(plan, at)
        /\ applied = Before(plan, at) \cup ({at} \cap Changes(plan))
        /\ pending = {} /\ uncommitted = {} /\ inDoubt = {}
    BY Zenon, <2>1 DEF Position
  <2>3. /\ Before(plan, at + 1) = Before(plan, at) \cup ({at} \cap Changes(plan))
        /\ NoStraddle(plan, at + 1) /\ Stretch(plan, at + 1, at + 1) = {}
    BY <1>3, <2>2, AlongThePlan DEF Step
  <2>4. GroupSoFar'
    BY Zenon, <2>1, <2>2, <2>3 DEF GroupSoFar, Base
  <2>5. QED
    BY <1>5, <2>1, <2>4
<1>13. CASE WalkCancelled \/ WalkAborts
  <2>1. alive /\ pc = "run" /\ Step.class # "txn" /\ pc' \in {"rollback", "finish"}
        /\ UNCHANGED <<groupOpen, uncommitted, pending, applied, inDoubt>>
    BY Zenon, <1>13 DEF WalkCancelled, WalkAborts, control, database
  <2>2. pending = {} /\ uncommitted = {} /\ inDoubt = {} /\ ~groupOpen
    BY <2>1 DEF Position, GroupSoFar, InLoop
  <2>3. QED
    BY <1>4, <2>1, <2>2 DEF Leaves
<1>14. CASE StepThrows
  <2>1. alive /\ pc = "run" /\ pc' = "rollback" /\ pending' = {} /\ ~groupOpen'
        /\ uncommitted' = uncommitted
        /\ \/ UNCHANGED <<applied, inDoubt>>
           \/ applied' = applied \cup {at} /\ inDoubt' = inDoubt \cup {at}
    BY Zenon, <1>14 DEF StepThrows
  <2>2. uncommitted \cap applied = {} /\ inDoubt = {}
    BY <2>1, LoopFacts DEF InLoop, GroupSoFar
  <2>3. QED
    BY <1>4, <2>1, <2>2 DEF Leaves
<1>15. CASE LastCommit \/ LastCommitThrows
  <2>1. alive /\ pc = "top"
    BY Zenon, <1>15 DEF LastCommit, LastCommitThrows
  <2>2. GroupSoFar /\ pending \cap applied = {}
    BY Zenon, <2>1, LoopFacts DEF InLoop
  <2>3. CASE LastCommit
    BY Zenon, <1>4, <2>2, <2>3 DEF LastCommit, CommitGroup, GroupSoFar, Leaves
  <2>4. CASE LastCommitThrows
    BY Zenon, <1>4, <2>2, <2>4 DEF LastCommitThrows, CommitThrows, GroupSoFar, Leaves
  <2>5. QED
    BY <1>15, <2>3, <2>4
<1>16. CASE GroupRolledBack
    BY Zenon, <1>4, <1>16 DEF GroupRolledBack, database, Position, Leaves
<1>17. QED
    BY Zenon, <1>1, <1>2, <1>6, <1>7, <1>8, <1>9, <1>10, <1>11, <1>12, <1>13, <1>14, <1>15,
       <1>16, StepKinds DEF Next, Worker, GroupStep, LoneStep, EndStep

-----------------------------------------------------------------------------
(* The executor implements Migration                                        *)

\* The commit of a group makes one unit durable: the whole group.
LEMMA CommitIsUnit ==
    ASSUME TypeOK, plan \in Plans, Position, pc \in InLoop, groupOpen,
           (pc = "boundary" /\ Crossing) \/ at = N + 1,
           applied' = applied \cup pending, plan' = plan
    PROVE  M!Next
<1> DEFINE f == groupFirst
<1>1. WellGrouped(plan) /\ \A i \in DOMAIN plan : plan[i].group \in Nat
    BY PlansAssumption, PlanFacts DEF TypeOK
<1>2. DOMAIN plan = 1..N /\ at \in Nat /\ f \in Nat /\ N \in Nat
      /\ \A i \in Changes(plan) : i \in 1..N
    BY Zenon, Numbered
<1>3. GroupSoFar /\ Base = f
    BY Zenon DEF Position, Base
<1>4. f \in Changes(plan) /\ f < at /\ f \in pending
      /\ plan[f].class = "txn" /\ plan[f].group + 1 = currentGroup
    BY Zenon, <1>3 DEF GroupSoFar, Stretch
<1>5. \A j \in Changes(plan) : plan[j].class = "txn" /\ plan[j].group = plan[f].group
          => f <= j
    BY <1>2, <1>3, <1>4 DEF GroupSoFar, NoStraddle
<1>6. \A j \in Changes(plan) : plan[j].class = "txn" /\ plan[j].group = plan[f].group
          => j < at
  <2> SUFFICES ASSUME NEW j \in Changes(plan), at <= j, plan[j].class = "txn",
                      plan[j].group = plan[f].group
               PROVE  FALSE
    BY <1>2
  <2>1. pc = "boundary" /\ Crossing /\ at \in DOMAIN plan
    BY <1>2 DEF TypeOK
  <2>2. plan[at].group = plan[f].group
    <3>1. plan[f].group <= plan[at].group
      BY Zenon, <1>1, <1>2, <1>4, <2>1 DEF WellGrouped
    <3>2. plan[at].group <= plan[j].group
      <4>1. CASE at = j
        BY <1>1, <2>1, <4>1
      <4>2. CASE at < j
        BY Zenon, <1>1, <1>2, <2>1, <4>2 DEF WellGrouped
      <4>3. QED
        BY <1>2, <4>1, <4>2
    <3>3. QED
      BY <1>1, <1>2, <1>4, <2>1, <3>1, <3>2
  <2>3. plan[at].class = "txn"
    BY Zenon, <1>1, <1>2, <1>4, <2>1, <2>2 DEF WellGrouped
  <2>4. QED
    BY Zenon, <1>4, <2>1, <2>2, <2>3 DEF Crossing, NeedsOwn, Step
<1>7. \A j \in pending : plan[j].class = "txn" /\ plan[j].group = plan[f].group
                         /\ j \in Changes(plan)
    BY <1>1, <1>2, <1>3, <1>4 DEF GroupSoFar, Stretch
<1>8. M!Unit(plan, f) = pending
    BY Zenon, <1>3, <1>4, <1>5, <1>6, <1>7 DEF M!Unit, GroupSoFar, Stretch, Changes
<1>9. f \notin applied /\ \A j \in Changes(plan) : j < f => j \in applied
    BY <1>2, <1>3 DEF GroupSoFar, Before
<1>10. M!Apply(f)
    BY <1>4, <1>8, <1>9 DEF M!Apply, Changes
<1>11. QED
    BY Zenon, <1>2, <1>4, <1>10 DEF M!Next

\* A step outside a transaction is a unit of its own.
LEMMA AloneIsUnit ==
    ASSUME TypeOK, Position, pc = "run", NeedsOwn(Step),
           applied' = applied \cup {at}, plan' = plan
    PROVE  M!Next
<1>1. at \in Changes(plan) /\ at \in DOMAIN plan /\ at \in Nat
    BY Zenon, RunChanges, Numbered DEF NeedsOwn, Changes, M!Changes
<1>2. applied = Before(plan, at)
    BY Zenon DEF Position, GroupSoFar, InLoop, Base, NeedsOwn
<1>3. M!Unit(plan, at) = {at}
    BY DEF M!Unit, NeedsOwn, Step
<1>4. M!Apply(at)
    BY <1>1, <1>2, <1>3 DEF M!Apply, Changes, Before
<1>5. QED
    BY Zenon, <1>1, <1>4 DEF M!Next

\* Every step of the executor is a step of Migration, or leaves the database
\* as it was.
LEMMA RefinementStep ==
    ASSUME TypeOK, plan \in Plans, alive => Position, [Next]_vars
    PROVE  [M!Next]_<<plan, applied>>
<1>1. plan' = plan /\ Rows(mem, mem')
    BY StepKinds DEF Lasting, Bookkeeping
<1>2. CASE applied' = applied
    BY <1>1, <1>2
<1>3. CASE applied' # applied
  <2>1. alive
    BY Zenon, <1>3, StepKinds DEF GoesOn, LooksOn, FinishJob, Publish, Next
  <2>2. CASE Committed(mem, mem')
    <3>1. pc \in InLoop /\ applied' = applied \cup pending
          /\ ((pc = "boundary" /\ Crossing) \/ at = N + 1)
      BY <1>3, <2>2 DEF Committed
    <3>2. groupOpen
      BY Zenon, <1>3, <2>1, <3>1, LoopFacts
    <3>3. QED
      BY <1>1, <2>1, <3>1, <3>2, CommitIsUnit
  <2>3. CASE Marked(mem, mem') \/ Unrecorded(mem, mem')
    BY <1>1, <1>3, <2>1, <2>3, AloneIsUnit DEF Marked, Unrecorded
  <2>4. QED
    BY Zenon, <1>1, <1>3, <2>2, <2>3 DEF Rows, Unsaid, Succeeded, Undone
<1>4. QED
    BY <1>2, <1>3

-----------------------------------------------------------------------------
(* The end of a job                                                         *)

\* A terminal state is decided once, and published after it is decided.
LEMMA EndingStep ==
    ASSUME TypeOK, alive => Position, Ending, [Next]_vars
    PROVE  Ending'
<1>1. CASE GoesOn
  <2>1. Lasting
    BY StepKinds
  <2>2. CASE ending' = "succeeded"
    <3>1. pc = "top" /\ at = N + 1 /\ applied' = applied \cup pending /\ pc' = "finish"
          /\ job' # "succeeded"
      BY Zenon, <1>1, <2>2 DEF GoesOn, Ending
    <3>2. applied = Before(plan, Base) /\ pending = Stretch(plan, Base, at)
      BY Zenon, <1>1, <3>1 DEF GoesOn, Position, GroupSoFar, InLoop
    <3>3. N \in Nat /\ Base \in Nat /\ \A i \in Changes(plan) : i \in 1..N
      BY Zenon, Numbered DEF Base
    <3>4. Changes(plan) \subseteq applied'
      BY <3>1, <3>2, <3>3 DEF Before, Stretch
    <3>5. QED
      BY <2>1, <2>2, <3>1, <3>4 DEF Ending, Lasting
  <2>3. CASE ending' # "succeeded"
    BY <1>1, <2>3 DEF GoesOn, Ending
  <2>4. QED
    BY <2>2, <2>3
<1>2. CASE LooksOn
    BY <1>2, StepKinds DEF LooksOn, Lasting, Ending
<1>3. CASE FinishJob
    BY <1>3 DEF FinishJob, database, Ending
<1>4. CASE Publish
    BY <1>4 DEF Publish, database, Ending
<1>5. QED
    BY <1>1, <1>2, <1>3, <1>4, StepKinds DEF Next

-----------------------------------------------------------------------------
(* The durable state                                                        *)

\* The initial states satisfy the invariant.
LEMMA DurableInit == Init => Durable
<1> SUFFICES ASSUME Init PROVE Durable
    OBVIOUS
<1> USE DEF Init
<1>1. plan \in Seq(PlanSteps)
    BY Zenon, PlansAssumption
<1>2. N \in Nat /\ DOMAIN plan = 1..N
    BY <1>1, PlanFacts
<1>3. FlagsOK
    BY Zenon DEF FlagsOK
<1>4. TypeOK
    BY SMTT(30), <1>1, <1>2, <1>3, AttemptsAssumption DEF TypeOK, StepStates, Terminal
<1>5. Position
  <2>1. Before(plan, 1) = {} /\ Stretch(plan, 1, 1) = {} /\ NoStraddle(plan, 1)
    BY <1>4, Numbered DEF NoStraddle, Before, Stretch
  <2>2. QED
    BY <2>1 DEF Position, GroupSoFar, InLoop, Base
<1>6. Ending
    BY DEF Ending
<1>7. QED
    BY <1>4, <1>5, <1>6 DEF Durable

\* Every step keeps the invariant.
LEMMA DurableStep == Durable /\ [Next]_vars => Durable'
<1> SUFFICES ASSUME Durable, [Next]_vars PROVE Durable'
    OBVIOUS
<1> USE DEF Durable
<1>1. TypeOK'
    BY TypeStep
<1>2. plan' = plan /\ (alive' => alive) /\ (~alive' => pending' = {})
    BY StepKinds DEF Lasting
<1>3. alive' => Position'
    BY <1>2, PositionStep
<1>4. Ending'
    BY EndingStep
<1>5. QED
    BY <1>1, <1>2, <1>3, <1>4

\* The invariant holds throughout every behaviour.
LEMMA DurableHolds == Spec => []Durable
BY DurableInit, DurableStep, PTL DEF Spec

\* Executor: the state stays well-formed.
THEOREM TypeCorrect == Spec => []TypeOK
<1>1. Durable => TypeOK
    BY DEF Durable
<1>2. QED
    BY <1>1, DurableHolds, PTL

\* For every plan the planner may group, and whatever fails, is cancelled,
\* crashes or is tried again, execute() makes durable whole transaction groups
\* in plan order and nothing else: it implements Migration.
THEOREM Refinement == Spec => ImplementsMigration
<1>1. Init => M!Init
    BY DEF Init, M!Init
<1>2. Durable /\ [Next]_vars => [M!Next]_<<plan, applied>>
    BY RefinementStep DEF Durable
<1>3. QED
    BY <1>1, <1>2, DurableHolds, PTL DEF Spec, ImplementsMigration, M!Spec

-----------------------------------------------------------------------------
(* What jobStatus and the ledger say of a job and its steps *)

\* What is said of the steps, mem by jobStatus and led by the ledger.
Truth(rows) ==
    \A i \in DOMAIN plan :
        /\ rows[i] = "succeeded" =>
              i \in applied \cup uncommitted \/ plan[i].class = "verify"
        /\ i \in applied \ inDoubt =>
              rows[i] = "succeeded" \/ (pc = "record" /\ i = at)
        /\ i \in pending => rows[i] = "succeeded"

\* The same of the rows a step leaves.
TruthAfter(new) ==
    \A i \in DOMAIN plan' :
        /\ new[i] = "succeeded" =>
              i \in applied' \cup uncommitted' \/ plan'[i].class = "verify"
        /\ i \in applied' \ inDoubt' =>
              new[i] = "succeeded" \/ (pc' = "record" /\ i = at')
        /\ i \in pending' => new[i] = "succeeded"

\* The ledger's own: held by the lock while the job runs, right when it ends.
LedgerHeld ==
    /\ pc \notin {"publish", "ended"} => ledJob \in {"running", "interrupted"}
    /\ alive /\ coord = "ok" /\ pc \notin {"publish", "ended"} =>
          locked /\ ledJob = "running"
    /\ alive /\ coord = "ok" /\ pc \in {"publish", "ended"} => ledJob = ending
    /\ ledJob \in Terminal => FinishedLedgerTrue
    /\ pc \in {"publish", "ended"} => ending # "none"

Inv ==
    /\ Durable
    /\ alive => Truth(mem)
    /\ alive /\ coord = "ok" => Truth(led)
    /\ LedgerHeld

-----------------------------------------------------------------------------
(* What is said of the steps                                                *)

\* No such thing makes what is said of the steps untrue.
LEMMA RowsTruth ==
    ASSUME NEW rows \in [DOMAIN plan -> StepStates], NEW new,
           TypeOK, Position, plan' = plan, Truth(rows), Rows(rows, new)
    PROVE  TruthAfter(new)
<1>1. CASE Unsaid(rows, new)
    BY Zenon, <1>1 DEF Unsaid, Truth, TruthAfter
<1>2. CASE Committed(rows, new)
  <2>1. uncommitted = pending /\ pc # "record"
    BY Zenon, <1>2, LoopFacts DEF Committed, GroupSoFar, InLoop
  <2>2. QED
    BY <1>2, <2>1 DEF Committed, Truth, TruthAfter
<1>3. CASE Marked(rows, new)
  <2>1. at \notin applied /\ at \notin pending
    BY Zenon, <1>3, LoopFacts DEF Marked, InLoop
  <2>2. QED
    BY Zenon, <1>3, <2>1 DEF Marked, Truth, TruthAfter
<1>4. CASE Succeeded(rows, new)
  <2>1. pc = "record" => at \in applied \/ plan[at].class = "verify"
    BY Zenon, RunChanges DEF Position, Step
  <2>2. QED
    BY <1>4, <2>1 DEF Succeeded, Truth, TruthAfter
<1>5. CASE Unrecorded(rows, new)
    BY <1>5 DEF Unrecorded, Truth, TruthAfter
<1>6. CASE Undone(rows, new)
  <2>1. groupFirst \in Nat /\ at \in Nat /\ \A i \in Changes(plan) : i \in Nat
    BY Zenon, Numbered
  <2>2. pending = {} /\ uncommitted \cap applied \subseteq inDoubt
    <3>1. CASE pc = "retry"
      BY <2>1, <3>1 DEF Position, Before, Stretch
    <3>2. CASE pc = "rollback"
      BY <3>2 DEF Position
    <3>3. QED
      BY Zenon, <1>6, <3>1, <3>2 DEF Undone
  <2>3. pc = "retry" => \A i \in applied : ~(i >= groupFirst) /\ i # at
    BY <2>1 DEF Position, Before
  <2>4. QED
    BY Zenon, <1>6, <2>2, <2>3 DEF Undone, Truth, TruthAfter
<1>7. QED
    BY Zenon, <1>1, <1>2, <1>3, <1>4, <1>5, <1>6 DEF Rows

\* Every step of the executor keeps what jobStatus says of the steps true, and
\* what the ledger says of them, as long as its connection holds.
LEMMA TruthStep ==
    ASSUME TypeOK, Position, [Next]_vars, alive'
    PROVE  /\ Truth(mem) => Truth(mem)'
           /\ Truth(led) /\ coord = "ok" /\ coord' = "ok" => Truth(led)'
<1>1. plan' = plan
    BY StepKinds DEF Lasting
<1>2. mem \in [DOMAIN plan -> StepStates] /\ led \in [DOMAIN plan -> StepStates]
    BY DEF TypeOK
<1>3. Truth(mem) => TruthAfter(mem')
    BY <1>1, <1>2, StepKinds, RowsTruth DEF Bookkeeping
<1>4. Truth(led) /\ coord = "ok" /\ coord' = "ok" => TruthAfter(led')
    BY <1>1, <1>2, StepKinds, RowsTruth DEF Bookkeeping
<1>5. QED
    BY Zenon, <1>3, <1>4 DEF Truth, TruthAfter

-----------------------------------------------------------------------------
(* The end of a job                                                         *)

\* The lock is held until the ledger's last write, and that write is right.
LEMMA LedgerHeldStep ==
    ASSUME TypeOK, alive => Position, alive /\ coord = "ok" => Truth(led),
           LedgerHeld, Ending, [Next]_vars
    PROVE  LedgerHeld'
<1>1. Lasting
    BY Zenon, StepKinds
<1>2. CASE GoesOn
    BY <1>1, <1>2 DEF GoesOn, Lasting, LedgerHeld, Terminal
<1>3. CASE LooksOn
  <2>1. CASE UNCHANGED <<ledJob, led>>
    <3>1. UNCHANGED FinishedLedgerTrue
      BY Zenon, <1>1, <1>3, <2>1 DEF Lasting, LooksOn, FinishedLedgerTrue, Told
    <3>2. QED
      BY <1>1, <1>3, <2>1, <3>1 DEF Lasting, LooksOn, LedgerHeld
  <2>2. CASE ledJob = "running" /\ ledJob' = "interrupted" /\ ~locked
             /\ UNCHANGED <<alive, coord>>
    BY Zenon, <1>3, <2>2 DEF LooksOn, LedgerHeld, Ending, Terminal, TypeOK
  <2>3. QED
    BY Zenon, <1>3, <2>1, <2>2 DEF LooksOn
<1>4. CASE FinishJob
  <2>1. pc = "finish" /\ alive /\ pc' = "publish" /\ plan' = plan /\ alive' = alive
        /\ ending' = ending /\ applied' = applied /\ inDoubt' = inDoubt
    BY <1>4 DEF FinishJob, database
  <2>2. CASE coord = "ok" /\ coord' = "ok" /\ ledJob' = ending /\ led' = Closed(led, ending)
    <3>1. \A i \in DOMAIN plan : Told(led, i)
      BY Zenon, <2>1, <2>2 DEF Told, Truth, Position
    <3>2. FinishedLedgerTrue'
      BY Zenon, <2>1, <2>2, <3>1 DEF Told, Closed, LedgerHeld, FinishedLedgerTrue
    <3>3. QED
      BY Zenon, <2>1, <2>2, <3>2 DEF Ending, LedgerHeld
  <2>3. CASE ledJob' = ledJob /\ coord' # "ok"
    BY Zenon, <2>1, <2>3 DEF Ending, LedgerHeld, FinishedLedgerTrue, Terminal
  <2>4. QED
    BY Zenon, <1>4, <2>2, <2>3 DEF FinishJob, ledger
<1>5. CASE Publish
  <2>1. UNCHANGED FinishedLedgerTrue
    BY Zenon, <1>5 DEF Publish, database, FinishedLedgerTrue, Told
  <2>2. QED
    BY Zenon, <1>5, <2>1 DEF Publish, LedgerHeld
<1>6. QED
    BY <1>2, <1>3, <1>4, <1>5, StepKinds DEF Next

-----------------------------------------------------------------------------
(* Theorems                                                                 *)

\* The initial states satisfy the invariant.
LEMMA InvInit == Init => Inv
<1> SUFFICES ASSUME Init PROVE Inv
    OBVIOUS
<1>1. Durable
    BY Zenon, DurableInit
<1>2. Truth(mem) /\ Truth(led)
    BY DEF Init, Truth
<1>3. LedgerHeld
    BY DEF Init, LedgerHeld, Terminal
<1>4. QED
    BY <1>1, <1>2, <1>3 DEF Inv

\* Every step keeps the invariant.
LEMMA InvStep == Inv /\ [Next]_vars => Inv'
<1> SUFFICES ASSUME Inv, [Next]_vars PROVE Inv'
    OBVIOUS
<1>1. Durable'
    BY DurableStep DEF Inv
<1>2. plan' = plan /\ (alive' => alive) /\ (coord' = "ok" => coord = "ok")
    BY StepKinds DEF Lasting, Inv, Durable
<1>3. alive' => Truth(mem)'
    BY <1>2, TruthStep DEF Inv, Durable
<1>4. alive' /\ coord' = "ok" => Truth(led)'
    BY <1>2, TruthStep DEF Inv, Durable
<1>5. LedgerHeld'
    BY LedgerHeldStep DEF Inv, Durable
<1>6. QED
    BY <1>1, <1>3, <1>4, <1>5 DEF Inv

\* The invariant holds throughout every behaviour.
LEMMA Invariance == Spec => []Inv
BY InvInit, InvStep, PTL DEF Spec

\* When a job has ended, jobStatus says of every step what became of it.
THEOREM StepsTruth == Spec => []StepsToldTrue
<1>1. Inv => StepsToldTrue
    BY  DEF Inv, Durable, StepsToldTrue, Told, Truth, Position, Ending
<1>2. QED
    BY <1>1, Invariance, PTL

\* The ledger of a job it calls finished is complete and true, although its
\* writes may fail unreported: finish_job is the last of them, and one that
\* failed lets no later one through.
THEOREM LedgerTruth == Spec => []FinishedLedgerTrue
<1>1. Inv => FinishedLedgerTrue
    BY  DEF Inv, LedgerHeld, FinishedLedgerTrue
<1>2. QED
    BY <1>1, Invariance, PTL

\* While the process lives, a success the ledger shows is durable or still in
\* uncommitted_, where group_rolled_back finds it.
THEOREM NoOrphans == Spec => []NoOrphanedSuccess
<1>1. Inv => NoOrphanedSuccess
    BY  DEF Inv, NoOrphanedSuccess, Truth
<1>2. QED
    BY <1>1, Invariance, PTL

\* A job that jobStatus says succeeded did everything its plan asked for, and
\* the ledger said so first.
THEOREM SuccessIsComplete == Spec => []SucceededMeansAll
<1>1. Inv => SucceededMeansAll
    BY DEF Inv, Durable, SucceededMeansAll, LedgerHeld, Ending
<1>2. QED
    BY <1>1, Invariance, PTL

=============================================================================
