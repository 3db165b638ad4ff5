-------------------------------- MODULE Jobs --------------------------------
(***************************************************************************)
(* JobRegistry and OperationGate: the jobs of one process.  start_migration *)
(* runs in the caller's thread, one call at a time; each job's worker is a  *)
(* thread of its own, and all of them pass one gate, whose ceiling every    *)
(* start sets again.  Beside them each job has a session that holds its     *)
(* advisory locks, by which a later start tells whether the job is dead.    *)
(*                                                                          *)
(* What a job does is cut down to what the gate and the locks see: Executor *)
(* has the steps and their records, Pacing the pauses of a walk.            *)
(***************************************************************************)
EXTENDS Naturals, Sequences, FiniteSets

CONSTANTS
    Clients,     \* what a client asks for: records of calls, a sequence of
                 \* [spec, conn]; losses, a bound on the sessions lost and the
                 \* connections, statements and writes that fail; and stops,
                 \* a bound on its calls of cancel_job
    Specs,       \* specification -> [keys: lock keys, its own first; steps]
    Connections, \* connection -> [jobs: max_concurrent_jobs,
                 \*                operations: max_concurrent_operations,
                 \*                role: the role it logs in as,
                 \*                reads: the roles whose rows of
                 \*                       pg_stat_activity it may read]
    MaxTries,    \* tries of an exclusive lock before patience is spent
    MaxCalls,    \* bound: the calls of one client
    Pids         \* backend pids of the server, reused when free

\* One job at most for each call.
Jobs == 1..MaxCalls

StepType == [class : {"txn", "alone", "walk"}, group : Nat, retry : BOOLEAN,
             batches : Nat \ {0}]

ASSUME JobsAssumption ==
    /\ MaxTries \in Nat \ {0} /\ Pids \subseteq Nat \ {0}
    /\ MaxCalls \in Nat /\ \A cl \in Clients :
          /\ Len(cl.calls) <= MaxCalls /\ cl.losses \in Nat /\ cl.stops \in Nat
          /\ cl.calls \in Seq([spec : DOMAIN Specs, conn : DOMAIN Connections])
    /\ \A s \in DOMAIN Specs : /\ Specs[s].steps \in Seq(StepType)
                               /\ 1 \in DOMAIN Specs[s].keys
    /\ \A c \in DOMAIN Connections : /\ Connections[c].jobs \in Nat \ {0}
                                     /\ Connections[c].operations \in Nat
                                     /\ Connections[c].role \in Connections[c].reads

VARIABLES
    calls,    \* the calls of start_migration still to come
    caller,   \* the one being answered: where it is, and on what
    created,  \* how many jobs the registry holds
    job,      \* the jobs: state, cancel_stop and the worker's position
    limit,    \* OperationGate::limit_, 0 for no ceiling
    inFlight, \* OperationGate::in_flight_
    highest,  \* history: the highest ceiling there was
    ses,      \* each job's coordination session: pid, start, role, keys held
    clock,    \* sessions opened so far
    row,      \* laswell.job: state, backend_pid, started_at
    losses,   \* bound: how many failures may still happen
    stops     \* bound: how many calls of cancel_job may

client == <<calls, stops>>
gate == <<limit, inFlight, highest>>
ledger == <<ses, clock, row>>
vars == <<client, caller, created, job, gate, ledger, losses>>

Terminal == {"succeeded", "failed", "cancelled"}

NoJob == [state |-> "none", spec |-> "none", stop |-> FALSE, pc |-> "absent",
          at |-> 1, group |-> 0, open |-> FALSE, slot |-> "none", first |-> 1,
          tries |-> 1, batch |-> 0, ending |-> "none", threw |-> FALSE]

NoSession == [pid |-> 0, since |-> 0, role |-> "none", keys |-> {}]
NoRow == [state |-> "none", pid |-> 0, since |-> 0]
Idle == [pc |-> "idle", spec |-> "none", conn |-> "none"]

Keys(s) == {Specs[s].keys[i] : i \in DOMAIN Specs[s].keys}

Steps(j) == Specs[job[j].spec].steps

Step(j) == Steps(j)[job[j].at]

\* A statement of the job may be touching the server.
Working(j) == job[j].open \/ job[j].pc = "run"

(***************************************************************************)
(* The counters and positions are what their declarations say, and a job   *)
(* that works or waits is one the registry holds.                          *)
(***************************************************************************)
TypeOK ==
    /\ caller.pc \in {"idle", "reconcile", "limit", "record", "row", "launch"}
    /\ created \in 0..MaxCalls
    /\ \A j \in Jobs :
          /\ job[j].state \in {"none", "planned", "running"} \cup Terminal
          /\ job[j].state = "none" <=> j > created
          /\ job[j].pc \in {"absent", "connect", "top", "walk", "slot", "run",
                            "finish", "publish", "leave", "ended"}
          /\ job[j].slot \in {"none", "held", "free"}
          /\ job[j].pc # "absent" => job[j].at \in 1..(Len(Steps(j)) + 1)
          /\ job[j].pc \in {"walk", "slot", "run"} => job[j].at <= Len(Steps(j))
          /\ job[j].tries \in 1..MaxTries
          /\ row[j].state \in {"none", "running", "interrupted"} \cup Terminal
          /\ ses[j].pid \in Pids \cup {0}
    /\ inFlight \in Nat /\ limit \in 0..highest /\ losses \in Nat /\ stops \in Nat

Init ==
    /\ caller = Idle /\ created = 0
    /\ limit = 0 /\ inFlight = 0 /\ highest = 0
    /\ clock = 0
    /\ \E cl \in Clients :
          calls = cl.calls /\ losses = cl.losses /\ stops = cl.stops
    /\ job = [j \in Jobs |-> NoJob]
    /\ ses = [j \in Jobs |-> NoSession] /\ row = [j \in Jobs |-> NoRow]

-----------------------------------------------------------------------------
(* start_migration.  What it refuses before a job exists changes nothing.  *)

\* The target's gates, and the plan.
Call ==
    /\ caller.pc = "idle" /\ calls # << >>
    /\ caller' = [pc |-> "reconcile", spec |-> Head(calls).spec, conn |-> Head(calls).conn]
    /\ calls' = Tail(calls)
    /\ UNCHANGED <<created, job, gate, ledger, losses, stops>>

\* backend_start of session k is NULL to the caller.
Hidden(k) == ses[k].role \notin Connections[caller.conn].reads

\* Mutant: any later session given the same pid passes for the job's own.
IsDead_anyAge(j) ==
    /\ row[j].state = "running"
    /\ \A k \in Jobs : ~(/\ ses[k].pid = row[j].pid
                         /\ Specs[job[j].spec].keys[1] \in ses[k].keys)

\* Mutant: a backend as old as the job does not count.
IsDead_older(j) ==
    /\ row[j].state = "running"
    /\ \A k \in Jobs : ~(/\ ses[k].pid = row[j].pid
                         /\ Specs[job[j].spec].keys[1] \in ses[k].keys
                         /\ Hidden(k) \/ ses[k].since < row[j].since)

\* job_is_dead_sql: no end recorded, and no session with the job's pid, as
\* old as the job or of an age the caller cannot see, holds the job's first
\* key.
IsDead(j) ==
    /\ row[j].state = "running"
    /\ \A k \in Jobs : ~(/\ ses[k].pid = row[j].pid
                         /\ Specs[job[j].spec].keys[1] \in ses[k].keys
                         /\ Hidden(k) \/ ses[k].since <= row[j].since)

Marked == [j \in Jobs |-> IF IsDead(j) THEN [row[j] EXCEPT !.state = "interrupted"]
                          ELSE row[j]]

\* reconcile_dead_jobs, on a session of its own; its failure is swallowed.
Reconcile ==
    /\ caller.pc = "reconcile"
    /\ caller' = [caller EXCEPT !.pc = "limit"]
    /\ row' = Marked
    /\ UNCHANGED <<client, created, job, gate, ses, clock, losses>>

ReconcileFails ==
    /\ caller.pc = "reconcile" /\ losses > 0
    /\ caller' = [caller EXCEPT !.pc = "limit"]
    /\ losses' = losses - 1
    /\ UNCHANGED <<client, created, job, gate, ledger>>

\* running_count.
RunningCount ==
    Cardinality({j \in 1..created : job[j].state \notin Terminal})

Refuse ==
    /\ caller.pc = "limit"
    /\ RunningCount >= Connections[caller.conn].jobs
    /\ caller' = Idle
    /\ UNCHANGED <<client, created, job, gate, ledger, losses>>

\* verify_signer passes, and the registry has one job more.
Create ==
    /\ caller.pc = "limit"
    /\ RunningCount < Connections[caller.conn].jobs
    /\ created' = created + 1
    /\ job' = [job EXCEPT ![created + 1].state = "planned",
                          ![created + 1].spec = caller.spec]
    /\ caller' = [caller EXCEPT !.pc = "record"]
    /\ UNCHANGED <<client, gate, ledger, losses>>

\* Mutant: the job that was not recorded stays as it was.
RecordFails_planned ==
    /\ caller.pc = "record" /\ losses > 0
    /\ losses' = losses - 1
    /\ caller' = Idle
    /\ UNCHANGED <<client, created, job, gate, ledger>>

RecordFails ==
    /\ caller.pc = "record" /\ losses > 0
    /\ losses' = losses - 1
    /\ job' = [job EXCEPT ![created].state = "failed"]
    /\ caller' = Idle
    /\ UNCHANGED <<client, created, gate, ledger>>

\* Mutant: the specification's own key alone.
LockKeys_own(s) == {Specs[s].keys[1]}

\* The specification's key and one for each of its targets.
LockKeys(s) == Keys(s)

Conflict == \E k \in Jobs : ses[k].keys \cap LockKeys(caller.spec) # {}

\* record_migration returns.  open_job: the coordination session and the
\* locks on it.  None is waited
\* for; a call that does not get them all gives its session, and with it
\* those it got, back.
TakeLocks ==
    /\ caller.pc = "record" /\ ~Conflict
    /\ \E p \in Pids \ {ses[k].pid : k \in Jobs} :
          ses' = [ses EXCEPT ![created] =
                     [pid |-> p, since |-> clock + 1,
                      role |-> Connections[caller.conn].role,
                      keys |-> LockKeys(caller.spec)]]
    /\ clock' = clock + 1
    /\ caller' = [caller EXCEPT !.pc = "row"]
    /\ UNCHANGED <<client, created, job, gate, row, losses>>

LocksTaken ==
    /\ caller.pc = "record" /\ Conflict
    /\ job' = [job EXCEPT ![created].state = "failed"]
    /\ caller' = Idle
    /\ UNCHANGED <<client, created, gate, ledger, losses>>

\* open_job: the row.
OpenRow ==
    /\ caller.pc = "row" /\ ses[created].pid # 0
    /\ row' = [row EXCEPT ![created] =
                  [state |-> "running", pid |-> ses[created].pid, since |-> clock]]
    /\ caller' = [caller EXCEPT !.pc = "launch"]
    /\ UNCHANGED <<client, created, job, gate, ses, clock, losses>>

\* open_job throws, in the connection or in the row, and nothing in
\* start_migration catches it: the job stays planned, with no worker.
OpenJobThrows ==
    /\ \/ caller.pc \in {"record", "row"} /\ losses > 0 /\ losses' = losses - 1
       \/ caller.pc = "row" /\ ses[created].pid = 0 /\ losses' = losses
    /\ ses' = [ses EXCEPT ![created] = NoSession]
    /\ job' = [job EXCEPT ![created].threw = TRUE]
    /\ caller' = Idle
    /\ UNCHANGED <<client, created, gate, clock, row>>

\* OperationGate::configure, and the worker's thread.
Launch ==
    /\ caller.pc = "launch"
    /\ limit' = Connections[caller.conn].operations
    /\ highest' = IF limit' > highest THEN limit' ELSE highest
    /\ job' = [job EXCEPT ![created].pc = "connect"]
    /\ caller' = Idle
    /\ UNCHANGED <<client, created, inFlight, ledger, losses>>

-----------------------------------------------------------------------------
(* OperationGate *)

\* A job with its slot given back; Released counts it.
Unslotted(j) == [job[j] EXCEPT !.slot = "none"]

Released(j) == IF job[j].slot = "held" THEN inFlight - 1 ELSE inFlight

\* Mutant: one more than the ceiling passes.
TakeSlot_over(j, w) ==
    \/ /\ limit = 0
       /\ job' = [job EXCEPT ![j] = [w EXCEPT !.slot = "free"]]
       /\ UNCHANGED inFlight
    \/ /\ limit > 0 /\ inFlight <= limit
       /\ job' = [job EXCEPT ![j] = [w EXCEPT !.slot = "held"]]
       /\ inFlight' = inFlight + 1
    \/ /\ limit > 0 /\ inFlight >= limit /\ job[j].stop
       /\ job' = [job EXCEPT ![j] = w]
       /\ UNCHANGED inFlight

\* operation_slot: no ceiling, room below it, or none and the job was asked
\* to stop -- which returns an empty slot, and the caller goes on with it.
\* The worker looks again every 50 ms, so no wakeup is needed.
TakeSlot(j, w) ==
    \/ /\ limit = 0
       /\ job' = [job EXCEPT ![j] = [w EXCEPT !.slot = "free"]]
       /\ UNCHANGED inFlight
    \/ /\ limit > 0 /\ inFlight < limit
       /\ job' = [job EXCEPT ![j] = [w EXCEPT !.slot = "held"]]
       /\ inFlight' = inFlight + 1
    \/ /\ limit > 0 /\ inFlight >= limit /\ job[j].stop
       /\ job' = [job EXCEPT ![j] = w]
       /\ UNCHANGED inFlight

-----------------------------------------------------------------------------
(* A worker.  outside: what none of its steps but the last ones touch.     *)

outside == <<client, caller, created, limit, highest, ledger, losses>>

Connect(j) ==
    /\ job[j].pc = "connect"
    /\ job' = [job EXCEPT ![j].state = "running", ![j].pc = "top"]
    /\ UNCHANGED <<outside, inFlight>>

\* The end of execute on a job that was asked to stop, from the loop's top
\* or from a walk.  The slot goes when execute returns, after the end is told.
Cancelled(j) ==
    /\ job[j].pc \in {"top", "walk"} /\ job[j].stop
    /\ job[j].at <= Len(Steps(j))
    /\ job' = [job EXCEPT ![j].open = FALSE, ![j].ending = "cancelled",
                          ![j].pc = "finish"]
    /\ UNCHANGED <<outside, inFlight>>

NeedsOwn(s) == s.class # "txn"

Crossing(j) == Step(j).group + 1 # job[j].group \/ NeedsOwn(Step(j))

\* Where a worker goes that has reached a step: on with the open group, to
\* the walk's loop, or to the gate.
Entry(j, open) ==
    IF open THEN "run" ELSE IF Step(j).class = "walk" THEN "walk" ELSE "slot"

\* Mutant: a group's transaction is left open when the next one begins.
BeginStep_uncommitted(j) ==
    /\ job[j].pc = "top" /\ ~job[j].stop /\ job[j].at <= Len(Steps(j))
    /\ job' = [job EXCEPT ![j].group = Step(j).group + 1,
                          ![j].pc = Entry(j, job[j].open /\ ~Crossing(j))]
    /\ UNCHANGED <<outside, inFlight>>

\* A step is reached: the open group is committed first unless it goes on.
BeginStep(j) ==
    /\ job[j].pc = "top" /\ ~job[j].stop /\ job[j].at <= Len(Steps(j))
    /\ LET commit == job[j].open /\ Crossing(j)
           w == IF commit THEN [Unslotted(j) EXCEPT !.open = FALSE] ELSE job[j]
       IN  /\ job' = [job EXCEPT ![j] = [w EXCEPT !.group = Step(j).group + 1,
                                                  !.pc = Entry(j, w.open)]]
           /\ inFlight' = IF commit THEN Released(j) ELSE inFlight
    /\ UNCHANGED outside

\* The loop of a walk, before each batch.
NextBatch(j) ==
    /\ job[j].pc = "walk" /\ ~job[j].stop
    /\ job' = [job EXCEPT ![j].pc = "slot"]
    /\ UNCHANGED <<outside, inFlight>>

\* Mutant: a group tried again starts its count over.
OpenGroup_restarts(j) ==
    [job[j] EXCEPT !.pc = "run", !.open = TRUE, !.first = job[j].at, !.tries = 1]

\* open_group, the slot taken: a group tried again keeps its count.
OpenGroup(j) ==
    [job[j] EXCEPT !.pc = "run", !.open = TRUE, !.first = job[j].at,
                   !.tries = IF job[j].first = job[j].at THEN @ ELSE 1]

\* A batch, its slot taken: a walk looks at cancel_stop once more before it
\* opens the transaction.
OpenBatch(j) ==
    IF job[j].stop THEN [job[j] EXCEPT !.pc = "walk"]
    ELSE [job[j] EXCEPT !.pc = "run", !.open = TRUE]

\* The gate, and what the slot is for.
Enter(j) ==
    /\ job[j].pc = "slot"
    /\ TakeSlot(j, CASE Step(j).class = "txn" -> OpenGroup(j)
                     [] Step(j).class = "walk" -> OpenBatch(j)
                     [] OTHER -> [job[j] EXCEPT !.pc = "run"])
    /\ UNCHANGED outside

\* A statement in the group's transaction returns.
RunInTransaction(j) ==
    /\ job[j].pc = "run" /\ Step(j).class = "txn"
    /\ job' = [job EXCEPT ![j].at = @ + 1, ![j].pc = "top"]
    /\ UNCHANGED <<outside, inFlight>>

\* A statement outside any transaction returns, and its slot goes with it.
RunAlone(j) ==
    /\ job[j].pc = "run" /\ Step(j).class = "alone"
    /\ job' = [job EXCEPT ![j] = [Unslotted(j) EXCEPT !.at = @ + 1, !.pc = "top"]]
    /\ inFlight' = Released(j)
    /\ UNCHANGED outside

\* A batch's transaction commits; the walk goes on until it has done them all.
CommitBatch(j) ==
    /\ job[j].pc = "run" /\ Step(j).class = "walk"
    /\ LET done == job[j].batch + 1 = Step(j).batches
           w == [Unslotted(j) EXCEPT !.open = FALSE]
       IN  job' = [job EXCEPT ![j] =
                      IF done THEN [w EXCEPT !.batch = 0, !.at = @ + 1, !.pc = "top"]
                      ELSE [w EXCEPT !.batch = @ + 1, !.pc = "walk"]]
    /\ inFlight' = Released(j)
    /\ UNCHANGED outside

\* Mutant: the loop is sent back without the ++at that follows.
AfterTimeout_unshifted(j, w) ==
    IF job[j].stop THEN {[w EXCEPT !.ending = "cancelled", !.pc = "finish"]}
    ELSE {[w EXCEPT !.ending = "failed", !.pc = "finish"]} \cup
         (IF job[j].tries = MaxTries THEN {}
          ELSE {[w EXCEPT !.at = job[j].first - 1, !.tries = @ + 1, !.pc = "top"]})

\* A group rolled back for a lock that did not come: the job ends cancelled
\* or failed, or goes back to the group's first step.
AfterTimeout(j, w) ==
    IF job[j].stop THEN {[w EXCEPT !.ending = "cancelled", !.pc = "finish"]}
    ELSE {[w EXCEPT !.ending = "failed", !.pc = "finish"]} \cup
         (IF job[j].tries = MaxTries THEN {}
          ELSE {[w EXCEPT !.at = job[j].first, !.tries = @ + 1, !.pc = "top"]})

\* An exclusive lock does not come in time: rollback, the slot with it.
LockTimesOut(j) ==
    /\ job[j].pc = "run" /\ Step(j).class = "txn" /\ Step(j).retry
    /\ \E w \in AfterTimeout(j, [Unslotted(j) EXCEPT !.open = FALSE]) :
          job' = [job EXCEPT ![j] = w]
    /\ inFlight' = Released(j)
    /\ UNCHANGED outside

\* The connection, a statement or a commit throws: the slot and the
\* transaction go before run() handles it.
Throws(j) ==
    /\ \/ job[j].pc \in {"connect", "run"}
       \/ job[j].pc = "top" /\ job[j].open
    /\ losses > 0 /\ losses' = losses - 1
    /\ job' = [job EXCEPT ![j] = [Unslotted(j) EXCEPT !.open = FALSE,
                                     !.ending = "failed", !.pc = "finish"]]
    /\ inFlight' = Released(j)
    /\ UNCHANGED <<client, caller, created, limit, highest, ledger>>

\* Past the last step: the last commit, its slot, and succeed().
Succeed(j) ==
    /\ job[j].pc = "top" /\ job[j].at = Len(Steps(j)) + 1
    /\ job' = [job EXCEPT ![j] = [Unslotted(j) EXCEPT !.open = FALSE,
                                     !.ending = "succeeded", !.pc = "finish"]]
    /\ inFlight' = Released(j)
    /\ UNCHANGED outside

\* finish_job: the row, then the locks.  A write that fails leaves the
\* session in its transaction, where it cannot unlock either.
FinishJob(j) ==
    /\ job[j].pc = "finish"
    /\ \/ /\ ses[j].pid # 0
          /\ row' = [row EXCEPT ![j].state = job[j].ending]
          /\ ses' = [ses EXCEPT ![j].keys = {}]
          /\ losses' = losses
       \/ /\ ses[j].pid # 0 /\ losses > 0
          /\ losses' = losses - 1 /\ UNCHANGED <<row, ses>>
       \/ ses[j].pid = 0 /\ UNCHANGED <<row, ses, losses>>
    /\ job' = [job EXCEPT ![j].pc = "publish"]
    /\ UNCHANGED <<client, caller, created, gate, clock>>

Publish(j) ==
    /\ job[j].pc = "publish"
    /\ job' = [job EXCEPT ![j].state = job[j].ending, ![j].pc = "leave"]
    /\ UNCHANGED <<outside, inFlight>>

\* execute and run return: what slot is left, and the session, go.
Leave(j) ==
    /\ job[j].pc = "leave"
    /\ job' = [job EXCEPT ![j] = [Unslotted(j) EXCEPT !.pc = "ended"]]
    /\ inFlight' = Released(j)
    /\ ses' = [ses EXCEPT ![j] = NoSession]
    /\ UNCHANGED <<client, caller, created, limit, highest, clock, row, losses>>

Worker(j) ==
    \/ Connect(j) \/ Cancelled(j) \/ BeginStep(j) \/ NextBatch(j) \/ Enter(j)
    \/ RunInTransaction(j) \/ RunAlone(j) \/ CommitBatch(j) \/ LockTimesOut(j)
    \/ Throws(j) \/ Succeed(j) \/ FinishJob(j) \/ Publish(j) \/ Leave(j)

-----------------------------------------------------------------------------
(* Around them *)

\* cancel_job.
CancelJob(j) ==
    /\ j <= created /\ job[j].state \notin Terminal /\ ~job[j].stop
    /\ stops > 0 /\ stops' = stops - 1
    /\ job' = [job EXCEPT ![j].stop = TRUE]
    /\ UNCHANGED <<calls, caller, created, gate, ledger, losses>>

\* The network, or the server, ends a job's session: its locks are free.
LoseSession(j) ==
    /\ ses[j].pid # 0 /\ losses > 0
    /\ losses' = losses - 1
    /\ ses' = [ses EXCEPT ![j] = NoSession]
    /\ UNCHANGED <<client, caller, created, job, gate, clock, row>>

StartMigration ==
    \/ Call \/ Reconcile \/ ReconcileFails \/ Refuse \/ Create \/ RecordFails
    \/ TakeLocks \/ LocksTaken \/ OpenRow \/ OpenJobThrows \/ Launch

Next ==
    \/ StartMigration
    \/ \E j \in Jobs : Worker(j) \/ CancelJob(j) \/ LoseSession(j)

\* A worker that can go on does: a statement returns or times out, the gate
\* is looked at again every 50 ms, and nothing else is waited for.
Spec == Init /\ [][Next]_vars /\ \A j \in Jobs : WF_vars(Worker(j))

-----------------------------------------------------------------------------
(* Properties *)

(***************************************************************************)
(* The gate counts the slots that are held, no fewer and no more, and the   *)
(* jobs at work that were not asked to stop, and did not begin where no     *)
(* ceiling was declared, are never more than the highest ceiling declared   *)
(* (OperationGate; configure lowers it without interrupting anybody).  A    *)
(* job asked to stop while it waits is the exception: operation_slot gives  *)
(* it an empty slot and its next statement runs uncounted.                  *)
(***************************************************************************)
CeilingHolds ==
    /\ inFlight = Cardinality({j \in Jobs : job[j].slot = "held"})
    /\ Cardinality({j \in Jobs : /\ Working(j) /\ ~job[j].stop
                                  /\ job[j].slot # "free"}) <= highest

(***************************************************************************)
(* A job that waits for a slot holds no transaction and no other slot       *)
(* (operation_slot: "Never while one is open"), whatever group was          *)
(* committed, rolled back or tried again before: the wait for a slot and    *)
(* the wait for a row lock cannot close a cycle.                            *)
(***************************************************************************)
NeverWaitsInside ==
    \A j \in Jobs : job[j].pc = "slot" => ~job[j].open /\ job[j].slot = "none"

(***************************************************************************)
(* Two jobs whose specifications share a key are never at work together     *)
(* while both have their sessions (start_migration: "so two specs touching  *)
(* the same thing serialise").                                              *)
(***************************************************************************)
SharedTargetsSerialise ==
    \A j, k \in Jobs :
        /\ j # k /\ Working(j) /\ Working(k)
        /\ ses[j].pid # 0 /\ ses[k].pid # 0
        => Keys(job[j].spec) \cap Keys(job[k].spec) = {}

(***************************************************************************)
(* What running_count counts against max_concurrent_jobs is under way: it   *)
(* has a worker or is being started.  A start refused or failed on the way  *)
(* gives its place back, save where open_job threw, which leaves the job    *)
(* planned for the life of the process.                                     *)
(***************************************************************************)
CountedIsUnderway ==
    \A j \in 1..created :
        job[j].state \notin Terminal =>
            \/ job[j].pc \notin {"absent", "leave", "ended"}
            \/ caller.pc \in {"record", "row", "launch"} /\ j = created
            \/ job[j].threw

(***************************************************************************)
(* A job is marked interrupted only when its session is gone, however slow  *)
(* it is and whatever pids the server hands out again (job_is_dead_sql: "no *)
(* false positive from a merely slow job").                                 *)
(***************************************************************************)
MarkedIsGone == \A j \in Jobs : row[j].state = "interrupted" => ses[j].pid = 0

(***************************************************************************)
(* A start that reconciled leaves no row running whose session is gone, not *)
(* even one whose pid and key a later job of the specification has taken    *)
(* over (job_is_dead_sql: "Its own backend, and not the key alone") -- save *)
(* where that later session is another role's, whose start it cannot see.   *)
(***************************************************************************)
DeadAreMarked ==
    [][Reconcile =>
          \A j \in Jobs :
              row'[j].state = "running" =>
                  \/ ses[j].pid # 0
                  \/ \E k \in Jobs : /\ Hidden(k) /\ ses[k].pid = row[j].pid
                                      /\ Specs[job[j].spec].keys[1] \in ses[k].keys]_vars

(***************************************************************************)
(* Every job whose worker was started ends, waiting at the gate or not,     *)
(* asked to stop or not, and gives back its slot and its locks.             *)
(***************************************************************************)
JobsEnd == \A j \in Jobs : job[j].pc = "connect" ~> job[j].pc = "ended"

=============================================================================
