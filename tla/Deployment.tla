----------------------------- MODULE Deployment -----------------------------
(***************************************************************************)
(* Deployment: the runs of pg_laswell over one repository and one ledger.  *)
(* Each run is a process; what it starts are jobs, which run beside it and *)
(* beside each other (Executor has the inside of one).  A run lists once,  *)
(* then works through the groups of that listing: start what fits, watch,  *)
(* and drain before it leaves.  Signals, deaths of processes and losses of *)
(* a job's coordination session may come at any moment.                    *)
(***************************************************************************)
EXTENDS Repository

CONSTANTS
    Procs,   \* the runs
    Settings, \* which of them happen, over which files: records of runs,
              \* entries (as in Repository; targets are the conflict keys) and
              \* troubles, a bound on the signals, deaths, lost sessions and
              \* exceptions
    Limits,  \* connection -> max_concurrent_jobs
    Default  \* the connection the runs are pointed at

ASSUME DeploymentAssumption ==
    /\ Default \in DOMAIN Limits /\ \A c \in DOMAIN Limits : Limits[c] \in Nat \ {0}
    /\ \A set \in Settings :
          /\ set.troubles \in Nat /\ IsFiniteSet(DOMAIN set.entries)
          /\ \A s \in DOMAIN set.entries :
                /\ s \in Nat \ {0}
                /\ set.entries[s].conn \in DOMAIN Limits
                /\ set.entries[s].deps \subseteq DOMAIN set.entries

VARIABLES
    entries,   \* the repository
    pc, code,  \* where each run is, and the code it leaves with
    listed,    \* what its listing called runnable
    todo,      \* the groups left, the first of them being worked through
    starting,  \* the specification inside start_migration, or 0
    running,   \* the jobs it watches
    reported,  \* the jobs whose end its log shows
    signal, said, \* a signal was recorded, and answered
    troubles,  \* bound: how many may still happen
    jobs       \* every job: its specification and run, its state in memory,
               \* its row in the ledger, whether it was asked to stop and
               \* whether its coordination session (and so its locks) lives

own == <<code, listed, todo, starting, running, reported, said>>
calm == <<entries, troubles>>
vars == <<pc, own, signal, jobs, calm>>

Ids == DOMAIN entries

States == {"running", "succeeded", "failed", "cancelled", "dead"}
Rows == {"running", "succeeded", "failed", "cancelled", "interrupted"}
Gone == {"absent", "exited", "killed"}

JobType == [spec : Ids, by : Procs, state : States, row : Rows,
            asked : BOOLEAN, session : BOOLEAN]

TypeOK ==
    /\ pc \in [Procs -> {"new", "next", "fill", "start", "open", "poll", "drain", "join"} \cup Gone]
    /\ code \in [Procs -> {0, 1, 2, 3, 130}]
    /\ listed \in [Procs -> SUBSET Ids]
    /\ todo \in [Procs -> Seq(SUBSET Ids)]
    /\ starting \in [Procs -> Ids \cup {0}]
    /\ jobs \in Seq(JobType)
    /\ running \in [Procs -> SUBSET (DOMAIN jobs)]
    /\ reported \in [Procs -> SUBSET (DOMAIN jobs)]
    /\ signal \in [Procs -> BOOLEAN] /\ said \in [Procs -> BOOLEAN]
    /\ troubles \in Nat

Init ==
    /\ \E set \in Settings :
          /\ entries = set.entries /\ troubles = set.troubles
          /\ pc = [p \in Procs |-> IF p \in set.runs THEN "new" ELSE "absent"]
    /\ code = [p \in Procs |-> 0]
    /\ listed = [p \in Procs |-> {}] /\ todo = [p \in Procs |-> << >>]
    /\ starting = [p \in Procs |-> 0]
    /\ running = [p \in Procs |-> {}] /\ reported = [p \in Procs |-> {}]
    /\ signal = [p \in Procs |-> FALSE] /\ said = [p \in Procs |-> FALSE]
    /\ jobs = << >>

-----------------------------------------------------------------------------
(* What a listing finds *)

\* job_is_dead_sql: no end recorded, and its session is gone.
IsDead(j) == jobs[j].row = "running" /\ ~jobs[j].session

\* applied_index, for one specification of one digest.
AppliedRow(s) ==
    LET digests(J) == {entries[s].digest : j \in {k \in J : jobs[k].spec = s}}
        J == DOMAIN jobs
    IN  [digests |-> digests(J),
         succeeded |-> digests({j \in J : jobs[j].row = "succeeded"}),
         running |-> digests({j \in J : jobs[j].row = "running" /\ ~IsDead(j)}),
         failed |-> digests({j \in J : jobs[j].row = "failed"})]

\* Every connection leads to the one database, which gates nothing.
Databases ==
    [c \in DOMAIN Limits |->
        [name |-> None, identity |-> None, environment |-> None, ready |-> {},
         live |-> {}, retired |-> {},
         applied |-> [ep \in EpochsClaimed(entries) |-> [s \in Ids |-> AppliedRow(s)]]]]

RunnableIn(status) == {s \in Ids : status[s] \in Runnable}

\* assemble's loop, run to its end (Listing takes it step by step).
Levels(status) ==
    LET all == RunnableIn(status)
        from[placed \in SUBSET all] ==
            LET ready == Ready(entries, status, all \ placed, placed)
            IN  IF ready = {} THEN << >> ELSE <<ready>> \o from[placed \cup ready]
    IN  from[{}]

Problems(status) ==
    \/ ScanProblems(entries, Databases, FALSE, status) # {}
    \/ RunnableIn(status) # UNION Range(Levels(status))

\* The groups one after the other, level by level.
Groups(status) ==
    LET levels == Levels(status)
        upTo[n \in 0..Len(levels)] ==
            IF n = 0 THEN << >> ELSE upTo[n - 1] \o ParallelSubsets(entries, Databases, levels[n])
    IN  upTo[Len(levels)]

-----------------------------------------------------------------------------
(* A run *)

Go(p, where) == pc' = [pc EXCEPT ![p] = where]

Trouble ==
    troubles > 0 /\ troubles' = troubles - 1 /\ UNCHANGED entries

Live(p) == {j \in DOMAIN jobs : jobs[j].by = p /\ jobs[j].state = "running"}

\* Leave with this code once the jobs that run have been watched to their end.
LeaveBy(p, where, c) == Go(p, where) /\ code' = [code EXCEPT ![p] = c]

\* run, up to the first group: problems stop it, and nothing to do is success.
List(p) ==
    /\ pc[p] = "new"
    /\ LET status == StatusOf(entries, Databases)
       IN  IF Problems(status)
           THEN LeaveBy(p, "join", 2) /\ UNCHANGED <<listed, todo>>
           ELSE /\ Go(p, "next")
                /\ listed' = [listed EXCEPT ![p] = RunnableIn(status)]
                /\ todo' = [todo EXCEPT ![p] = Groups(status)]
                /\ UNCHANGED code
    /\ UNCHANGED <<starting, running, reported, said, signal, jobs, calm>>

\* run's loop: the next group, or everything was applied.
NextGroup(p) ==
    /\ pc[p] = "next"
    /\ IF todo[p] = << >> THEN LeaveBy(p, "join", 0) ELSE Go(p, "fill") /\ UNCHANGED code
    /\ UNCHANGED <<listed, todo, starting, running, reported, said, signal, jobs, calm>>

\* Mutant: the last of a group need not have ended.
GroupDone_unwatched(p) == Head(todo[p]) = {}

GroupDone(p) == Head(todo[p]) = {} /\ running[p] = {}

\* run_group returns kOk.
GroupReturns(p) ==
    /\ pc[p] = "fill" /\ GroupDone(p)
    /\ todo' = [todo EXCEPT ![p] = Tail(@)]
    /\ Go(p, "next")
    /\ UNCHANGED <<code, listed, starting, running, reported, said, signal, jobs, calm>>

\* Mutant: one too many.
HasSlot_offByOne(p) == Cardinality(running[p]) <= Limits[Default]

\* run_group waits for a slot instead of asking for one it cannot have.
HasSlot(p) == Cardinality(running[p]) < Limits[Default]

MayTake(p) == Head(todo[p]) # {} /\ HasSlot(p) /\ ~signal[p]

\* The next of the group: its file no longer reads, its plan or its signature
\* is refused, or it is about to start.
Take(p) ==
    /\ pc[p] = "fill" /\ MayTake(p)
    /\ LET s == Min(Head(todo[p]))
       IN  /\ todo' = [todo EXCEPT ![p][1] = @ \ {s}]
           /\ \/ \E c \in {1, 2} : LeaveBy(p, "drain", c) /\ UNCHANGED starting
              \/ /\ Go(p, "start") /\ starting' = [starting EXCEPT ![p] = s]
                 /\ UNCHANGED code
    /\ UNCHANGED <<listed, running, reported, said, signal, jobs, calm>>

\* start_migration sets the ledger right about the dead, if it can, and then
\* counts the jobs of this process against its connection's limit.
Reconcile(p) ==
    /\ pc[p] = "start"
    /\ \E fails \in BOOLEAN :
          jobs' = [j \in DOMAIN jobs |->
                     IF IsDead(j) /\ ~fails THEN [jobs[j] EXCEPT !.row = "interrupted"]
                     ELSE jobs[j]]
    /\ IF Cardinality(Live(p)) >= Limits[entries[starting[p]].conn]
       THEN LeaveBy(p, "drain", 1) /\ starting' = [starting EXCEPT ![p] = 0]
       ELSE Go(p, "open") /\ UNCHANGED <<code, starting>>
    /\ UNCHANGED <<listed, todo, running, reported, said, signal, calm>>

\* The advisory locks of a live session: its specification's and its targets'.
Conflicts(s) ==
    \E j \in DOMAIN jobs :
        /\ jobs[j].session
        /\ jobs[j].spec = s \/ entries[jobs[j].spec].targets \cap entries[s].targets # {}

\* open_job: every lock, or nothing is started.
OpenJob(p) ==
    /\ pc[p] = "open"
    /\ IF Conflicts(starting[p])
       THEN LeaveBy(p, "drain", 1) /\ UNCHANGED <<jobs, running>>
       ELSE /\ jobs' = Append(jobs, [spec |-> starting[p], by |-> p, state |-> "running",
                                     row |-> "running", asked |-> FALSE, session |-> TRUE])
            /\ running' = [running EXCEPT ![p] = @ \cup {Len(jobs) + 1}]
            /\ Go(p, "fill") /\ UNCHANGED code
    /\ starting' = [starting EXCEPT ![p] = 0]
    /\ UNCHANGED <<listed, todo, reported, said, signal, calm>>

\* stop_jobs: every job of this process that has not ended.
Asked(p) ==
    [j \in DOMAIN jobs |-> IF j \in Live(p) THEN [jobs[j] EXCEPT !.asked = TRUE]
                           ELSE jobs[j]]

\* stop_on_signal: says so once.
StopOnSignal(p) ==
    IF signal[p] /\ ~said[p]
    THEN said' = [said EXCEPT ![p] = TRUE] /\ jobs' = Asked(p)
    ELSE UNCHANGED <<said, jobs>>

\* Mutant: the code is the signal's number.
StopOrPoll_number(p) ==
    /\ pc[p] = "fill" /\ ~GroupDone(p) /\ ~MayTake(p)
    /\ StopOnSignal(p)
    /\ IF signal[p] THEN LeaveBy(p, "drain", 15)
       ELSE Go(p, IF running[p] = {} THEN "fill" ELSE "poll") /\ UNCHANGED code
    /\ UNCHANGED <<listed, todo, starting, running, reported, signal, calm>>

\* Nothing more can be started now.
StopOrPoll(p) ==
    /\ pc[p] = "fill" /\ ~GroupDone(p) /\ ~MayTake(p)
    /\ StopOnSignal(p)
    /\ IF signal[p] THEN LeaveBy(p, "drain", 130)
       ELSE Go(p, IF running[p] = {} THEN "fill" ELSE "poll") /\ UNCHANGED code
    /\ UNCHANGED <<listed, todo, starting, running, reported, signal, calm>>

Ended(p) == {j \in running[p] : jobs[j].state # "running"}

Bad(p) == {j \in Ended(p) : jobs[j].state # "succeeded"}

Report(p, J) ==
    /\ running' = [running EXCEPT ![p] = @ \ J]
    /\ reported' = [reported EXCEPT ![p] = @ \cup J]

\* Mutant: a failure is shown, and the code forgotten.
Poll_ok(p) ==
    /\ pc[p] = "poll"
    /\ IF Bad(p) = {}
       THEN Report(p, Ended(p)) /\ Go(p, "fill") /\ UNCHANGED code
       ELSE Report(p, {j \in Ended(p) : j <= Min(Bad(p))}) /\ LeaveBy(p, "drain", 0)
    /\ UNCHANGED <<listed, todo, starting, said, signal, jobs, calm>>

\* The jobs are looked at in the order they were started; the first that ended
\* badly ends the round.
Poll(p) ==
    /\ pc[p] = "poll"
    /\ IF Bad(p) = {}
       THEN Report(p, Ended(p)) /\ Go(p, "fill") /\ UNCHANGED code
       ELSE /\ Report(p, {j \in Ended(p) : j <= Min(Bad(p))})
            /\ LeaveBy(p, "drain", 1)
    /\ UNCHANGED <<listed, todo, starting, said, signal, jobs, calm>>

\* Mutant: a signal during a drain is not answered.
Drain_deaf(p) ==
    /\ pc[p] = "drain" /\ running[p] # {}
    /\ Report(p, Ended(p))
    /\ UNCHANGED <<pc, code, listed, todo, starting, said, signal, jobs, calm>>

\* One round of drain.
Drain(p) ==
    /\ pc[p] = "drain" /\ running[p] # {}
    /\ StopOnSignal(p)
    /\ Report(p, Ended(p))
    /\ UNCHANGED <<pc, code, listed, todo, starting, signal, calm>>

\* Mutant: leaves what is still running.
Drained_early(p) ==
    /\ pc[p] = "drain"
    /\ Go(p, "join")
    /\ UNCHANGED <<own, signal, jobs, calm>>

Drained(p) ==
    /\ pc[p] = "drain" /\ running[p] = {}
    /\ Go(p, "join")
    /\ UNCHANGED <<own, signal, jobs, calm>>

\* A connection fails in the listing or in start_migration: the exception
\* passes run_group by, and main leaves with 3.
Throws(p) ==
    /\ Trouble
    /\ pc[p] \in {"new", "start", "open"}
    /\ LeaveBy(p, "join", 3)
    /\ UNCHANGED <<listed, todo, starting, running, reported, said, signal, jobs>>

\* join_all, called or from the destructor.
Join(p) ==
    /\ pc[p] = "join" /\ Live(p) = {}
    /\ Go(p, "exited")
    /\ UNCHANGED <<own, signal, jobs, calm>>

Run(p) ==
    \/ List(p) \/ NextGroup(p) \/ GroupReturns(p) \/ Take(p) \/ Reconcile(p)
    \/ OpenJob(p) \/ StopOrPoll(p) \/ Poll(p) \/ Drain(p) \/ Drained(p) \/ Throws(p) \/ Join(p)

-----------------------------------------------------------------------------
(* What happens to it *)

\* The first SIGINT or SIGTERM is recorded.
Signal(p) ==
    /\ Trouble
    /\ pc[p] \notin Gone /\ ~signal[p]
    /\ signal' = [signal EXCEPT ![p] = TRUE]
    /\ UNCHANGED <<pc, own, jobs>>

\* The process dies, and its jobs and their sessions with it.
Kill(p) ==
    /\ Trouble
    /\ pc[p] \notin Gone
    /\ Go(p, "killed")
    /\ jobs' = [j \in DOMAIN jobs |->
                  IF j \in Live(p) THEN [jobs[j] EXCEPT !.state = "dead", !.session = FALSE]
                  ELSE jobs[j]]
    /\ UNCHANGED <<own, signal>>

\* A worker ends; finish_job writes it to the ledger if it still can.
JobEnds(j) ==
    /\ jobs[j].state = "running"
    /\ \E s \in {"succeeded", "failed"} \cup (IF jobs[j].asked THEN {"cancelled"} ELSE {}) :
          jobs' = [jobs EXCEPT ![j].state = s,
                               ![j].row = IF jobs[j].session THEN s ELSE @,
                               ![j].session = FALSE]
    /\ UNCHANGED <<pc, own, signal, calm>>

\* The server ends a coordination session; the worker does not notice.
LoseSession(j) ==
    /\ Trouble
    /\ jobs[j].state = "running" /\ jobs[j].session
    /\ jobs' = [jobs EXCEPT ![j].session = FALSE]
    /\ UNCHANGED <<pc, own, signal>>

Next ==
    \/ \E p \in Procs : Run(p) \/ Signal(p) \/ Kill(p)
    \/ \E j \in DOMAIN jobs : JobEnds(j) \/ LoseSession(j)

\* A run that has listed goes on, and a job that was asked to stop ends.  Nothing else is sure
\* to happen: a walk may take as long as it takes.  (There are finitely many
\* jobs, so fairness to the asked ones together is fairness to each.)
Fairness ==
    /\ \A p \in Procs : WF_vars(pc[p] # "new" /\ Run(p))
    /\ WF_vars(\E j \in DOMAIN jobs : jobs[j].asked /\ JobEnds(j))

Spec == Init /\ [][Next]_vars /\ Fairness

-----------------------------------------------------------------------------
(* Properties *)

\* Nothing runs before what it depends on has been done, whichever run did it,
\* and whatever the ledger lost (assemble's levels, run's loop over them).
DependencyOrder ==
    \A j \in DOMAIN jobs : \A d \in entries[jobs[j].spec].deps :
        \E k \in DOMAIN jobs : jobs[k].spec = d /\ jobs[k].state = "succeeded"

\* Exit 0 is "nothing pending, or everything applied": all that the listing
\* called runnable was done by this run.
ExitZeroMeansDone ==
    \A p \in Procs : pc[p] = "exited" /\ code[p] = 0 =>
        \A s \in listed[p] : \E j \in DOMAIN jobs :
            jobs[j].by = p /\ jobs[j].spec = s /\ jobs[j].state = "succeeded"

\* drain: a run that leaves by itself, except through an exception, has shown
\* the end of every job it started.
WatchedToTheEnd ==
    \A p \in Procs : pc[p] = "exited" /\ code[p] # 3 =>
        \A j \in DOMAIN jobs : jobs[j].by = p => j \in reported[p]

\* A run is never refused for a limit of its own making: when it asks there is
\* a slot (run_group's cap against start_migration's count).
SlotFree ==
    \A p \in Procs : pc[p] = "start" =>
        Cardinality(Live(p)) < Limits[entries[starting[p]].conn]

\* After a signal a run that has listed ends, whatever it was doing and although none of its
\* jobs would end unasked (stop_on_signal, drain); an exception is the exception.
StopEnds ==
    \A p \in Procs : signal[p] /\ pc[p] # "new" ~> pc[p] \in Gone \/ code[p] = 3

=============================================================================
