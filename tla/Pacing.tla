------------------------------- MODULE Pacing -------------------------------
(***************************************************************************)
(* PacingState: what the observers tell a job's worker, through atomics    *)
(* and through query cancellations, and what the worker makes of it.       *)
(*                                                                         *)
(* An observer's tick reads the server and then moves the throttle and     *)
(* pause ladder; it cancels the worker's statement when a session has      *)
(* waited too long behind it, or when the job must stop inside a statement *)
(* that has no batch boundary.  A cancellation is two events: the flag     *)
(* cancel_requested, and the signal, which hits whatever the worker's      *)
(* backend runs when it arrives and nothing when it runs nothing.          *)
(*                                                                         *)
(* Every observer ticks over every job of the registry.  An observer of    *)
(* another server sees none of this job's waiters.                         *)
(***************************************************************************)
EXTENDS Naturals, FiniteSets

CONSTANTS
    Foreign,         \* observers of other connections in this process
    ThrottleWaiters, PauseWaiters, ResumeWaiters, Dwell, \* executor config
    MaxWaiters,      \* bound: sessions queued at a time
    CapBatches       \* statements of a transaction before batch_cap_rows is
                     \* reached, or of a step that is not a walk

Own == "own"
Observers == {Own} \cup Foreign

ASSUME ObserversAssumption == Own \notin Foreign

\* validate_executor.
ASSUME LadderAssumption ==
    /\ ThrottleWaiters \in Nat /\ PauseWaiters \in Nat /\ ResumeWaiters \in Nat
    /\ ThrottleWaiters <= PauseWaiters
    /\ ResumeWaiters < PauseWaiters
    /\ Dwell \in Nat \ {0}

ASSUME BoundAssumption == MaxWaiters \in Nat /\ CapBatches \in Nat \ {0}

VARIABLES
    kind,      \* the step: "walk", "single" ("paced": false), or other SQL
    pc,        \* the worker
    stmt,      \* the worker's statement: in flight, or the next one
    inTxn,     \* the worker's transaction is open, and holds locks
    sent,      \* statements sent since the last batch boundary
    job,       \* job_->state
    cancelRequested, cancelStop, stopNow, \* pacing flags of those names
    direct,    \* direct_waiters > 0
    contention, quiet,  \* contention_ticks and quiet_ticks, up to Dwell
    throttled, paused,
    opc,       \* observer -> where its tick is
    seen,      \* observer -> the reading it is about to apply
    mine,      \* sessions queued behind the worker's locks
    theirs,    \* sessions queued behind a session the worker let past
    starving,  \* one of mine has waited more than max_waiter_wait_ms
    sinceFlip, \* history: ticks since paused last changed, up to Dwell
    high,      \* history: readings in a row of Own at or above
               \* pause_waiters, up to Dwell
    told,      \* history: batches sent in this transaction since the worker
               \* was last told of a waiter
    cause      \* history: why the statement was cancelled

worker == <<pc, stmt, inTxn, sent, job>>
asked == <<cancelStop, stopNow>>
ladder == <<direct, contention, quiet, throttled, paused, sinceFlip, high>>
queue == <<mine, theirs, starving>>
observers == <<opc, seen>>
vars == <<kind, worker, cancelRequested, asked, ladder, queue, observers, told, cause>>

Terminal == {"succeeded", "failed", "cancelled", "aborted_contention"}

Live == job \notin Terminal

InWalk == kind # "other"

LongStatement == stmt = "long" /\ pc \in {"between", "running"}

\* A statement of a step that is not a walk: in a transaction, with or without
\* statement_timeout (no_statement_timeout), or outside one and without it
\* (run_nontransactional).
OtherSql == {"sql", "untimed", "alone"}

\* statement_timeout_ms, which is on, does not end these.
Untimed == {"long", "untimed", "alone"}

Reading == [waiters : 0..MaxWaiters, starving : BOOLEAN, pile : Nat]

Quiet == [waiters |-> 0, starving |-> FALSE, pile |-> 0]

FlagsOK ==
    {inTxn, cancelRequested, cancelStop, stopNow, direct, throttled, paused,
     starving} \subseteq BOOLEAN

TypeOK ==
    /\ kind \in {"walk", "single", "other"}
    /\ pc \in {"boundary", "paused", "between", "running", "raised", "ended"}
    /\ stmt \in {"none", "batch", "cursor", "long"} \cup OtherSql
    /\ job \in {"running", "paused_contention"} \cup Terminal
    /\ pc = "ended" <=> ~Live
    /\ pc = "paused" => kind = "walk"
    /\ pc \in {"boundary", "paused"} /\ kind # "other" => ~inTxn
    /\ stmt \in OtherSql => kind = "other"
    /\ sent \in 0..CapBatches
    /\ pc \in {"boundary", "paused"} => sent < CapBatches
    /\ pc = "between" /\ stmt # "cursor" => sent < CapBatches
    /\ contention \in 0..Dwell /\ quiet \in 0..Dwell
    /\ opc \in [Observers -> {"asleep", "stopping", "read", "apply", "cancelling"}]
    /\ seen \in [Observers -> Reading]
    /\ mine \in 0..MaxWaiters /\ theirs \in 0..MaxWaiters
    /\ mine + theirs <= MaxWaiters
    /\ mine > 0 => inTxn
    /\ starving => mine > 0
    /\ sinceFlip \in 0..Dwell /\ high \in 0..Dwell
    /\ told \in 0..sent
    /\ cause \in {"none", "observer", "timeout"}
    /\ FlagsOK

Init ==
    /\ kind \in {"walk", "single", "other"}
    /\ pc = "boundary" /\ stmt = "none" /\ inTxn = FALSE /\ sent = 0
    /\ job = "running"
    /\ cancelRequested = FALSE /\ cancelStop = FALSE /\ stopNow = FALSE
    /\ direct = FALSE /\ contention = 0 /\ quiet = 0
    /\ throttled = FALSE /\ paused = FALSE
    /\ opc = [o \in Observers |-> "asleep"]
    /\ seen = [o \in Observers |-> Quiet]
    /\ mine = 0 /\ theirs = 0 /\ starving = FALSE
    /\ sinceFlip = 0 /\ high = 0 /\ told = 0 /\ cause = "none"

-----------------------------------------------------------------------------
(* The worker *)

\* Committing or rolling back lets the queue go: it drains, or its head takes
\* the lock and the others wait on behind that.
LetGo ==
    /\ inTxn' = FALSE
    /\ mine' = 0 /\ starving' = FALSE
    /\ \/ UNCHANGED theirs
       \/ mine > 0 /\ theirs' = theirs + mine - 1

Release == LetGo /\ sent' = 0 /\ told' = 0

\* The job ends; its transaction, if it is still open, ends with it.
End(state) ==
    /\ pc' = "ended" /\ job' = state
    /\ stmt' = "none"
    /\ Release

\* cancel_stop, seen between steps, between batches or while paused.
Stopped ==
    /\ pc \in {"boundary", "paused"} /\ cancelStop
    /\ End("cancelled")
    /\ UNCHANGED <<kind, cancelRequested, asked, ladder, observers, cause>>

\* wait_while_paused finds the job paused.  Only a walk asks.
Pause ==
    /\ pc = "boundary" /\ kind = "walk" /\ ~cancelStop /\ paused
    /\ pc' = "paused" /\ job' = "paused_contention"
    /\ UNCHANGED <<kind, stmt, inTxn, sent, cancelRequested, asked, ladder,
                   queue, observers, told, cause>>

\* The next transaction, or the next step of it: the transaction opens, if it
\* is not open already.  A step outside any finds none open.
Begin ==
    /\ pc \in {"boundary", "paused"} /\ ~cancelStop
    /\ kind = "walk" => ~paused
    /\ pc' = "between" /\ job' = "running"
    /\ \/ kind = "walk" /\ stmt' = "batch"
       \/ kind = "single" /\ stmt' = "long"
       \/ kind = "other" /\ stmt' \in {"sql", "untimed"}
       \/ kind = "other" /\ stmt' = "alone" /\ ~inTxn
    /\ inTxn' = (stmt' # "alone")
    /\ UNCHANGED <<kind, sent, cancelRequested, asked, ladder, queue,
                   observers, told, cause>>

\* Mutant: max_pause_s is not enforced.
AbortContention_never == FALSE /\ UNCHANGED vars

\* max_pause_s is over.
AbortContention ==
    /\ pc = "paused" /\ paused /\ ~cancelStop
    /\ End("aborted_contention")
    /\ UNCHANGED <<kind, cancelRequested, asked, ladder, observers, cause>>

\* The next statement goes to the server.
Send ==
    /\ pc = "between"
    /\ pc' = "running"
    /\ sent' = IF stmt = "cursor" THEN sent ELSE sent + 1
    /\ told' = IF stmt = "batch" /\ direct THEN told + 1 ELSE told
    /\ inTxn' = TRUE
    /\ cause' = "none"
    /\ UNCHANGED <<kind, stmt, job, cancelRequested, asked, ladder, queue,
                   observers>>

\* Mutant: a waiter is not a reason to commit.
BatchReturns_deaf ==
    /\ pc = "running" /\ stmt = "batch"
    /\ pc' = "between"
    /\ \/ stmt' = "cursor"
       \/ stmt' = "batch" /\ sent < CapBatches
    /\ UNCHANGED <<kind, inTxn, sent, job, cancelRequested, asked, ladder,
                   queue, observers, told, cause>>

\* A batch came back: another one in the same transaction, unless somebody
\* waits or the row cap is reached; or, those two apart, the interval is over
\* or the walk is done, and the cursor is written.
BatchReturns ==
    /\ pc = "running" /\ stmt = "batch"
    /\ pc' = "between"
    /\ \/ stmt' = "cursor"
       \/ stmt' = "batch" /\ ~direct /\ sent < CapBatches
    /\ UNCHANGED <<kind, inTxn, sent, job, cancelRequested, asked, ladder,
                   queue, observers, told, cause>>

\* The cursor is written and the transaction committed.
CursorReturns ==
    /\ pc = "running" /\ stmt = "cursor"
    /\ \/ End("succeeded")
       \/ Release /\ pc' = "boundary" /\ stmt' = "none" /\ UNCHANGED job
    /\ UNCHANGED <<kind, cancelRequested, asked, ladder, observers, cause>>

\* The one statement over the whole table is done, and committed.
LongReturns ==
    /\ pc = "running" /\ stmt = "long"
    /\ End("succeeded")
    /\ UNCHANGED <<kind, cancelRequested, asked, ladder, observers, cause>>

\* A statement of another step is done: the step's next one follows, or the
\* next step's in the same transaction or a new one, or the job is done.
SqlReturns ==
    /\ pc = "running" /\ stmt \in {"sql", "untimed"}
    /\ \/ End("succeeded")
       \/ Release /\ pc' = "boundary" /\ stmt' = "none" /\ UNCHANGED job
       \/ /\ sent < CapBatches
          /\ pc' \in {"between", "boundary"}
          /\ UNCHANGED <<stmt, inTxn, sent, job, told, queue>>
    /\ UNCHANGED <<kind, cancelRequested, asked, ladder, observers, cause>>

\* Outside a transaction a statement's locks go with it; nothing looks at
\* cancel_stop before the step's next one.
AloneReturns ==
    /\ pc = "running" /\ stmt = "alone"
    /\ \/ End("succeeded")
       \/ Release /\ pc' = "boundary" /\ stmt' = "none" /\ UNCHANGED job
       \/ /\ sent < CapBatches
          /\ LetGo /\ pc' = "between"
          /\ UNCHANGED <<stmt, sent, job, told>>
    /\ UNCHANGED <<kind, cancelRequested, asked, ladder, observers, cause>>

\* statement_timeout.
StatementTimesOut ==
    /\ pc = "running" /\ stmt \notin Untimed
    /\ pc' = "raised" /\ cause' = "timeout"
    /\ UNCHANGED <<kind, stmt, inTxn, sent, job, cancelRequested, asked,
                   ladder, queue, observers, told>>

\* SQLSTATE 57014 in a batch, and this job asked for a cancellation: the
\* transaction is rolled back and the walk goes on.
BatchGivesWay ==
    /\ pc = "raised" /\ stmt = "batch" /\ cancelRequested
    /\ cancelRequested' = FALSE
    /\ Release /\ pc' = "boundary" /\ stmt' = "none"
    /\ UNCHANGED <<kind, job, asked, ladder, observers, cause>>

\* The same of the single statement: the walk does its work instead.
LongGivesWay ==
    /\ pc = "raised" /\ stmt = "long" /\ ~cancelStop /\ cancelRequested
    /\ cancelRequested' = FALSE
    /\ kind' = "walk"
    /\ Release /\ pc' = "boundary" /\ stmt' = "none"
    /\ UNCHANGED <<job, asked, ladder, observers, cause>>

\* cancelJob reached the single statement.
LongStopped ==
    /\ pc = "raised" /\ stmt = "long" /\ cancelStop
    /\ cancelRequested' = FALSE
    /\ End("cancelled")
    /\ UNCHANGED <<kind, asked, ladder, observers, cause>>

\* Nothing around the statement takes the error: run() does.
Unwind ==
    /\ pc = "raised"
    /\ stmt = "batch" => ~cancelRequested
    /\ stmt = "long" => ~cancelStop /\ ~cancelRequested
    /\ IF stopNow /\ cancelStop /\ cancelRequested
       THEN End("cancelled") /\ cancelRequested' = FALSE
       ELSE End("failed") /\ UNCHANGED cancelRequested
    /\ UNCHANGED <<kind, asked, ladder, observers, cause>>

-----------------------------------------------------------------------------
(* The observers *)

\* Mutant: a tick leaves every stop to the worker.
Tick_deaf(o) ==
    /\ opc[o] = "asleep" /\ Live
    /\ opc' = [opc EXCEPT ![o] = "read"]
    /\ UNCHANGED <<kind, worker, cancelRequested, asked, ladder, queue, seen,
                   told, cause>>

\* A tick begins: the job is live, and a stop it cannot notice by itself is
\* turned into a cancellation, unless one has been asked for already.
Tick(o) ==
    /\ opc[o] = "asleep" /\ Live
    /\ IF /\ cancelStop /\ ~cancelRequested
          /\ LongStatement \/ (stopNow /\ ~InWalk)
       THEN /\ cancelRequested' = TRUE
            /\ opc' = [opc EXCEPT ![o] = "stopping"]
       ELSE /\ opc' = [opc EXCEPT ![o] = "read"]
            /\ UNCHANGED cancelRequested
    /\ UNCHANGED <<kind, worker, asked, ladder, queue, seen, told, cause>>

\* The signal of cancel_query() reaches the worker's backend.
Lands(o) ==
    /\ opc[o] \in {"stopping", "cancelling"}
    /\ opc' = [opc EXCEPT ![o] = IF @ = "stopping" THEN "read" ELSE "asleep"]
    /\ IF pc = "running"
       THEN pc' = "raised" /\ cause' = "observer"
       ELSE UNCHANGED <<pc, cause>>
    /\ UNCHANGED <<kind, stmt, inTxn, sent, job, cancelRequested, asked, ladder,
                   queue, seen, told>>

\* cancel_query() throws, and request_cancel swallows it.
SendFails(o) ==
    /\ opc[o] \in {"stopping", "cancelling"}
    /\ opc' = [opc EXCEPT ![o] = IF @ = "stopping" THEN "read" ELSE "asleep"]
    /\ UNCHANGED <<kind, worker, cancelRequested, asked, ladder, queue, seen,
                   told, cause>>

\* The waiters of this job: those queued behind its worker.  Another server's
\* observer finds none.
Read(o) ==
    /\ opc[o] = "read"
    /\ opc' = [opc EXCEPT ![o] = "apply"]
    /\ seen' = [seen EXCEPT ![o] =
                   IF o = Own
                   THEN [waiters |-> mine, starving |-> starving, pile |-> mine + theirs]
                   ELSE Quiet]
    /\ UNCHANGED <<kind, worker, cancelRequested, asked, ladder, queue, told, cause>>

\* A failed observation changes nothing.
ReadFails(o) ==
    /\ opc[o] = "read"
    /\ opc' = [opc EXCEPT ![o] = "asleep"]
    /\ UNCHANGED <<kind, worker, cancelRequested, asked, ladder, queue, seen, told, cause>>

\* A count of ticks, which the code only compares with Dwell.
Up(n) == IF n < Dwell THEN n + 1 ELSE Dwell

\* Mutant: the count of contended ticks survives a calm one.
CountTicks_lasting(w) ==
    /\ contention' = IF w >= PauseWaiters THEN Up(contention) ELSE contention
    /\ quiet' = IF w <= ResumeWaiters THEN Up(quiet) ELSE 0

\* Mutant: a second contended tick in a row starts the count over.
CountTicks_once(w) ==
    /\ contention' = IF w >= PauseWaiters /\ contention = 0 THEN 1 ELSE 0
    /\ quiet' = IF w <= ResumeWaiters THEN Up(quiet) ELSE 0

\* clear_contention, bump_quiet and apply, on the ticks in a row.
CountTicks(w) ==
    /\ contention' = IF w >= PauseWaiters THEN Up(contention) ELSE 0
    /\ quiet' = IF w <= ResumeWaiters THEN Up(quiet) ELSE 0

\* ... and on what the worker reads.  With nobody waiting a throttle is not
\* lifted by the reading but by the dwell.
Ladder(w) ==
    /\ CountTicks(w)
    /\ direct' = (w > 0)
    /\ paused' = (\/ w >= PauseWaiters /\ contention' >= Dwell
                  \/ paused /\ quiet' < Dwell)
    /\ throttled' = (/\ quiet' < Dwell
                     /\ \/ w = 0 /\ throttled
                        \/ w > 0 /\ w >= ThrottleWaiters)

\* The reading is applied; a starving waiter is worth a cancellation.
Apply(o) ==
    /\ opc[o] = "apply"
    /\ Ladder(seen[o].waiters)
    /\ IF seen[o].starving /\ ~cancelRequested
       THEN /\ cancelRequested' = TRUE
            /\ opc' = [opc EXCEPT ![o] = "cancelling"]
       ELSE /\ opc' = [opc EXCEPT ![o] = "asleep"]
            /\ UNCHANGED cancelRequested
    /\ sinceFlip' = IF paused' # paused THEN 0 ELSE Up(sinceFlip)
    /\ high' = CASE o # Own -> high
                 [] o = Own /\ seen[o].waiters >= PauseWaiters -> Up(high)
                 [] OTHER -> 0
    /\ told' = IF seen[o].waiters = 0 THEN 0 ELSE told
    /\ seen' = [seen EXCEPT ![o] = Quiet]
    /\ UNCHANGED <<kind, worker, asked, queue, cause>>

-----------------------------------------------------------------------------
(* The operator and the application *)

\* cancelJob.
CancelJob ==
    /\ Live
    /\ cancelStop' = TRUE
    /\ UNCHANGED <<kind, worker, cancelRequested, stopNow, ladder, queue,
                   observers, told, cause>>

\* The process is told to stop.
StopJobs ==
    /\ Live
    /\ cancelStop' = TRUE /\ stopNow' = TRUE
    /\ UNCHANGED <<kind, worker, cancelRequested, ladder, queue, observers, told, cause>>

WaiterArrives ==
    /\ mine + theirs < MaxWaiters
    /\ \/ inTxn /\ sent > 0 /\ mine' = mine + 1 /\ UNCHANGED theirs
       \/ theirs > 0 /\ theirs' = theirs + 1 /\ UNCHANGED mine
    /\ UNCHANGED <<kind, worker, cancelRequested, asked, ladder, starving,
                   observers, told, cause>>

WaiterStarves ==
    /\ mine > 0
    /\ starving' = TRUE
    /\ UNCHANGED <<kind, worker, cancelRequested, asked, ladder, mine, theirs,
                   observers, told, cause>>

WaiterLeaves ==
    /\ \/ theirs > 0 /\ theirs' = theirs - 1 /\ UNCHANGED <<mine, starving>>
       \/ /\ mine > 0 /\ mine' = mine - 1 /\ UNCHANGED theirs
          /\ starving' = FALSE \/ (mine > 1 /\ UNCHANGED starving)
    /\ UNCHANGED <<kind, worker, cancelRequested, asked, ladder, observers, told, cause>>

-----------------------------------------------------------------------------
Returns ==
    BatchReturns \/ CursorReturns \/ LongReturns \/ SqlReturns \/ AloneReturns

Handles ==
    \/ Stopped \/ Pause \/ Begin \/ AbortContention \/ Send
    \/ BatchGivesWay \/ LongGivesWay \/ LongStopped \/ Unwind

Observe(o) ==
    Tick(o) \/ Lands(o) \/ SendFails(o) \/ Read(o) \/ ReadFails(o) \/ Apply(o)

Next ==
    \/ Returns \/ Handles \/ StatementTimesOut
    \/ \E o \in Observers : Observe(o)
    \/ CancelJob \/ StopJobs
    \/ WaiterArrives \/ WaiterStarves \/ WaiterLeaves

Spec == Init /\ [][Next]_vars

\* The worker's thread runs, and so do the observers'; a statement comes back
\* or its statement_timeout ends it.  One that has none may run for ever: a
\* concurrent build waits for every transaction that could see the table.
FairSpec ==
    /\ Spec
    /\ WF_vars(Handles)
    /\ WF_vars(stmt \notin Untimed /\ (Returns \/ StatementTimesOut))
    /\ \A o \in Observers : WF_vars(Observe(o))

-----------------------------------------------------------------------------
(* Properties *)

\* Hysteresis (bump_quiet, apply): the pause flag never changes twice within
\* contention_dwell_ticks ticks, whatever the readings do.
NoFlapping == [][paused' # paused => sinceFlip + 1 >= Dwell]_vars

\* The contention breaker (apply): when the job's own observer has read
\* pause_waiters or more for contention_dwell_ticks ticks in a row, the job is
\* paused.
BreakerTrips == high >= Dwell => paused

\* run_backfill's commit trigger: after the observer has told the worker of a
\* waiter, at most one more batch goes out before the transaction ends.
CommitsForWaiter == told <= 1

\* A statement without statement_timeout that no stop reaches any more: the one
\* cancellation request_cancel sends is spent, or the stop is cancelJob's and
\* the statement is not the walk's single one.
Unreached ==
    /\ pc = "running" /\ stmt \in Untimed
    /\ \/ /\ cancelRequested
          /\ \A o \in Observers : opc[o] \notin {"stopping", "cancelling"}
       \/ stmt # "long" /\ ~stopNow

\* A job that was asked to stop ends, in whatever step, batch, pause or
\* cancellation it was asked (cancel_job, stop_jobs), however long its
\* statement would have run (tick) -- unless the statement is one no stop
\* reaches, and never returns.
StopEnds == (cancelStop ~> ~Live) \/ <>[]Unreached

\* A paused job resumes, stops or aborts, also when the observations that
\* would resume it fail (wait_while_paused, max_pause_s).
PauseEnds == pc = "paused" ~> pc # "paused"

\* The observer's cancellation costs a walk its batch and nothing more: it
\* never fails the job (request_cancel, run_backfill).  It does not hold: one
\* that comes late meets the cursor's statement (README, Known limits).
PacingNeverFails == job = "failed" /\ kind = "walk" => cause = "timeout"

\* A paused job resumes when the pile-up it made has drained, not because it
\* committed itself (bump_quiet).  It does not hold: a paused worker blocks
\* nobody, so its own count is zero (README, Known limits).
ResumesWhenDrained ==
    [][paused /\ ~paused' => seen[Own].pile <= ResumeWaiters]_vars
=============================================================================
