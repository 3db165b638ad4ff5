----------------------------- MODULE JobsProofs -----------------------------
(***************************************************************************)
(* Theorems on Jobs, for every number of calls, specifications,             *)
(* connections, pids and failures: no job waits at the gate with a          *)
(* transaction open, and the gate's count keeps the ceiling; what counts    *)
(* against the limit on jobs is under way; two jobs that share a key do not *)
(* work together; and the ledger's test for a dead job is exact while pids  *)
(* are handed out again.                                                    *)
(***************************************************************************)
EXTENDS Jobs, TLAPS

-----------------------------------------------------------------------------
(* The inductive invariants *)

Positions == {"absent", "connect", "top", "walk", "slot", "run", "finish",
              "publish", "leave", "ended"}

Positive == Nat \ {0}

JobType ==
    [state : {"none", "planned", "running"} \cup Terminal,
     spec : DOMAIN Specs \cup {"none"}, stop : BOOLEAN, pc : Positions,
     at : Positive, group : Nat, open : BOOLEAN, slot : {"none", "held", "free"},
     first : Positive, tries : Nat, batch : Nat,
     ending : {"none"} \cup Terminal, threw : BOOLEAN]

Roles == {Connections[c].role : c \in DOMAIN Connections} \cup {"none"}

SessionType == [pid : Nat, since : Nat, role : Roles,
                keys : SUBSET UNION {Keys(s) : s \in DOMAIN Specs}]

RowType == [state : {"none", "running", "interrupted"} \cup Terminal,
            pid : Nat, since : Nat]

CallType == [spec : DOMAIN Specs, conn : DOMAIN Connections]

(* What the steps rely on: records of the right shape, and a job that is    *)
(* created has a specification.                                             *)
Shapes ==
    /\ job \in [Jobs -> JobType]
    /\ ses \in [Jobs -> SessionType]
    /\ row \in [Jobs -> RowType]
    /\ calls \in Seq(CallType)
    /\ created \in Nat /\ clock \in Nat
    /\ caller \in [pc : {"idle", "reconcile", "limit", "record", "row", "launch"},
                  spec : DOMAIN Specs \cup {"none"}, conn : DOMAIN Connections \cup {"none"}]
    /\ caller.pc # "idle" =>
          caller.spec \in DOMAIN Specs /\ caller.conn \in DOMAIN Connections
    /\ created \in Jobs /\ caller.pc \in {"record", "row", "launch"}
          => job[created].spec = caller.spec /\ job[created].pc = "absent"
    /\ \A j \in Jobs : j > created => job[j].pc = "absent"
    /\ \A j \in Jobs : job[j].pc # "absent" => job[j].spec \in DOMAIN Specs

(* Where a transaction may be open and a slot held: at the loop's top only  *)
(* with the group that is open, in a walk's loop only when it is about to   *)
(* end, at the gate never.                                                  *)
GateOrder(w) ==
    /\ w.pc \in {"absent", "connect", "slot"} => ~w.open /\ w.slot = "none"
    /\ w.pc = "top" => w.open \/ w.slot = "none"
    /\ w.pc = "walk" => ~w.open /\ (w.slot = "none" \/ w.stop)
    /\ w.open => w.pc \in {"top", "run"}
    /\ w.pc = "run" /\ Specs[w.spec].steps[w.at].class = "txn" => w.open
    /\ w.pc = "run" /\ Specs[w.spec].steps[w.at].class = "alone" => ~w.open
    /\ (w.open \/ w.pc = "run") /\ w.slot = "none" => w.stop

GateInv == \A j \in Jobs : GateOrder(job[j])

(* The gate counts the slots that are held, and the ceiling in force is one *)
(* of those there were.                                                     *)
Held == {j \in Jobs : job[j].slot = "held"}

CountInv ==
    /\ inFlight \in Nat /\ limit \in Nat /\ highest \in Nat
    /\ limit <= highest /\ inFlight <= highest
    /\ inFlight = Cardinality(Held)

(* The life of a job.  Every call not yet answered has a place in Jobs; a   *)
(* job that is told to end has an end to tell, and one that left has told   *)
(* it; and a job without a worker has ended, is being started, or was left  *)
(* by an exception.                                                         *)
Pending == Len(calls) + (IF caller.pc \in {"reconcile", "limit"} THEN 1 ELSE 0)

BeingStarted(j) == caller.pc \in {"record", "row", "launch"} /\ j = created

Life(j) ==
    /\ job[j].state = "none" <=> j > created
    /\ job[j].pc \in {"finish", "publish"} => job[j].ending \in Terminal
    /\ job[j].pc \in {"leave", "ended"} => job[j].state \in Terminal
    /\ job[j].pc = "absent" /\ j <= created =>
          job[j].state \in Terminal \/ job[j].threw \/ BeingStarted(j)

LifeInv ==
    /\ created + Pending <= MaxCalls
    /\ caller.pc \in {"record", "row", "launch"} => created \in Jobs
    /\ caller.pc # "idle" => caller.conn \in DOMAIN Connections
    /\ \A j \in Jobs : Life(j)

(* Where a worker is in its plan: it goes back only to a step it was at, and *)
(* counts its tries.                                                         *)
Place(w) ==
    w.pc # "absent" =>
       /\ w.at <= Len(Specs[w.spec].steps) + 1 /\ w.first <= Len(Specs[w.spec].steps) + 1
       /\ w.pc \in {"walk", "slot", "run"} => w.at <= Len(Specs[w.spec].steps)

PlaceInv ==
    /\ \A j \in Jobs : Place(job[j]) /\ job[j].tries \in 1..MaxTries
    /\ \A j \in Jobs : job[j].pc = "absent" => job[j].at = 1 /\ job[j].first = 1
    /\ \A j \in Jobs : ses[j].pid \in Pids \cup {0}
    /\ losses \in Nat /\ stops \in Nat

(* A session is its job's alone, and while it lives it answers for the row: *)
(* the row has its pid and is no older, and no other session with that pid  *)
(* is as old as the row.                                                    *)
Starting(j) == j = created /\ caller.pc \in {"record", "row"}

Holding(j) ==
    \/ job[j].pc \in {"connect", "top", "walk", "slot", "run", "finish"}
    \/ j = created /\ caller.pc \in {"row", "launch"}

OwnSession(j) ==
    /\ ses[j].since <= clock
    /\ ses[j].pid = 0 => ses[j].keys = {}
    /\ ses[j].pid # 0 /\ row[j].state = "running" =>
          /\ ses[j].pid = row[j].pid /\ ses[j].since <= row[j].since
          /\ ses[j].keys = Keys(job[j].spec)
    /\ row[j].state = "interrupted" => ses[j].pid = 0
    /\ row[j].state = "running" =>
          row[j].since <= clock /\ row[j].pid # 0 /\ job[j].spec \in DOMAIN Specs
    /\ j > created \/ Starting(j) => row[j].state = "none"
    /\ j > created \/ (j = created /\ caller.pc = "record") => ses[j].pid = 0
    /\ Holding(j) /\ ses[j].pid # 0 => ses[j].keys = Keys(job[j].spec)

ApartFrom(j, k) ==
    /\ ses[j].pid # 0 => ses[j].pid # ses[k].pid
    /\ ses[j].keys \cap ses[k].keys = {}
    /\ row[j].state = "running" /\ ses[k].pid = row[j].pid => ses[k].since > row[j].since

SessionInv ==
    /\ \A j \in Jobs : OwnSession(j)
    /\ \A j, k \in Jobs : j # k => ApartFrom(j, k)

-----------------------------------------------------------------------------
(* Shapes *)

LEMMA StepTyped ==
    ASSUME Shapes, NEW j \in Jobs, job[j].pc # "absent",
           job[j].at <= Len(Steps(j))
    PROVE  /\ Steps(j) \in Seq(StepType)
           /\ Step(j) \in StepType
  <1>1. Steps(j) \in Seq(StepType)
    BY JobsAssumption DEF Shapes, Steps
  <1>2. job[j].at \in 1..Len(Steps(j))
    BY <1>1 DEF Shapes, JobType, Positive
  <1> QED
    BY <1>1, <1>2 DEF Step

(* A worker's step is a new record for its job, of the right shape. *)
LEMMA WorkerShapes ==
    ASSUME Shapes, NEW j \in Jobs, NEW w \in JobType, w.spec = job[j].spec,
           w.pc # "absent", job[j].pc # "absent",
           job' = [job EXCEPT ![j] = w],
           UNCHANGED <<client, caller, created, clock>>,
           ses' \in [Jobs -> SessionType], row' \in [Jobs -> RowType]
    PROVE  Shapes'
  <1>1. job' \in [Jobs -> JobType]
    BY DEF Shapes
  <1>2. \A k \in Jobs : job'[k].pc # "absent" => job'[k].spec \in DOMAIN Specs
    BY DEF Shapes
  <1>3. \A k \in Jobs : k > created => job'[k].pc = "absent"
    BY DEF Shapes
  <1>4. created \in Jobs /\ caller.pc \in {"record", "row", "launch"}
          => job'[created].spec = caller.spec /\ job'[created].pc = "absent"
    BY DEF Shapes
  <1> QED
    BY <1>1, <1>2, <1>3, <1>4 DEF Shapes, client

(* What the gate is entered for: a group or a batch. *)
LEMMA OpenRecords ==
    ASSUME NEW j \in Jobs, job[j] \in JobType
    PROVE  /\ OpenGroup(j) \in JobType /\ OpenGroup(j).spec = job[j].spec
           /\ OpenGroup(j).pc = "run" /\ OpenGroup(j).open
           /\ OpenGroup(j).at = job[j].at /\ OpenGroup(j).stop = job[j].stop
           /\ OpenBatch(j).stop = job[j].stop
           /\ OpenBatch(j) \in JobType /\ OpenBatch(j).spec = job[j].spec
           /\ OpenBatch(j).pc \in {"run", "walk"} /\ OpenBatch(j).at = job[j].at
           /\ OpenBatch(j).pc = "walk" => /\ OpenBatch(j).stop
                                          /\ OpenBatch(j).open = job[j].open
  <1>1. /\ OpenGroup(j) \in JobType /\ OpenGroup(j).spec = job[j].spec
        /\ OpenGroup(j).pc = "run" /\ OpenGroup(j).open
        /\ OpenGroup(j).at = job[j].at /\ OpenGroup(j).stop = job[j].stop
    <2> DEFINE n == IF job[j].first = job[j].at THEN job[j].tries ELSE 1
    <2>1. n \in Nat
      BY DEF JobType
    <2>2. OpenGroup(j) = [job[j] EXCEPT !.pc = "run", !.open = TRUE,
                                        !.first = job[j].at, !.tries = n]
      BY DEF OpenGroup, JobType
    <2> HIDE DEF n
    <2> QED BY ZenonT(30), <2>1, <2>2 DEF JobType, Positions
  <1>2. /\ OpenBatch(j).stop = job[j].stop
        /\ OpenBatch(j) \in JobType /\ OpenBatch(j).spec = job[j].spec
        /\ OpenBatch(j).pc \in {"run", "walk"} /\ OpenBatch(j).at = job[j].at
        /\ OpenBatch(j).pc = "walk" => /\ OpenBatch(j).stop
                                       /\ OpenBatch(j).open = job[j].open
    BY ZenonT(30) DEF OpenBatch, JobType, Positions
  <1> QED BY <1>1, <1>2

(* What each step of a worker makes of its record is of the right shape,    *)
(* and only the ledger and the gate change beside it.                       *)
LEMMA WorkerRecord ==
    ASSUME Shapes, NEW j \in Jobs, Worker(j)
    PROVE  /\ job[j].pc # "absent"
           /\ \E w \in JobType : /\ w.spec = job[j].spec /\ w.pc # "absent"
                                  /\ job' = [job EXCEPT ![j] = w]
  <1>0. job \in [Jobs -> JobType] /\ job[j] \in JobType
    BY DEF Shapes
  <1>a. /\ job[j].at \in Positive /\ job[j].at + 1 \in Positive
        /\ job[j].batch + 1 \in Nat /\ job[j].tries + 1 \in Nat
        /\ job[j].first \in Positive
    BY <1>0 DEF JobType, Positive
  <1>b. /\ Unslotted(j) \in JobType /\ Unslotted(j).spec = job[j].spec
        /\ Unslotted(j).at = job[j].at /\ Unslotted(j).batch = job[j].batch
        /\ Unslotted(j).tries = job[j].tries
    BY <1>0 DEF JobType, Unslotted
  <1>1. CASE Connect(j)
    <2> DEFINE w == [job[j] EXCEPT !.state = "running", !.pc = "top"]
    <2>1. w \in JobType /\ w.spec = job[j].spec /\ w.pc # "absent"
      BY Zenon, <1>0 DEF JobType, Positions
    <2>2. job' = [job EXCEPT ![j] = w] /\ job[j].pc # "absent"
      BY Zenon, <1>0, <1>1 DEF Connect
    <2> QED BY Zenon, <2>1, <2>2
  <1>2. CASE Cancelled(j)
    <2> DEFINE w == [job[j] EXCEPT !.open = FALSE, !.ending = "cancelled", !.pc = "finish"]
    <2>1. w \in JobType /\ w.spec = job[j].spec /\ w.pc # "absent"
      BY ZenonT(60), <1>0 DEF JobType, Positions, Terminal
    <2>2. job' = [job EXCEPT ![j] = w] /\ job[j].pc # "absent"
      BY Zenon, <1>0, <1>2 DEF Cancelled
    <2> QED BY Zenon, <2>1, <2>2
  <1>3. CASE BeginStep(j)
    <2> DEFINE c == job[j].open /\ Crossing(j)
               v == IF c THEN [Unslotted(j) EXCEPT !.open = FALSE] ELSE job[j]
               w == [v EXCEPT !.group = Step(j).group + 1, !.pc = Entry(j, v.open)]
    <2>1. Step(j).group + 1 \in Nat /\ job[j].pc # "absent"
      BY <1>3, StepTyped DEF BeginStep, StepType
    <2>2. v \in JobType /\ v.spec = job[j].spec
      BY Zenon, <1>0 DEF JobType, Unslotted
    <2>3. Entry(j, v.open) \in Positions \ {"absent"}
      BY DEF Entry, Positions
    <2> HIDE DEF v
    <2>4. w \in JobType /\ w.spec = job[j].spec /\ w.pc # "absent"
      BY Zenon, <2>1, <2>2, <2>3 DEF JobType
    <2>5. job' = [job EXCEPT ![j] = w]
      BY <1>0, <1>3 DEF BeginStep, v
    <2> QED BY Zenon, <2>1, <2>4, <2>5
  <1>4. CASE NextBatch(j)
    <2> DEFINE w == [job[j] EXCEPT !.pc = "slot"]
    <2>1. w \in JobType /\ w.spec = job[j].spec /\ w.pc # "absent"
      BY <1>0 DEF JobType, Positions
    <2>2. job' = [job EXCEPT ![j] = w] /\ job[j].pc # "absent"
      BY <1>0, <1>4 DEF NextBatch
    <2> QED BY Zenon, <2>1, <2>2
  <1>5. CASE Enter(j)
    <2>1. PICK v \in {OpenGroup(j), OpenBatch(j), [job[j] EXCEPT !.pc = "run"]} :
             TakeSlot(j, v)
      BY <1>5 DEF Enter
    <2>c. [job[j] EXCEPT !.pc = "run"] \in JobType
      BY <1>0 DEF JobType, Positions
    <2>2. v \in JobType /\ v.spec = job[j].spec /\ v.pc # "absent"
      BY <1>0, <2>c, OpenRecords DEF JobType
    <2>3. PICK b \in {v.slot, "free", "held"} : job' = [job EXCEPT ![j] = [v EXCEPT !.slot = b]]
      BY <2>1, <2>2 DEF TakeSlot, JobType
    <2>4. [v EXCEPT !.slot = b] \in JobType
      BY <2>2 DEF JobType
    <2> QED BY Zenon, <1>5, <2>2, <2>3, <2>4 DEF Enter, JobType
  <1>6. CASE RunInTransaction(j)
    <2> DEFINE w == [job[j] EXCEPT !.at = job[j].at + 1, !.pc = "top"]
    <2>1. w \in JobType /\ w.spec = job[j].spec /\ w.pc # "absent"
      BY Zenon, <1>0, <1>a DEF JobType, Positions
    <2>2. job' = [job EXCEPT ![j] = w] /\ job[j].pc # "absent"
      BY Zenon, <1>0, <1>6 DEF RunInTransaction
    <2> QED BY Zenon, <2>1, <2>2
  <1>7. CASE RunAlone(j)
    <2> DEFINE w == [Unslotted(j) EXCEPT !.at = job[j].at + 1, !.pc = "top"]
    <2>1. w \in JobType /\ w.spec = job[j].spec /\ w.pc # "absent"
      BY Zenon, <1>a, <1>b DEF JobType, Positions
    <2>2. job' = [job EXCEPT ![j] = w] /\ job[j].pc # "absent"
      BY <1>b, <1>7 DEF RunAlone
    <2> QED BY Zenon, <2>1, <2>2
  <1>8. CASE CommitBatch(j)
    <2> DEFINE v == [Unslotted(j) EXCEPT !.open = FALSE]
               last == [v EXCEPT !.batch = 0, !.at = job[j].at + 1, !.pc = "top"]
               more == [v EXCEPT !.batch = job[j].batch + 1, !.pc = "walk"]
    <2>1. v \in JobType /\ v.spec = job[j].spec /\ v.at = job[j].at
          /\ v.batch = job[j].batch
      BY Zenon, <1>b DEF JobType
    <2> HIDE DEF v
    <2>2. job' = [job EXCEPT ![j] = last] \/ job' = [job EXCEPT ![j] = more]
      BY Zenon, <1>8, <2>1 DEF CommitBatch, v
    <2>3. last \in JobType /\ last.spec = job[j].spec /\ last.pc # "absent"
      BY Zenon, <1>a, <2>1 DEF JobType, Positions
    <2>4. more \in JobType /\ more.spec = job[j].spec /\ more.pc # "absent"
      BY Zenon, <1>a, <2>1 DEF JobType, Positions
    <2> QED BY Zenon, <1>8, <2>2, <2>3, <2>4 DEF CommitBatch
  <1>9. CASE LockTimesOut(j)
    <2> DEFINE v == [Unslotted(j) EXCEPT !.open = FALSE]
               ends(e) == [v EXCEPT !.ending = e, !.pc = "finish"]
               again == [v EXCEPT !.at = job[j].first, !.tries = job[j].tries + 1,
                                  !.pc = "top"]
    <2>1. v \in JobType /\ v.spec = job[j].spec /\ v.tries = job[j].tries
      BY Zenon, <1>b DEF JobType
    <2>2. PICK w \in AfterTimeout(j, v) : job' = [job EXCEPT ![j] = w]
      BY Zenon, <1>9 DEF LockTimesOut
    <2> HIDE DEF v
    <2>3. w \in {ends("cancelled"), ends("failed"), again}
      BY <2>1, <2>2 DEF AfterTimeout
    <2>4. \A e \in {"cancelled", "failed"} :
             ends(e) \in JobType /\ ends(e).spec = job[j].spec /\ ends(e).pc # "absent"
      BY ZenonT(30), <2>1 DEF JobType, Positions, Terminal
    <2>5. again \in JobType /\ again.spec = job[j].spec /\ again.pc # "absent"
      BY Zenon, <1>a, <2>1 DEF JobType, Positions
    <2> HIDE DEF ends, again
    <2> QED BY Zenon, <1>9, <2>2, <2>3, <2>4, <2>5 DEF LockTimesOut
  <1>10. CASE Throws(j)
    <2> DEFINE w == [Unslotted(j) EXCEPT !.open = FALSE, !.ending = "failed", !.pc = "finish"]
    <2>1. w \in JobType /\ w.spec = job[j].spec /\ w.pc # "absent"
      BY ZenonT(60), <1>0 DEF JobType, Positions, Terminal, Unslotted
    <2>2. job' = [job EXCEPT ![j] = w] /\ job[j].pc # "absent"
      BY <1>0, <1>10 DEF Throws
    <2> QED BY Zenon, <2>1, <2>2
  <1>11. CASE Succeed(j)
    <2> DEFINE w == [Unslotted(j) EXCEPT !.open = FALSE, !.ending = "succeeded", !.pc = "finish"]
    <2>1. w \in JobType /\ w.spec = job[j].spec /\ w.pc # "absent"
      BY ZenonT(60), <1>0 DEF JobType, Positions, Terminal, Unslotted
    <2>2. job' = [job EXCEPT ![j] = w] /\ job[j].pc # "absent"
      BY <1>0, <1>11 DEF Succeed
    <2> QED BY Zenon, <2>1, <2>2
  <1>12. CASE FinishJob(j)
    <2> DEFINE w == [job[j] EXCEPT !.pc = "publish"]
    <2>1. w \in JobType /\ w.spec = job[j].spec /\ w.pc # "absent"
      BY <1>0 DEF JobType, Positions
    <2>2. job' = [job EXCEPT ![j] = w] /\ job[j].pc # "absent"
      BY <1>0, <1>12 DEF FinishJob
    <2> QED BY Zenon, <2>1, <2>2
  <1>13. CASE Publish(j)
    <2> DEFINE w == [job[j] EXCEPT !.state = job[j].ending, !.pc = "leave"]
    <2>1. w \in JobType /\ w.spec = job[j].spec /\ w.pc # "absent"
      BY Zenon, <1>0 DEF JobType, Positions
    <2>2. job' = [job EXCEPT ![j] = w] /\ job[j].pc # "absent"
      BY Zenon, <1>0, <1>13 DEF Publish
    <2> QED BY Zenon, <2>1, <2>2
  <1>14. CASE Leave(j)
    <2> DEFINE w == [Unslotted(j) EXCEPT !.pc = "ended"]
    <2>1. w \in JobType /\ w.spec = job[j].spec /\ w.pc # "absent"
      BY Zenon, <1>0 DEF JobType, Positions, Unslotted
    <2>2. job' = [job EXCEPT ![j] = w] /\ job[j].pc # "absent"
      BY <1>0, <1>14 DEF Leave
    <2> QED BY Zenon, <2>1, <2>2
  <1> QED
    BY <1>1, <1>2, <1>3, <1>4, <1>5, <1>6, <1>7, <1>8, <1>9, <1>10, <1>11,
       <1>12, <1>13, <1>14 DEF Worker

LEMMA Patched ==
    ASSUME Shapes, NEW n, NEW w, n \in Jobs => w \in JobType,
           job' = [job EXCEPT ![n] = w]
    PROVE  /\ job' \in [Jobs -> JobType]
           /\ \A k \in Jobs : job'[k] = IF k = n THEN w ELSE job[k]
  BY Zenon DEF Shapes

LEMMA ShapesInit == Init => Shapes
  <1> SUFFICES ASSUME Init PROVE Shapes
    OBVIOUS
  <1>1. NoJob \in JobType
    BY DEF NoJob, JobType, Positions, Positive, Terminal
  <1>2. NoSession \in SessionType /\ NoRow \in RowType
    BY DEF NoSession, SessionType, Roles, NoRow, RowType
  <1>3. calls \in Seq(CallType)
    BY Zenon, JobsAssumption DEF Init, CallType
  <1>4. \A j \in Jobs : job[j].pc = "absent"
    BY DEF Init, NoJob
  <1>5. caller = Idle /\ created = 0 /\ clock = 0
    BY DEF Init
  <1> QED
    BY <1>1, <1>2, <1>3, <1>4, <1>5 DEF Init, Shapes, Idle

LEMMA ShapesStep == Shapes /\ [Next]_vars => Shapes'
  <1> SUFFICES ASSUME Shapes, [Next]_vars PROVE Shapes'
    OBVIOUS
  <1>0. NoSession \in SessionType
    BY DEF NoSession, SessionType, Roles
  <1>1. CASE UNCHANGED vars
    BY <1>1 DEF Shapes, vars, client, gate, ledger
  <1>2. ASSUME NEW j \in Jobs, Worker(j) PROVE Shapes'
    <2>1. UNCHANGED <<client, caller, created, clock>>
      BY <1>2 DEF Worker, outside, ledger, client, gate, Connect, Cancelled, BeginStep,
         NextBatch, Enter, RunInTransaction, RunAlone, CommitBatch, LockTimesOut, Throws,
         Succeed, FinishJob, Publish, Leave
    <2>2. ses' \in [Jobs -> SessionType] /\ row' \in [Jobs -> RowType]
      <3>1. CASE FinishJob(j)
        <4>1. [ses[j] EXCEPT !.keys = {}] \in SessionType
          <5>1. ses[j] \in SessionType
            BY DEF Shapes
          <5> QED BY <5>1 DEF SessionType
        <4>2. [row[j] EXCEPT !.state = job[j].ending] \in RowType
          <5>1. row[j] \in RowType /\ job[j].ending \in {"none"} \cup Terminal
            BY DEF Shapes, JobType
          <5> QED BY <5>1 DEF RowType
        <4>3. ses' \in {ses, [ses EXCEPT ![j] = [ses[j] EXCEPT !.keys = {}]]}
          BY <3>1 DEF FinishJob
        <4>4. row' \in {row, [row EXCEPT ![j] = [row[j] EXCEPT !.state = job[j].ending]]}
          BY <3>1 DEF FinishJob
        <4> QED BY ZenonT(30), <4>1, <4>2, <4>3, <4>4 DEF Shapes
      <3>2. CASE Leave(j)
        BY <3>2, <1>0 DEF Leave, Shapes
      <3>3. CASE ~FinishJob(j) /\ ~Leave(j)
        BY <3>3, <1>2 DEF Worker, outside, ledger, Shapes, Connect, Cancelled, BeginStep,
           NextBatch, Enter, RunInTransaction, RunAlone, CommitBatch, LockTimesOut,
           Throws, Succeed, Publish
      <3> QED BY <3>1, <3>2, <3>3
    <2> QED BY Zenon, <1>2, <2>1, <2>2, WorkerRecord, WorkerShapes
  <1>3. ASSUME NEW j \in Jobs, CancelJob(j) PROVE Shapes'
    <2> DEFINE w == [job[j] EXCEPT !.stop = TRUE]
    <2>1. w \in JobType /\ w.spec = job[j].spec /\ w.pc = job[j].pc
      <3>1. job[j] \in JobType
        BY DEF Shapes
      <3> QED BY Zenon, <3>1 DEF JobType
    <2>2. job' = [job EXCEPT ![j] = w]
      BY <1>3 DEF CancelJob
    <2>3. UNCHANGED <<calls, caller, created, ses, row, clock>>
      BY <1>3 DEF CancelJob, ledger
    <2> HIDE DEF w
    <2>4. job' \in [Jobs -> JobType]
      BY <2>1, <2>2 DEF Shapes
    <2>5. \A k \in Jobs : job'[k].pc = job[k].pc /\ job'[k].spec = job[k].spec
      BY <2>1, <2>2 DEF Shapes
    <2> QED BY Zenon, <2>3, <2>4, <2>5 DEF Shapes
  <1>4. ASSUME NEW j \in Jobs, LoseSession(j) PROVE Shapes'
    BY <1>0, <1>4 DEF LoseSession, Shapes, client
  <1>5. CASE Call
    <2>1. Head(calls) \in CallType /\ calls' \in Seq(CallType)
      BY <1>5 DEF Call, Shapes
    <2> QED BY <1>5, <2>1 DEF Call, Shapes, CallType, ledger
  <1>6. CASE Reconcile
    <2>1. row' \in [Jobs -> RowType]
      BY Zenon, <1>6 DEF Reconcile, Marked, Shapes, RowType
    <2> QED BY <1>6, <2>1 DEF Reconcile, Shapes, client
  <1>7. CASE ReconcileFails
    BY <1>7 DEF ReconcileFails, Shapes, client, ledger
  <1>8. CASE Refuse
    BY <1>8 DEF Refuse, Shapes, client, ledger, Idle
  <1>9. CASE Create
    <2> DEFINE n == created + 1
               w == [job[n] EXCEPT !.state = "planned", !.spec = caller.spec]
    <2>1. n \in Nat /\ n > created /\ caller.spec \in DOMAIN Specs
      BY <1>9 DEF Create, Shapes
    <2>a. n \in Jobs => w \in JobType /\ w.spec = caller.spec /\ w.pc = job[n].pc
      <3>1. n \in Jobs => job[n] \in JobType
        BY DEF Shapes
      <3> HIDE DEF n
      <3> QED BY Zenon, <2>1, <3>1 DEF JobType
    <2>b. job' = [job EXCEPT ![n] = w]
      BY Zenon, <1>9 DEF Create
    <2>2. /\ job' \in [Jobs -> JobType]
          /\ \A k \in Jobs : job'[k] = IF k = n THEN w ELSE job[k]
      BY Zenon, <2>a, <2>b, Patched
    <2>3. \A k \in Jobs : /\ job'[k].pc = job[k].pc
                          /\ k # n => job'[k] = job[k]
                          /\ k = n => job'[k].spec = caller.spec
      BY Zenon, <2>a, <2>2
    <2>4. \A k \in Jobs : k > n => k > created
      BY <2>1 DEF Shapes, Jobs
    <2>5. /\ UNCHANGED <<calls, ses, row, clock>> /\ created' = n
      BY <1>9 DEF Create, client, ledger
    <2>6. /\ caller' \in [pc : {"idle", "reconcile", "limit", "record", "row", "launch"},
                          spec : DOMAIN Specs \cup {"none"},
                          conn : DOMAIN Connections \cup {"none"}]
          /\ caller'.spec = caller.spec /\ caller'.spec \in DOMAIN Specs
          /\ caller'.conn \in DOMAIN Connections
      BY <1>9 DEF Create, Shapes
    <2> HIDE DEF n
    <2>7. /\ n \in Jobs => job'[n].spec = caller'.spec /\ job'[n].pc = "absent"
          /\ \A j \in Jobs : j > n => job'[j].pc = "absent"
          /\ \A j \in Jobs : job'[j].pc # "absent" => job'[j].spec \in DOMAIN Specs
      BY <2>1, <2>3, <2>4, <2>6 DEF Shapes
    <2> QED BY Zenon, <2>1, <2>2, <2>5, <2>6, <2>7 DEF Shapes
  <1>10. CASE RecordFails \/ LocksTaken
    <2> DEFINE w == [job[created] EXCEPT !.state = "failed"]
    <2>a. created \in Jobs => /\ w \in JobType /\ w.spec = job[created].spec
                              /\ w.pc = job[created].pc
      <3>1. created \in Jobs => job[created] \in JobType
        BY DEF Shapes
      <3> QED BY <3>1 DEF JobType, Terminal
    <2>b. job' = [job EXCEPT ![created] = w]
      BY <1>10 DEF RecordFails, LocksTaken
    <2> HIDE DEF w
    <2>1. /\ job' \in [Jobs -> JobType]
          /\ \A k \in Jobs : job'[k] = IF k = created THEN w ELSE job[k]
      BY Zenon, <2>a, <2>b, Patched
    <2>2. \A k \in Jobs : job'[k].pc = job[k].pc /\ job'[k].spec = job[k].spec
      BY <2>a, <2>1
    <2> QED BY <1>10, <2>1, <2>2 DEF RecordFails, LocksTaken, Shapes, client, ledger, Idle
  <1>11. CASE TakeLocks
    <2>1. PICK p \in Pids : ses' = [ses EXCEPT ![created] =
             [pid |-> p, since |-> clock + 1, role |-> Connections[caller.conn].role,
              keys |-> LockKeys(caller.spec)]]
      BY Zenon, <1>11 DEF TakeLocks
    <2>2. [pid |-> p, since |-> clock + 1, role |-> Connections[caller.conn].role,
           keys |-> LockKeys(caller.spec)] \in SessionType
      <3>1. caller.spec \in DOMAIN Specs /\ Connections[caller.conn].role \in Roles
        BY <1>11 DEF TakeLocks, Shapes, Roles
      <3>2. Keys(caller.spec) \in SUBSET UNION {Keys(s) : s \in DOMAIN Specs}
        BY <3>1
      <3>3. p \in Nat /\ clock + 1 \in Nat
        BY JobsAssumption DEF Shapes
      <3> QED BY <3>1, <3>2, <3>3 DEF SessionType, LockKeys
    <2>3. ses' \in [Jobs -> SessionType]
      <3> DEFINE e == [pid |-> p, since |-> clock + 1,
                       role |-> Connections[caller.conn].role,
                       keys |-> LockKeys(caller.spec)]
      <3>1. e \in SessionType /\ ses' = [ses EXCEPT ![created] = e]
        BY <2>1, <2>2
      <3> HIDE DEF e
      <3> QED BY Zenon, <3>1 DEF Shapes
    <2>4. clock' \in Nat
      BY <1>11 DEF TakeLocks, Shapes
    <2> QED BY Zenon, <1>11, <2>3, <2>4 DEF TakeLocks, Shapes, client
  <1>12. CASE OpenRow
    <2>1. row' \in [Jobs -> RowType]
      BY Zenon, <1>12 DEF OpenRow, Shapes, RowType, SessionType
    <2> QED BY Zenon, <1>12, <2>1 DEF OpenRow, Shapes, client
  <1>13. CASE OpenJobThrows
    <2> DEFINE w == [job[created] EXCEPT !.threw = TRUE]
    <2>a. created \in Jobs => /\ w \in JobType /\ w.spec = job[created].spec
                              /\ w.pc = job[created].pc
      <3>1. created \in Jobs => job[created] \in JobType
        BY DEF Shapes
      <3> QED BY Zenon, <3>1 DEF JobType
    <2>b. job' = [job EXCEPT ![created] = w]
      BY <1>13 DEF OpenJobThrows
    <2> HIDE DEF w
    <2>1. job' \in [Jobs -> JobType]
      BY Zenon, <2>a, <2>b, Patched
    <2>2. \A k \in Jobs : job'[k].pc = job[k].pc /\ job'[k].spec = job[k].spec
      BY <2>a, <2>b, Patched
    <2> QED BY <1>0, <1>13, <2>1, <2>2 DEF OpenJobThrows, Shapes, client, Idle
  <1>14. CASE Launch
    <2> DEFINE w == [job[created] EXCEPT !.pc = "connect"]
    <2>a. created \in Jobs => w \in JobType /\ w.spec = job[created].spec
      <3>1. created \in Jobs => job[created] \in JobType
        BY DEF Shapes
      <3> QED BY <3>1 DEF JobType, Positions
    <2>b. job' = [job EXCEPT ![created] = w]
      BY <1>14 DEF Launch
    <2> HIDE DEF w
    <2>1. job' \in [Jobs -> JobType]
      BY Zenon, <2>a, <2>b, Patched
    <2>2. \A k \in Jobs : /\ job'[k].spec = job[k].spec
                          /\ k # created => job'[k].pc = job[k].pc
      BY <2>a, <2>b, Patched
    <2>3. \A k \in Jobs : k > created => k # created
      BY SMTT(30) DEF Shapes, Jobs
    <2> QED BY <1>14, <2>1, <2>2, <2>3 DEF Launch, Shapes, client, ledger, Idle
  <1> QED
    BY SMTT(30), <1>1, <1>2, <1>3, <1>4, <1>5, <1>6, <1>7, <1>8, <1>9, <1>10, <1>11, <1>12,
       <1>13, <1>14 DEF Next, StartMigration

-----------------------------------------------------------------------------
(* The gate *)

LEMMA GateInit == Init => GateInv
  <1> SUFFICES ASSUME Init PROVE GateInv
    OBVIOUS
  <1>1. \A j \in Jobs : job[j] = NoJob
    BY DEF Init
  <1> QED BY <1>1 DEF GateInv, GateOrder, NoJob

LEMMA GateStep == Shapes /\ GateInv /\ [Next]_vars => GateInv'
  <1> SUFFICES ASSUME Shapes, GateInv, [Next]_vars PROVE GateInv'
    BY Zenon
  <1>1. CASE UNCHANGED job
    BY Zenon, <1>1 DEF GateInv, GateOrder
  <1>2. ASSUME NEW j \in Jobs, Worker(j) PROVE GateInv'
    <2>0. job \in [Jobs -> JobType] /\ job[j] \in JobType
      BY DEF Shapes
    <2>a. GateOrder(job[j])
      BY DEF GateInv
    <2>b. \A k \in Jobs : k # j => job'[k] = job[k]
      BY <1>2, <2>0, WorkerRecord
    <2> SUFFICES GateOrder(job'[j])
      BY <2>b DEF GateInv
    <2>1. CASE Connect(j)
      BY ZenonT(30), <2>0, <2>1, <2>a DEF Connect, GateOrder, JobType
    <2>2. CASE Cancelled(j)
      BY SMTT(30), <2>0, <2>2, <2>a DEF Cancelled, GateOrder, JobType
    <2>3. CASE BeginStep(j)
      <3> DEFINE v == IF job[j].open /\ Crossing(j)
                     THEN [Unslotted(j) EXCEPT !.open = FALSE] ELSE job[j]
                 w == [v EXCEPT !.group = Step(j).group + 1, !.pc = Entry(j, v.open)]
      <3>1. job'[j] = w
        BY <2>0, <2>3 DEF BeginStep
      <3>2. /\ v.open => job[j].open /\ ~Crossing(j) /\ v.slot # "none"
            /\ ~v.open => v.slot = "none"
            /\ v.spec = job[j].spec /\ v.at = job[j].at
        BY <2>0, <2>3, <2>a DEF BeginStep, GateOrder, Unslotted, JobType
      <3>3. v \in JobType
        BY Zenon, <2>0 DEF Unslotted, JobType
      <3> HIDE DEF v
      <3>4. /\ w.open = v.open /\ w.slot = v.slot /\ w.pc = Entry(j, v.open)
            /\ w.spec = job[j].spec /\ w.at = job[j].at
            /\ v.open \in BOOLEAN
        BY <3>2, <3>3 DEF JobType
      <3>5. v.open => Step(j).class = "txn"
        BY <3>2 DEF Crossing, NeedsOwn
      <3> HIDE DEF w
      <3> QED BY Zenon, <3>1, <3>2, <3>4, <3>5 DEF GateOrder, Entry, Step, Steps
    <2>4. CASE NextBatch(j)
      BY SMTT(30), <2>0, <2>4, <2>a DEF NextBatch, GateOrder, JobType
    <2>5. CASE Enter(j)
      <3>1. PICK w : /\ TakeSlot(j, w)
                     /\ Step(j).class = "txn" => w = OpenGroup(j)
                     /\ Step(j).class = "walk" => w = OpenBatch(j)
                     /\ Step(j).class \notin {"txn", "walk"} => w = [job[j] EXCEPT !.pc = "run"]
        BY <2>5 DEF Enter
      <3>a. LET v == [job[j] EXCEPT !.pc = "run"]
            IN  v \in JobType /\ v.pc = "run" /\ v.at = job[j].at /\ v.spec = job[j].spec
        BY <2>0 DEF JobType, Positions
      <3>2. /\ w.pc \in {"run", "walk"}
            /\ w.pc = "walk" => ~w.open /\ w.stop
            /\ w.at = job[j].at /\ w.spec = job[j].spec
            /\ Step(j).class = "txn" => w.open
            /\ Step(j).class = "alone" => ~w.open
            /\ w \in JobType /\ w.stop = job[j].stop
        BY <2>0, <2>5, <2>a, <3>1, <3>a, OpenRecords DEF Enter, GateOrder, JobType
      <3>3. /\ job'[j].pc = w.pc /\ job'[j].open = w.open /\ job'[j].stop = w.stop
            /\ job'[j].at = w.at /\ job'[j].spec = w.spec
            /\ job'[j].slot # "none" \/ job[j].stop
        BY SMTT(30), <2>0, <3>1, <3>2 DEF TakeSlot, JobType
      <3> QED BY Zenon, <3>2, <3>3 DEF GateOrder, Step, Steps
    <2>6. CASE RunInTransaction(j)
      BY ZenonT(30), <2>0, <2>6, <2>a DEF RunInTransaction, GateOrder, JobType, Step, Steps
    <2>7. CASE RunAlone(j)
      <3>1. /\ job'[j].pc = "top" /\ job'[j].slot = "none"
            /\ job'[j].open = job[j].open
        BY <2>0, <2>7 DEF RunAlone, Unslotted, JobType
      <3>2. ~job[j].open
        BY Zenon, <2>7, <2>a DEF RunAlone, GateOrder, Step, Steps
      <3> QED BY <3>1, <3>2 DEF GateOrder
    <2>8. CASE CommitBatch(j)
      BY Zenon, <2>0, <2>8, <2>a DEF CommitBatch, Unslotted, GateOrder, JobType
    <2>9. CASE LockTimesOut(j)
      <3> DEFINE v == [Unslotted(j) EXCEPT !.open = FALSE]
      <3>1. v \in JobType /\ ~v.open /\ v.slot = "none"
        BY Zenon, <2>0 DEF Unslotted, JobType
      <3>2. job'[j] \in AfterTimeout(j, v)
        BY <2>0, <2>9 DEF LockTimesOut
      <3> HIDE DEF v
      <3>3. /\ job'[j].pc \in {"finish", "top"}
            /\ job'[j].slot = "none" /\ ~job'[j].open
        BY ZenonT(30), <3>1, <3>2 DEF AfterTimeout, JobType
      <3> QED BY <3>3 DEF GateOrder
    <2>10. CASE Throws(j) \/ Succeed(j)
      <3>1. job'[j].pc = "finish" /\ ~job'[j].open
        <4>1. CASE Throws(j)
          BY <2>0, <4>1 DEF Throws, Unslotted, JobType
        <4>2. CASE Succeed(j)
          BY SMTT(30), <2>0, <4>2 DEF Succeed, Unslotted, JobType
        <4> QED BY <2>10, <4>1, <4>2
      <3> QED BY <3>1 DEF GateOrder
    <2>11. CASE FinishJob(j) \/ Publish(j)
      <3>1. ~job[j].open
        BY Zenon, <2>11, <2>a DEF FinishJob, Publish, GateOrder
      <3>2. job'[j].pc \in {"publish", "leave"} /\ job'[j].open = job[j].open
        <4>1. CASE FinishJob(j)
          BY <2>0, <4>1 DEF FinishJob, JobType
        <4>2. CASE Publish(j)
          BY <2>0, <4>2 DEF Publish, JobType
        <4> QED BY Zenon, <2>11, <4>1, <4>2
      <3> QED BY Zenon, <3>1, <3>2 DEF GateOrder
    <2>12. CASE Leave(j)
      BY Zenon, <2>0, <2>12, <2>a DEF Leave, Unslotted, GateOrder, JobType
    <2> QED
      BY SMTT(30), <1>2, <2>1, <2>2, <2>3, <2>4, <2>5, <2>6, <2>7, <2>8, <2>9, <2>10, <2>11,
         <2>12 DEF Worker
  <1>3. ASSUME NEW j \in Jobs, CancelJob(j) PROVE GateInv'
    <2>1. \A k \in Jobs : /\ job'[k].pc = job[k].pc /\ job'[k].open = job[k].open
                          /\ job'[k].slot = job[k].slot /\ job'[k].spec = job[k].spec
                          /\ job'[k].at = job[k].at /\ (job[k].stop => job'[k].stop)
      BY SMTT(30), <1>3 DEF CancelJob, Shapes, JobType
    <2> SUFFICES ASSUME NEW k \in Jobs PROVE GateOrder(job'[k])
      BY Zenon DEF GateInv
    <2>2. GateOrder(job[k])
      BY Zenon DEF GateInv
    <2> QED BY Zenon, <2>1, <2>2 DEF GateOrder
  <1>4. CASE Create
    <2>1. \A k \in Jobs : /\ k # created + 1 => job'[k] = job[k]
                          /\ k = created + 1 => /\ job'[k].pc = job[k].pc
                                                /\ job'[k].open = job[k].open
                                                /\ job'[k].slot = job[k].slot
      BY SMTT(30), <1>4 DEF Create, Shapes, JobType
    <2>2. \A k \in Jobs : k = created + 1 => job[k].pc = "absent"
      BY SMTT(30) DEF Shapes, Jobs
    <2> SUFFICES ASSUME NEW k \in Jobs PROVE GateOrder(job'[k])
      BY Zenon DEF GateInv
    <2>3. GateOrder(job[k])
      BY Zenon DEF GateInv
    <2>4. CASE k = created + 1
      BY Zenon, <2>1, <2>2, <2>3, <2>4 DEF GateOrder
    <2>5. CASE k # created + 1
      BY Zenon, <2>1, <2>3, <2>5
    <2> QED BY Zenon, <2>4, <2>5
  <1>5. CASE RecordFails \/ LocksTaken \/ OpenJobThrows
    <2>1. \A k \in Jobs : /\ job'[k].pc = job[k].pc /\ job'[k].open = job[k].open
                          /\ job'[k].slot = job[k].slot /\ job'[k].spec = job[k].spec
                          /\ job'[k].at = job[k].at /\ job'[k].stop = job[k].stop
      <3>1. CASE RecordFails \/ LocksTaken
        <4>1. job' = [job EXCEPT ![created].state = "failed"]
          BY <3>1 DEF RecordFails, LocksTaken
        <4> QED BY <4>1 DEF Shapes, JobType
      <3>2. CASE OpenJobThrows
        BY SMTT(30), <3>2 DEF OpenJobThrows, Shapes, JobType
      <3> QED BY <1>5, <3>1, <3>2
    <2> SUFFICES ASSUME NEW k \in Jobs PROVE GateOrder(job'[k])
      BY Zenon DEF GateInv
    <2>2. GateOrder(job[k])
      BY Zenon DEF GateInv
    <2> QED BY Zenon, <2>1, <2>2 DEF GateOrder
  <1>6. CASE Launch
    <2>1. \A k \in Jobs : /\ k # created => job'[k] = job[k]
                          /\ k = created => /\ job'[k].pc = "connect"
                                            /\ job'[k].open = job[k].open
                                            /\ job'[k].slot = job[k].slot
      BY <1>6 DEF Launch, Shapes, JobType
    <2>2. created \in Jobs => job[created].pc = "absent"
      BY <1>6 DEF Launch, Shapes
    <2> SUFFICES ASSUME NEW k \in Jobs PROVE GateOrder(job'[k])
      BY Zenon DEF GateInv
    <2>3. GateOrder(job[k])
      BY Zenon DEF GateInv
    <2>4. CASE k = created
      BY Zenon, <2>1, <2>2, <2>3, <2>4 DEF GateOrder
    <2>5. CASE k # created
      BY Zenon, <2>1, <2>3, <2>5
    <2> QED BY Zenon, <2>4, <2>5
  <1>7. CASE Call \/ Reconcile \/ ReconcileFails \/ Refuse \/ TakeLocks \/ OpenRow
    BY <1>1, <1>7 DEF Call, Reconcile, ReconcileFails, Refuse, TakeLocks, OpenRow
  <1>8. ASSUME NEW j \in Jobs, LoseSession(j) PROVE GateInv'
    BY <1>1, <1>8 DEF LoseSession
  <1>9. CASE UNCHANGED vars
    BY Zenon, <1>1, <1>9 DEF vars
  <1> QED
    BY <1>2, <1>3, <1>4, <1>5, <1>6, <1>7, <1>8, <1>9 DEF Next, StartMigration

-----------------------------------------------------------------------------
(* A worker's slot *)

(* What a worker's step does to its slot, and to the count: nothing, gives  *)
(* the slot back, or takes one at the gate.                                 *)
LEMMA SlotMoves ==
    ASSUME Shapes, GateInv, NEW j \in Jobs, Worker(j)
    PROVE  \/ job'[j].slot = job[j].slot /\ inFlight' = inFlight
           \/ job'[j].slot = "none" /\ inFlight' = Released(j)
           \/ /\ job[j].slot = "none" /\ job'[j].slot = "free"
              /\ inFlight' = inFlight
           \/ /\ job[j].slot = "none" /\ job'[j].slot = "held"
              /\ inFlight < limit /\ inFlight' = inFlight + 1
  <1>0. job \in [Jobs -> JobType] /\ job[j] \in JobType
    BY DEF Shapes
  <1>a. Unslotted(j) \in JobType /\ Unslotted(j).slot = "none"
    BY <1>0 DEF JobType, Unslotted
  <1>1. CASE Connect(j) \/ Cancelled(j) \/ NextBatch(j) \/ RunInTransaction(j)
    <2>1. job'[j].slot = job[j].slot
      BY <1>0, <1>1 DEF Connect, Cancelled, NextBatch, RunInTransaction, JobType
    <2> QED BY <1>1, <2>1 DEF Connect, Cancelled, NextBatch, RunInTransaction
  <1>2. CASE FinishJob(j) \/ Publish(j)
    <2>1. job'[j].slot = job[j].slot
      BY <1>0, <1>2 DEF FinishJob, Publish, JobType
    <2> QED BY <1>2, <2>1 DEF FinishJob, Publish, gate
  <1>3. CASE BeginStep(j)
    <2> DEFINE c == job[j].open /\ Crossing(j)
               v == IF c THEN [Unslotted(j) EXCEPT !.open = FALSE] ELSE job[j]
               w == [v EXCEPT !.group = Step(j).group + 1, !.pc = Entry(j, v.open)]
    <2>1. job'[j] = w /\ inFlight' = IF c THEN Released(j) ELSE inFlight
      BY <1>0, <1>3 DEF BeginStep
    <2>2. /\ c => v.slot = "none"
          /\ ~c => v.slot = job[j].slot
          /\ v \in JobType
      BY ZenonT(30), <1>0, <1>a DEF JobType
    <2> HIDE DEF v
    <2>3. w.slot = v.slot
      BY <2>2 DEF JobType
    <2> QED BY <2>1, <2>2, <2>3
  <1>4. CASE Enter(j)
    <2>1. PICK w \in {OpenGroup(j), OpenBatch(j), [job[j] EXCEPT !.pc = "run"]} :
             TakeSlot(j, w)
      BY <1>4 DEF Enter
    <2>2. job[j].slot = "none"
      BY <1>4 DEF Enter, GateInv, GateOrder
    <2>3. [job[j] EXCEPT !.pc = "run"] \in JobType
      BY <1>0 DEF JobType, Positions
    <2>4. w \in JobType /\ w.slot = job[j].slot
      <3>1. w \in JobType
        BY <1>0, <2>3, OpenRecords
      <3>2. OpenGroup(j).slot = job[j].slot /\ OpenBatch(j).slot = job[j].slot
        BY <1>0 DEF OpenGroup, OpenBatch, JobType
      <3> QED BY <1>0, <3>1, <3>2 DEF JobType
    <2>5. CASE limit = 0 /\ job' = [job EXCEPT ![j] = [w EXCEPT !.slot = "free"]] /\ UNCHANGED inFlight
      BY <1>0, <2>2, <2>4, <2>5 DEF JobType
    <2>6. CASE /\ inFlight < limit /\ inFlight' = inFlight + 1
               /\ job' = [job EXCEPT ![j] = [w EXCEPT !.slot = "held"]]
      BY <1>0, <2>2, <2>4, <2>6 DEF JobType
    <2>7. CASE job' = [job EXCEPT ![j] = w] /\ UNCHANGED inFlight
      BY <1>0, <2>4, <2>7
    <2> QED BY <2>1, <2>5, <2>6, <2>7 DEF TakeSlot
  <1>5. CASE RunAlone(j) \/ Throws(j) \/ Succeed(j) \/ Leave(j)
    <2>1. job'[j].slot = "none"
      <3>1. CASE RunAlone(j)  BY <1>0, <1>a, <3>1 DEF RunAlone, JobType
      <3>2. CASE Throws(j)  BY <1>0, <1>a, <3>2 DEF Throws, JobType
      <3>3. CASE Succeed(j)  BY <1>0, <1>a, <3>3 DEF Succeed, JobType
      <3>4. CASE Leave(j)  BY <1>0, <1>a, <3>4 DEF Leave, JobType
      <3> QED BY <1>5, <3>1, <3>2, <3>3, <3>4
    <2> QED BY <1>5, <2>1 DEF RunAlone, Throws, Succeed, Leave
  <1>6. CASE CommitBatch(j)
    <2> DEFINE v == [Unslotted(j) EXCEPT !.open = FALSE]
               last == [v EXCEPT !.batch = 0, !.at = @ + 1, !.pc = "top"]
               more == [v EXCEPT !.batch = @ + 1, !.pc = "walk"]
    <2>1. v \in JobType /\ v.slot = "none"
      BY Zenon, <1>a DEF JobType
    <2>2. job'[j] \in {last, more}
      BY <1>0, <1>6 DEF CommitBatch
    <2> HIDE DEF v
    <2>3. last.slot = "none" /\ more.slot = "none"
      BY <2>1 DEF JobType
    <2> QED BY Zenon, <1>6, <2>2, <2>3 DEF CommitBatch
  <1>7. CASE LockTimesOut(j)
    <2> DEFINE v == [Unslotted(j) EXCEPT !.open = FALSE]
    <2>1. v \in JobType /\ v.slot = "none"
      BY Zenon, <1>a DEF JobType
    <2>2. job'[j] \in AfterTimeout(j, v) /\ inFlight' = Released(j)
      BY <1>0, <1>7 DEF LockTimesOut
    <2> HIDE DEF v
    <2>3. job'[j].slot = "none"
      BY ZenonT(30), <2>1, <2>2 DEF AfterTimeout, JobType
    <2> QED BY <2>2, <2>3
  <1> QED BY <1>1, <1>2, <1>3, <1>4, <1>5, <1>6, <1>7 DEF Worker

-----------------------------------------------------------------------------
(* The life of a job *)

(* What a worker's step makes of its job's state: it publishes an end it    *)
(* has, and leaves after it.                                                *)
LEMMA LifeMoves ==
    ASSUME Shapes, NEW j \in Jobs, Life(j), Worker(j)
    PROVE  /\ job'[j].state # "none"
           /\ job'[j].pc \in {"finish", "publish"} => job'[j].ending \in Terminal
           /\ job'[j].pc \in {"leave", "ended"} => job'[j].state \in Terminal
  <1>0. job \in [Jobs -> JobType] /\ job[j] \in JobType
    BY DEF Shapes
  <1>a. job[j].state # "none"
    BY WorkerRecord DEF Life, Shapes
  <1>b. Unslotted(j) \in JobType /\ Unslotted(j).state = job[j].state
    BY <1>0 DEF JobType, Unslotted
  <1>1. CASE Connect(j)
    BY <1>0, <1>1 DEF Connect, JobType
  <1>2. CASE Cancelled(j)
    BY <1>0, <1>a, <1>2 DEF Cancelled, JobType, Terminal
  <1>3. CASE BeginStep(j)
    <2> DEFINE c == job[j].open /\ Crossing(j)
               v == IF c THEN [Unslotted(j) EXCEPT !.open = FALSE] ELSE job[j]
               w == [v EXCEPT !.group = Step(j).group + 1, !.pc = Entry(j, v.open)]
    <2>1. job'[j] = w
      BY <1>0, <1>3 DEF BeginStep
    <2>2. v \in JobType /\ v.state = job[j].state
      BY ZenonT(30), <1>0, <1>b DEF JobType
    <2> HIDE DEF v
    <2>3. w.state = job[j].state /\ w.pc \in {"run", "walk", "slot"}
      BY <2>2 DEF JobType, Entry
    <2> QED BY <1>a, <2>1, <2>3
  <1>4. CASE NextBatch(j) \/ RunInTransaction(j)
    BY <1>0, <1>a, <1>4 DEF NextBatch, RunInTransaction, JobType
  <1>5. CASE Enter(j)
    <2>1. PICK w \in {OpenGroup(j), OpenBatch(j), [job[j] EXCEPT !.pc = "run"]} :
             TakeSlot(j, w)
      BY <1>5 DEF Enter
    <2>2. [job[j] EXCEPT !.pc = "run"] \in JobType
      BY <1>0 DEF JobType, Positions
    <2>3. w \in JobType /\ w.state = job[j].state /\ w.pc \in {"run", "walk"}
      <3>1. w \in JobType
        BY <1>0, <2>2, OpenRecords
      <3>2. OpenGroup(j).state = job[j].state /\ OpenBatch(j).state = job[j].state
        BY <1>0 DEF OpenGroup, OpenBatch, JobType
      <3> QED BY <1>0, <3>1, <3>2, OpenRecords DEF JobType
    <2>4. job'[j].state = w.state /\ job'[j].pc = w.pc
      BY <1>0, <2>1, <2>3 DEF TakeSlot, JobType
    <2> QED BY <1>a, <2>3, <2>4
  <1>6. CASE RunAlone(j)
    BY <1>0, <1>a, <1>b, <1>6 DEF RunAlone, JobType
  <1>7. CASE CommitBatch(j)
    <2> DEFINE v == [Unslotted(j) EXCEPT !.open = FALSE]
               last == [v EXCEPT !.batch = 0, !.at = @ + 1, !.pc = "top"]
               more == [v EXCEPT !.batch = @ + 1, !.pc = "walk"]
    <2>1. v \in JobType /\ v.state = job[j].state
      BY Zenon, <1>b DEF JobType
    <2>2. job'[j] \in {last, more}
      BY <1>0, <1>7 DEF CommitBatch
    <2> HIDE DEF v
    <2>3. /\ last.state = job[j].state /\ last.pc = "top"
          /\ more.state = job[j].state /\ more.pc = "walk"
      BY <2>1 DEF JobType
    <2> QED BY Zenon, <1>a, <2>2, <2>3
  <1>8. CASE LockTimesOut(j)
    <2> DEFINE v == [Unslotted(j) EXCEPT !.open = FALSE]
    <2>1. v \in JobType /\ v.state = job[j].state
      BY Zenon, <1>b DEF JobType
    <2>2. job'[j] \in AfterTimeout(j, v)
      BY <1>0, <1>8 DEF LockTimesOut
    <2> HIDE DEF v
    <2>3. /\ job'[j].state = job[j].state
          /\ \/ job'[j].pc = "top"
             \/ job'[j].pc = "finish" /\ job'[j].ending \in {"cancelled", "failed"}
      BY ZenonT(30), <2>1, <2>2 DEF AfterTimeout, JobType
    <2> QED BY <1>a, <2>3 DEF Terminal
  <1>9. CASE Throws(j)
    BY <1>0, <1>a, <1>b, <1>9 DEF Throws, JobType, Terminal
  <1>10. CASE Succeed(j)
    BY <1>0, <1>a, <1>b, <1>10 DEF Succeed, JobType, Terminal
  <1>11. CASE FinishJob(j)
    BY <1>0, <1>a, <1>11 DEF FinishJob, JobType, Life
  <1>12. CASE Publish(j)
    BY <1>0, <1>12 DEF Publish, JobType, Life, Terminal
  <1>13. CASE Leave(j)
    BY SMTT(30), <1>0, <1>a, <1>b, <1>13 DEF Leave, JobType, Life
  <1> QED
    BY Zenon, <1>1, <1>2, <1>3, <1>4, <1>5, <1>6, <1>7, <1>8, <1>9, <1>10, <1>11, <1>12, <1>13
       DEF Worker

LEMMA LifeInit == Init => LifeInv
  <1> SUFFICES ASSUME Init PROVE LifeInv
    OBVIOUS
  <1>1. PICK cl \in Clients : calls = cl.calls
    BY DEF Init
  <1>2. Len(calls) <= MaxCalls /\ Len(calls) \in Nat
    BY <1>1, JobsAssumption
  <1>3. created = 0 /\ caller.pc = "idle"
    BY DEF Init, Idle
  <1>4. \A j \in Jobs : job[j].state = "none" /\ job[j].pc = "absent" /\ j > 0
    BY DEF Init, NoJob, Jobs
  <1>5. \A j \in Jobs : Life(j)
    <2>1. \A j \in Jobs : j > created /\ ~(j <= created)
      BY <1>3, <1>4 DEF Jobs
    <2> QED BY <1>4, <2>1 DEF Life
  <1> QED BY <1>2, <1>3, <1>5 DEF LifeInv, Pending

LEMMA LifeStep == Shapes /\ LifeInv /\ [Next]_vars => LifeInv'
  <1> SUFFICES ASSUME Shapes, LifeInv, [Next]_vars PROVE LifeInv'
    OBVIOUS
  <1>a. created \in Nat /\ Jobs \subseteq Nat /\ Len(calls) \in Nat /\ MaxCalls \in Nat
    BY JobsAssumption DEF Shapes, Jobs
  <1>1. ASSUME UNCHANGED <<calls, caller, created>>, \A k \in Jobs : Life(k)'
        PROVE  LifeInv'
    BY <1>1 DEF LifeInv, Pending
  <1>2. ASSUME NEW j \in Jobs, Worker(j) PROVE LifeInv'
    <2>1. UNCHANGED <<calls, caller, created>>
      BY <1>2 DEF Worker, outside, client, Connect, Cancelled, BeginStep, NextBatch, Enter,
         RunInTransaction, RunAlone, CommitBatch, LockTimesOut, Throws, Succeed, FinishJob,
         Publish, Leave
    <2>2. Life(j) /\ job[j].pc # "absent" /\ job'[j].pc # "absent"
      BY <1>2, WorkerRecord DEF LifeInv, Shapes
    <2>3. ~(j > created)
      BY SMTT(30), <2>2 DEF Shapes
    <2>4. Life(j)'
      BY <1>2, <2>1, <2>2, <2>3, LifeMoves DEF Life
    <2>5. ASSUME NEW k \in Jobs, k # j PROVE Life(k)'
      <3>1. job'[k] = job[k]
        BY SMTT(30), <1>2, <2>5, WorkerRecord DEF Shapes
      <3> QED BY <2>1, <3>1 DEF LifeInv, Life, BeingStarted
    <2> QED BY ZenonT(30), <1>1, <2>1, <2>4, <2>5
  <1>3. ASSUME NEW j \in Jobs, CancelJob(j) PROVE LifeInv'
    <2>1. \A k \in Jobs : /\ job'[k].state = job[k].state /\ job'[k].pc = job[k].pc
                          /\ job'[k].ending = job[k].ending /\ job'[k].threw = job[k].threw
      BY <1>3 DEF CancelJob, Shapes, JobType
    <2>2. UNCHANGED <<calls, caller, created>>
      BY SMTT(30), <1>3 DEF CancelJob
    <2> QED BY <1>1, <2>1, <2>2 DEF LifeInv, Life, BeingStarted
  <1>4. ASSUME NEW j \in Jobs, LoseSession(j) PROVE LifeInv'
    BY Zenon, <1>1, <1>4 DEF LoseSession, client, LifeInv, Life, BeingStarted
  <1>5. CASE UNCHANGED vars
    BY <1>1, <1>5 DEF vars, client, LifeInv, Life, BeingStarted
  <1>6. CASE Call
    <2>1. /\ calls # << >> /\ calls' = Tail(calls) /\ caller.pc = "idle"
          /\ caller'.pc = "reconcile" /\ caller'.conn = Head(calls).conn
          /\ UNCHANGED <<created, job>>
      BY <1>6 DEF Call
    <2>2. Len(calls') = Len(calls) - 1 /\ caller'.conn \in DOMAIN Connections
      <3>1. calls \in Seq(CallType) /\ Head(calls) \in CallType
        BY <2>1 DEF Shapes
      <3>2. Len(calls') = Len(calls) - 1
        BY <2>1, <3>1
      <3> QED BY <2>1, <3>1, <3>2 DEF CallType
    <2>3. created' + Pending' <= MaxCalls
      BY <1>a, <2>1, <2>2 DEF LifeInv, Pending
    <2>4. \A k \in Jobs : Life(k)'
      BY <2>1 DEF LifeInv, Life, BeingStarted
    <2> QED BY <2>1, <2>2, <2>3, <2>4 DEF LifeInv
  <1>7. CASE Reconcile \/ ReconcileFails
    <2>1. /\ caller.pc = "reconcile" /\ caller'.pc = "limit" /\ caller'.conn = caller.conn
          /\ UNCHANGED <<calls, created, job>>
      BY <1>7 DEF Reconcile, ReconcileFails, client, Shapes
    <2>2. \A k \in Jobs : Life(k)'
      BY <2>1 DEF LifeInv, Life, BeingStarted
    <2> QED BY <2>1, <2>2 DEF LifeInv, Pending
  <1>8. CASE Refuse
    <2>1. /\ caller.pc = "limit" /\ caller'.pc = "idle"
          /\ UNCHANGED <<calls, created, job>>
      BY Zenon, <1>8 DEF Refuse, client, Idle
    <2>2. \A k \in Jobs : Life(k)'
      BY <2>1 DEF LifeInv, Life, BeingStarted
    <2> QED BY <1>a, <2>1, <2>2 DEF LifeInv, Pending
  <1>9. CASE Create
    <2>1. /\ caller.pc = "limit" /\ caller'.pc = "record" /\ caller'.conn = caller.conn
          /\ created' = created + 1 /\ UNCHANGED calls
      BY <1>9 DEF Create, client, Shapes
    <2>2. created' \in Jobs /\ created' + Pending' <= MaxCalls
      BY <1>a, <2>1 DEF LifeInv, Pending, Jobs
    <2>3. \A k \in Jobs : /\ k # created + 1 => job'[k] = job[k]
                          /\ job'[k].pc = job[k].pc /\ job'[k].ending = job[k].ending
                          /\ k = created + 1 => job'[k].state = "planned"
      BY SMTT(30), <1>9 DEF Create, Shapes, JobType
    <2>4. ASSUME NEW k \in Jobs PROVE Life(k)'
      <3>1. CASE k = created + 1
        <4>1. job[k].pc = "absent" /\ BeingStarted(k)'
          BY <1>a, <2>1, <3>1 DEF Shapes, BeingStarted
        <4>2. ~(k > created')
          BY <1>a, <2>1, <3>1
        <4> QED BY <2>3, <3>1, <4>1, <4>2 DEF Life
      <3>2. CASE k # created + 1
        <4>1. Life(k) /\ ~BeingStarted(k) /\ job'[k] = job[k]
          BY <2>1, <2>3, <3>2 DEF LifeInv, BeingStarted
        <4>2. (k > created') = (k > created) /\ (k <= created') = (k <= created)
          BY <1>a, <2>1, <3>2
        <4> QED BY <4>1, <4>2 DEF Life
      <3> QED BY <3>1, <3>2
    <2> QED BY <2>1, <2>2, <2>4 DEF LifeInv
  <1>10. CASE RecordFails \/ LocksTaken
    <2>1. /\ caller.pc = "record" /\ caller'.pc = "idle" /\ UNCHANGED <<calls, created>>
          /\ job' = [job EXCEPT ![created].state = "failed"]
      BY <1>10 DEF RecordFails, LocksTaken, client, Idle
    <2>2. \A k \in Jobs : /\ k # created => job'[k] = job[k]
                          /\ job'[k].pc = job[k].pc /\ job'[k].ending = job[k].ending
                          /\ k = created => job'[k].state = "failed"
      BY <2>1 DEF Shapes, JobType
    <2>3. ASSUME NEW k \in Jobs PROVE Life(k)'
      <3>1. CASE k = created
        <4>1. ~(k > created') /\ job[k].pc = "absent"
          BY <1>a, <2>1, <3>1 DEF Shapes
        <4> QED BY <2>2, <3>1, <4>1 DEF Life, Terminal
      <3>2. CASE k # created
        BY <2>1, <2>2, <3>2 DEF LifeInv, Life, BeingStarted
      <3> QED BY <3>1, <3>2
    <2> QED BY <2>1, <2>3 DEF LifeInv, Pending
  <1>11. CASE TakeLocks \/ OpenRow
    <2>1. /\ caller.pc \in {"record", "row"} /\ caller'.pc \in {"row", "launch"}
          /\ caller'.conn = caller.conn /\ UNCHANGED <<calls, created, job>>
      BY <1>11 DEF TakeLocks, OpenRow, client, Shapes
    <2>2. \A k \in Jobs : Life(k)'
      BY <2>1 DEF LifeInv, Life, BeingStarted
    <2> QED BY <2>1, <2>2 DEF LifeInv, Pending
  <1>12. CASE OpenJobThrows
    <2>1. /\ caller.pc \in {"record", "row"} /\ caller'.pc = "idle" /\ UNCHANGED <<calls, created>>
          /\ job' = [job EXCEPT ![created].threw = TRUE]
      BY <1>12 DEF OpenJobThrows, client, Idle
    <2>2. \A k \in Jobs : /\ k # created => job'[k] = job[k]
                          /\ job'[k].pc = job[k].pc /\ job'[k].ending = job[k].ending
                          /\ job'[k].state = job[k].state
                          /\ k = created => job'[k].threw
      BY <2>1 DEF Shapes, JobType
    <2>3. ASSUME NEW k \in Jobs PROVE Life(k)'
      <3>1. CASE k = created
        BY <2>1, <2>2, <3>1 DEF LifeInv, Life
      <3>2. CASE k # created
        BY <2>1, <2>2, <3>2 DEF LifeInv, Life, BeingStarted
      <3> QED BY <3>1, <3>2
    <2> QED BY <2>1, <2>3 DEF LifeInv, Pending
  <1>13. CASE Launch
    <2>1. /\ caller.pc = "launch" /\ caller'.pc = "idle" /\ UNCHANGED <<calls, created>>
          /\ job' = [job EXCEPT ![created].pc = "connect"]
      BY <1>13 DEF Launch, client, Idle
    <2>2. \A k \in Jobs : /\ k # created => job'[k] = job[k]
                          /\ job'[k].state = job[k].state
                          /\ k = created => job'[k].pc = "connect"
      BY <2>1 DEF Shapes, JobType
    <2>3. ASSUME NEW k \in Jobs PROVE Life(k)'
      <3>1. CASE k = created
        BY <2>1, <2>2, <3>1 DEF LifeInv, Life
      <3>2. CASE k # created
        BY Zenon, <2>1, <2>2, <3>2 DEF LifeInv, Life, BeingStarted
      <3> QED BY <3>1, <3>2
    <2> QED BY <2>1, <2>3 DEF LifeInv, Pending
  <1> QED
    BY Zenon, <1>2, <1>3, <1>4, <1>5, <1>6, <1>7, <1>8, <1>9, <1>10, <1>11, <1>12, <1>13
       DEF Next, StartMigration

-----------------------------------------------------------------------------
(* The place in the plan *)

(* A worker's step keeps its place: forward by one from a step it is at, or *)
(* back to the first step of the group it is in, one try later.             *)
LEMMA PlaceMoves ==
    ASSUME Shapes, PlaceInv, NEW j \in Jobs, Worker(j)
    PROVE  Place(job'[j]) /\ job'[j].tries \in 1..MaxTries
  <1>0. /\ job \in [Jobs -> JobType] /\ job[j] \in JobType
        /\ MaxTries \in Nat /\ 1 \in 1..MaxTries
    BY SMTT(30), JobsAssumption DEF Shapes
  <1> DEFINE n == Len(Steps(j))
  <1>a. n \in Nat /\ n = Len(Specs[job[j].spec].steps)
    <2>1. job[j].spec \in DOMAIN Specs
      BY Zenon, WorkerRecord DEF Shapes
    <2>2. Specs[job[j].spec].steps \in Seq(StepType)
      BY Zenon, <2>1, JobsAssumption
    <2> QED BY <2>2 DEF Steps
  <1>b. /\ job[j].at <= n + 1 /\ job[j].first <= n + 1
        /\ job[j].pc \in {"walk", "slot", "run"} => job[j].at <= n
        /\ job[j].tries \in 1..MaxTries /\ job[j].at \in Nat /\ job[j].first \in Nat
    BY Zenon, <1>0, <1>a, WorkerRecord DEF PlaceInv, Place, JobType, Positive
  <1>c. ASSUME NEW w \in JobType, w.spec = job[j].spec, w.at <= n + 1, w.first <= n + 1,
               w.pc \in {"walk", "slot", "run"} => w.at <= n,
               w.tries \in 1..MaxTries, job'[j] = w
        PROVE  Place(job'[j]) /\ job'[j].tries \in 1..MaxTries
    BY Zenon, <1>a, <1>c DEF Place
  <1>d. PICK w \in JobType : /\ w.spec = job[j].spec /\ w.pc # "absent"
                             /\ job' = [job EXCEPT ![j] = w]
    BY WorkerRecord
  <1>e. job'[j] = w
    BY <1>0, <1>d
  <1>f. ASSUME w.at = job[j].at, w.first = job[j].first, w.tries = job[j].tries,
               w.pc \in {"walk", "slot", "run"} => w.at <= n
        PROVE  Place(job'[j]) /\ job'[j].tries \in 1..MaxTries
    BY <1>b, <1>c, <1>d, <1>e, <1>f
  <1>g. /\ Unslotted(j) \in JobType /\ Unslotted(j).at = job[j].at
        /\ Unslotted(j).first = job[j].first /\ Unslotted(j).tries = job[j].tries
    BY <1>0 DEF JobType, Unslotted
  <1> HIDE DEF n
  <1>1. CASE Connect(j)
    BY <1>0, <1>e, <1>f, <1>1 DEF Connect, JobType
  <1>2. CASE Cancelled(j)
    BY <1>0, <1>e, <1>f, <1>2 DEF Cancelled, JobType
  <1>3. CASE BeginStep(j)
    <2> DEFINE c == job[j].open /\ Crossing(j)
               v == IF c THEN [Unslotted(j) EXCEPT !.open = FALSE] ELSE job[j]
               u == [v EXCEPT !.group = Step(j).group + 1, !.pc = Entry(j, v.open)]
    <2>1. w = u /\ job[j].at <= n
      BY <1>0, <1>e, <1>3 DEF BeginStep, n
    <2>2. v \in JobType /\ v.at = job[j].at /\ v.first = job[j].first /\ v.tries = job[j].tries
      <3>1. CASE c
        <4>1. v = [Unslotted(j) EXCEPT !.open = FALSE]
          BY <3>1
        <4> HIDE DEF v
        <4> QED BY Zenon, <1>g, <4>1 DEF JobType
      <3>2. CASE ~c
        BY <1>0, <3>2
      <3> QED BY <3>1, <3>2
    <2> HIDE DEF v
    <2>3. u.at = job[j].at /\ u.first = job[j].first /\ u.tries = job[j].tries
      BY <2>2 DEF JobType
    <2> QED BY <1>f, <2>1, <2>3
  <1>4. CASE NextBatch(j)
    BY <1>0, <1>b, <1>e, <1>f, <1>4 DEF NextBatch, JobType
  <1>5. CASE Enter(j)
    <2>1. PICK u \in {OpenGroup(j), OpenBatch(j), [job[j] EXCEPT !.pc = "run"]} :
             TakeSlot(j, u)
      BY <1>5 DEF Enter
    <2>2. job[j].pc = "slot" /\ job[j].at <= n
      BY <1>b, <1>5 DEF Enter
    <2>3. u \in JobType
      BY <1>0, <2>1, OpenRecords DEF JobType, Positions
    <2>4. /\ u.at = job[j].at /\ u.first \in {job[j].first, job[j].at}
          /\ u.tries \in {job[j].tries, 1}
      BY ZenonT(30), <1>0, <2>1 DEF OpenGroup, OpenBatch, JobType
    <2>5. w.at = u.at /\ w.first = u.first /\ w.tries = u.tries
      BY <1>0, <1>e, <2>1, <2>3 DEF TakeSlot, JobType
    <2> QED BY <1>0, <1>b, <1>c, <1>d, <1>e, <2>2, <2>4, <2>5
  <1>6. CASE RunInTransaction(j)
    <2>1. /\ w.at = job[j].at + 1 /\ w.pc = "top" /\ w.first = job[j].first
          /\ w.tries = job[j].tries
      BY <1>0, <1>e, <1>6 DEF RunInTransaction, JobType
    <2>2. job[j].at <= n
      BY <1>b, <1>6 DEF RunInTransaction
    <2>3. w.at <= n + 1
      BY <1>a, <1>b, <2>1, <2>2
    <2> QED BY <1>b, <1>c, <1>d, <1>e, <2>1, <2>3
  <1>7. CASE RunAlone(j)
    <2>1. w = [Unslotted(j) EXCEPT !.at = @ + 1, !.pc = "top"] /\ job[j].at <= n
      BY <1>0, <1>b, <1>e, <1>7 DEF RunAlone
    <2>2. /\ w.at = job[j].at + 1 /\ w.pc = "top" /\ w.first = job[j].first
          /\ w.tries = job[j].tries
      BY <1>g, <2>1 DEF JobType
    <2>3. w.at <= n + 1
      BY <1>a, <1>b, <2>1, <2>2
    <2> QED BY <1>b, <1>c, <1>d, <1>e, <2>2, <2>3
  <1>8. CASE CommitBatch(j)
    <2> DEFINE v == [Unslotted(j) EXCEPT !.open = FALSE]
               last == [v EXCEPT !.batch = 0, !.at = @ + 1, !.pc = "top"]
               more == [v EXCEPT !.batch = @ + 1, !.pc = "walk"]
    <2>1. v \in JobType /\ v.at = job[j].at /\ v.first = job[j].first /\ v.tries = job[j].tries
      BY ZenonT(30), <1>g DEF JobType
    <2>2. w \in {last, more} /\ job[j].at <= n
      BY <1>0, <1>b, <1>e, <1>8 DEF CommitBatch
    <2> HIDE DEF v
    <2>3. CASE w = last
      <3>1. /\ w.at = job[j].at + 1 /\ w.pc = "top" /\ w.first = job[j].first
            /\ w.tries = job[j].tries
        BY <2>1, <2>3 DEF JobType
      <3>2. w.at <= n + 1
        BY <1>a, <1>b, <2>2, <3>1
      <3> QED BY <1>b, <1>c, <1>d, <1>e, <3>1, <3>2
    <2>4. CASE w = more
      <3>1. w.at = job[j].at /\ w.first = job[j].first /\ w.tries = job[j].tries
        BY <2>1, <2>4 DEF JobType
      <3> QED BY <1>f, <2>2, <3>1
    <2> QED BY <2>2, <2>3, <2>4
  <1>9. CASE LockTimesOut(j)
    <2> DEFINE v == [Unslotted(j) EXCEPT !.open = FALSE]
    <2>1. v \in JobType /\ v.at = job[j].at /\ v.first = job[j].first /\ v.tries = job[j].tries
      BY Zenon, <1>g DEF JobType
    <2>2. w \in AfterTimeout(j, v)
      BY <1>0, <1>e, <1>9 DEF LockTimesOut
    <2> HIDE DEF v
    <2>3. \/ w \in {[v EXCEPT !.ending = "cancelled", !.pc = "finish"],
                    [v EXCEPT !.ending = "failed", !.pc = "finish"]}
          \/ /\ job[j].tries # MaxTries
             /\ w = [v EXCEPT !.at = job[j].first, !.tries = @ + 1, !.pc = "top"]
      BY <2>2 DEF AfterTimeout
    <2>4. CASE w \in {[v EXCEPT !.ending = "cancelled", !.pc = "finish"],
                      [v EXCEPT !.ending = "failed", !.pc = "finish"]}
      <3>1. w.at = job[j].at /\ w.first = job[j].first /\ w.tries = job[j].tries /\ w.pc = "finish"
        BY Zenon, <2>1, <2>4 DEF JobType
      <3> QED BY <1>f, <3>1
    <2>5. CASE /\ job[j].tries # MaxTries
               /\ w = [v EXCEPT !.at = job[j].first, !.tries = @ + 1, !.pc = "top"]
      <3>1. /\ w.at = job[j].first /\ w.first = job[j].first
            /\ w.tries = job[j].tries + 1 /\ w.pc = "top"
        BY <2>1, <2>5 DEF JobType
      <3>2. w.tries \in 1..MaxTries
        BY <1>0, <1>b, <2>5, <3>1
      <3> QED BY <1>b, <1>c, <1>d, <1>e, <3>1, <3>2
    <2> QED BY <2>3, <2>4, <2>5
  <1>10. CASE Throws(j)
    <2>1. w = [Unslotted(j) EXCEPT !.open = FALSE, !.ending = "failed", !.pc = "finish"]
      BY <1>0, <1>e, <1>10 DEF Throws
    <2> QED BY <1>f, <1>g, <2>1 DEF JobType
  <1>11. CASE Succeed(j)
    <2>1. w = [Unslotted(j) EXCEPT !.open = FALSE, !.ending = "succeeded", !.pc = "finish"]
      BY <1>0, <1>e, <1>11 DEF Succeed
    <2> QED BY <1>f, <1>g, <2>1 DEF JobType
  <1>12. CASE FinishJob(j) \/ Publish(j)
    BY <1>0, <1>e, <1>f, <1>12 DEF FinishJob, Publish, JobType
  <1>13. CASE Leave(j)
    <2>1. w = [Unslotted(j) EXCEPT !.pc = "ended"]
      BY <1>0, <1>e, <1>13 DEF Leave
    <2> QED BY <1>f, <1>g, <2>1 DEF JobType
  <1> QED
    BY Zenon, <1>1, <1>2, <1>3, <1>4, <1>5, <1>6, <1>7, <1>8, <1>9, <1>10, <1>11, <1>12,
       <1>13
       DEF Worker

(* Only a start gives a session a pid, and one of the server's; only        *)
(* failures and calls of cancel_job are used up.                            *)
LEMMA PidsAndBounds ==
    ASSUME Shapes, PlaceInv, Next
    PROVE  /\ \A j \in Jobs : ses'[j].pid \in Pids \cup {0}
           /\ losses' \in Nat /\ stops' \in Nat
  <1>0. /\ ses \in [Jobs -> SessionType] /\ losses \in Nat /\ stops \in Nat
        /\ \A j \in Jobs : ses[j].pid \in Pids \cup {0}
    BY DEF Shapes, PlaceInv
  <1>1. ASSUME NEW j \in Jobs, NEW s, s.pid \in Pids \cup {0}, ses' = [ses EXCEPT ![j] = s]
        PROVE  \A k \in Jobs : ses'[k].pid \in Pids \cup {0}
    BY <1>0, <1>1
  <1>2. \A j \in Jobs : ses' = [ses EXCEPT ![j] = NoSession]
                          => \A k \in Jobs : ses'[k].pid \in Pids \cup {0}
    BY <1>0 DEF NoSession
  <1>3. ASSUME NEW j \in Jobs, Worker(j)
        PROVE  /\ \A k \in Jobs : ses'[k].pid \in Pids \cup {0}
               /\ losses' \in Nat /\ stops' \in Nat
    <2>1. CASE FinishJob(j)
      <3>1. stops' \in Nat /\ losses' \in Nat
        BY <1>0, <2>1 DEF FinishJob, client
      <3>2. ses' = ses \/ ses' = [ses EXCEPT ![j].keys = {}]
        BY <2>1 DEF FinishJob
      <3> QED BY <1>0, <3>1, <3>2 DEF SessionType
    <2>2. CASE Leave(j)
      BY Zenon, <1>0, <1>2, <2>2 DEF Leave, client
    <2>3. CASE Throws(j)
      BY <1>0, <2>3 DEF Throws, client, ledger
    <2>4. CASE UNCHANGED outside
      BY <1>0, <2>4 DEF outside, client, ledger
    <2> QED BY SMTT(30), <1>3, <2>1, <2>2, <2>3, <2>4
        DEF Worker, Connect, Cancelled, BeginStep, NextBatch, Enter, RunInTransaction, RunAlone,
            CommitBatch, LockTimesOut, Succeed, Publish
  <1>4. ASSUME NEW j \in Jobs, CancelJob(j) \/ LoseSession(j)
        PROVE  /\ \A k \in Jobs : ses'[k].pid \in Pids \cup {0}
               /\ losses' \in Nat /\ stops' \in Nat
    BY <1>0, <1>2, <1>4 DEF CancelJob, LoseSession, client, ledger
  <1>5. CASE TakeLocks
    <2>1. PICK p \in Pids :
             ses' = [ses EXCEPT ![created] =
                        [pid |-> p, since |-> clock + 1,
                         role |-> Connections[caller.conn].role,
                         keys |-> LockKeys(caller.spec)]]
      BY Zenon, <1>5 DEF TakeLocks
    <2>2. \A k \in Jobs : ses'[k].pid \in Pids \cup {0}
      BY <1>0, <2>1
    <2> QED BY <1>0, <1>5, <2>2 DEF TakeLocks, client
  <1>6. CASE OpenJobThrows
    <2>1. \A k \in Jobs : ses'[k].pid \in Pids \cup {0}
      BY <1>0, <1>6 DEF OpenJobThrows, NoSession
    <2>2. losses' \in Nat /\ stops' \in Nat
      BY <1>0, <1>6 DEF OpenJobThrows, client
    <2> QED BY <2>1, <2>2
  <1>7. CASE StartMigration /\ ~TakeLocks /\ ~OpenJobThrows
    <2>1. UNCHANGED <<ses, stops>> /\ (losses' = losses \/ (losses > 0 /\ losses' = losses - 1))
      <3>1. CASE ReconcileFails \/ RecordFails
        BY <3>1 DEF ReconcileFails, RecordFails, client, ledger
      <3>2. CASE Call \/ Reconcile \/ Refuse \/ Create \/ LocksTaken \/ OpenRow \/ Launch
        <4>1. UNCHANGED <<ses, losses>>
          BY <3>2 DEF Call, Reconcile, Refuse, Create, LocksTaken, OpenRow, Launch, ledger
        <4>2. UNCHANGED stops
          BY Zenon, <3>2 DEF Call, Reconcile, Refuse, Create, LocksTaken, OpenRow, Launch, client
        <4> QED BY <4>1, <4>2
      <3> QED BY <1>7, <3>1, <3>2 DEF StartMigration
    <2> QED BY <1>0, <2>1
  <1> QED BY <1>3, <1>4, <1>5, <1>6, <1>7 DEF Next

LEMMA PlaceInit == Init => PlaceInv
  <1> SUFFICES ASSUME Init PROVE PlaceInv
    OBVIOUS
  <1>1. losses \in Nat /\ stops \in Nat
    BY JobsAssumption DEF Init
  <1>2. \A j \in Jobs : /\ job[j].pc = "absent" /\ job[j].at = 1 /\ job[j].first = 1
                        /\ job[j].tries = 1 /\ ses[j].pid = 0
    BY DEF Init, NoJob, NoSession
  <1>3. 1 \in 1..MaxTries
    BY JobsAssumption
  <1> QED BY <1>1, <1>2, <1>3 DEF PlaceInv, Place

LEMMA PlaceStep == Shapes /\ LifeInv /\ PlaceInv /\ [Next]_vars => PlaceInv'
  <1> SUFFICES ASSUME Shapes, LifeInv, PlaceInv, [Next]_vars PROVE PlaceInv'
    OBVIOUS
  <1>0. CASE UNCHANGED vars
    BY <1>0 DEF vars, PlaceInv, Place, client, ledger
  <1> SUFFICES ASSUME Next PROVE PlaceInv'
    BY Zenon, <1>0
  <1> DEFINE Kept(k) == /\ Place(job'[k]) /\ job'[k].tries \in 1..MaxTries
                        /\ job'[k].pc = "absent" => job'[k].at = 1 /\ job'[k].first = 1
  <1>1. SUFFICES \A k \in Jobs : Kept(k)
    BY Zenon, <1>1, PidsAndBounds DEF PlaceInv, Place
  <1>2. ASSUME NEW k \in Jobs, job'[k] = job[k] PROVE Kept(k)
    BY <1>2 DEF PlaceInv
  <1>3. ASSUME NEW j \in Jobs, Worker(j) PROVE \A k \in Jobs : Kept(k)
    <2>1. Kept(j)
      <3>1. job'[j].pc # "absent"
        BY Zenon, <1>3, WorkerRecord DEF Shapes
      <3> QED BY <1>3, <3>1, PlaceMoves
    <2>2. \A k \in Jobs : k # j => job'[k] = job[k]
      BY Zenon, <1>3, WorkerRecord DEF Shapes
    <2> HIDE DEF Kept
    <2> QED BY <1>2, <2>1, <2>2
  <1>4. ASSUME NEW j \in Jobs, NEW k \in Jobs, CancelJob(j) PROVE Kept(k)
    <2>1. /\ job'[k].pc = job[k].pc /\ job'[k].at = job[k].at /\ job'[k].first = job[k].first
          /\ job'[k].tries = job[k].tries /\ job'[k].spec = job[k].spec
      BY SMTT(30), <1>4 DEF CancelJob, Shapes, JobType
    <2> QED BY <2>1 DEF PlaceInv, Place
  <1>5. ASSUME NEW j \in Jobs, NEW k \in Jobs, LoseSession(j) PROVE Kept(k)
    BY Zenon, <1>2, <1>5 DEF LoseSession
  <1>6. ASSUME NEW k \in Jobs, StartMigration, ~Launch PROVE Kept(k)
    <2>1. /\ job'[k].pc = job[k].pc /\ job'[k].at = job[k].at /\ job'[k].first = job[k].first
          /\ job'[k].tries = job[k].tries
          /\ job'[k].spec = job[k].spec \/ job[k].pc = "absent"
      <3>1. CASE Create
        <4>1. created + 1 > created
          BY DEF Shapes
        <4> QED BY <3>1, <4>1 DEF Create, Shapes, JobType
      <3>2. CASE RecordFails \/ LocksTaken \/ OpenJobThrows
        <4>1. \/ job' = [job EXCEPT ![created].state = "failed"]
              \/ job' = [job EXCEPT ![created].threw = TRUE]
          BY <3>2 DEF RecordFails, LocksTaken, OpenJobThrows
        <4>2. job[k] \in JobType /\ job \in [Jobs -> JobType]
          BY DEF Shapes
        <4>3. job'[k] \in {job[k], [job[k] EXCEPT !.state = "failed"],
                           [job[k] EXCEPT !.threw = TRUE]}
          BY <4>1, <4>2
        <4> QED BY <4>2, <4>3 DEF JobType
      <3>3. CASE Call \/ Reconcile \/ ReconcileFails \/ Refuse \/ TakeLocks \/ OpenRow
        BY <3>3 DEF Call, Reconcile, ReconcileFails, Refuse, TakeLocks, OpenRow
      <3> QED BY <1>6, <3>1, <3>2, <3>3 DEF StartMigration
    <2> QED BY Zenon, <2>1 DEF PlaceInv, Place
  <1>7. ASSUME NEW k \in Jobs, Launch PROVE Kept(k)
    <2>1. CASE k # created
      <3>1. job'[k] = job[k]
        BY Zenon, <1>7, <2>1 DEF Launch, Shapes
      <3> QED BY <1>2, <3>1
    <2>2. CASE k = created
      <3>1. job[k].pc = "absent" /\ job[k].spec \in DOMAIN Specs
        BY <1>7, <2>2 DEF Launch, Shapes
      <3>2. /\ job'[k].pc = "connect" /\ job'[k].at = 1 /\ job'[k].first = 1
            /\ job'[k].tries = job[k].tries /\ job'[k].spec = job[k].spec
        BY <1>7, <2>2, <3>1 DEF Launch, Shapes, JobType, PlaceInv
      <3>3. Len(Specs[job[k].spec].steps) \in Nat
        BY <3>1, JobsAssumption
      <3> QED BY <3>2, <3>3 DEF PlaceInv, Place
    <2> QED BY <2>1, <2>2
  <1> HIDE DEF Kept
  <1> QED BY <1>3, <1>4, <1>5, <1>6, <1>7 DEF Next

-----------------------------------------------------------------------------
(* Sessions, locks and rows *)

LEMMA FirstKey == \A s \in DOMAIN Specs : Specs[s].keys[1] \in Keys(s)
  BY JobsAssumption DEF Keys

(* A step that leaves sessions, rows and the caller alone. *)
LEMMA SessionKept ==
    ASSUME SessionInv, UNCHANGED <<ses, row, clock, created>>,
           caller' = caller \/ caller'.pc \in {"idle", "reconcile", "limit"},
           \A k \in Jobs : job'[k].spec = job[k].spec /\ (Holding(k)' => Holding(k))
    PROVE  SessionInv'
  <1>1. \A k \in Jobs : OwnSession(k)'
    <2> SUFFICES ASSUME NEW k \in Jobs PROVE OwnSession(k)'
      OBVIOUS
    <2>1. OwnSession(k) /\ job'[k].spec = job[k].spec /\ (Holding(k)' => Holding(k))
      BY Zenon DEF SessionInv
    <2>2. (Starting(k)' => Starting(k)) /\ (caller'.pc = "record" => caller.pc = "record")
      BY DEF Starting
    <2> QED BY Zenon, <2>1, <2>2 DEF OwnSession
  <1>2. \A j, k \in Jobs : j # k => ApartFrom(j, k)'
    BY Zenon DEF SessionInv, ApartFrom
  <1> QED BY Zenon, <1>1, <1>2 DEF SessionInv

(* The positions a worker's step leads to. *)
LEMMA WorkerMoves ==
    ASSUME Shapes, NEW j \in Jobs, Worker(j), ~FinishJob(j), ~Leave(j)
    PROVE  /\ UNCHANGED <<ses, row, clock, created, caller>>
           /\ \A k \in Jobs : job'[k].spec = job[k].spec /\ (Holding(k)' => Holding(k))
  <1>1. UNCHANGED <<ses, row, clock, created, caller>>
    BY DEF Worker, outside, ledger, Connect, Cancelled, BeginStep, NextBatch, Enter,
       RunInTransaction, RunAlone, CommitBatch, LockTimesOut, Throws, Succeed, Publish
  <1>2. PICK w \in JobType : w.spec = job[j].spec /\ job' = [job EXCEPT ![j] = w]
    BY WorkerRecord
  <1>3. \A k \in Jobs : job'[k] = IF k = j THEN w ELSE job[k]
    BY Zenon, <1>2, Patched
  <1>4. w.pc \in {"connect", "top", "walk", "slot", "run", "finish"} => Holding(j)
    <2>1. CASE Publish(j)
      <3>1. job'[j].pc = "leave"
        BY <2>1 DEF Publish, Shapes, JobType
      <3> QED BY <1>3, <3>1
    <2>2. CASE ~Publish(j)
      BY <2>2 DEF Worker, Holding, Connect, Cancelled, BeginStep, NextBatch, Enter,
         RunInTransaction, RunAlone, CommitBatch, LockTimesOut, Throws, Succeed
    <2> QED BY <2>1, <2>2
  <1> QED BY Zenon, <1>1, <1>2, <1>3, <1>4 DEF Holding

(* A session that goes, and rows that end with it or stay. *)
LEMMA SessionGone ==
    ASSUME Shapes, SessionInv, NEW j \in Jobs,
           ses' = [ses EXCEPT ![j] = NoSession],
           UNCHANGED <<row, clock, created>>,
           \A k \in Jobs : job'[k].spec = job[k].spec /\ (Holding(k)' => Holding(k)),
           caller' = caller \/ caller'.pc = "idle"
    PROVE  SessionInv'
  <1>1. /\ ses'[j].pid = 0 /\ ses'[j].since = 0 /\ ses'[j].keys = {}
        /\ \A k \in Jobs : k # j => ses'[k] = ses[k]
    BY DEF Shapes, NoSession
  <1>2. \A k \in Jobs : OwnSession(k)'
    <2> SUFFICES ASSUME NEW k \in Jobs PROVE OwnSession(k)'
      OBVIOUS
    <2>1. OwnSession(k)
      BY Zenon DEF SessionInv
    <2>2. CASE k = j
      <3>1. 0 <= clock
        BY DEF Shapes
      <3> QED BY Zenon, <1>1, <2>1, <2>2, <3>1 DEF OwnSession, Starting
    <2>3. CASE k # j
      BY Zenon, <1>1, <2>1, <2>3 DEF OwnSession, Starting
    <2> QED BY <2>2, <2>3
  <1>3. \A i, k \in Jobs : i # k => ApartFrom(i, k)'
    <2> SUFFICES ASSUME NEW i \in Jobs, NEW k \in Jobs, i # k PROVE ApartFrom(i, k)'
      BY SMTT(30)
    <2>1. ApartFrom(i, k)
      BY Zenon DEF SessionInv
    <2>2. CASE i = j
      BY Zenon, <1>1, <2>1, <2>2 DEF ApartFrom
    <2>3. CASE k = j
      <3>1. row[i].state = "running" => row[i].pid # 0
        BY Zenon DEF SessionInv, OwnSession
      <3>2. ses'[i] = ses[i] /\ ses'[k].pid = 0 /\ ses'[k].keys = {}
        BY Zenon, <1>1, <2>3
      <3> QED BY Zenon, <3>1, <3>2 DEF ApartFrom
    <2>4. CASE i # j /\ k # j
      BY Zenon, <1>1, <2>1, <2>4 DEF ApartFrom
    <2> QED BY SMTT(30), <2>2, <2>3, <2>4
  <1> QED BY Zenon, <1>2, <1>3 DEF SessionInv

(* The test for a dead job does not find one whose session lives. *)
LEMMA DeadIsGone ==
    ASSUME Shapes, SessionInv, NEW j \in Jobs, IsDead(j)
    PROVE  ses[j].pid = 0
  <1> SUFFICES ASSUME ses[j].pid # 0 PROVE FALSE
    OBVIOUS
  <1>1. OwnSession(j) /\ row[j].state = "running"
    BY Zenon DEF SessionInv, IsDead
  <1>2. Specs[job[j].spec].keys[1] \in ses[j].keys
    BY <1>1, FirstKey DEF OwnSession
  <1> QED BY Zenon, <1>1, <1>2 DEF OwnSession, IsDead

(* The caller cannot see how old a session is that has job j's pid and key. *)
Mistaken(j) ==
    \E k \in Jobs : /\ Hidden(k) /\ ses[k].pid = row[j].pid
                    /\ Specs[job[j].spec].keys[1] \in ses[k].keys

(* It finds every other: a session that was given the pid again is younger, *)
(* where that can be seen.                                                  *)
LEMMA GoneIsDead ==
    ASSUME Shapes, SessionInv, NEW j \in Jobs, row[j].state = "running",
           ses[j].pid = 0, ~Mistaken(j)
    PROVE  IsDead(j)
  <1> SUFFICES ASSUME NEW k \in Jobs, ses[k].pid = row[j].pid,
                      ses[k].since <= row[j].since
               PROVE  FALSE
    BY Zenon DEF IsDead, Mistaken
  <1>1. row[j].pid # 0
    BY Zenon DEF SessionInv, OwnSession
  <1>2. k # j
    BY <1>1
  <1>3. ApartFrom(j, k)
    BY <1>2 DEF SessionInv
  <1>4. ses[k].since \in Nat /\ row[j].since \in Nat
    BY DEF Shapes, SessionType, RowType
  <1>5. ses[k].since > row[j].since
    BY Zenon, <1>3 DEF ApartFrom
  <1> QED BY <1>4, <1>5

(* The locks of a new job. *)
LEMMA LocksApart ==
    ASSUME Shapes, SessionInv, TakeLocks
    PROVE  SessionInv'
  <1>a. created \in Nat /\ clock \in Nat /\ Jobs \subseteq Nat
    BY JobsAssumption DEF Shapes, Jobs
  <1>1. PICK p \in Pids \ {ses[k].pid : k \in Jobs} :
          ses' = [ses EXCEPT ![created] =
                     [pid |-> p, since |-> clock + 1,
                      role |-> Connections[caller.conn].role,
                      keys |-> Keys(caller.spec)]]
    BY Zenon DEF TakeLocks, LockKeys
  <1>2. /\ UNCHANGED <<row, created, job>> /\ clock' = clock + 1
        /\ caller.pc = "record" /\ caller'.pc = "row"
    BY Zenon DEF TakeLocks, Shapes
  <1>3. /\ \A k \in Jobs : k # created => ses'[k] = ses[k]
        /\ created \in Jobs => /\ ses'[created].pid = p
                               /\ ses'[created].since = clock + 1
                               /\ ses'[created].keys = Keys(job[created].spec)
    BY Zenon, <1>1, <1>2 DEF Shapes
  <1>4. \A k \in Jobs : ses[k].since \in Nat /\ row[k].since \in Nat
    BY DEF Shapes, SessionType, RowType
  <1>5. \A k \in Jobs : OwnSession(k)'
    <2> SUFFICES ASSUME NEW k \in Jobs PROVE OwnSession(k)'
      OBVIOUS
    <2>1. OwnSession(k) /\ k \in Nat
      BY <1>a DEF SessionInv
    <2>2. CASE k = created
      <3>1. row[k].state = "none"
        BY Zenon, <1>2, <2>1, <2>2 DEF OwnSession, Starting
      <3>2. p # 0
        BY SMTT(30), JobsAssumption
      <3>3. clock + 1 <= clock + 1 /\ ~(k > created)
        BY <1>a, <2>1, <2>2
      <3> QED BY Zenon, <1>2, <1>3, <2>2, <3>1, <3>2, <3>3 DEF OwnSession
    <2>3. CASE k # created
      <3>1. Holding(k)' => Holding(k)
        BY <1>2, <2>3 DEF Holding
      <3>2. /\ ses'[k] = ses[k] /\ row'[k] = row[k] /\ job'[k] = job[k]
            /\ created' = created /\ k # created
        BY Zenon, <1>2, <1>3, <2>3
      <3>3. ses[k].since <= clock' /\ (row[k].state = "running" => row[k].since <= clock')
        <4>1. ses[k].since <= clock /\ (row[k].state = "running" => row[k].since <= clock)
          BY Zenon, <2>1 DEF OwnSession
        <4> QED BY <1>a, <1>2, <1>4, <4>1
      <3> QED BY ZenonT(30), <2>1, <3>1, <3>2, <3>3 DEF OwnSession, Starting
    <2> QED BY <2>2, <2>3
  <1>6. \A i, k \in Jobs : i # k => ApartFrom(i, k)'
    <2> SUFFICES ASSUME NEW i \in Jobs, NEW k \in Jobs, i # k PROVE ApartFrom(i, k)'
      OBVIOUS
    <2>1. ApartFrom(i, k) /\ OwnSession(i) /\ OwnSession(k)
      BY Zenon DEF SessionInv
    <2>2. \A l \in Jobs : p # ses[l].pid
      BY <1>1
    <2>3. created \in Jobs => \A l \in Jobs : ses[l].keys \cap Keys(job[created].spec) = {}
      BY SMTT(30), <1>2 DEF TakeLocks, Conflict, LockKeys, Shapes
    <2>4. CASE i = created
      <3>1. row[i].state = "none"
        BY Zenon, <1>2, <2>1, <2>4 DEF OwnSession, Starting
      <3> QED BY ZenonT(30), <1>2, <1>3, <2>2, <2>3, <2>4, <3>1 DEF ApartFrom
    <2>5. CASE k = created
      <3>1. row[i].state = "running" => row[i].since <= clock /\ row[i].pid # 0
        BY Zenon, <2>1 DEF OwnSession
      <3>2. row[i].state = "running" => clock + 1 > row[i].since
        BY <1>a, <1>4, <3>1
      <3>3. /\ ses'[i] = ses[i] /\ row'[i] = row[i] /\ ses'[k].pid = p
            /\ ses'[k].since = clock + 1 /\ ses[i].keys \cap ses'[k].keys = {}
        BY Zenon, <1>2, <1>3, <2>3, <2>5
      <3> QED BY Zenon, <2>2, <3>2, <3>3 DEF ApartFrom
    <2>6. CASE i # created /\ k # created
      BY Zenon, <1>2, <1>3, <2>1, <2>6 DEF ApartFrom
    <2> QED BY <2>4, <2>5, <2>6
  <1> QED BY Zenon, <1>5, <1>6 DEF SessionInv

(* The row of a new job. *)
LEMMA RowOpened ==
    ASSUME Shapes, SessionInv, OpenRow
    PROVE  SessionInv'
  <1>a. created \in Nat /\ clock \in Nat /\ Jobs \subseteq Nat
    BY JobsAssumption DEF Shapes, Jobs
  <1>1. /\ UNCHANGED <<ses, clock, created, job>>
        /\ caller.pc = "row" /\ caller'.pc = "launch" /\ ses[created].pid # 0
    BY DEF OpenRow, Shapes
  <1>2. /\ \A k \in Jobs : k # created => row'[k] = row[k]
        /\ created \in Jobs => row'[created] = [state |-> "running", pid |-> ses[created].pid,
                                               since |-> clock]
    BY DEF OpenRow, Shapes
  <1>3. \A k \in Jobs : OwnSession(k)'
    <2> SUFFICES ASSUME NEW k \in Jobs PROVE OwnSession(k)'
      OBVIOUS
    <2>1. OwnSession(k) /\ k \in Nat
      BY <1>a DEF SessionInv
    <2>2. Holding(k)' => Holding(k)
      BY SMTT(30), <1>1 DEF Holding
    <2>3. CASE k = created
      <3>1. job[k].spec \in DOMAIN Specs
        BY <1>1, <2>3 DEF Shapes
      <3>2. Holding(k)
        BY Zenon, <1>1, <2>3 DEF Holding
      <3>3. ~(k > created) /\ ses[k].since <= clock /\ clock <= clock
        BY <1>a, <2>1, <2>3 DEF OwnSession
      <3>4. /\ row'[k].state = "running" /\ row'[k].pid = ses[k].pid /\ row'[k].since = clock
            /\ job'[k] = job[k] /\ ses'[k] = ses[k] /\ ses[k].pid # 0
            /\ clock' = clock /\ created' = created /\ caller'.pc = "launch"
        BY <1>1, <1>2, <2>3
      <3> QED BY Zenon, <2>1, <3>1, <3>2, <3>3, <3>4 DEF OwnSession, Starting
    <2>4. CASE k # created
      <3>1. /\ ses'[k] = ses[k] /\ row'[k] = row[k] /\ job'[k] = job[k]
            /\ created' = created /\ clock' = clock /\ k # created
        BY Zenon, <1>1, <1>2, <2>4
      <3> QED BY ZenonT(30), <2>1, <2>2, <3>1 DEF OwnSession, Starting
    <2> QED BY <2>3, <2>4
  <1>4. \A i, k \in Jobs : i # k => ApartFrom(i, k)'
    <2> SUFFICES ASSUME NEW i \in Jobs, NEW k \in Jobs, i # k PROVE ApartFrom(i, k)'
      OBVIOUS
    <2>1. ApartFrom(i, k)
      BY Zenon DEF SessionInv
    <2>2. CASE i = created
      <3>1. row'[i].pid = ses[i].pid /\ ses[i].pid # 0
        BY <1>1, <1>2, <2>2
      <3>2. ses[k].pid # row'[i].pid
        BY Zenon, <2>1, <3>1 DEF ApartFrom
      <3> QED BY Zenon, <1>1, <2>1, <3>2 DEF ApartFrom
    <2>3. CASE i # created
      <3>1. row'[i] = row[i]
        BY Zenon, <1>2, <2>3
      <3> QED BY Zenon, <1>1, <2>1, <3>1 DEF ApartFrom
    <2> QED BY <2>2, <2>3
  <1> QED BY Zenon, <1>3, <1>4 DEF SessionInv

LEMMA SessionInit == Init => SessionInv
  <1> SUFFICES ASSUME Init PROVE SessionInv
    OBVIOUS
  <1>1. \A j \in Jobs : /\ ses[j] = NoSession /\ row[j] = NoRow /\ job[j].pc = "absent"
    BY DEF Init, NoJob
  <1>2. caller.pc = "idle" /\ clock = 0 /\ created = 0
    BY DEF Init, Idle
  <1>3. \A j \in Jobs : OwnSession(j)
    BY <1>1, <1>2 DEF OwnSession, NoSession, NoRow, Holding, Starting
  <1>4. \A j, k \in Jobs : ApartFrom(j, k)
    BY <1>1 DEF ApartFrom, NoSession, NoRow
  <1> QED BY Zenon, <1>3, <1>4 DEF SessionInv

LEMMA SessionStep == Shapes /\ SessionInv /\ [Next]_vars => SessionInv'
  <1> SUFFICES ASSUME Shapes, SessionInv, [Next]_vars PROVE SessionInv'
    OBVIOUS
  <1>a. created \in Nat /\ clock \in Nat /\ Jobs \subseteq Nat
    BY JobsAssumption DEF Shapes, Jobs
  <1>1. CASE UNCHANGED vars
    BY Zenon, <1>1, SessionKept DEF vars, ledger, Holding
  <1>2. ASSUME NEW j \in Jobs, Worker(j), ~FinishJob(j), ~Leave(j) PROVE SessionInv'
    BY <1>2, WorkerMoves, SessionKept
  <1>3. ASSUME NEW j \in Jobs, FinishJob(j) PROVE SessionInv'
    <2>1. \A k \in Jobs : job'[k].spec = job[k].spec /\ (Holding(k)' => Holding(k))
      BY <1>3 DEF FinishJob, Holding, Shapes, JobType
    <2>2. \A k \in Jobs : Holding(k)' => k # j \/ k = created
      BY <1>3 DEF FinishJob, Holding, Shapes, JobType
    <2>3. UNCHANGED <<clock, created, caller>>
      BY <1>3 DEF FinishJob
    <2>4. CASE UNCHANGED <<ses, row>>
      BY <2>1, <2>3, <2>4, SessionKept
    <2>5. CASE /\ row' = [row EXCEPT ![j].state = job[j].ending]
               /\ ses' = [ses EXCEPT ![j].keys = {}]
      <3>1. /\ row'[j].state = job[j].ending
            /\ ses'[j].pid = ses[j].pid /\ ses'[j].since = ses[j].since /\ ses'[j].keys = {}
            /\ \A k \in Jobs : k # j => row'[k] = row[k] /\ ses'[k] = ses[k]
        BY <2>5 DEF Shapes, RowType, SessionType
      <3>2. job[j].ending \notin {"running", "interrupted"}
        BY Zenon DEF Shapes, JobType, Terminal
      <3>3. job[j].pc = "finish"
        BY <1>3 DEF FinishJob
      <3>4. \A k \in Jobs : OwnSession(k)'
        <4> SUFFICES ASSUME NEW k \in Jobs PROVE OwnSession(k)'
          OBVIOUS
        <4>1. OwnSession(k)
          BY Zenon DEF SessionInv
        <4>2. CASE k = j
          <5>1. ~(k > created \/ Starting(k)) /\ ~Holding(k)'
            BY SMTT(30), <2>1, <2>3, <3>3, <4>2, <1>3 DEF Shapes, Starting, Holding, FinishJob,
               JobType
          <5> QED BY Zenon, <2>3, <3>1, <3>2, <4>1, <4>2, <5>1 DEF OwnSession, Starting
        <4>3. CASE k # j
          BY Zenon, <2>1, <2>3, <3>1, <4>1, <4>3 DEF OwnSession, Starting
        <4> QED BY <4>2, <4>3
      <3>5. \A i, k \in Jobs : i # k => ApartFrom(i, k)'
        <4> SUFFICES ASSUME NEW i \in Jobs, NEW k \in Jobs, i # k PROVE ApartFrom(i, k)'
          OBVIOUS
        <4>1. ApartFrom(i, k)
          BY Zenon DEF SessionInv
        <4> QED BY Zenon, <3>1, <3>2, <4>1 DEF ApartFrom
      <3> QED BY Zenon, <3>4, <3>5 DEF SessionInv
    <2> QED BY <1>3, <2>4, <2>5 DEF FinishJob
  <1>4. ASSUME NEW j \in Jobs, Leave(j) PROVE SessionInv'
    <2>1. \A k \in Jobs : job'[k].spec = job[k].spec /\ (Holding(k)' => Holding(k))
      BY <1>4 DEF Leave, Unslotted, Holding, Shapes, JobType
    <2> QED BY Zenon, <1>4, <2>1, SessionGone DEF Leave
  <1>5. ASSUME NEW j \in Jobs, CancelJob(j) PROVE SessionInv'
    <2>1. \A k \in Jobs : job'[k].spec = job[k].spec /\ job'[k].pc = job[k].pc
      BY <1>5 DEF CancelJob, Shapes, JobType
    <2> QED BY <1>5, <2>1, SessionKept DEF CancelJob, ledger, Holding
  <1>6. ASSUME NEW j \in Jobs, LoseSession(j) PROVE SessionInv'
    BY Zenon, <1>6, SessionGone DEF LoseSession, Holding
  <1>7. CASE Call \/ ReconcileFails \/ Refuse \/ RecordFails \/ LocksTaken
    <2>1. \A k \in Jobs : job'[k].spec = job[k].spec /\ job'[k].pc = job[k].pc
      <3>1. job' = job \/ job' = [job EXCEPT ![created].state = "failed"]
        BY <1>7 DEF Call, ReconcileFails, Refuse, RecordFails, LocksTaken
      <3>2. CASE job' = job
        BY <3>2
      <3>3. CASE job' = [job EXCEPT ![created].state = "failed"]
        BY <3>3 DEF Shapes, JobType
      <3> QED BY <3>1, <3>2, <3>3
    <2>2. UNCHANGED <<ses, row, clock, created>> /\ caller'.pc \in {"idle", "reconcile", "limit"}
      BY <1>7 DEF Call, ReconcileFails, Refuse, RecordFails, LocksTaken, ledger, Idle, Shapes
    <2>3. \A k \in Jobs : Holding(k)' => Holding(k)
      BY <2>1, <2>2 DEF Holding
    <2> QED BY <2>1, <2>2, <2>3, SessionKept
  <1>8. CASE Launch
    <2>1. \A k \in Jobs : job'[k].spec = job[k].spec /\ (k # created => job'[k].pc = job[k].pc)
      BY <1>8 DEF Launch, Shapes, JobType
    <2>2. UNCHANGED <<ses, row, clock, created>> /\ caller'.pc = "idle"
      BY <1>8 DEF Launch, ledger, Idle
    <2>3. \A k \in Jobs : Holding(k)' => Holding(k)
      BY <1>8, <2>1, <2>2 DEF Launch, Holding
    <2> QED BY <2>1, <2>2, <2>3, SessionKept
  <1>9. CASE OpenJobThrows
    <2>1. \A k \in Jobs : job'[k].spec = job[k].spec /\ job'[k].pc = job[k].pc
      BY <1>9 DEF OpenJobThrows, Shapes, JobType
    <2>2. UNCHANGED <<row, clock, created>> /\ caller'.pc = "idle"
      BY <1>9 DEF OpenJobThrows, Idle
    <2>3. \A k \in Jobs : Holding(k)' => Holding(k)
      BY <2>1, <2>2 DEF Holding
    <2>4. CASE created \in Jobs
      BY Zenon, <1>9, <2>1, <2>2, <2>3, <2>4, SessionGone DEF OpenJobThrows
    <2>5. CASE created \notin Jobs
      <3>1. ses' = ses
        BY <1>9, <2>5 DEF OpenJobThrows, Shapes
      <3> QED BY <2>1, <2>2, <2>3, <3>1, SessionKept
    <2> QED BY <2>4, <2>5
  <1>10. CASE Reconcile
    <2>1. \A k \in Jobs : row'[k] = IF IsDead(k) THEN [row[k] EXCEPT !.state = "interrupted"]
                           ELSE row[k]
      BY <1>10 DEF Reconcile, Marked
    <2>2. UNCHANGED <<ses, clock, created, job>> /\ caller'.pc = "limit"
      BY Zenon, <1>10 DEF Reconcile, Shapes
    <2>3. \A k \in Jobs : /\ row'[k].pid = row[k].pid /\ row'[k].since = row[k].since
                          /\ row'[k].state = "running" => row[k].state = "running"
                          /\ row[k].state = "none" => row'[k].state = "none"
                          /\ row'[k].state = "interrupted" => row[k].state = "interrupted" \/ IsDead(k)
      <3> SUFFICES ASSUME NEW k \in Jobs
                   PROVE  /\ row'[k].pid = row[k].pid /\ row'[k].since = row[k].since
                          /\ row'[k].state = "running" => row[k].state = "running"
                          /\ row[k].state = "none" => row'[k].state = "none"
                          /\ row'[k].state = "interrupted" => row[k].state = "interrupted" \/ IsDead(k)
        OBVIOUS
      <3>1. row[k] \in RowType
        BY DEF Shapes
      <3>2. CASE IsDead(k)
        <4>1. row[k].state = "running"
          BY <3>2 DEF IsDead
        <4>2. row'[k] = [row[k] EXCEPT !.state = "interrupted"]
          BY <2>1, <3>2
        <4> QED BY SMTT(30), <3>1, <3>2, <4>1, <4>2 DEF RowType
      <3>3. CASE ~IsDead(k)
        BY Zenon, <2>1, <3>3
      <3> QED BY <3>2, <3>3
    <2>4. \A k \in Jobs : IsDead(k) => ses[k].pid = 0
      BY DeadIsGone
    <2>5. \A k \in Jobs : Holding(k)' => Holding(k)
      BY Zenon, <2>2 DEF Holding
    <2>6. \A k \in Jobs : OwnSession(k)'
      <3> SUFFICES ASSUME NEW k \in Jobs PROVE OwnSession(k)'
        OBVIOUS
      <3>1. OwnSession(k)
        BY Zenon DEF SessionInv
      <3> QED BY Zenon, <2>2, <2>3, <2>4, <2>5, <3>1 DEF OwnSession, Starting
    <2>7. \A i, k \in Jobs : i # k => ApartFrom(i, k)'
      <3> SUFFICES ASSUME NEW i \in Jobs, NEW k \in Jobs, i # k PROVE ApartFrom(i, k)'
        OBVIOUS
      <3>1. ApartFrom(i, k)
        BY Zenon DEF SessionInv
      <3> QED BY Zenon, <2>2, <2>3, <3>1 DEF ApartFrom
    <2> QED BY Zenon, <2>6, <2>7 DEF SessionInv
  <1>11. CASE Create
    <2>1. UNCHANGED <<ses, row, clock>> /\ created' = created + 1 /\ caller'.pc = "record"
      BY <1>11 DEF Create, ledger, Shapes
    <2>2. \A k \in Jobs : job'[k].pc = job[k].pc /\ (k # created + 1 => job'[k].spec = job[k].spec)
      BY SMTT(30), <1>11 DEF Create, Shapes, JobType
    <2>3. \A k \in Jobs : OwnSession(k)'
      <3> SUFFICES ASSUME NEW k \in Jobs PROVE OwnSession(k)'
        OBVIOUS
      <3>1. OwnSession(k) /\ k \in Nat
        BY <1>a DEF SessionInv
      <3>2. k > created' \/ Starting(k)' => k > created
        BY SMTT(30), <1>a, <2>1, <3>1 DEF Starting
      <3>3. Holding(k)' => Holding(k) /\ k # created + 1
        BY SMTT(30), <1>a, <2>1, <2>2 DEF Holding, Shapes
      <3>4. k = created + 1 => row[k].state = "none" /\ ses[k].pid = 0
        <4>1. k = created + 1 => k > created
          BY <1>a
        <4> QED BY Zenon, <3>1, <4>1 DEF OwnSession
      <3> QED BY Zenon, <1>a, <2>1, <2>2, <3>1, <3>2, <3>3, <3>4 DEF OwnSession, Starting
    <2>4. \A i, k \in Jobs : i # k => ApartFrom(i, k)'
      BY Zenon, <2>1 DEF SessionInv, ApartFrom
    <2> QED BY Zenon, <2>3, <2>4 DEF SessionInv
  <1>12. CASE TakeLocks
    BY <1>12, LocksApart
  <1>13. CASE OpenRow
    BY <1>13, RowOpened
  <1> QED
    BY Zenon, <1>1, <1>2, <1>3, <1>4, <1>5, <1>6, <1>7, <1>8, <1>9, <1>10, <1>11, <1>12,
       <1>13
       DEF Next, StartMigration

-----------------------------------------------------------------------------
(* The gate's count.  Cardinalities are needed only from here on. *)

INSTANCE FiniteSetTheorems

LEMMA HeldFinite ==
    IsFiniteSet(Held) /\ Cardinality(Held) \in Nat
  <1>1. IsFiniteSet(Jobs) /\ Held \subseteq Jobs
    BY FS_Interval, JobsAssumption DEF Jobs, Held
  <1> QED BY Zenon, <1>1, FS_Subset, FS_CardinalityType

(* One slot given back, or taken, is one less, or one more. *)
LEMMA HeldChanges ==
    ASSUME NEW j \in Jobs, \A k \in Jobs : k # j => job'[k].slot = job[k].slot
    PROVE  /\ job[j].slot = "held" /\ job'[j].slot = "held" => Held' = Held
           /\ job[j].slot # "held" /\ job'[j].slot # "held" => Held' = Held
           /\ job[j].slot = "held" /\ job'[j].slot # "held"
                => Cardinality(Held') = Cardinality(Held) - 1 /\ Cardinality(Held') \in Nat
           /\ job[j].slot # "held" /\ job'[j].slot = "held"
                => Cardinality(Held') = Cardinality(Held) + 1
  <1>1. /\ job[j].slot = "held" /\ job'[j].slot = "held" => Held' = Held
        /\ job[j].slot # "held" /\ job'[j].slot # "held" => Held' = Held
    BY Zenon DEF Held
  <1>2. ASSUME job[j].slot = "held", job'[j].slot # "held"
        PROVE  Cardinality(Held') = Cardinality(Held) - 1 /\ Cardinality(Held') \in Nat
    <2>1. Held' = Held \ {j} /\ j \in Held
      BY <1>2 DEF Held
    <2> QED BY Zenon, <2>1, HeldFinite, FS_RemoveElement, FS_CardinalityType
  <1>3. ASSUME job[j].slot # "held", job'[j].slot = "held"
        PROVE  Cardinality(Held') = Cardinality(Held) + 1
    <2>1. Held' = Held \cup {j} /\ j \notin Held
      BY <1>3 DEF Held
    <2> QED BY Zenon, <2>1, HeldFinite, FS_AddElement
  <1> QED BY Zenon, <1>1, <1>2, <1>3

LEMMA CountInit == Init => CountInv
  <1> SUFFICES ASSUME Init PROVE CountInv
    OBVIOUS
  <1>1. Held = {}
    BY DEF Init, NoJob, Held
  <1> QED BY <1>1, FS_EmptySet DEF Init, CountInv

LEMMA CountStep == Shapes /\ GateInv /\ LifeInv /\ CountInv /\ [Next]_vars => CountInv'
  <1> SUFFICES ASSUME Shapes, GateInv, LifeInv, CountInv, [Next]_vars PROVE CountInv'
    OBVIOUS
  <1>1. ASSUME \A k \in Jobs : job'[k].slot = job[k].slot, UNCHANGED gate
        PROVE  CountInv'
    <2>1. Held' = Held
      BY <1>1 DEF Held
    <2> QED BY <1>1, <2>1 DEF CountInv, gate
  <1>2. ASSUME NEW j \in Jobs, Worker(j) PROVE CountInv'
    <2>1. UNCHANGED <<limit, highest>>
      BY Zenon, <1>2 DEF Worker, outside, gate, Connect, Cancelled, BeginStep, NextBatch, Enter,
         RunInTransaction, RunAlone, CommitBatch, LockTimesOut, Throws, Succeed, FinishJob,
         Publish, Leave
    <2>2. \A k \in Jobs : k # j => job'[k].slot = job[k].slot
      BY Zenon, <1>2, WorkerRecord DEF Shapes
    <2>3. job[j].slot \in {"none", "held", "free"}
      BY Zenon DEF Shapes, JobType
    <2>4. CASE job'[j].slot = job[j].slot /\ inFlight' = inFlight
      BY Zenon, <2>1, <2>2, <2>4, HeldChanges DEF CountInv
    <2>5. CASE job'[j].slot = "none" /\ inFlight' = Released(j)
      <3>1. CASE job[j].slot = "held"
        BY <2>1, <2>2, <2>5, <3>1, HeldChanges DEF CountInv, Released
      <3>2. CASE job[j].slot # "held"
        BY Zenon, <2>1, <2>2, <2>5, <3>2, HeldChanges DEF CountInv, Released
      <3> QED BY Zenon, <3>1, <3>2
    <2>6. CASE job[j].slot = "none" /\ job'[j].slot = "free" /\ inFlight' = inFlight
      BY Zenon, <2>1, <2>2, <2>6, HeldChanges DEF CountInv
    <2>7. CASE /\ job[j].slot = "none" /\ job'[j].slot = "held"
               /\ inFlight < limit /\ inFlight' = inFlight + 1
      BY <2>1, <2>2, <2>7, HeldChanges DEF CountInv
    <2> QED BY Zenon, <1>2, <2>4, <2>5, <2>6, <2>7, SlotMoves
  <1>3. ASSUME NEW j \in Jobs, CancelJob(j) PROVE CountInv'
    <2>1. \A k \in Jobs : job'[k].slot = job[k].slot
      BY <1>3 DEF CancelJob, Shapes, JobType
    <2> QED BY <1>1, <1>3, <2>1 DEF CancelJob
  <1>4. CASE Create \/ RecordFails \/ LocksTaken \/ OpenJobThrows
    <2>1. \A k \in Jobs : job'[k].slot = job[k].slot
      <3>1. CASE Create
        BY SMTT(30), <3>1 DEF Create, Shapes, JobType
      <3>2. CASE RecordFails \/ LocksTaken
        <4>1. job' = [job EXCEPT ![created].state = "failed"]
          BY <3>2 DEF RecordFails, LocksTaken
        <4> QED BY <4>1 DEF Shapes, JobType
      <3>3. CASE OpenJobThrows
        BY <3>3 DEF OpenJobThrows, Shapes, JobType
      <3> QED BY Zenon, <1>4, <3>1, <3>2, <3>3
    <2> QED BY Zenon, <1>1, <1>4, <2>1 DEF Create, RecordFails, LocksTaken, OpenJobThrows
  <1>5. CASE Launch
    <2>1. \A k \in Jobs : job'[k].slot = job[k].slot
      BY <1>5 DEF Launch, Shapes, JobType
    <2>2. Held' = Held /\ inFlight' = inFlight
      BY <1>5, <2>1 DEF Held, Launch
    <2>3. limit' \in Nat
      BY <1>5, JobsAssumption DEF Launch, LifeInv
    <2>4. highest' = IF limit' > highest THEN limit' ELSE highest
      BY <1>5 DEF Launch
    <2> QED BY <2>2, <2>3, <2>4 DEF CountInv
  <1>6. CASE Call \/ Reconcile \/ ReconcileFails \/ Refuse \/ TakeLocks \/ OpenRow
    BY Zenon, <1>1, <1>6 DEF Call, Reconcile, ReconcileFails, Refuse, TakeLocks, OpenRow
  <1>7. ASSUME NEW j \in Jobs, LoseSession(j) PROVE CountInv'
    BY <1>1, <1>7 DEF LoseSession
  <1>8. CASE UNCHANGED vars
    BY SMTT(30), <1>1, <1>8 DEF vars
  <1> QED
    BY Zenon, <1>2, <1>3, <1>4, <1>5, <1>6, <1>7, <1>8 DEF Next, StartMigration

-----------------------------------------------------------------------------
(* The theorems *)

(***************************************************************************)
(* The shapes and the five invariants hold always.                          *)
(***************************************************************************)
THEOREM Invariants ==
    Spec => [](Shapes /\ GateInv /\ LifeInv /\ CountInv /\ PlaceInv /\ SessionInv)
  <1>1. Init => Shapes /\ GateInv /\ LifeInv /\ CountInv /\ PlaceInv /\ SessionInv
    BY Zenon, ShapesInit, GateInit, LifeInit, CountInit, PlaceInit, SessionInit
  <1>2. Shapes /\ GateInv /\ LifeInv /\ CountInv /\ PlaceInv /\ SessionInv /\ [Next]_vars
          => Shapes' /\ GateInv' /\ LifeInv' /\ CountInv' /\ PlaceInv' /\ SessionInv'
    BY Zenon, ShapesStep, GateStep, LifeStep, CountStep, PlaceStep, SessionStep
  <1> QED BY <1>1, <1>2, PTL DEF Spec

(***************************************************************************)
(* The counters and positions of the registry and its workers are what      *)
(* their declarations say; a worker is at a step of its plan, or past the   *)
(* last, and has not spent more tries than it has (Executor's loop).        *)
(***************************************************************************)
THEOREM TypeCorrect == Spec => []TypeOK
  <1>1. Shapes /\ LifeInv /\ CountInv /\ PlaceInv => TypeOK
    <2> SUFFICES ASSUME Shapes, LifeInv, CountInv, PlaceInv PROVE TypeOK
      BY Zenon
    <2>1. created \in 0..MaxCalls
      <3>1. Pending \in Nat
        BY DEF Pending, Shapes
      <3> QED BY <3>1, JobsAssumption DEF LifeInv, Shapes
    <2>2. caller.pc \in {"idle", "reconcile", "limit", "record", "row", "launch"}
      BY Zenon DEF Shapes
    <2>3. limit \in 0..highest /\ inFlight \in Nat /\ losses \in Nat /\ stops \in Nat
      BY SMTT(30) DEF CountInv, PlaceInv
    <2>4. ASSUME NEW j \in Jobs
          PROVE  /\ job[j].state \in {"none", "planned", "running"} \cup Terminal
                 /\ job[j].state = "none" <=> j > created
                 /\ job[j].pc \in Positions
                 /\ job[j].slot \in {"none", "held", "free"}
                 /\ job[j].tries \in 1..MaxTries
                 /\ row[j].state \in {"none", "running", "interrupted"} \cup Terminal
                 /\ ses[j].pid \in Pids \cup {0}
      <3>1. job[j] \in JobType /\ row[j] \in RowType
        BY Zenon DEF Shapes
      <3> QED BY <3>1 DEF JobType, RowType, LifeInv, Life, PlaceInv
    <2>5. ASSUME NEW j \in Jobs
          PROVE  /\ job[j].pc # "absent" => job[j].at \in 1..(Len(Steps(j)) + 1)
                 /\ job[j].pc \in {"walk", "slot", "run"} => job[j].at <= Len(Steps(j))
      <3>1. job[j].at \in Positive
        BY Zenon DEF Shapes, JobType
      <3>2. job[j].pc # "absent" => Len(Steps(j)) \in Nat
        BY JobsAssumption DEF Shapes, Steps
      <3> QED BY <3>1, <3>2 DEF PlaceInv, Place, Steps, Positive
    <2> QED BY Zenon, <2>1, <2>2, <2>3, <2>4, <2>5 DEF TypeOK, Positions
  <1> QED BY <1>1, Invariants, PTL

(***************************************************************************)
(* The gate counts the slots that are held, and the jobs at work that were  *)
(* not asked to stop and did not begin without a ceiling are never more     *)
(* than the highest ceiling declared (OperationGate).                       *)
(***************************************************************************)
THEOREM CeilingKept == Spec => []CeilingHolds
  <1>1. Shapes /\ GateInv /\ CountInv => CeilingHolds
    <2> SUFFICES ASSUME Shapes, GateInv, CountInv PROVE CeilingHolds
      BY Zenon
    <2> DEFINE W == {j \in Jobs : /\ Working(j) /\ ~job[j].stop
                                  /\ job[j].slot # "free"}
    <2>1. W \subseteq Held
      <3> SUFFICES ASSUME NEW j \in W PROVE j \in Held
        BY Zenon
      <3>1. job[j].slot \in {"none", "held", "free"} /\ job[j].stop \in BOOLEAN
        BY SMTT(30) DEF Shapes, JobType
      <3>2. job[j].slot # "none"
        BY Zenon DEF Working, GateInv, GateOrder
      <3> QED BY Zenon, <3>1, <3>2 DEF Held
    <2>2. IsFiniteSet(Held)
      BY Zenon, HeldFinite
    <2>3. Cardinality(W) <= Cardinality(Held) /\ Cardinality(W) \in Nat
      BY <2>1, <2>2, FS_Subset, FS_CardinalityType
    <2> QED BY <2>3 DEF CountInv, CeilingHolds, Held
  <1> QED BY <1>1, Invariants, PTL

(***************************************************************************)
(* What running_count counts against max_concurrent_jobs has a worker or is *)
(* being started, save where open_job threw.                                *)
(***************************************************************************)
THEOREM CountedUnderway == Spec => []CountedIsUnderway
  <1>1. Shapes /\ LifeInv => CountedIsUnderway
    <2> SUFFICES ASSUME Shapes, LifeInv, NEW j \in 1..created, job[j].state \notin Terminal,
                        job[j].pc \in {"absent", "leave", "ended"}, ~job[j].threw
                 PROVE  caller.pc \in {"record", "row", "launch"} /\ j = created
      BY Zenon DEF CountedIsUnderway
    <2>1. Pending \in Nat /\ created <= MaxCalls
      BY SMTT(30), JobsAssumption DEF Pending, Shapes, LifeInv
    <2>2. j \in Jobs /\ j <= created
      BY SMTT(30), <2>1, JobsAssumption DEF Jobs, Shapes
    <2>3. Life(j) /\ job[j].pc = "absent"
      BY <2>2 DEF LifeInv, Life
    <2> QED BY Zenon, <2>2, <2>3 DEF Life, BeingStarted
  <1> QED BY <1>1, Invariants, PTL

(***************************************************************************)
(* No job waits at the gate inside a transaction or with a slot in hand     *)
(* (operation_slot: "Never while one is open").                             *)
(***************************************************************************)
THEOREM WaitsOutside == Spec => []NeverWaitsInside
  <1>1. GateInv => NeverWaitsInside
    BY Zenon DEF GateInv, GateOrder, NeverWaitsInside
  <1> QED BY <1>1, Invariants, PTL

(***************************************************************************)
(* Two jobs at work with a key in common do not both have their sessions    *)
(* (open_job's locks).                                                      *)
(***************************************************************************)
THEOREM TargetsSerialise == Spec => []SharedTargetsSerialise
  <1>1. GateInv /\ SessionInv => SharedTargetsSerialise
    <2> SUFFICES ASSUME GateInv, SessionInv, NEW j \in Jobs, NEW k \in Jobs, j # k,
                        Working(j), Working(k), ses[j].pid # 0, ses[k].pid # 0
                 PROVE  Keys(job[j].spec) \cap Keys(job[k].spec) = {}
      BY Zenon DEF SharedTargetsSerialise
    <2>1. Holding(j) /\ Holding(k)
      <3>1. GateOrder(job[j]) /\ GateOrder(job[k])
        BY Zenon DEF GateInv
      <3> QED BY Zenon, <3>1 DEF Holding, Working, GateOrder
    <2>2. ses[j].keys = Keys(job[j].spec) /\ ses[k].keys = Keys(job[k].spec)
      BY Zenon, <2>1 DEF SessionInv, OwnSession
    <2>3. ses[j].keys \cap ses[k].keys = {}
      BY Zenon DEF SessionInv, ApartFrom
    <2> QED BY Zenon, <2>2, <2>3
  <1> QED BY <1>1, Invariants, PTL

(***************************************************************************)
(* A job marked interrupted has lost its session (job_is_dead_sql).         *)
(***************************************************************************)
THEOREM NoneMarkedAlive == Spec => []MarkedIsGone
  <1>1. SessionInv => MarkedIsGone
    BY Zenon DEF SessionInv, OwnSession, MarkedIsGone
  <1> QED BY <1>1, Invariants, PTL

(***************************************************************************)
(* A reconciliation leaves no job whose session is gone running, unless     *)
(* another role's session has taken its pid and its key                     *)
(* (reconcile_dead_jobs).                                                   *)
(***************************************************************************)
THEOREM NoneLeftDead == Spec => DeadAreMarked
  <1>1. Shapes /\ SessionInv /\ [Next]_vars =>
          [Reconcile =>
              \A j \in Jobs :
                  row'[j].state = "running" =>
                      \/ ses[j].pid # 0
                      \/ \E k \in Jobs : /\ Hidden(k) /\ ses[k].pid = row[j].pid
                                          /\ Specs[job[j].spec].keys[1] \in ses[k].keys]_vars
    <2> SUFFICES ASSUME Shapes, SessionInv, Reconcile, NEW j \in Jobs,
                        row'[j].state = "running"
                 PROVE  ses[j].pid # 0 \/ Mistaken(j)
      BY Zenon DEF Mistaken
    <2>1. row'[j] = IF IsDead(j) THEN [row[j] EXCEPT !.state = "interrupted"] ELSE row[j]
      BY Zenon DEF Reconcile, Marked
    <2>2. row[j] \in RowType
      BY Zenon DEF Shapes
    <2>3. ~IsDead(j)
      <3> SUFFICES ASSUME IsDead(j) PROVE FALSE
        OBVIOUS
      <3>1. row'[j] = [row[j] EXCEPT !.state = "interrupted"]
        BY <2>1
      <3> QED BY Zenon, <2>2, <3>1 DEF RowType
    <2>4. row[j].state = "running"
      BY <2>1, <2>3
    <2> QED BY Zenon, <2>3, <2>4, GoneIsDead
  <1> QED BY <1>1, Invariants, PTL DEF Spec, DeadAreMarked

=============================================================================
