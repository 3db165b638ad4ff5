---------------------------- MODULE PacingProofs ----------------------------
(***************************************************************************)
(* Proofs about the pacing ladder, for any thresholds validate_executor    *)
(* accepts, any dwell, any number of waiters and, where it holds for them, *)
(* any number of observers.                                                *)
(***************************************************************************)
EXTENDS Pacing, TLAPS

\* The ticks counted towards the next change of the pause flag all came after
\* the last one.
CountsAreFresh ==
    /\ ~paused => contention <= sinceFlip
    /\ paused => quiet <= sinceFlip

\* A batch that went out with a waiter told is the transaction's last.
ToldIsLast ==
    told > 0 =>
        /\ told = 1 /\ direct
        /\ \/ stmt = "batch" /\ pc \in {"running", "raised"}
           \/ stmt = "cursor" /\ pc \in {"between", "running", "raised"}

\* With one observer the job's count is that observer's.
OneCount == high = contention /\ (contention >= Dwell => paused)

-----------------------------------------------------------------------------
(* Types *)

\* The flags are set to TRUE or FALSE and nothing else.
LEMMA FlagsStep ==
  ASSUME FlagsOK, [Next]_vars
  PROVE  FlagsOK'
<1>1. CASE UNCHANGED vars
  BY Zenon, <1>1 DEF FlagsOK, vars, worker, asked, ladder, queue, observers
<1>2. CASE Stopped
  BY Zenon, <1>2 DEF Stopped, End, Release, LetGo, FlagsOK, worker, asked, ladder, queue, observers
<1>3. CASE Pause
  BY Zenon, <1>3 DEF Pause, FlagsOK, worker, asked, ladder, queue, observers
<1>4. CASE Begin
  <2>1. inTxn' \in BOOLEAN
    BY <1>4 DEF Begin
  <2> QED
    BY Zenon, <1>4, <2>1 DEF Begin, FlagsOK, asked, ladder, queue
<1>5. CASE AbortContention
  BY Zenon, <1>5
     DEF AbortContention, End, Release, LetGo, FlagsOK, worker, asked, ladder, queue, observers
<1>6. CASE Send
  BY Zenon, <1>6 DEF Send, FlagsOK, worker, asked, ladder, queue, observers
<1>7. CASE BatchReturns
  BY Zenon, <1>7 DEF BatchReturns, FlagsOK, worker, asked, ladder, queue, observers
<1>8. CASE CursorReturns
  BY Zenon, <1>8
     DEF CursorReturns, End, Release, LetGo, FlagsOK, worker, asked, ladder, queue, observers
<1>9. CASE LongReturns
  BY Zenon, <1>9 DEF LongReturns, End, Release, LetGo, FlagsOK, worker, asked, ladder, queue, observers
<1>10. CASE SqlReturns
  BY Zenon, <1>10 DEF SqlReturns, End, Release, LetGo, FlagsOK, worker, asked, ladder, queue, observers
<1>11. CASE StatementTimesOut
  BY Zenon, <1>11 DEF StatementTimesOut, FlagsOK, worker, asked, ladder, queue, observers
<1>12. CASE BatchGivesWay
  BY Zenon, <1>12 DEF BatchGivesWay, Release, LetGo, FlagsOK, worker, asked, ladder, queue, observers
<1>13. CASE LongGivesWay
  BY Zenon, <1>13 DEF LongGivesWay, Release, LetGo, FlagsOK, worker, asked, ladder, queue, observers
<1>14. CASE LongStopped
  BY Zenon, <1>14
     DEF LongStopped, End, Release, LetGo, FlagsOK, worker, asked, ladder, queue, observers
<1>15. CASE Unwind
  BY Zenon, <1>15 DEF Unwind, End, Release, LetGo, FlagsOK, worker, asked, ladder, queue, observers
<1>16. CASE CancelJob
  BY Zenon, <1>16 DEF CancelJob, FlagsOK, worker, asked, ladder, queue, observers
<1>17. CASE StopJobs
  BY Zenon, <1>17 DEF StopJobs, FlagsOK, worker, asked, ladder, queue, observers
<1>18. CASE WaiterArrives
  BY Zenon, <1>18 DEF WaiterArrives, FlagsOK, worker, asked, ladder, queue, observers
<1>19. CASE WaiterStarves
  BY Zenon, <1>19 DEF WaiterStarves, FlagsOK, worker, asked, ladder, queue, observers
<1>20. CASE WaiterLeaves
  BY Zenon, <1>20 DEF WaiterLeaves, FlagsOK, worker, asked, ladder, queue, observers
<1>21. CASE \E o \in Observers : Tick(o)
  BY Zenon, <1>21 DEF Tick, FlagsOK, worker, asked, ladder, queue, observers
<1>22. CASE \E o \in Observers : Lands(o)
  BY Zenon, <1>22 DEF Lands, FlagsOK, worker, asked, ladder, queue, observers
<1>23. CASE \E o \in Observers : Read(o)
  BY Zenon, <1>23 DEF Read, FlagsOK, worker, asked, ladder, queue, observers
<1>24. CASE \E o \in Observers : ReadFails(o)
  BY Zenon, <1>24 DEF ReadFails, FlagsOK, worker, asked, ladder, queue, observers
<1>25. CASE \E o \in Observers : Apply(o)
  <2> PICK o \in Observers : Apply(o)
    BY <1>25
  <2>1. {inTxn', cancelStop', stopNow', starving'} \subseteq BOOLEAN
    BY Zenon DEF Apply, FlagsOK, worker, asked, queue
  <2>2. cancelRequested' \in BOOLEAN
    BY Zenon DEF Apply, FlagsOK
  <2>3. direct' \in BOOLEAN
    BY DEF Apply, Ladder
  <2>4. paused' \in BOOLEAN
    BY Zenon DEF Apply, Ladder
  <2>5. throttled' \in BOOLEAN
    BY Zenon DEF Apply, Ladder
  <2> QED
    BY Zenon, <2>1, <2>2, <2>3, <2>4, <2>5 DEF FlagsOK
<1>26. CASE AloneReturns
  BY Zenon, <1>26
     DEF AloneReturns, End, Release, LetGo, FlagsOK, worker, asked, ladder, queue, observers
<1>27. CASE \E o \in Observers : SendFails(o)
  BY Zenon, <1>27 DEF SendFails, FlagsOK, worker, asked, ladder, queue, observers
<1>28. QED
  BY <1>1, <1>2, <1>3, <1>4, <1>5, <1>6, <1>7, <1>8, <1>9, <1>10, <1>11, <1>12, <1>13, <1>14,
     <1>15, <1>16, <1>17, <1>18, <1>19, <1>20, <1>21, <1>22, <1>23, <1>24, <1>25, <1>26, <1>27
     DEF Next, Returns, Handles, Observe

\* A count of ticks stays within the dwell.
LEMMA UpType ==
  ASSUME NEW n \in 0..Dwell
  PROVE  Up(n) \in 0..Dwell /\ Up(n) <= n + 1 /\ Up(n) > 0
  BY LadderAssumption DEF Up

\* Letting the queue go leaves no waiter behind the worker.
LEMMA ReleaseType ==
  ASSUME TypeOK, Release
  PROVE  /\ sent' = 0 /\ told' = 0
         /\ mine' = 0 /\ theirs' \in 0..MaxWaiters
         /\ ~starving' /\ ~inTxn'
  BY BoundAssumption DEF TypeOK, Release, LetGo

\* Every action keeps the state well-formed.
LEMMA TypeStep ==
  ASSUME TypeOK, [Next]_vars
  PROVE  TypeOK'
<1>1. FlagsOK'
  BY FlagsStep DEF TypeOK
<1>2. CASE UNCHANGED vars
  BY <1>2, <1>1, BoundAssumption
     DEF TypeOK, OtherSql, Live, Terminal, vars, worker, asked, ladder, queue, observers
<1>3. CASE Stopped
  BY <1>3, <1>1, BoundAssumption, ReleaseType
     DEF Stopped, End, TypeOK, OtherSql, Live, Terminal, worker, asked, ladder, queue, observers
<1>4. CASE Pause
  BY <1>4, <1>1, BoundAssumption
     DEF Pause, TypeOK, OtherSql, Live, Terminal, worker, asked, ladder, queue, observers
<1>5. CASE Begin
  <2>1. /\ stmt' \in {"batch", "long"} \cup OtherSql
        /\ stmt' \in OtherSql => kind = "other"
    BY <1>5 DEF Begin, TypeOK, OtherSql
  <2>2. pc' = "between" /\ job' = "running"
    BY <1>5 DEF Begin
  <2>2a. inTxn => inTxn'
    BY Zenon, <1>5 DEF Begin
  <2>3. sent < CapBatches
    BY <1>5, BoundAssumption DEF Begin, TypeOK
  <2> QED
    BY <1>5, <1>1, <2>1, <2>2, <2>2a, <2>3
       DEF Begin, TypeOK, OtherSql, Live, Terminal, asked, ladder, queue, observers
<1>6. CASE AbortContention
  BY <1>6, <1>1, BoundAssumption, ReleaseType
     DEF AbortContention, End, TypeOK, OtherSql, Live, Terminal, worker, asked, ladder, queue,
         observers
<1>7. CASE Send
  BY <1>7, <1>1, BoundAssumption
     DEF Send, TypeOK, OtherSql, Live, Terminal, worker, asked, ladder, queue, observers
<1>8. CASE BatchReturns
  BY <1>8, <1>1, BoundAssumption
     DEF BatchReturns, TypeOK, OtherSql, Live, Terminal, worker, asked, ladder, queue, observers
<1>9. CASE CursorReturns
  BY <1>9, <1>1, BoundAssumption, ReleaseType
     DEF CursorReturns, End, TypeOK, OtherSql, Live, Terminal, worker, asked, ladder, queue, observers
<1>10. CASE LongReturns
  BY <1>10, <1>1, BoundAssumption, ReleaseType
     DEF LongReturns, End, TypeOK, OtherSql, Live, Terminal, worker, asked, ladder, queue, observers
<1>11. CASE SqlReturns
  BY <1>11, <1>1, BoundAssumption, ReleaseType
     DEF SqlReturns, End, TypeOK, OtherSql, Live, Terminal, worker, asked, ladder, queue, observers
<1>12. CASE StatementTimesOut
  BY <1>12, <1>1, BoundAssumption
     DEF StatementTimesOut, TypeOK, OtherSql, Live, Terminal, worker, asked, ladder, queue, observers
<1>13. CASE BatchGivesWay
  BY <1>13, <1>1, BoundAssumption, ReleaseType
     DEF BatchGivesWay, TypeOK, OtherSql, Live, Terminal, worker, asked, ladder, queue, observers
<1>14. CASE LongGivesWay
  BY <1>14, <1>1, BoundAssumption, ReleaseType
     DEF LongGivesWay, TypeOK, OtherSql, Live, Terminal, worker, asked, ladder, queue, observers
<1>15. CASE LongStopped
  BY <1>15, <1>1, BoundAssumption, ReleaseType
     DEF LongStopped, End, TypeOK, OtherSql, Live, Terminal, worker, asked, ladder, queue, observers
<1>16. CASE Unwind
  BY <1>16, <1>1, BoundAssumption, ReleaseType
     DEF Unwind, End, TypeOK, OtherSql, Live, Terminal, worker, asked, ladder, queue, observers
<1>17. CASE CancelJob
  BY <1>17, <1>1, BoundAssumption
     DEF CancelJob, TypeOK, OtherSql, Live, Terminal, worker, asked, ladder, queue, observers
<1>18. CASE StopJobs
  BY <1>18, <1>1, BoundAssumption
     DEF StopJobs, TypeOK, OtherSql, Live, Terminal, worker, asked, ladder, queue, observers
<1>19. CASE WaiterArrives
  BY <1>19, <1>1, BoundAssumption
     DEF WaiterArrives, TypeOK, OtherSql, Live, Terminal, worker, asked, ladder, queue, observers
<1>20. CASE WaiterStarves
  BY <1>20, <1>1, BoundAssumption
     DEF WaiterStarves, TypeOK, OtherSql, Live, Terminal, worker, asked, ladder, queue, observers
<1>21. CASE WaiterLeaves
  BY <1>21, <1>1, BoundAssumption
     DEF WaiterLeaves, TypeOK, OtherSql, Live, Terminal, worker, asked, ladder, queue, observers
<1>22. CASE \E o \in Observers : Tick(o)
  BY <1>22, <1>1, BoundAssumption
     DEF Tick, TypeOK, OtherSql, Live, Terminal, worker, asked, ladder, queue, observers
<1>23. CASE \E o \in Observers : Lands(o)
  BY <1>23, <1>1, BoundAssumption
     DEF Lands, TypeOK, OtherSql, Live, Terminal, worker, asked, ladder, queue, observers
<1>24. CASE \E o \in Observers : Read(o)
  <2> PICK o \in Observers : Read(o)
    BY <1>24
  <2>1. starving \in BOOLEAN
    BY Zenon DEF TypeOK, FlagsOK
  <2>2. Quiet \in Reading
    BY BoundAssumption DEF Quiet, Reading
  <2>3. [waiters |-> mine, starving |-> starving, pile |-> mine + theirs] \in Reading
    BY <2>1, BoundAssumption DEF Reading, TypeOK
  <2> QED
    BY <1>1, <2>2, <2>3 DEF Read, TypeOK, OtherSql, Live, Terminal, worker, asked, ladder, queue
<1>25. CASE \E o \in Observers : ReadFails(o)
  BY <1>25, <1>1, BoundAssumption
     DEF ReadFails, TypeOK, OtherSql, Live, Terminal, worker, asked, ladder, queue, observers
<1>26. CASE \E o \in Observers : Apply(o)
  <2> PICK o \in Observers : Apply(o)
    BY <1>26
  <2> DEFINE w == seen[o].waiters
  <2>1. w \in 0..MaxWaiters
    BY DEF TypeOK, Reading
  <2>2. contention' \in 0..Dwell /\ quiet' \in 0..Dwell
    BY <2>1, UpType, LadderAssumption DEF Apply, Ladder, CountTicks, TypeOK
  <2>3. sinceFlip' \in 0..Dwell /\ high' \in 0..Dwell
    BY <2>1, UpType, LadderAssumption DEF Apply, TypeOK
  <2>4. Quiet \in Reading
    BY BoundAssumption DEF Quiet, Reading
  <2>5. /\ opc' \in [Observers -> {"asleep", "stopping", "read", "apply", "cancelling"}]
        /\ seen' \in [Observers -> Reading]
    BY <2>4 DEF Apply, TypeOK
  <2>6. told' \in 0..sent'
    BY DEF Apply, TypeOK, worker
  <2> QED
    BY <1>1, <2>2, <2>3, <2>5, <2>6 DEF Apply, TypeOK, OtherSql, Live, Terminal, worker, asked, queue
<1>27. CASE AloneReturns
  BY <1>27, <1>1, BoundAssumption, ReleaseType
     DEF AloneReturns, LetGo, End, TypeOK, OtherSql, Live, Terminal, worker, asked, ladder, queue,
         observers
<1>28. CASE \E o \in Observers : SendFails(o)
  BY <1>28, <1>1, BoundAssumption
     DEF SendFails, TypeOK, OtherSql, Live, Terminal, worker, asked, ladder, queue, observers
<1>29. QED
  BY <1>2, <1>3, <1>4, <1>5, <1>6, <1>7, <1>8, <1>9, <1>10, <1>11, <1>12, <1>13, <1>14, <1>15,
     <1>16, <1>17, <1>18, <1>19, <1>20, <1>21, <1>22, <1>23, <1>24, <1>25, <1>26, <1>27, <1>28
     DEF Next, Returns, Handles, Observe

\* The initial states are well-formed.
LEMMA TypeInit == Init => TypeOK
<1> SUFFICES ASSUME Init PROVE TypeOK
  OBVIOUS
<1>1. FlagsOK
  BY Zenon DEF Init, FlagsOK
<1>2. Quiet \in Reading
  BY BoundAssumption DEF Quiet, Reading
<1>3. QED
  BY <1>1, <1>2, LadderAssumption, BoundAssumption DEF Init, TypeOK, OtherSql, Live, Terminal

\* TypeOK is an invariant: the worker and its observers keep the pacing state
\* well-formed, a paused worker holds no transaction, and nobody waits behind a
\* worker that holds none.
THEOREM TypeCorrect == Spec => []TypeOK
<1>1. Init => TypeOK
  BY TypeInit
<1>2. TypeOK /\ [Next]_vars => TypeOK'
  BY TypeStep
<1>3. QED
  BY <1>1, <1>2, PTL DEF Spec

-----------------------------------------------------------------------------
(* The ladder *)

\* Only an applied reading moves the ladder.
LEMMA LadderMoves ==
  ASSUME [Next]_vars
  PROVE  UNCHANGED ladder \/ \E o \in Observers : Apply(o)
<1>1. Returns => UNCHANGED ladder
  BY DEF Returns, BatchReturns, CursorReturns, LongReturns, SqlReturns, AloneReturns
<1>2. Handles => UNCHANGED ladder
  BY DEF Handles, Stopped, Pause, Begin, AbortContention, Send, BatchGivesWay,
         LongGivesWay, LongStopped, Unwind
<1>3. ASSUME NEW o \in Observers, Observe(o), ~Apply(o)
      PROVE  UNCHANGED ladder
  BY <1>3 DEF Observe, Tick, Lands, SendFails, Read, ReadFails
<1>4. UNCHANGED vars => UNCHANGED ladder
  BY DEF vars
<1>5. CancelJob \/ StopJobs \/ StatementTimesOut => UNCHANGED ladder
  BY DEF CancelJob, StopJobs, StatementTimesOut
<1>6. WaiterArrives \/ WaiterStarves \/ WaiterLeaves => UNCHANGED ladder
  BY DEF WaiterArrives, WaiterStarves, WaiterLeaves
<1>7. QED
  BY <1>1, <1>2, <1>3, <1>4, <1>5, <1>6 DEF Next

\* What one reading does to the counts and to the pause flag.
LEMMA LadderEffect ==
  ASSUME TypeOK, NEW o \in Observers, Apply(o)
  PROVE  /\ contention' <= Up(contention) /\ quiet' <= Up(quiet)
         /\ ~paused /\ paused' => contention' >= Dwell /\ quiet' = 0
         /\ paused /\ ~paused' => quiet' >= Dwell /\ contention' = 0
         /\ (paused' <=> paused) => sinceFlip' = Up(sinceFlip)
<1> DEFINE w == seen[o].waiters
<1>1. w \in Nat
  BY BoundAssumption DEF TypeOK, Reading
<1>2. /\ contention' = IF w >= PauseWaiters THEN Up(contention) ELSE 0
      /\ quiet' = IF w <= ResumeWaiters THEN Up(quiet) ELSE 0
  BY DEF Apply, Ladder, CountTicks
<1>3. /\ paused' <=> \/ w >= PauseWaiters /\ contention' >= Dwell
                     \/ paused /\ quiet' < Dwell
  BY DEF Apply, Ladder
<1>4. contention' <= Up(contention) /\ quiet' <= Up(quiet)
  BY <1>2, UpType, LadderAssumption DEF TypeOK
<1>5. contention' \in Nat /\ quiet' \in Nat
  BY <1>2, UpType, LadderAssumption DEF TypeOK
<1>6. ~paused /\ paused' => contention' >= Dwell /\ quiet' = 0
  BY <1>1, <1>2, <1>3, LadderAssumption
<1>7. paused /\ ~paused' => quiet' >= Dwell /\ contention' = 0
  <2> SUFFICES ASSUME paused, ~paused' PROVE quiet' >= Dwell /\ contention' = 0
    OBVIOUS
  <2>1. quiet' >= Dwell
    BY <1>3, <1>5, LadderAssumption
  <2>2. w <= ResumeWaiters
    BY <2>1, <1>2, LadderAssumption
  <2> QED
    BY <2>1, <2>2, <1>1, <1>2, LadderAssumption
<1>8. (paused' <=> paused) => sinceFlip' = Up(sinceFlip)
  <2>1. paused \in BOOLEAN /\ paused' \in BOOLEAN
    BY TypeStep, Zenon DEF TypeOK, FlagsOK, Next, Observe
  <2> QED
    BY <2>1, Zenon DEF Apply
<1>9. QED
  BY <1>4, <1>6, <1>7, <1>8

\* The counts stay fresh.
LEMMA FreshStep ==
  ASSUME TypeOK, TypeOK', CountsAreFresh, [Next]_vars
  PROVE  CountsAreFresh'
<1>1. CASE UNCHANGED ladder
  BY <1>1 DEF CountsAreFresh, ladder
<1>2. CASE \E o \in Observers : Apply(o)
  <2> PICK o \in Observers : Apply(o)
    BY <1>2
  <2>1. /\ contention' \in 0..Dwell /\ quiet' \in 0..Dwell /\ sinceFlip' \in 0..Dwell
        /\ contention \in 0..Dwell /\ quiet \in 0..Dwell /\ sinceFlip \in 0..Dwell
    BY DEF TypeOK
  <2>2. \A m, n \in 0..Dwell : m <= n => Up(m) <= Up(n)
    BY LadderAssumption DEF Up
  <2>3. Up(contention) \in Nat /\ Up(quiet) \in Nat /\ Up(sinceFlip) \in Nat
    BY <2>1, LadderAssumption DEF Up
  <2> QED
    BY <2>1, <2>2, <2>3, LadderEffect DEF CountsAreFresh
<1>3. QED
  BY <1>1, <1>2, LadderMoves

\* NoFlapping, for every set of observers: the pause flag keeps its value for
\* contention_dwell_ticks ticks at least (bump_quiet, apply).
THEOREM Hysteresis == Spec => NoFlapping
<1>1. Init => CountsAreFresh
  BY DEF Init, CountsAreFresh
<1>2. TypeOK /\ TypeOK' /\ CountsAreFresh /\ [Next]_vars => CountsAreFresh'
  BY FreshStep
<1>3. ASSUME TypeOK, TypeOK', CountsAreFresh, [Next]_vars
      PROVE  [paused' # paused => sinceFlip + 1 >= Dwell]_vars
  <2>0. paused \in BOOLEAN /\ paused' \in BOOLEAN
    BY <1>3, Zenon DEF TypeOK, FlagsOK
  <2>1. CASE UNCHANGED ladder
    BY <2>1 DEF ladder
  <2>2. ASSUME NEW o \in Observers, Apply(o), ~paused, paused'
        PROVE  sinceFlip + 1 >= Dwell
    <3>1. contention' <= Up(contention) /\ contention' >= Dwell /\ contention <= sinceFlip
      BY <1>3, <2>2, LadderEffect DEF CountsAreFresh
    <3> QED
      BY <1>3, <3>1, LadderAssumption DEF TypeOK, Up
  <2>3. ASSUME NEW o \in Observers, Apply(o), paused, ~paused'
        PROVE  sinceFlip + 1 >= Dwell
    <3>1. quiet' <= Up(quiet) /\ quiet' >= Dwell /\ quiet <= sinceFlip
      BY <1>3, <2>3, LadderEffect DEF CountsAreFresh
    <3> QED
      BY <1>3, <3>1, LadderAssumption DEF TypeOK, Up
  <2> QED
    BY <1>3, <2>0, <2>1, <2>2, <2>3, LadderMoves
<1>4. QED
  BY <1>1, <1>2, <1>3, TypeCorrect, PTL DEF Spec, NoFlapping

-----------------------------------------------------------------------------
(* The commit trigger *)

\* BatchReturns goes on only while no waiter is told, and whatever ends the
\* transaction forgets the count.
LEMMA ToldStep ==
  ASSUME TypeOK, ToldIsLast, [Next]_vars
  PROVE  ToldIsLast'
<1>1. CASE UNCHANGED vars
  BY <1>1, BoundAssumption DEF ToldIsLast, TypeOK, vars, worker, asked, ladder, queue, observers
<1>2. CASE Stopped
  BY <1>2, BoundAssumption
     DEF Stopped, End, Release, LetGo, ToldIsLast, TypeOK, worker, asked, ladder, queue, observers
<1>3. CASE Pause
  BY <1>3, BoundAssumption
     DEF Pause, ToldIsLast, TypeOK, worker, asked, ladder, queue, observers
<1>4. CASE Begin
  BY <1>4, BoundAssumption
     DEF Begin, ToldIsLast, TypeOK, worker, asked, ladder, queue, observers
<1>5. CASE AbortContention
  BY <1>5, BoundAssumption
     DEF AbortContention, End, Release, LetGo, ToldIsLast, TypeOK, worker, asked, ladder, queue,
         observers
<1>6. CASE Send
  BY <1>6, BoundAssumption DEF Send, ToldIsLast, TypeOK, worker, asked, ladder, queue, observers
<1>7. CASE BatchReturns
  BY <1>7, BoundAssumption
     DEF BatchReturns, ToldIsLast, TypeOK, worker, asked, ladder, queue, observers
<1>8. CASE CursorReturns
  BY <1>8, BoundAssumption
     DEF CursorReturns, End, Release, LetGo, ToldIsLast, TypeOK, worker, asked, ladder, queue,
         observers
<1>9. CASE LongReturns
  BY <1>9, BoundAssumption
     DEF LongReturns, End, Release, LetGo, ToldIsLast, TypeOK, worker, asked, ladder, queue,
         observers
<1>10. CASE SqlReturns
  BY <1>10, BoundAssumption
     DEF SqlReturns, End, Release, LetGo, ToldIsLast, TypeOK, worker, asked, ladder, queue,
         observers
<1>11. CASE StatementTimesOut
  BY <1>11, BoundAssumption
     DEF StatementTimesOut, ToldIsLast, TypeOK, worker, asked, ladder, queue, observers
<1>12. CASE BatchGivesWay
  BY <1>12, BoundAssumption
     DEF BatchGivesWay, Release, LetGo, ToldIsLast, TypeOK, worker, asked, ladder, queue, observers
<1>13. CASE LongGivesWay
  BY <1>13, BoundAssumption
     DEF LongGivesWay, Release, LetGo, ToldIsLast, TypeOK, worker, asked, ladder, queue, observers
<1>14. CASE LongStopped
  BY <1>14, BoundAssumption
     DEF LongStopped, End, Release, LetGo, ToldIsLast, TypeOK, worker, asked, ladder, queue,
         observers
<1>15. CASE Unwind
  BY <1>15, BoundAssumption
     DEF Unwind, End, Release, LetGo, ToldIsLast, TypeOK, worker, asked, ladder, queue, observers
<1>16. CASE CancelJob
  BY <1>16, BoundAssumption
     DEF CancelJob, ToldIsLast, TypeOK, worker, asked, ladder, queue, observers
<1>17. CASE StopJobs
  BY <1>17, BoundAssumption
     DEF StopJobs, ToldIsLast, TypeOK, worker, asked, ladder, queue, observers
<1>18. CASE WaiterArrives
  BY <1>18, BoundAssumption
     DEF WaiterArrives, ToldIsLast, TypeOK, worker, asked, ladder, queue, observers
<1>19. CASE WaiterStarves
  BY <1>19, BoundAssumption
     DEF WaiterStarves, ToldIsLast, TypeOK, worker, asked, ladder, queue, observers
<1>20. CASE WaiterLeaves
  BY <1>20, BoundAssumption
     DEF WaiterLeaves, ToldIsLast, TypeOK, worker, asked, ladder, queue, observers
<1>21. CASE \E o \in Observers : Tick(o)
  BY <1>21, BoundAssumption
     DEF Tick, ToldIsLast, TypeOK, worker, asked, ladder, queue, observers
<1>22. CASE \E o \in Observers : Lands(o)
  BY <1>22, BoundAssumption
     DEF Lands, ToldIsLast, TypeOK, worker, asked, ladder, queue, observers
<1>23. CASE \E o \in Observers : Read(o)
  BY <1>23, BoundAssumption
     DEF Read, ToldIsLast, TypeOK, worker, asked, ladder, queue, observers
<1>24. CASE \E o \in Observers : ReadFails(o)
  BY <1>24, BoundAssumption
     DEF ReadFails, ToldIsLast, TypeOK, worker, asked, ladder, queue, observers
<1>25. CASE \E o \in Observers : Apply(o)
  <2> PICK o \in Observers : Apply(o)
    BY <1>25
  <2>1. UNCHANGED <<pc, stmt>>
    BY DEF Apply, worker
  <2>2. seen[o].waiters \in Nat
    BY BoundAssumption DEF TypeOK, Reading
  <2>3. direct' <=> seen[o].waiters > 0
    BY Zenon DEF Apply, Ladder
  <2>4. told' = IF seen[o].waiters = 0 THEN 0 ELSE told
    BY DEF Apply
  <2> QED
    BY <2>1, <2>2, <2>3, <2>4 DEF ToldIsLast
<1>26. CASE AloneReturns
  BY <1>26, BoundAssumption
     DEF AloneReturns, End, Release, LetGo, ToldIsLast, TypeOK, worker, asked, ladder,
         queue, observers
<1>27. CASE \E o \in Observers : SendFails(o)
  BY <1>27, BoundAssumption
     DEF SendFails, ToldIsLast, TypeOK, worker, asked, ladder, queue, observers
<1>28. QED
  BY <1>1, <1>2, <1>3, <1>4, <1>5, <1>6, <1>7, <1>8, <1>9, <1>10, <1>11, <1>12, <1>13, <1>14,
     <1>15, <1>16, <1>17, <1>18, <1>19, <1>20, <1>21, <1>22, <1>23, <1>24, <1>25, <1>26, <1>27
     DEF Next, Returns, Handles, Observe

\* CommitsForWaiter, for every set of observers: a worker told of a waiter
\* sends one more batch at most before it commits (run_backfill).
THEOREM CommitTrigger == Spec => []CommitsForWaiter
<1>1. Init => ToldIsLast
  BY DEF Init, ToldIsLast
<1>2. TypeOK /\ ToldIsLast /\ [Next]_vars => ToldIsLast'
  BY ToldStep
<1>3. TypeOK /\ ToldIsLast => CommitsForWaiter
  BY DEF TypeOK, ToldIsLast, CommitsForWaiter
<1>4. QED
  BY <1>1, <1>2, <1>3, TypeCorrect, PTL DEF Spec

-----------------------------------------------------------------------------
(* The breaker, with one observer *)

\* BreakerTrips, when no other connection's observer ticks over the job: the
\* breaker cannot be missed or put off (apply).
THEOREM Breaker ==
  ASSUME Foreign = {}
  PROVE  Spec => []BreakerTrips
<1>1. Init => OneCount
  BY LadderAssumption DEF Init, OneCount
<1>2. ASSUME TypeOK, TypeOK', OneCount, [Next]_vars
      PROVE  OneCount'
  <2>1. CASE UNCHANGED ladder
    BY <1>2, <2>1 DEF OneCount, ladder
  <2>2. CASE \E o \in Observers : Apply(o)
    <3> PICK o \in Observers : Apply(o)
      BY <2>2
    <3> DEFINE w == seen[o].waiters
    <3>1. o = Own
      BY DEF Observers
    <3>2. high' = IF w >= PauseWaiters THEN Up(high) ELSE 0
      BY <3>1 DEF Apply
    <3>3. contention' = IF w >= PauseWaiters THEN Up(contention) ELSE 0
      BY DEF Apply, Ladder, CountTicks
    <3>4. w >= PauseWaiters /\ contention' >= Dwell => paused'
      BY DEF Apply, Ladder
    <3> QED
      BY <1>2, <3>2, <3>3, <3>4, LadderAssumption DEF OneCount
  <2> QED
    BY <1>2, <2>1, <2>2, LadderMoves
<1>3. OneCount => BreakerTrips
  BY DEF OneCount, BreakerTrips
<1>4. QED
  BY <1>1, <1>2, <1>3, TypeCorrect, PTL DEF Spec
=============================================================================
