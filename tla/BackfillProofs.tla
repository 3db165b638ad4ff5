--------------------------- MODULE BackfillProofs ---------------------------
(***************************************************************************)
(* Proofs about the backfill walk, for any table, any batch sizes and any  *)
(* number of attempts, cancellations and application writes; and about the *)
(* recipes that plan a walk and what follows it, for any database.         *)
(***************************************************************************)
EXTENDS Backfill, Sequences, TLAPS

\* A row whose being left undone this attempt is not answerable for.
Excused(k) ==
    \/ k \in dirtied \/ k \in undone \/ k <= Start
    \/ step.sourced /\ k \in earlier

Walking == pc \in {"bound", "single", "statement", "top", "batch", "look",
                   "select", "commit"}

\* Every row at or below p is written, in the table or in the open transaction.
DoneUpTo(p) == \A k \in todo \ txn : k <= p => Excused(k)

\* A grouped position without a group claims nothing: the walk starts over.
Claims(p) == step.grouped => ~Unset(p)

\* Everything the walk has passed is written: up to its cursor, and up to the
\* one run_grouped_batch has brought forward.
Passed ==
    /\ Walking /\ Claims(cursor) => DoneUpTo(cursor)
    /\ pc = "look" /\ Claims(at) => DoneUpTo(at)
    /\ pc = "select" => DoneUpTo(at)
    /\ pc = "batch" => ~step.grouped
    /\ pc \in {"look", "select"} => step.grouped

\* A walk that found no further batch, and one that committed it.
Finished ==
    /\ pc = "final" => \A k \in todo \ txn : Excused(k)
    /\ pc = "verify" => \A k \in todo : Excused(k)

\* A cursor that resume_cursor cannot check, a walk over the specification's
\* rows having no filter: every row at or below it is written or excused.
Recorded ==
    step.sourced =>
        \A a \in hasCursor : \A k \in todo : k <= saved[a] => Excused(k)

\* No row to do lies beyond the upper bound: it was the highest key, and rows
\* made since are filled by the trigger.
WithinBound == hasUpto => step.bounded /\ \A k \in todo : k <= upto

\* Outside a transaction that holds rows, the position in memory is the one
\* the walk began at or the one it committed.
AtCommitted ==
    \/ cursor = resumed
    \/ attempt \in hasCursor /\ saved[attempt] = cursor
    \/ undone # {}

Settled ==
    /\ pc \in {"bound", "single", "statement", "top", "verify"} => AtCommitted
    /\ pc \in {"batch", "look", "select"} /\ txn = {} => AtCommitted

Inv == Passed /\ Finished /\ Recorded /\ WithinBound /\ Settled

-----------------------------------------------------------------------------
(* Types *)

\* The initial states are well-formed.
LEMMA TypeInit == Init => TypeOK
<1> SUFFICES ASSUME Init PROVE TypeOK
  OBVIOUS
<1>1. outcome \in [Attempts -> Outcomes] /\ saved \in [Attempts -> Int]
  BY DEF Init, Outcomes, Start
<1>2. /\ attempt \in 0..MaxAttempts
      /\ cancels \in 0..MaxCancels
      /\ appWrites \in 0..MaxAppWrites
  BY BoundAssumption DEF Init
<1>2a. looked \in 0..GroupsPerBatch
  BY GroupsAssumption DEF Init
<1>3. FlagsOK
  BY Zenon DEF Init, FlagsOK
<1>4. QED
  BY <1>1, <1>2, <1>2a, <1>3 DEF Init, TypeOK, InTransaction, PCs, Start

\* The flags are set to TRUE or FALSE and nothing else.
LEMMA FlagsStep ==
  ASSUME FlagsOK, [Next]_vars
  PROVE  FlagsOK'
<1> USE DEF FlagsOK, flags, bound
<1>1. CASE Resume
  BY <1>1, Zenon DEF Resume
<1>2. CASE ReadBound
  BY <1>2, Zenon DEF ReadBound
<1>3. CASE SingleBegin
  BY <1>3, Zenon DEF SingleBegin
<1>4. CASE SingleStatement
  BY <1>4, Zenon DEF SingleStatement
<1>5. CASE SingleGivesWay
  BY <1>5, Zenon DEF SingleGivesWay
<1>6. CASE SingleCancelled
  BY <1>6, Zenon DEF SingleCancelled
<1>7. CASE Cancelled
  BY <1>7, Zenon DEF Cancelled
<1>8. CASE AbortContention
  BY <1>8, Zenon DEF AbortContention
<1>9. CASE Begin
  BY <1>9, Zenon DEF Begin
<1>10. CASE Batch
  BY <1>10, Zenon DEF Batch
<1>11. CASE LastBatch
  BY <1>11, Zenon DEF LastBatch
<1>12. CASE BatchCancelled
  BY <1>12, Zenon DEF BatchCancelled
<1>13. CASE Commit
  BY <1>13, Zenon DEF Commit
<1>14. CASE Succeed
  BY <1>14, Zenon DEF Succeed
<1>15. CASE Fail
  BY <1>15, Zenon DEF Fail
<1>16. CASE CommitInDoubt
  BY <1>16, Zenon DEF CommitInDoubt
<1>17. CASE Crash
  BY <1>17, Zenon DEF Crash
<1>18. CASE OperatorCancel
  BY <1>18, Zenon DEF OperatorCancel
<1>19. CASE ObserverCancel
  BY <1>19, Zenon DEF ObserverCancel
<1>20. ASSUME NEW k \in Keys, AppWrite(k) PROVE FlagsOK'
  BY <1>20, Zenon DEF AppWrite
<1>21. CASE UNCHANGED vars
  BY <1>21, Zenon DEF vars
<1>22. CASE Grouping
  BY <1>22, Zenon DEF Grouping, Look, GroupBatch, GroupEnd, NextGroup,
     SkippedOnly, LastGroup
<1>23. CASE StopNowCancelled \/ Signal
  BY <1>23, Zenon DEF StopNowCancelled, Signal
<1>24. QED
  BY <1>1, <1>2, <1>3, <1>4, <1>5, <1>6, <1>7, <1>8, <1>9, <1>10, <1>11, <1>12, <1>13, <1>14,
     <1>15, <1>16, <1>17, <1>18, <1>19, <1>20, <1>21, <1>22, <1>23
     DEF Next, Worker

\* Every step of the worker and of those around it keeps the types.
LEMMA TypeStep ==
  ASSUME TypeOK, [Next]_vars
  PROVE  TypeOK'
<1> USE DEF Attempts
<1>0. FlagsOK'
  BY FlagsStep DEF TypeOK
<1>1. CASE Resume
  <2>1. PICK c \in {Start} \cup {saved[a] : a \in hasCursor} :
           cursor' = c /\ resumed' = c
    BY <1>1 DEF Resume
  <2>1b. saved \in [Attempts -> Int] /\ hasCursor \subseteq Attempts
    BY DEF TypeOK
  <2>1a. c \in Int
    BY <2>1, <2>1b DEF Start
  <2>1c. at' \in Int /\ looked' \in 0..GroupsPerBatch
    BY <1>1, GroupsAssumption DEF Resume, Start
  <2>2. /\ attempt' \in 1..MaxAttempts /\ attempt' = attempt + 1
        /\ outcome' = [outcome EXCEPT ![attempt'] = "running"]
    BY <1>1, <1>0, BoundAssumption DEF Resume, TypeOK
  <2>3. /\ outcome' \in [Attempts -> Outcomes]
        /\ outcome'[attempt'] = "running"
    BY <2>2 DEF TypeOK, Outcomes
  <2>4. \A a \in hasCursor' : a <= attempt'
    BY <1>1, <2>2 DEF Resume, TypeOK, ledger
  <2>5. txn' = {} /\ pc' = "bound"
    BY <1>1 DEF Resume, TypeOK, InTransaction
  <2> QED
    BY <1>1, <2>1, <2>1a, <2>1c, <2>2, <2>3, <2>4, <2>5, <1>0
       DEF Resume, TypeOK, InTransaction, PCs, table, ledger, bounds
<1>2. CASE ReadBound
  <2>1. upto' \in Int
    BY Zenon, <1>2, KeysAssumption DEF ReadBound, TypeOK
  <2>2. pc' \in {"single", "top"}
    BY <1>2 DEF ReadBound
  <2>3. txn' = {} /\ pc # "idle"
    BY <1>2 DEF ReadBound, TypeOK, InTransaction, walk
  <2> QED
    BY <1>2, <1>0, <2>1, <2>2, <2>3
       DEF ReadBound, TypeOK, InTransaction, PCs,
           table, walk, seek, ledger, bounds, history
<1>3. CASE SingleBegin
  BY <1>3, <1>0, BoundAssumption
     DEF SingleBegin, TypeOK, InTransaction, PCs, Outcomes,
         table, walk, bound, ledger, flags, bounds, history
<1>4. CASE SingleStatement
  BY <1>4, <1>0, BoundAssumption
     DEF SingleStatement, TypeOK, InTransaction, PCs, Outcomes,
         table, walk, bound, ledger, flags, bounds, history
<1>5. CASE SingleGivesWay
  BY <1>5, <1>0, BoundAssumption
     DEF SingleGivesWay, TypeOK, InTransaction, PCs, Outcomes,
         table, walk, bound, ledger, flags, bounds, history
<1>6. CASE SingleCancelled
  BY <1>6, <1>0, BoundAssumption
     DEF SingleCancelled, EndAs, TypeOK, InTransaction, PCs, Outcomes,
         table, walk, bound, ledger, flags, bounds, history
<1>7. CASE Cancelled
  BY <1>7, <1>0, BoundAssumption
     DEF Cancelled, EndAs, TypeOK, InTransaction, PCs, Outcomes,
         table, walk, bound, ledger, flags, bounds, history
<1>8. CASE AbortContention
  BY <1>8, <1>0, BoundAssumption
     DEF AbortContention, EndAs, TypeOK, InTransaction, PCs, Outcomes,
         table, walk, bound, ledger, flags, bounds, history
<1>9. CASE Begin
  <2>1. /\ at' \in Int /\ looked' \in 0..GroupsPerBatch /\ looked' < GroupsPerBatch
        /\ pc = "top" /\ pc' \in {"look", "batch"}
    BY <1>9, GroupsAssumption DEF Begin, TypeOK
  <2> QED
    BY <1>9, <1>0, <2>1 DEF Begin, TypeOK, InTransaction, PCs,
       table, walk, ledger, bounds, history
<1>10. CASE Batch
  <2>1. PICK m \in BatchEnds : txn' = txn \cup BatchUpTo(m) /\ cursor' = m
    BY <1>10 DEF Batch
  <2>2. m \in Int /\ txn' \subseteq present
    BY Zenon, <2>1, KeysAssumption
       DEF BatchEnds, BatchUpTo, Candidates, Read, TypeOK
  <2>3. pc = "batch" /\ pc' \in {"batch", "commit"}
    BY <1>10 DEF Batch
  <2> QED
    BY Zenon, <1>10, <1>0, <2>1, <2>2, <2>3
       DEF Batch, TypeOK, InTransaction, PCs,
           table, bound, ledger, bounds, history
<1>11. CASE LastBatch
  BY <1>11, <1>0, BoundAssumption
     DEF LastBatch, TypeOK, InTransaction, PCs, Outcomes,
         table, walk, bound, ledger, flags, bounds, history
<1>12. CASE BatchCancelled
  BY <1>12, <1>0, BoundAssumption
     DEF BatchCancelled, TypeOK, InTransaction, PCs, Outcomes,
         table, walk, bound, ledger, flags, bounds, history
<1>13. CASE Commit
  BY <1>13, <1>0, BoundAssumption
     DEF Commit, TypeOK, InTransaction, PCs, Outcomes,
         table, walk, bound, ledger, flags, bounds, history
<1>14. CASE Succeed
  BY <1>14, <1>0, BoundAssumption
     DEF Succeed, EndAs, TypeOK, InTransaction, PCs, Outcomes,
         table, walk, bound, ledger, flags, bounds, history
<1>15. CASE Fail
  BY <1>15, <1>0, BoundAssumption
     DEF Fail, EndAs, TypeOK, InTransaction, PCs, Outcomes,
         table, walk, bound, ledger, flags, bounds, history
<1>16. CASE CommitInDoubt
  <2>1. attempt \in Attempts /\ pc' = "idle" /\ txn' = {}
    BY <1>16 DEF CommitInDoubt, EndAs, TypeOK
  <2>2. outcome' \in [Attempts -> Outcomes]
    BY <1>16 DEF CommitInDoubt, EndAs, TypeOK, Outcomes
  <2>3. /\ todo' \subseteq todo
        /\ hasCursor' \subseteq hasCursor \cup {attempt}
        /\ saved' \in [Attempts -> Int]
    BY <1>16 DEF CommitInDoubt, TypeOK, ledger
  <2> QED
    BY <1>16, <1>0, <2>1, <2>2, <2>3
       DEF CommitInDoubt, TypeOK, InTransaction, PCs, bound, bounds, history
<1>17. CASE Crash
  BY <1>17, <1>0, BoundAssumption
     DEF Crash, EndAs, TypeOK, InTransaction, PCs, Outcomes,
         table, walk, bound, ledger, flags, bounds, history
<1>18. CASE OperatorCancel
  BY <1>18, <1>0, BoundAssumption
     DEF OperatorCancel, TypeOK, InTransaction, PCs, Outcomes,
         table, walk, bound, ledger, flags, bounds, history
<1>19. CASE ObserverCancel
  BY <1>19, <1>0, BoundAssumption
     DEF ObserverCancel, TypeOK, InTransaction, PCs, Outcomes,
         table, walk, bound, ledger, flags, bounds, history
<1>20. ASSUME NEW k \in Keys, AppWrite(k) PROVE TypeOK'
  BY <1>20, <1>0, BoundAssumption
     DEF AppWrite, TypeOK, InTransaction, PCs, Outcomes,
         walk, bound, ledger, flags
<1>21. CASE UNCHANGED vars
  BY <1>21, <1>0 DEF vars, TypeOK, InTransaction,
     table, walk, bound, ledger, flags, bounds, history
<1>22. CASE Grouping
  <2>1. /\ txn' \subseteq present /\ todo' = todo /\ at' \in Int /\ cursor' \in Int
        /\ looked' \in 0..GroupsPerBatch
    <3>1. CASE Look
      BY Zenon, <1>22, <3>1, GroupsAssumption DEF Look, IsNextGroup, Following, Groups,
         TypeOK, table, walk
    <3>2. CASE GroupBatch
      <4>1. PICK m \in InGroup : txn' = txn \cup InGroupUpTo(m) /\ cursor' = m /\ at' = m
        BY <3>2 DEF GroupBatch
      <4>2. m \in Int /\ txn' \subseteq present
        BY Zenon, <4>1, KeysAssumption DEF InGroup, InGroupUpTo, TypeOK
      <4>3. looked' \in 0..GroupsPerBatch /\ todo' = todo
        BY <3>2, GroupsAssumption DEF GroupBatch, table
      <4> QED
        BY <4>1, <4>2, <4>3
    <3>3. CASE NextGroup
      <4>1. at' \in Int
        BY <3>3, GroupsAssumption DEF NextGroup, IsNextGroup, Following, Groups
      <4>2. looked < GroupsPerBatch
        BY <3>3 DEF NextGroup, TypeOK
      <4> QED
        BY <3>3, <4>1, <4>2, GroupsAssumption DEF NextGroup, TypeOK, table, walk
    <3>4. CASE GroupEnd \/ SkippedOnly \/ LastGroup
      BY <3>4 DEF GroupEnd, SkippedOnly, LastGroup, TypeOK, table, bound
    <3> QED
      BY <1>22, <3>1, <3>2, <3>3, <3>4 DEF Grouping
  <2>2. /\ pc \in {"look", "select"}
        /\ pc' \in {"look", "select", "commit", "final"}
        /\ pc' = "select" => looked' < GroupsPerBatch
    BY <1>22 DEF Grouping, Look, GroupBatch, GroupEnd, NextGroup, SkippedOnly,
       LastGroup
  <2>3. UNCHANGED <<present, resumed, hasUpto, upto, ledger, flags, bounds,
                    history, attempt, outcome>>
    BY Zenon, <1>22 DEF Grouping, Look, GroupBatch, GroupEnd, NextGroup, SkippedOnly,
       LastGroup, table, bound
  <2> QED
    BY <1>0, <2>1, <2>2, <2>3 DEF TypeOK, InTransaction, PCs, ledger, bounds,
       history
<1>23. CASE StopNowCancelled
  <2>1. /\ pc # "idle" /\ EndAs("cancelled")
        /\ UNCHANGED <<table, cursor, bound, ledger, bounds, history, attempt>>
    BY <1>23 DEF StopNowCancelled, Unguarded
  <2> QED
    BY <1>0, <2>1, BoundAssumption
       DEF EndAs, TypeOK, InTransaction, PCs, Outcomes,
           table, bound, ledger, bounds, history
<1>24. CASE Signal
  BY <1>24, <1>0, BoundAssumption
     DEF Signal, TypeOK, InTransaction, PCs, Outcomes,
         table, walk, bound, ledger, flags, bounds, history
<1>25. QED
  BY <1>1, <1>2, <1>3, <1>4, <1>5, <1>6, <1>7, <1>8, <1>9, <1>10, <1>11, <1>12, <1>13, <1>14,
     <1>15, <1>16, <1>17, <1>18, <1>19, <1>20, <1>21, <1>22, <1>23, <1>24
     DEF Next, Worker

-----------------------------------------------------------------------------
(* The upper bound *)

\* The step that is run stays the same.
LEMMA StepFixed ==
  ASSUME [Next]_vars
  PROVE  UNCHANGED step
  BY Zenon DEF Next, vars, Resume, Worker, ReadBound, SingleBegin, SingleStatement,
     SingleGivesWay, SingleCancelled, Cancelled, AbortContention, Begin,
     Batch, LastBatch, Grouping, Look, GroupBatch, GroupEnd, NextGroup,
     SkippedOnly, LastGroup, BatchCancelled, Commit, Succeed, Fail,
     StopNowCancelled, CommitInDoubt, Crash, OperatorCancel, Signal,
     ObserverCancel, AppWrite, bounds

\* No step leaves a row to do beyond upper_bound_sql's answer.
LEMMA WithinBoundStep ==
  ASSUME TypeOK, WithinBound, [Next]_vars
  PROVE  WithinBound'
<1> USE DEF WithinBound
<1>0. UNCHANGED step
  BY StepFixed
<1>1. CASE Resume
  BY <1>1 DEF Resume
<1>2. CASE ReadBound
  BY Zenon, <1>0, <1>2 DEF ReadBound, TypeOK, table
<1>3. CASE /\ todo' \subseteq todo
           /\ UNCHANGED <<hasUpto, upto>>
  BY <1>0, <1>3
<1>4. ASSUME NEW k \in Keys, AppWrite(k) PROVE WithinBound'
  <2>1. CASE step.filled
    BY <1>0, <1>4, <2>1 DEF AppWrite, bound
  <2>2. CASE ~step.filled
    <3>1. ~step.bounded
      BY <2>2, StepsAssumption DEF TypeOK
    <3> QED
      BY <1>4, <3>1 DEF AppWrite, bound
  <2> QED
    BY <2>1, <2>2
<1>5. CASE (Worker /\ ~ReadBound) \/ Fail \/ StopNowCancelled
           \/ CommitInDoubt \/ Crash \/ OperatorCancel \/ Signal
           \/ ObserverCancel
  <2>1. todo' \subseteq todo /\ UNCHANGED <<hasUpto, upto>>
    BY Zenon, <1>5 DEF Worker, table, bound, SingleBegin, SingleStatement,
       SingleGivesWay, SingleCancelled, Cancelled, AbortContention, Begin,
       Batch, LastBatch, Grouping, Look, GroupBatch, GroupEnd, NextGroup,
       SkippedOnly, LastGroup, BatchCancelled, Commit, Succeed, Fail,
       StopNowCancelled, CommitInDoubt, Crash, OperatorCancel, Signal,
       ObserverCancel
  <2> QED
    BY Zenon, <1>3, <2>1
<1>6. CASE UNCHANGED vars
  BY <1>0, <1>6 DEF vars, table, bound
<1> QED
  BY <1>1, <1>2, <1>4, <1>5, <1>6 DEF Next, Worker

-----------------------------------------------------------------------------
(* What the walk has passed *)

\* A row past the position p of a grouped walk is in the group p is in, or in
\* one that groups_sql finds after it.
LEMMA RowAhead ==
  ASSUME TypeOK, step.grouped, NEW k \in todo, NEW p \in Int
  PROVE  /\ k > p => Within(p, k) \/ \E s \in Following(p) : s < k /\ p < s
         /\ Unset(p) => \E s \in Following(p) : s < k
<1>1. PICK s \in GroupStarts : Within(s, k)
  BY GroupsAssumption DEF TypeOK
<1>2. s \in Groups /\ s < k /\ s \in Int /\ k \in Int
  BY <1>1, GroupsAssumption, KeysAssumption DEF Groups, Within, TypeOK
<1>3. Unset(p) => s \in Following(p)
  BY <1>2 DEF Following
<1>4. ASSUME k > p, ~Within(p, k) PROVE p < s
  BY <1>1, <1>2, <1>4, GroupsAssumption DEF Within
<1>5. p < s => s \in Following(p)
  BY <1>2 DEF Following
<1> QED
  BY <1>2, <1>3, <1>4, <1>5

\* A group with nothing left may be passed: no row lies between it and the next.
LEMMA NothingBetween ==
  ASSUME TypeOK, step.grouped, NEW p \in Int, NEW g, IsNextGroup(p, g),
         NEW k \in todo, k <= g,
         Unset(p) \/ ~Within(p, k)
  PROVE  ~Unset(p) /\ k <= p
<1>1. g \in Int /\ k \in Int /\ \A s \in Following(p) : s \in Int /\ g <= s
  BY GroupsAssumption, KeysAssumption
     DEF IsNextGroup, Following, Groups, TypeOK
<1>2. ~ \E s \in Following(p) : s < k
  BY <1>1
<1> QED
  BY <1>1, <1>2, RowAhead

\* run_grouped_batch passes no unexcused row, whether it finds work, skips
\* groups, gives way to a commit or ends the walk.
LEMMA GroupingStep ==
  ASSUME TypeOK, Passed, Finished, Grouping
  PROVE  Passed' /\ Finished'
<1> USE DEF Passed, Finished, Walking, DoneUpTo, Claims
<1>0. /\ step.grouped /\ UNCHANGED <<step, todo, undone, dirtied, earlier>>
      /\ at \in Int /\ cursor \in Int
      /\ todo \subseteq Int
  BY KeysAssumption DEF Grouping, Look, GroupBatch, GroupEnd, NextGroup,
     SkippedOnly, LastGroup, TypeOK, table, history, bounds
<1>00. \A k : Excused(k)' <=> Excused(k)
  BY <1>0 DEF Excused
<1>1. CASE Look
  <2>1. /\ pc = "look" /\ pc' = "select" /\ cursor' = cursor /\ txn' = txn
        /\ IF Unset(at) THEN IsNextGroup(at, at') ELSE at' = at
    BY <1>1 DEF Look, walk
  <2>2. ASSUME NEW k \in todo \ txn, k <= at' PROVE Excused(k)
    <3>1. CASE Unset(at)
      BY <1>0, <2>1, <2>2, <3>1, NothingBetween
    <3>2. CASE ~Unset(at)
      BY <2>1, <2>2, <3>2
    <3> QED
      BY <3>1, <3>2
  <2>3. Unset(cursor)' <=> Unset(cursor)
    BY <2>1 DEF Unset
  <2> QED
    BY <1>0, <1>00, <2>1, <2>2, <2>3
<1>2. CASE GroupBatch
  <2>1. PICK m \in InGroup : txn' = txn \cup InGroupUpTo(m) /\ cursor' = m /\ at' = m
    BY <1>2 DEF GroupBatch
  <2>2. pc = "select" /\ pc' \in {"look", "commit"}
    BY <1>2 DEF GroupBatch
  <2>3. ASSUME NEW k \in todo \ txn', k <= m PROVE Excused(k)
    <3>1. k \in todo \ txn /\ k \notin InGroup /\ k \in Int /\ m \in Int
      BY <1>0, <2>1, <2>3 DEF InGroupUpTo, InGroup
    <3>2. ~Within(at, k) /\ Within(at, m)
      BY <2>1, <3>1 DEF InGroup
    <3>3. k <= at
      BY <1>0, <2>3, <3>1, <3>2, GroupsAssumption DEF Within
    <3> QED
      BY <2>2, <3>1, <3>3
  <2> QED
    BY <1>0, <1>00, <2>1, <2>2, <2>3
<1>3. CASE NextGroup
  <2>1. /\ pc = "select" /\ pc' = "look" /\ cursor' = cursor /\ txn' = txn
        /\ IsNextGroup(at, at') /\ InGroup = {}
    BY <1>3 DEF NextGroup, walk
  <2>2. ASSUME NEW k \in todo \ txn, k <= at' PROVE Excused(k)
    <3>1. ~Within(at, k)
      BY <2>1, <2>2 DEF InGroup
    <3>2. k <= at
      BY <1>0, <2>1, <2>2, <3>1, NothingBetween
    <3> QED
      BY <2>1, <2>2, <3>2
  <2>3. Unset(cursor)' <=> Unset(cursor)
    BY <2>1 DEF Unset
  <2> QED
    BY <1>0, <1>00, <2>1, <2>2, <2>3
<1>4. CASE GroupEnd \/ SkippedOnly
  <2>1. /\ cursor' = at /\ at' = at /\ txn' = txn /\ pc' = "commit"
        /\ pc \in {"look", "select"}
    BY <1>4 DEF GroupEnd, SkippedOnly, bound
  <2>2. Unset(cursor)' <=> Unset(at)
    BY <2>1 DEF Unset
  <2> QED
    BY <1>0, <1>00, <2>1, <2>2
<1>5. CASE LastGroup
  <2>1. /\ txn' = txn /\ pc' = "final" /\ Following(at) = {}
        /\ pc \in {"look", "select"}
        /\ Unset(at) \/ (pc = "select" /\ InGroup = {})
    BY <1>5 DEF LastGroup
  <2>2. ASSUME NEW k \in todo \ txn PROVE Excused(k)
    <3>1. ~Unset(at)
      BY <1>0, <2>1, RowAhead
    <3>2. ~Within(at, k)
      BY <2>1, <2>2, <3>1 DEF InGroup
    <3>3. k <= at
      BY SMTT(30), <1>0, <2>1, <3>2, RowAhead
    <3> QED
      BY <2>1, <3>1, <3>3
  <2> QED
    BY <1>0, <1>00, <2>1, <2>2
<1> QED
  BY Zenon, <1>1, <1>2, <1>3, <1>4, <1>5 DEF Grouping

\* No step leaves an unexcused row behind the cursor.
LEMMA PassedStep ==
  ASSUME TypeOK, Passed, Finished, Recorded, WithinBound, [Next]_vars
  PROVE  Passed' /\ Finished'
<1> USE DEF Passed, Finished, Walking, Excused, DoneUpTo, Claims
<1>0. UNCHANGED step
  BY StepFixed
<1>0a. UNCHANGED cursor => (Unset(cursor)' <=> Unset(cursor))
  BY Zenon DEF Unset
<1>1. CASE Resume
  <2>1. PICK c \in {Start} \cup {saved[a] : a \in hasCursor} :
           ResumeCursor(c) /\ cursor' = c
    BY Zenon, <1>1 DEF Resume
  <2>2. todo' = todo /\ txn' = {} /\ pc' = "bound"
    BY Zenon, <1>1 DEF Resume, TypeOK, InTransaction, table
  <2>3. CASE c = Start
    BY <2>1, <2>2, <2>3
  <2>4. CASE ~Stale(c) /\ ~step.sourced
    <3>1. Unset(cursor)' <=> Unset(c)
      BY <2>1 DEF Unset
    <3> QED
      BY <1>0, <2>1, <2>2, <2>4, <3>1 DEF Stale
  <2>5. CASE c # Start /\ step.sourced
    <3>1. \A k \in todo : k <= c => Excused(k)
      BY <2>1, <2>5 DEF Recorded
    <3>2. earlier' = earlier \cup undone \cup dirtied
      BY <1>1 DEF Resume
    <3>3. \A k \in todo' : k <= cursor' => Excused(k)'
      BY <1>0, <2>1, <2>2, <2>5, <3>1, <3>2
    <3> QED
      BY <2>2, <3>3
  <2> QED
    BY <2>1, <2>3, <2>4, <2>5 DEF ResumeCursor
<1>2. CASE Batch
  <2>1. PICK m \in BatchEnds : txn' = txn \cup BatchUpTo(m) /\ cursor' = m
    BY <1>2 DEF Batch
  <2>2. m \in Candidates /\ m \in Int /\ cursor \in Int
    BY <2>1, KeysAssumption DEF BatchEnds, Candidates, Read, TypeOK
  <2>3. /\ todo' = todo /\ UNCHANGED history
        /\ pc = "batch" /\ pc' \in {"batch", "commit"}
    BY <1>2 DEF Batch, table
  <2>4. ASSUME NEW k \in todo' \ txn', k <= cursor' PROVE Excused(k)'
    <3>1. k \in todo \ txn /\ k \notin BatchUpTo(m) /\ k <= m /\ k \in Int
      BY <2>1, <2>3, <2>4, KeysAssumption DEF TypeOK
    <3>2. k \notin Candidates
      BY <3>1 DEF BatchUpTo
    <3>3. hasUpto => k <= upto
      BY <3>1 DEF WithinBound
    <3>4. k <= cursor
      BY <2>2, <3>1, <3>2, <3>3 DEF Candidates, Read, TypeOK
    <3> QED
      BY <1>0, <2>3, <3>1, <3>4 DEF history
  <2> QED
    BY <1>0, <2>3, <2>4
<1>3. CASE LastBatch
  <2>1. ASSUME NEW k \in todo \ txn PROVE k <= cursor
    BY <1>3, <2>1, KeysAssumption
       DEF LastBatch, Candidates, Read, WithinBound, TypeOK
  <2> QED
    BY <1>0, <1>3, <2>1 DEF LastBatch, table, walk, history
<1>4. CASE BatchCancelled
  <2>1. /\ todo' = todo /\ txn' = {} /\ undone' = undone \cup txn
        /\ UNCHANGED <<cursor, dirtied, earlier>> /\ pc' = "top"
        /\ pc \in {"batch", "look", "select"}
    BY <1>4 DEF BatchCancelled, table
  <2> QED
    BY <1>0, <1>0a, <2>1
<1>5. CASE Commit
  <2>1. /\ todo' = todo \ txn /\ txn' = {}
        /\ UNCHANGED <<cursor, undone, dirtied, earlier>>
        /\ \/ pc = "final" /\ pc' = "verify"
           \/ pc = "commit" /\ pc' = "top"
    BY <1>5 DEF Commit, history
  <2> QED
    BY <1>0, <1>0a, <2>1
<1>6. CASE SingleStatement
  BY <1>6 DEF SingleStatement
<1>7. CASE ReadBound \/ SingleBegin \/ SingleGivesWay
  <2>1. /\ UNCHANGED <<todo, txn, cursor, undone, dirtied, earlier>>
        /\ pc \in {"bound", "single", "statement"}
        /\ pc' \in {"single", "statement", "top"}
    BY <1>7 DEF ReadBound, SingleBegin, SingleGivesWay, table, walk, history
  <2> QED
    BY <1>0, <1>0a, <2>1
<1>8. CASE Begin
  <2>1. /\ UNCHANGED <<todo, txn, cursor, undone, dirtied, earlier>>
        /\ at' = cursor
        /\ pc = "top" /\ pc' = IF step.grouped THEN "look" ELSE "batch"
    BY <1>8 DEF Begin, table, walk, history
  <2>2. Unset(at)' <=> Unset(cursor)
    BY <2>1 DEF Unset
  <2> QED
    BY <1>0, <1>0a, <2>1, <2>2
<1>9. CASE SingleCancelled \/ Cancelled \/ AbortContention \/ Succeed \/ Fail
           \/ StopNowCancelled \/ CommitInDoubt \/ Crash
  <2>1. pc' = "idle"
    BY <1>9 DEF SingleCancelled, Cancelled, AbortContention, Succeed, Fail,
       StopNowCancelled, CommitInDoubt, Crash, EndAs
  <2> QED
    BY Zenon, <2>1
<1>10. CASE UNCHANGED <<todo, txn, cursor, at, pc, undone, dirtied, earlier>>
  <2>1. Unset(at)' <=> Unset(at)
    BY Zenon, <1>10 DEF Unset
  <2> QED
    BY <1>0, <1>0a, <1>10, <2>1
<1>11. CASE OperatorCancel \/ Signal \/ ObserverCancel \/ UNCHANGED vars
  BY <1>10, <1>11 DEF OperatorCancel, Signal, ObserverCancel, vars, table, walk,
     bound, history
<1>12. ASSUME NEW k \in Keys, AppWrite(k) PROVE Passed' /\ Finished'
  <2>1. /\ UNCHANGED <<txn, cursor, at, pc, undone, earlier>>
        /\ dirtied \subseteq dirtied'
        /\ \A j \in todo' : j \in todo \/ j \in dirtied'
    BY <1>12 DEF AppWrite, walk, bound
  <2>2. Unset(at)' <=> Unset(at)
    BY <2>1 DEF Unset
  <2> QED
    BY <1>0, <1>0a, <2>1, <2>2
<1>13. CASE Grouping
  BY Zenon, <1>13, GroupingStep
<1> QED
  BY Zenon, <1>1, <1>2, <1>3, <1>4, <1>5, <1>6, <1>7, <1>8, <1>9, <1>11, <1>12, <1>13
     DEF Next, Worker

\* What one attempt is excused from, those after it are too, where a walk goes
\* over the specification's rows.
LEMMA StaysExcused ==
  ASSUME [Next]_vars, step.sourced, NEW k, Excused(k)
  PROVE  Excused(k)'
<1>1. UNCHANGED step
  BY StepFixed
<1>2. CASE Resume
  BY <1>1, <1>2 DEF Resume, Excused
<1>3. CASE /\ dirtied \subseteq dirtied' /\ undone \subseteq undone'
           /\ earlier \subseteq earlier'
  BY <1>1, <1>3 DEF Excused
<1>4. ASSUME NEW j \in Keys, AppWrite(j) PROVE Excused(k)'
  BY <1>3, <1>4 DEF AppWrite
<1>5. CASE BatchCancelled
  BY <1>3, <1>5 DEF BatchCancelled
<1>6. CASE \/ Worker /\ ~BatchCancelled
           \/ Fail \/ StopNowCancelled \/ CommitInDoubt \/ Crash
           \/ OperatorCancel \/ Signal \/ ObserverCancel \/ UNCHANGED vars
  <2>1. UNCHANGED <<undone, dirtied, earlier>>
    BY Zenon, <1>6 DEF Worker, ReadBound, SingleBegin, SingleStatement,
       SingleGivesWay, SingleCancelled, Cancelled, AbortContention, Begin,
       Batch, LastBatch, Grouping, Look, GroupBatch, GroupEnd, NextGroup,
       SkippedOnly, LastGroup, Commit, Succeed, Fail, StopNowCancelled,
       CommitInDoubt, Crash, OperatorCancel, Signal, ObserverCancel, vars,
       history
  <2> QED
    BY <1>3, <2>1
<1> QED
  BY Zenon, <1>2, <1>4, <1>5, <1>6 DEF Next, Worker

\* A transaction commits its cursor with the rows at or below it.
LEMMA RecordedStep ==
  ASSUME TypeOK, Passed, Finished, Recorded, [Next]_vars
  PROVE  Recorded'
<1>0. UNCHANGED step
  BY StepFixed
<1> SUFFICES ASSUME step.sourced, NEW a \in hasCursor', NEW k \in todo',
                    k <= saved'[a]
             PROVE  Excused(k)'
  BY <1>0 DEF Recorded
<1>1. ASSUME NEW j \in Keys, AppWrite(j) PROVE Excused(k)'
  <2>1. k \in todo \/ k \in dirtied'
    BY <1>1 DEF AppWrite
  <2>2. hasCursor' = hasCursor /\ saved' = saved
    BY <1>1 DEF AppWrite, ledger
  <2>3. CASE k \in todo
    BY <2>2, <2>3, StaysExcused DEF Recorded
  <2> QED
    BY <2>1, <2>3 DEF Excused
<1>2. CASE k \in todo \ txn /\ k <= cursor /\ pc \in {"commit", "final"}
  <2>1. ~step.grouped
    BY StepsAssumption DEF TypeOK
  <2>2. Excused(k)
    BY <1>2, <2>1 DEF Passed, Finished, Walking, Claims, DoneUpTo
  <2> QED
    BY <2>2, StaysExcused
<1>3. CASE Commit \/ (CommitInDoubt /\ pc # "statement")
  <2>1. /\ k \in todo \ txn /\ pc \in {"commit", "final"}
        /\ saved' = [saved EXCEPT ![attempt] = cursor]
        /\ hasCursor' = hasCursor \cup {attempt}
    BY <1>3 DEF Commit, CommitInDoubt
  <2>2. CASE a = attempt
    BY <1>2, <2>1, <2>2, BoundAssumption DEF TypeOK, Attempts
  <2>3. CASE a # attempt
    <3>1. a \in hasCursor /\ saved'[a] = saved[a]
      BY <2>1, <2>3 DEF TypeOK
    <3> QED
      BY <2>1, <3>1, StaysExcused DEF Recorded
  <2> QED
    BY <2>2, <2>3
<1>4. CASE todo' \subseteq todo /\ UNCHANGED ledger
  BY <1>4, StaysExcused DEF Recorded, ledger
<1>5. CASE CommitInDoubt /\ pc = "statement"
  BY <1>5 DEF CommitInDoubt
<1>6. CASE \/ Resume \/ (Worker /\ ~Commit)
           \/ Fail \/ StopNowCancelled \/ Crash
           \/ OperatorCancel \/ Signal \/ ObserverCancel \/ UNCHANGED vars
  <2>1. todo' \subseteq todo /\ UNCHANGED ledger
    BY Zenon, <1>6 DEF Resume, Worker, ReadBound, SingleBegin, SingleStatement,
       SingleGivesWay, SingleCancelled, Cancelled, AbortContention, Begin,
       Batch, LastBatch, Grouping, Look, GroupBatch, GroupEnd, NextGroup,
       SkippedOnly, LastGroup, BatchCancelled, Succeed, Fail,
       StopNowCancelled, Crash, OperatorCancel, Signal, ObserverCancel, vars,
       table
  <2> QED
    BY <1>4, <2>1
<1> QED
  BY Zenon, <1>1, <1>3, <1>5, <1>6 DEF Next, Worker

-----------------------------------------------------------------------------
(* Where the walk stands between transactions *)

\* Between transactions the cursor stays the committed one.
LEMMA SettledStep ==
  ASSUME TypeOK, Settled, [Next]_vars
  PROVE  Settled'
<1> USE DEF Settled, AtCommitted
<1>1. CASE Resume
  BY Zenon, <1>1 DEF Resume
<1>2. CASE Batch
  <2>1. PICK m \in BatchEnds : txn' = txn \cup BatchUpTo(m) /\ cursor' = m
    BY <1>2 DEF Batch
  <2>2. m \in BatchUpTo(m)
    BY <2>1, KeysAssumption DEF BatchEnds, BatchUpTo, Candidates, Read, TypeOK
  <2> QED
    BY <1>2, <2>1, <2>2 DEF Batch
<1>3. CASE Commit
  BY <1>3 DEF Commit, TypeOK, InTransaction
<1>4. CASE BatchCancelled
  BY <1>4 DEF BatchCancelled, TypeOK, table, bound, ledger
<1>5. CASE ReadBound \/ SingleBegin \/ SingleGivesWay \/ SingleStatement \/ Begin
  BY Zenon, <1>5 DEF ReadBound, SingleBegin, SingleGivesWay, SingleStatement,
     Begin, walk, bound, ledger, history
<1>6. CASE LastBatch
  BY Zenon, <1>6 DEF LastBatch
<1>7. CASE SingleCancelled \/ Cancelled \/ AbortContention \/ Succeed \/ Fail
           \/ StopNowCancelled \/ CommitInDoubt \/ Crash
  BY <1>7 DEF SingleCancelled, Cancelled, AbortContention, Succeed, Fail,
     StopNowCancelled, CommitInDoubt, Crash, EndAs
<1>8. CASE OperatorCancel \/ Signal \/ ObserverCancel
  BY <1>8 DEF OperatorCancel, Signal, ObserverCancel, walk, bound, ledger,
     history
<1>9. ASSUME NEW k \in Keys, AppWrite(k) PROVE Settled'
  BY <1>9 DEF AppWrite, walk, bound, ledger
<1>10. CASE UNCHANGED vars
  BY <1>10 DEF vars, walk, bound, ledger, history
<1>11. CASE Grouping
  <2>1. CASE Look \/ NextGroup
    BY <2>1 DEF Look, NextGroup, walk, ledger, history
  <2>2. CASE GroupBatch
    <3>1. PICK m \in InGroup : txn' = txn \cup InGroupUpTo(m)
      BY <2>2 DEF GroupBatch
    <3>2. m \in InGroupUpTo(m)
      BY <3>1, KeysAssumption DEF InGroupUpTo, InGroup, TypeOK
    <3> QED
      BY <2>2, <3>1, <3>2 DEF GroupBatch
  <2>3. CASE GroupEnd \/ SkippedOnly \/ LastGroup
    BY <2>3 DEF GroupEnd, SkippedOnly, LastGroup
  <2> QED
    BY <1>11, <2>1, <2>2, <2>3 DEF Grouping
<1> QED
  BY Zenon, <1>1, <1>2, <1>3, <1>4, <1>5, <1>6, <1>7, <1>8, <1>9, <1>10, <1>11
     DEF Next, Worker

-----------------------------------------------------------------------------
(* Theorems *)

\* The initial states satisfy the invariant.
LEMMA InvInit == Init => Inv
  BY DEF Init, Inv, Passed, Finished, Recorded, Walking, WithinBound, Settled

\* The invariant holds throughout every behaviour.
LEMMA Invariance == Spec => [](TypeOK /\ Inv)
<1>1. Init => TypeOK /\ Inv
  BY TypeInit, InvInit
<1>2. TypeOK /\ Inv /\ [Next]_vars => (TypeOK /\ Inv)'
  BY TypeStep, WithinBoundStep, PassedStep, RecordedStep, SettledStep DEF Inv
<1>3. QED
  BY <1>1, <1>2, PTL DEF Spec

\* The variables keep their types, whatever the interleaving of the walk, the
\* observer, the operator, the application, failures and restarts.
THEOREM TypeCorrect == Spec => []TypeOK
  BY Invariance, PTL

\* A walk that ended left no row it is answerable for, however many attempts,
\* crashes and stale cursors came before it (run_backfill, resume_cursor), also
\* where it takes an earlier cursor unchecked.
THEOREM Completeness == Spec => []WalkComplete
<1>1. TypeOK /\ Inv => WalkComplete
  BY DEF Inv, Finished, Excused, WalkComplete
<1>2. QED
  BY <1>1, Invariance, PTL

\* What CancelKeepsBatch says of attempt a's end.
AtBoundary(a) ==
    \/ /\ txn = {}
       /\ \/ cursor = resumed
          \/ a \in hasCursor /\ saved[a] = cursor
          \/ undone # {}
    \/ /\ pc \in {"commit", "final"} /\ stopNow
       /\ UNCHANGED <<todo, ledger>>

\* A cancelled job's position is the committed one (run_backfill's checks of
\* cancel_stop, all of them outside a transaction), or all its last transaction
\* did is gone (run, when a signal's cancellation meets the cursor's INSERT).
THEOREM CancelAtBoundary == Spec => CancelKeepsBatch
<1>1. ASSUME TypeOK, Inv, Next, NEW a \in Attempts,
             outcome[a] = "running", outcome'[a] = "cancelled"
      PROVE  AtBoundary(a)
  <2>1. SingleCancelled \/ Cancelled \/ StopNowCancelled
    BY Zenon, <1>1 DEF Next, Worker, Resume, ReadBound, SingleBegin, SingleStatement,
       SingleGivesWay, AbortContention, Begin, Batch, LastBatch, Grouping,
       Look, GroupBatch, GroupEnd, NextGroup, SkippedOnly, LastGroup,
       BatchCancelled, Commit, Succeed, Fail, CommitInDoubt, Crash,
       OperatorCancel, Signal, ObserverCancel, AppWrite, EndAs, TypeOK
  <2>2. a = attempt
    BY SMTT(30), <1>1, <2>1
       DEF SingleCancelled, Cancelled, StopNowCancelled, EndAs, TypeOK
  <2>3. CASE pc \in {"bound", "single", "statement", "top", "verify"}
    BY SMTT(30), <1>1, <2>2, <2>3
       DEF Inv, Settled, AtCommitted, TypeOK, InTransaction, AtBoundary
  <2>4. CASE StopNowCancelled /\ pc \in {"commit", "final"}
    BY Zenon, <2>4 DEF StopNowCancelled, AtBoundary, table
  <2> QED
    BY Zenon, <2>1, <2>3, <2>4 DEF SingleCancelled, Cancelled, StopNowCancelled,
       Unguarded
<1>2. TypeOK /\ Inv /\ [Next]_vars =>
        [\A a \in Attempts :
          outcome[a] = "running" /\ outcome'[a] = "cancelled" =>
             AtBoundary(a)]_vars
  BY Zenon, <1>1
<1>3. QED
  BY <1>2, Invariance, PTL DEF Spec, CancelKeepsBatch, AtBoundary

---------------------------------------------------------------------------
\* The recipes around a walk: the columns plan_backfill walks by, the NOT NULL
\* that follows a backfill, and the rules added for new rows first.

R == INSTANCE BackfillRecipe

\* The check of the column's recipe: NOT VALID, and proof of NOT NULL.
AddCheck(t, c, k) == R!AddNotValid(t, k, "c", {<<"proves", k, x>> : x \in {c}})

\* Rows apart, two databases that show the same catalog hold the same facts.
LEMMA SameFacts ==
    ASSUME NEW d, NEW e, R!Observe(e) = R!Observe(d), NEW f, f[1] \notin R!RowFacts
    PROVE  f \in e <=> f \in d
  BY Zenon DEF R!Observe

\* What a statement that drops and renames nothing needs, lacks, deletes, adds.
Changes(s, needs, lacks, dels, adds) ==
    /\ s.needs = needs /\ s.lacks = lacks /\ s.dels = dels /\ s.adds = adds
    /\ s.drops = {} /\ s.ren = <<>> /\ s.valid = {} /\ s.unread = {}

\* The tables it keeps writers out of.
Locks(s) == s.xlock \cup s.also

\* Every ALTER TABLE here but VALIDATE locks its table; adding a foreign key
\* locks the referenced one too.
LEMMA LocksTaken ==
    /\ \A t, c, k : Locks(AddCheck(t, c, k)) = {t}
    /\ \A t, k, type : Locks(R!AddNotValid(t, k, type, {})) = {t}
    /\ \A in, t, k : Locks(R!ForeignKey(in, R!AddNotValid(t, k, "f", {})))
                        = {t, in.references_table}
    /\ \A t, k, rows : Locks(R!Validate(t, k, rows)) = {}
    /\ \A t, c : Locks(R!SetNotNull(t, c)) = {t}
    /\ \A t, k : Locks(R!DropConstraint(t, k)) = {t}
<1>1. \A t, c, k : Locks(AddCheck(t, c, k)) = {t}
  BY DEF Locks, AddCheck, R!AddNotValid, R!AddConstraint, R!AlterTable, R!Nothing
<1>2. \A t, k, type : Locks(R!AddNotValid(t, k, type, {})) = {t}
  BY DEF Locks, R!AddNotValid, R!AddConstraint, R!AlterTable, R!Nothing
<1>3. \A in, t, k : Locks(R!ForeignKey(in, R!AddNotValid(t, k, "f", {})))
                      = {t, in.references_table}
  BY DEF Locks, R!ForeignKey, R!AddNotValid, R!AddConstraint, R!AlterTable, R!Nothing
<1>4. \A t, k, rows : Locks(R!Validate(t, k, rows)) = {}
  BY DEF Locks, R!Validate, R!AlterTable, R!Nothing
<1>5. \A t, c : Locks(R!SetNotNull(t, c)) = {t}
  BY DEF Locks, R!SetNotNull, R!AlterTable, R!Nothing
<1>6. \A t, k : Locks(R!DropConstraint(t, k)) = {t}
  BY DEF Locks, R!DropConstraint, R!AlterTable, R!Nothing
<1> QED  BY Zenon, <1>1, <1>2, <1>3, <1>4, <1>5, <1>6

\* What adding the check NOT VALID reads and changes.
LEMMA AddFields ==
    ASSUME NEW t, NEW c, NEW k, NEW s, s = AddCheck(t, c, k)
    PROVE  /\ Changes(s, {<<"rel", t>>}, {<<"con", t, k>>}, {},
                   {<<"con", t, k>>, <<"contype", k, "c">>, <<"proves", k, c>>, <<"notvalid", k>>})
           /\ s.scan = {}
  BY DEF Changes, AddCheck, R!AddNotValid, R!AddConstraint, R!AlterTable, R!Nothing

\* The same of a check or a foreign key that proves nothing of a column.
LEMMA AddBareFields ==
    ASSUME NEW t, NEW type, NEW k, NEW s, s = R!AddNotValid(t, k, type, {})
    PROVE  /\ Changes(s, {<<"rel", t>>}, {<<"con", t, k>>}, {},
                   {<<"con", t, k>>, <<"contype", k, type>>, <<"notvalid", k>>})
           /\ s.scan = {}
  BY DEF Changes, R!AddNotValid, R!AddConstraint, R!AlterTable, R!Nothing

\* A foreign key needs and reads the table it references as well.
LEMMA ForeignKeyFields ==
    ASSUME NEW in, NEW t, NEW k, NEW s, s = R!ForeignKey(in, R!AddNotValid(t, k, "f", {}))
    PROVE  /\ Changes(s, {<<"rel", t>>, <<"rel", in.references_table>>}, {<<"con", t, k>>}, {},
                   {<<"con", t, k>>, <<"contype", k, "f">>, <<"notvalid", k>>,
                    <<"reads", in.name, in.references>>})
           /\ s.scan = {}
  BY DEF Changes, R!ForeignKey, R!AddNotValid, R!AddConstraint, R!AlterTable, R!Nothing

\* VALIDATE CONSTRAINT takes only the mark off.
LEMMA ValidateFields ==
    ASSUME NEW t, NEW k, NEW rows, NEW s, s = R!Validate(t, k, rows)
    PROVE  Changes(s, {<<"rel", t>>, <<"con", t, k>>}, {}, {<<"notvalid", k>>}, {})
  BY DEF Changes, R!Validate, R!AlterTable, R!Nothing

\* SET NOT NULL scans for the column's nulls unless they are ruled out.
LEMMA SetFields ==
    ASSUME NEW t, NEW c, NEW s, s = R!SetNotNull(t, c)
    PROVE  /\ Changes(s, {<<"rel", t>>, <<"col", t, c>>}, {}, {}, {<<"notnull", c>>})
           /\ s.scan = {<<t, c>>}
  BY DEF Changes, R!SetNotNull, R!AlterTable, R!Nothing

\* DROP CONSTRAINT takes the constraint's name away.
LEMMA DropFields ==
    ASSUME NEW t, NEW k, NEW s, s = R!DropConstraint(t, k)
    PROVE  /\ s.needs = {<<"rel", t>>, <<"con", t, k>>} /\ s.lacks = {}
           /\ s.drops = {k} /\ s.ren = <<>> /\ s.valid = {} /\ s.unread = {}
           /\ s.scan = {} /\ s.dels = {} /\ s.adds = {}
  BY DEF R!DropConstraint, R!AlterTable, R!Nothing

\* A statement that drops and renames nothing only deletes and adds facts.
LEMMA NothingDropped ==
    ASSUME NEW d, NEW s, s.drops = {}, s.ren = <<>>
    PROVE  /\ R!Do(d, s) = (d \ s.dels) \cup s.adds
           /\ ~R!Kept(d, R!Gone(d, s.drops))
<1>1. R!PartOf(d, {}) = {}
  BY DEF R!PartOf
<1>2. R!Gone(d, {}) = {}
  BY Zenon, <1>1 DEF R!Gone
<1>3. \A f : ~R!Mentions(f, {})
  BY DEF R!Mentions
<1>4. \A S : {f \in S : ~R!Mentions(f, {})} = S
  BY Zenon, <1>3
<1>5. R!Gone(d, s.drops) = {}
  BY Zenon, <1>2
<1>6. {f \in d \ s.dels : ~R!Mentions(f, {})} = d \ s.dels
  BY Zenon, <1>4
<1>7. R!Do(d, s) = (d \ s.dels) \cup s.adds
  BY Zenon, <1>5, <1>6 DEF R!Do
<1> QED  BY Zenon, <1>5, <1>7 DEF R!Kept

\* Such a statement is accepted when what it needs is there and what it makes
\* is not.
LEMMA AnyRows ==
    ASSUME NEW d, NEW s, s.drops = {}, s.valid = {}, s.unread = {}, s.ren = <<>>,
           s.needs \subseteq d, s.lacks \cap d = {}
    PROVE  R!Can(d, s)
  BY Zenon, NothingDropped DEF R!Can

\* The name of the recipe's check is nobody else's: a constraint of that name
\* is the check, and nothing hangs on it.
OwnCheck(d, t, c, k) ==
    /\ k # t /\ k # c
    /\ <<"con", t, k>> \in d => <<"proves", k, c>> \in d
    /\ \A f \in d : /\ f[1] \in {"on", "reads"} => f[3] # k
                    /\ f[1] \in {"col", "idx", "con", "trigger", "policy"} => f[2] # k

\* The table and the column are there, and no module asks for one step.
Ready(d, t, c) == <<"rel", t>> \in d /\ <<"col", t, c>> \in d /\ <<"one_step", t>> \notin d

\* Nothing goes with the check when it is dropped, and nothing forbids it.
LEMMA CheckDropped ==
    ASSUME NEW d, NEW t, NEW c, NEW k, OwnCheck(d, t, c, k)
    PROVE  R!Gone(d, {k}) = {k} /\ ~R!Kept(d, {k})
<1>1. {f[2] : f \in {g \in d : g[1] = "on" /\ g[3] \in {k}}} = {}
  BY Zenon DEF OwnCheck
<1>2. {f[3] : f \in {g \in d : g[1] \in {"col", "idx", "con", "trigger", "policy"}
                               /\ g[2] \in {k}}} = {}
  BY Zenon DEF OwnCheck
<1>3. R!PartOf(d, {k}) = {k}
  BY Zenon, <1>1, <1>2 DEF R!PartOf
<1>4. ~R!Kept(d, {k})
  BY Zenon DEF R!Kept, OwnCheck
<1> QED  BY Zenon, <1>3, <1>4 DEF R!Gone

\* A step of its own that waits for the tables with the weaker lock first.
BrieflyStep(s, tables) ==
    [R!Step("txn", TRUE, <<s>>) EXCEPT !.retry = TRUE, !.first = tables]

\* A step of its own, and the same with the weaker lock taken first.
LEMMA OneStep ==
    ASSUME NEW s, NEW tables
    PROVE  /\ R!OwnTxn(<<s>>) = <<R!Step("txn", TRUE, <<s>>)>>
           /\ R!Briefly(R!OwnTxn(<<s>>), tables) = <<BrieflyStep(s, tables)>>
<1> DEFINE x == R!Step("txn", TRUE, <<s>>)
           brief == [x EXCEPT !.retry = TRUE, !.first = tables]
<1>1. R!OwnTxn(<<s>>) = <<x>>
  BY Zenon DEF R!OwnTxn
<1>2. R!Briefly(<<x>>, tables) = <<brief>>
  <2> HIDE DEF x
  <2>1. R!Briefly(<<x>>, tables)
          = [i \in DOMAIN <<x>> |-> [<<x>>[i] EXCEPT !.retry = TRUE, !.first = tables]]
    BY Zenon DEF R!Briefly, R!WeakerLockFirst
  <2>2. DOMAIN <<x>> = {1} /\ <<x>>[1] = x
    OBVIOUS
  <2>3. [i \in DOMAIN <<x>> |-> [<<x>>[i] EXCEPT !.retry = TRUE, !.first = tables]]
          = [i \in {1} |-> brief]
    BY ZenonT(30), <2>2
  <2>4. \A y : <<y>> = [i \in {1} |-> y]
    OBVIOUS
  <2> QED  BY Zenon, <2>1, <2>3, <2>4
<1> QED  BY Zenon, <1>1, <1>2 DEF BrieflyStep

\* Whether the check is the recipe's own shows in the catalog.
LEMMA OwnIsCatalog ==
    ASSUME NEW d, NEW e, R!Observe(e) = R!Observe(d), NEW t, NEW c, NEW k, OwnCheck(d, t, c, k)
    PROVE  OwnCheck(e, t, c, k)
<1>1. <<"con", t, k>> \in e => <<"proves", k, c>> \in e
  <2>1. <<"con", t, k>>[1] \notin R!RowFacts /\ <<"proves", k, c>>[1] \notin R!RowFacts
    BY DEF R!RowFacts
  <2>2. /\ <<"con", t, k>> \in e <=> <<"con", t, k>> \in d
        /\ <<"proves", k, c>> \in e <=> <<"proves", k, c>> \in d
    BY <2>1, SameFacts
  <2> QED  BY Zenon, <2>2 DEF OwnCheck
<1>2. ASSUME NEW f \in e, f[1] \in {"on", "reads", "col", "idx", "con", "trigger", "policy"}
      PROVE  f \in d
  <2>1. f[1] \notin R!RowFacts
    BY <1>2 DEF R!RowFacts
  <2> QED  BY Zenon, <1>2, <2>1, SameFacts
<1> QED  BY Zenon, <1>1, <1>2 DEF OwnCheck

\* ADD CONSTRAINT NOT VALID, where the check is absent: accepted, scans
\* nothing, and leaves the check not valid.
LEMMA AddDone ==
    ASSUME NEW d, NEW t, NEW c, NEW k, NEW s, NEW e, s = AddCheck(t, c, k),
           e = R!Do(d, s), OwnCheck(d, t, c, k), Ready(d, t, c),
           <<"con", t, k>> \notin d, <<"notnull", c>> \notin d
    PROVE  /\ R!Can(d, s) /\ R!Scans(d, s) = {} /\ OwnCheck(e, t, c, k) /\ Ready(e, t, c)
           /\ <<"con", t, k>> \in e /\ <<"notvalid", k>> \in e /\ <<"notnull", c>> \notin e
           /\ Locks(s) = {t}
<1>0. /\ Changes(s, {<<"rel", t>>}, {<<"con", t, k>>}, {},
              {<<"con", t, k>>, <<"contype", k, "c">>, <<"proves", k, c>>, <<"notvalid", k>>})
      /\ s.scan = {}
  BY Zenon, AddFields
<1>1. /\ s.needs = {<<"rel", t>>} /\ s.lacks = {<<"con", t, k>>}
      /\ s.drops = {} /\ s.ren = <<>> /\ s.valid = {} /\ s.unread = {}
      /\ s.scan = {} /\ s.dels = {}
      /\ s.adds = {<<"con", t, k>>, <<"contype", k, "c">>, <<"proves", k, c>>,
                   <<"notvalid", k>>}
  BY Zenon, <1>0 DEF Changes
<1>2. R!Can(d, s)
  <2>1. s.needs \subseteq d /\ s.lacks \cap d = {}
    BY Zenon, <1>1 DEF Ready
  <2> QED  BY Zenon, <1>1, <2>1, AnyRows
<1>3. R!Scans(d, s) = {}
  BY Zenon, <1>1 DEF R!Scans
<1>4. e = d \cup {<<"con", t, k>>, <<"contype", k, "c">>, <<"proves", k, c>>,
                           <<"notvalid", k>>}
  <2>1. e = (d \ s.dels) \cup s.adds
    BY Zenon, <1>1, NothingDropped
  <2> QED  BY Zenon, <1>1, <2>1
<1>5. ASSUME NEW f \in e, f[1] \notin {"con", "contype", "proves", "notvalid"}
      PROVE  f \in d
  <2>1. f \notin {<<"con", t, k>>, <<"contype", k, "c">>, <<"proves", k, c>>, <<"notvalid", k>>}
    BY <1>5
  <2> QED  BY Zenon, <1>4, <2>1
<1>6. OwnCheck(e, t, c, k)
  <2>1. ASSUME NEW f \in e, f[1] \in {"on", "reads"} PROVE f[3] # k
    <3>1. f \in d
      BY <1>5, <2>1
    <3> QED  BY Zenon, <2>1, <3>1 DEF OwnCheck
  <2>2. ASSUME NEW f \in e, f[1] \in {"col", "idx", "con", "trigger", "policy"}
        PROVE  f[2] # k
    <3>1. CASE f \in d
      BY Zenon, <2>2, <3>1 DEF OwnCheck
    <3>2. CASE f \notin d
      <4>1. f \in {<<"con", t, k>>, <<"contype", k, "c">>, <<"proves", k, c>>,
                    <<"notvalid", k>>}
        BY Zenon, <1>4, <3>2
      <4>2. f = <<"con", t, k>>
        BY <2>2, <4>1
      <4> QED  BY <4>2 DEF OwnCheck
    <3> QED  BY Zenon, <3>1, <3>2
  <2> QED  BY Zenon, <1>4, <2>1, <2>2 DEF OwnCheck
<1>7. Ready(e, t, c) /\ <<"notnull", c>> \notin e
  <2>1. /\ <<"one_step", t>>[1] = "one_step" /\ <<"notnull", c>>[1] = "notnull"
        /\ "one_step" \notin {"con", "contype", "proves", "notvalid"}
        /\ "notnull" \notin {"con", "contype", "proves", "notvalid"}
    OBVIOUS
  <2>2. <<"one_step", t>> \notin e /\ <<"notnull", c>> \notin e
    BY Zenon, <1>5, <2>1 DEF Ready
  <2> QED  BY Zenon, <1>4, <2>2 DEF Ready
<1>8. <<"con", t, k>> \in e /\ <<"notvalid", k>> \in e
  BY Zenon, <1>4
<1>9. Locks(s) = {t}
  BY LocksTaken
<1> QED  BY Zenon, <1>2, <1>3, <1>6, <1>7, <1>8, <1>9

\* VALIDATE CONSTRAINT, where it is not valid: accepted under a lock nobody
\* notices, and leaves it valid.
LEMMA ValidateDone ==
    ASSUME NEW d, NEW t, NEW c, NEW k, NEW rows, NEW s, NEW e,
           s = R!Validate(t, k, rows), e = R!Do(d, s), OwnCheck(d, t, c, k), Ready(d, t, c),
           <<"con", t, k>> \in d, <<"notnull", c>> \notin d
    PROVE  /\ R!Can(d, s) /\ Locks(s) = {} /\ OwnCheck(e, t, c, k) /\ Ready(e, t, c)
           /\ <<"con", t, k>> \in e /\ <<"notvalid", k>> \notin e /\ <<"notnull", c>> \notin e
<1>0. Changes(s, {<<"rel", t>>, <<"con", t, k>>}, {}, {<<"notvalid", k>>}, {})
  BY Zenon, ValidateFields
<1>1. /\ s.needs = {<<"rel", t>>, <<"con", t, k>>} /\ s.lacks = {}
      /\ s.drops = {} /\ s.ren = <<>> /\ s.valid = {} /\ s.unread = {}
      /\ s.dels = {<<"notvalid", k>>} /\ s.adds = {}
  BY Zenon, <1>0 DEF Changes
<1>2. R!Can(d, s)
  <2>1. s.needs \subseteq d /\ s.lacks \cap d = {}
    BY Zenon, <1>1 DEF Ready
  <2> QED  BY Zenon, <1>1, <2>1, AnyRows
<1>3. e = d \ {<<"notvalid", k>>}
  <2>1. e = (d \ s.dels) \cup s.adds
    BY Zenon, <1>1, NothingDropped
  <2> QED  BY Zenon, <1>1, <2>1
<1>4. ASSUME NEW f, f[1] # "notvalid" PROVE f \in e <=> f \in d
  <2>1. f # <<"notvalid", k>>
    BY <1>4
  <2> QED  BY Zenon, <1>3, <2>1
<1>5. OwnCheck(e, t, c, k)
  <2>1. <<"con", t, k>>[1] # "notvalid" /\ <<"proves", k, c>>[1] # "notvalid"
    OBVIOUS
  <2>2. <<"con", t, k>> \in e => <<"proves", k, c>> \in e
    BY <1>4, <2>1 DEF OwnCheck
  <2>3. e \subseteq d
    BY Zenon, <1>3
  <2> QED  BY Zenon, <2>2, <2>3 DEF OwnCheck
<1>6. Ready(e, t, c) /\ <<"con", t, k>> \in e
  <2>1. /\ <<"rel", t>>[1] # "notvalid" /\ <<"col", t, c>>[1] # "notvalid"
        /\ <<"con", t, k>>[1] # "notvalid"
    OBVIOUS
  <2>2. <<"rel", t>> \in e /\ <<"col", t, c>> \in e /\ <<"con", t, k>> \in e
    BY Zenon, <1>4, <2>1 DEF Ready
  <2> QED  BY Zenon, <1>3, <2>2 DEF Ready
<1>7. <<"notvalid", k>> \notin e /\ <<"notnull", c>> \notin e
  BY Zenon, <1>3
<1>8. Locks(s) = {}
  BY Zenon, LocksTaken
<1> QED  BY Zenon, <1>2, <1>5, <1>6, <1>7, <1>8

\* SET NOT NULL, where the check is valid: accepted, has nothing to scan, and
\* leaves the column NOT NULL.
LEMMA SetDone ==
    ASSUME NEW d, NEW t, NEW c, NEW k, NEW s, NEW e, s = R!SetNotNull(t, c),
           e = R!Do(d, s), OwnCheck(d, t, c, k), Ready(d, t, c),
           <<"con", t, k>> \in d, <<"notvalid", k>> \notin d
    PROVE  /\ R!Can(d, s) /\ R!Scans(d, s) = {} /\ OwnCheck(e, t, c, k) /\ Ready(e, t, c)
           /\ <<"con", t, k>> \in e /\ <<"notnull", c>> \in e /\ Locks(s) = {t}
<1>0. /\ Changes(s, {<<"rel", t>>, <<"col", t, c>>}, {}, {}, {<<"notnull", c>>})
      /\ s.scan = {<<t, c>>}
  BY Zenon, SetFields
<1>1. /\ s.needs = {<<"rel", t>>, <<"col", t, c>>} /\ s.lacks = {}
      /\ s.drops = {} /\ s.ren = <<>> /\ s.valid = {} /\ s.unread = {}
      /\ s.scan = {<<t, c>>} /\ s.dels = {} /\ s.adds = {<<"notnull", c>>}
  BY Zenon, <1>0 DEF Changes
<1>2. R!Can(d, s)
  <2>1. s.needs \subseteq d /\ s.lacks \cap d = {}
    BY Zenon, <1>1 DEF Ready
  <2> QED  BY Zenon, <1>1, <2>1, AnyRows
<1>3. R!Scans(d, s) = {}
  <2>1. <<"proves", k, c>> \in d
    BY Zenon DEF OwnCheck
  <2>2. /\ <<"proves", k, c>>[1] = "proves"
        /\ <<"proves", k, c>>[2] = k /\ <<"proves", k, c>>[3] = c
    OBVIOUS
  <2>3. R!Proved(d, c)
    BY Zenon, <2>1, <2>2 DEF R!Proved
  <2>4. \A j \in 2 .. Len(<<t, c>>) : <<t, c>>[j] = c
    OBVIOUS
  <2>5. ~\E j \in 2 .. Len(<<t, c>>) : ~R!Proved(d, <<t, c>>[j])
    BY Zenon, <2>3, <2>4
  <2> QED  BY Zenon, <1>1, <2>5 DEF R!Scans
<1>4. e = d \cup {<<"notnull", c>>}
  <2>1. e = (d \ s.dels) \cup s.adds
    BY Zenon, <1>1, NothingDropped
  <2> QED  BY Zenon, <1>1, <2>1
<1>5. ASSUME NEW f, f[1] # "notnull" PROVE f \in e <=> f \in d
  <2>1. f # <<"notnull", c>>
    BY <1>5
  <2> QED  BY Zenon, <1>4, <2>1
<1>6. OwnCheck(e, t, c, k)
  <2>1. <<"con", t, k>>[1] # "notnull" /\ <<"proves", k, c>>[1] # "notnull"
    OBVIOUS
  <2>2. <<"con", t, k>> \in e => <<"proves", k, c>> \in e
    BY <1>5, <2>1 DEF OwnCheck
  <2>3. ASSUME NEW f \in e,
               f[1] \in {"on", "reads", "col", "idx", "con", "trigger", "policy"}
        PROVE  f \in d
    <3>1. f[1] # "notnull"
      BY <2>3
    <3> QED  BY Zenon, <1>5, <2>3, <3>1
  <2> QED  BY Zenon, <2>2, <2>3 DEF OwnCheck
<1>7. Ready(e, t, c) /\ <<"con", t, k>> \in e /\ <<"notnull", c>> \in e
  <2>1. <<"one_step", t>>[1] # "notnull"
    OBVIOUS
  <2>2. <<"one_step", t>> \notin e
    BY Zenon, <1>5, <2>1 DEF Ready
  <2> QED  BY Zenon, <1>4, <2>2 DEF Ready
<1>8. Locks(s) = {t}
  BY Zenon, LocksTaken
<1> QED  BY Zenon, <1>2, <1>3, <1>6, <1>7, <1>8

\* The facts that do not name it.
Without(d, k) == {f \in d : ~R!Mentions(f, {k})}

\* DROP CONSTRAINT, where the check is there: accepted, and takes away what
\* names the check and nothing else.
LEMMA DropDone ==
    ASSUME NEW d, NEW t, NEW c, NEW k, NEW s, NEW e, s = R!DropConstraint(t, k),
           e = R!Do(d, s), OwnCheck(d, t, c, k), <<"con", t, k>> \in d,
           <<"rel", t>> \in d
    PROVE  /\ R!Can(d, s) /\ R!Scans(d, s) = {}
           /\ e = Without(d, k) /\ Locks(s) = {t}
<1>1. /\ s.needs = {<<"rel", t>>, <<"con", t, k>>} /\ s.lacks = {}
      /\ s.drops = {k} /\ s.ren = <<>> /\ s.valid = {} /\ s.unread = {}
      /\ s.scan = {} /\ s.dels = {} /\ s.adds = {}
  BY DropFields
<1>2. R!Gone(d, {k}) = {k} /\ ~R!Kept(d, {k})
  BY Zenon, CheckDropped
<1>3. R!Can(d, s)
  BY Zenon, <1>1, <1>2 DEF R!Can
<1>4. R!Scans(d, s) = {}
  BY Zenon, <1>1 DEF R!Scans
<1>5. e = {f \in d \ {} : ~R!Mentions(f, {k})} \cup {}
  BY Zenon, <1>1, <1>2 DEF R!Do
<1>6. e = Without(d, k)
  BY Zenon, <1>5 DEF Without
<1>7. Locks(s) = {t}
  BY Zenon, LocksTaken
<1> QED  BY Zenon, <1>3, <1>4, <1>6, <1>7

\* The four steps of plan_set_not_null.
AddStep(t, c, k) == BrieflyStep(AddCheck(t, c, k), {t})
CheckStep(t, k, rows) == R!Step("txn", TRUE, <<R!Validate(t, k, rows)>>)
SetStep(t, c) == BrieflyStep(R!SetNotNull(t, c), {t})
DropStep(t, k) == BrieflyStep(R!DropConstraint(t, k), {t})

\* From each state of the check on.
Rest(t, c, k, have, keep) ==
    LET last == <<SetStep(t, c)>> \o (IF keep THEN <<>> ELSE <<DropStep(t, k)>>)
        checked == <<CheckStep(t, k, {<<"nulls", c>>})>> \o last
    IN  IF have = "absent" THEN <<AddStep(t, c, k)>> \o checked
        ELSE IF have # "valid" THEN checked ELSE last

\* Steps appended one by one are the first one and the rest.
LEMMA Chained ==
    ASSUME NEW a, NEW v, NEW r, NEW w, NEW last, last = <<>> \/ last = <<w>>
    PROVE  /\ ((<<a>> \o <<v>>) \o <<r>>) \o last = <<a>> \o (<<v>> \o (<<r>> \o last))
           /\ ((<<>> \o <<v>>) \o <<r>>) \o last = <<v>> \o (<<r>> \o last)
           /\ ((<<>> \o <<>>) \o <<r>>) \o last = <<r>> \o last
<1>1. CASE last = <<>>
  BY <1>1
<1>2. CASE last = <<w>>
  BY <1>2
<1> QED  BY Zenon, <1>1, <1>2

\* NotNullRecipe pushes what is left to do in the state of the check.
LEMMA RecipeRest ==
    ASSUME NEW t, NEW c, NEW k, NEW have, NEW keep
    PROVE  R!NotNullRecipe(t, k, {c}, <<R!SetNotNull(t, c)>>, have, keep)
             = Rest(t, c, k, have, keep)
<1> DEFINE a == AddStep(t, c, k)
           v == CheckStep(t, k, {<<"nulls", c>>})
           r == SetStep(t, c)
           w == DropStep(t, k)
<1>1. {<<"nulls", x>> : x \in {c}} = {<<"nulls", c>>}
  BY Zenon
<1>2. R!AddNotNullCheck(t, k, {c}) = <<a>>
  BY Zenon, OneStep DEF R!AddNotNullCheck, AddStep, AddCheck
<1>3. R!ValidateNotNullCheck(t, k, {c}) = <<v>>
  BY Zenon, <1>1, OneStep DEF R!ValidateNotNullCheck, CheckStep
<1>4. R!Briefly(R!OwnTxn(<<R!SetNotNull(t, c)>>), {t}) = <<r>>
  BY Zenon, OneStep DEF SetStep
<1>5. R!Briefly(R!OwnTxn(<<R!DropConstraint(t, k)>>), {t}) = <<w>>
  BY Zenon, OneStep DEF DropStep
<1>6. R!NotNullRecipe(t, k, {c}, <<R!SetNotNull(t, c)>>, have, keep)
        = (((IF have = "absent" THEN <<a>> ELSE <<>>)
               \o (IF have # "valid" THEN <<v>> ELSE <<>>))
             \o <<r>>) \o (IF keep THEN <<>> ELSE <<w>>)
  BY Zenon, <1>2, <1>3, <1>4, <1>5 DEF R!NotNullRecipe
<1> DEFINE last == IF keep THEN <<>> ELSE <<w>>
<1>7. Rest(t, c, k, have, keep)
        = IF have = "absent" THEN <<a>> \o (<<v>> \o (<<r>> \o last))
          ELSE IF have # "valid" THEN <<v>> \o (<<r>> \o last) ELSE <<r>> \o last
  BY Zenon DEF Rest
<1> HIDE DEF a, v, r, w
<1>8. /\ ((<<a>> \o <<v>>) \o <<r>>) \o last = <<a>> \o (<<v>> \o (<<r>> \o last))
      /\ ((<<>> \o <<v>>) \o <<r>>) \o last = <<v>> \o (<<r>> \o last)
      /\ ((<<>> \o <<>>) \o <<r>>) \o last = <<r>> \o last
  <2>1. last = <<>> \/ last = <<w>>
    BY Zenon
  <2> HIDE DEF last
  <2> QED  BY <2>1, Chained
<1> HIDE DEF last
<1>9. "absent" # "valid"
  OBVIOUS
<1>10. CASE have = "absent"
  BY Zenon, <1>6, <1>7, <1>8, <1>9, <1>10 DEF last
<1>11. CASE have # "absent" /\ have # "valid"
  BY Zenon, <1>6, <1>7, <1>8, <1>11 DEF last
<1>12. CASE have = "valid"
  BY Zenon, <1>6, <1>7, <1>8, <1>9, <1>12 DEF last
<1> QED  BY Zenon, <1>10, <1>11, <1>12

\* The step is one statement in a transaction of its own; the database accepts
\* it, it scans no table it keeps writers out of, and it waits for each of
\* those tables with the weaker lock first.
RunsBriefly(d, now) ==
    /\ now.action = "apply" /\ now.class = "txn" /\ now.own
    /\ Len(now.sql) = 1 /\ R!Can(d, now.sql[1])
    /\ R!Scans(d, now.sql[1]) \cap Locks(now.sql[1]) = {}
    /\ Locks(now.sql[1]) \subseteq now.first
    /\ Locks(now.sql[1]) # {} => now.retry

\* A statement that is accepted and does not scan under its lock makes such a
\* step.
LEMMA BriefStep ==
    ASSUME NEW d, NEW s, NEW tables, R!Can(d, s), R!Scans(d, s) = {} \/ Locks(s) = {},
           Locks(s) \subseteq tables
    PROVE  LET brief == BrieflyStep(s, tables)
               plain == R!Step("txn", TRUE, <<s>>)
           IN  /\ brief.sql[1] = s /\ plain.sql[1] = s /\ RunsBriefly(d, brief)
               /\ Locks(s) = {} => RunsBriefly(d, plain)
<1>1. R!Scans(d, s) \cap Locks(s) = {}
  BY Zenon
<1> DEFINE brief == BrieflyStep(s, tables)
           plain == R!Step("txn", TRUE, <<s>>)
<1>2. /\ plain.action = "apply" /\ plain.class = "txn" /\ plain.own /\ plain.sql = <<s>>
      /\ plain.first = {}
  BY DEF R!Step
<1>3. /\ brief.action = "apply" /\ brief.class = "txn" /\ brief.own /\ brief.sql = <<s>>
      /\ brief.retry /\ brief.first = tables
  BY DEF R!Step, BrieflyStep
<1>4. <<s>>[1] = s /\ Len(<<s>>) = 1
  OBVIOUS
<1> HIDE DEF brief, plain
<1>5. RunsBriefly(d, brief)
  BY Zenon, <1>1, <1>3, <1>4 DEF RunsBriefly
<1>6. Locks(s) = {} => RunsBriefly(d, plain)
  BY Zenon, <1>1, <1>2, <1>4 DEF RunsBriefly
<1> QED  BY Zenon, <1>2, <1>3, <1>4, <1>5, <1>6 DEF brief, plain

\* The planner sees every fact but those of rows.
LEMMA Seen ==
    ASSUME NEW d, NEW f, f[1] \notin R!RowFacts
    PROVE  f \in R!Observe(d) <=> f \in d
  BY Zenon DEF R!Observe

\* What plan_set_not_null decides by is what the database holds.
LEMMA SeenReady ==
    ASSUME NEW d, NEW t, NEW c
    PROVE  /\ Ready(R!Observe(d), t, c) <=> Ready(d, t, c)
           /\ <<"notnull", c>> \in R!Observe(d) <=> <<"notnull", c>> \in d
<1>1. /\ <<"rel", t>>[1] \notin R!RowFacts /\ <<"col", t, c>>[1] \notin R!RowFacts
      /\ <<"one_step", t>>[1] \notin R!RowFacts /\ <<"notnull", c>>[1] \notin R!RowFacts
  BY DEF R!RowFacts
<1>2. Ready(R!Observe(d), t, c) <=> Ready(d, t, c)
  BY Zenon, <1>1, Seen DEF Ready
<1>3. <<"notnull", c>> \in R!Observe(d) <=> <<"notnull", c>> \in d
  BY Zenon, <1>1, Seen
<1> QED  BY Zenon, <1>2, <1>3

\* So is the state of the constraint.
LEMMA SeenConstraint ==
    ASSUME NEW d, NEW t, NEW k
    PROVE  /\ <<"con", t, k>> \in R!Observe(d) <=> <<"con", t, k>> \in d
           /\ <<"notvalid", k>> \in R!Observe(d) <=> <<"notvalid", k>> \in d
<1>1. <<"con", t, k>>[1] \notin R!RowFacts /\ <<"notvalid", k>>[1] \notin R!RowFacts
  BY DEF R!RowFacts
<1>2. <<"con", t, k>> \in R!Observe(d) <=> <<"con", t, k>> \in d
  BY Zenon, <1>1, Seen
<1>3. <<"notvalid", k>> \in R!Observe(d) <=> <<"notvalid", k>> \in d
  BY Zenon, <1>1, Seen
<1> QED  BY Zenon, <1>2, <1>3

\* plan_set_not_null plans what is left to do, from any state of the check.
LEMMA PlanRest ==
    ASSUME NEW in, NEW d, NEW t, NEW c, NEW k,
           t = in.table, c = in.column, k = R!CheckName(t, c),
           Ready(d, t, c), <<"notnull", c>> \notin d
    PROVE  R!PlanSetNotNull(in, R!Observe(d))
             = Rest(t, c, k, R!ConstraintState(d, t, k), in.keep_check)
<1> DEFINE o == R!Observe(d)
<1>1. Ready(o, t, c) /\ <<"notnull", c>> \notin o
  <2>1. Ready(o, t, c)
    BY SeenReady
  <2>2. <<"notnull", c>> \notin o
    BY Zenon, SeenReady
  <2> QED  BY Zenon, <2>1, <2>2
<1>2. R!ConstraintState(o, t, k) = R!ConstraintState(d, t, k)
  BY Zenon, SeenConstraint DEF R!ConstraintState
<1> HIDE DEF o
<1>3. R!PlanSetNotNull(in, o)
        = R!NotNullRecipe(t, k, {c}, <<R!SetNotNull(t, c)>>, R!ConstraintState(o, t, k),
                          in.keep_check)
  BY Zenon, <1>1 DEF Ready, R!PlanSetNotNull, R!Exists, R!HasColumn, R!ValidatesInOneStep
<1>4. R!PlanSetNotNull(in, o) = Rest(t, c, k, R!ConstraintState(o, t, k), in.keep_check)
  BY <1>3, RecipeRest
<1> QED  BY Zenon, <1>2, <1>4 DEF o

\* plan_set_not_null has nothing to do where the column is NOT NULL.
LEMMA PlanDone ==
    ASSUME NEW in, NEW d, Ready(d, in.table, in.column), <<"notnull", in.column>> \in d
    PROVE  R!PlanSetNotNull(in, R!Observe(d)) = R!Satisfied
<1> DEFINE o == R!Observe(d)
<1>1. Ready(o, in.table, in.column) /\ <<"notnull", in.column>> \in o
  BY Zenon, SeenReady
<1> HIDE DEF o
<1>2. R!PlanSetNotNull(in, o) = R!Satisfied
  BY Zenon, <1>1 DEF Ready, R!PlanSetNotNull, R!Exists, R!HasColumn, R!ValidatesInOneStep
<1> QED  BY Zenon, <1>2 DEF o

\* The plan is this step and the rest; the step runs briefly; and whatever rows
\* the application writes meanwhile, planning again after it gives exactly the
\* rest.  Once the column is NOT NULL there is nothing to plan, and all that
\* was left is to drop the check, which runs briefly and takes nothing else.
NotNullGoesOn(in, d, t, c, k, now, rest) ==
    /\ R!PlanSetNotNull(in, R!Observe(d)) = <<now>> \o rest
    /\ RunsBriefly(d, now)
    /\ \A e : R!Observe(e) = R!Observe(R!Do(d, now.sql[1])) =>
          /\ OwnCheck(e, t, c, k) /\ Ready(e, t, c)
          /\ <<"notnull", c>> \notin e => R!PlanSetNotNull(in, R!Observe(e)) = rest
          /\ <<"notnull", c>> \in e =>
                /\ R!PlanSetNotNull(in, R!Observe(e)) = R!Satisfied
                /\ rest = IF in.keep_check THEN <<>> ELSE <<DropStep(t, k)>>
                /\ RunsBriefly(e, DropStep(t, k))
                /\ R!Do(e, R!DropConstraint(t, k)) = Without(e, k)

\* plan_set_not_null can be stopped after any step: from any database and any
\* state of its check, its first step runs briefly and planning again after it
\* goes on with exactly the steps that were left.
THEOREM NotNullStepByStep ==
    ASSUME NEW in, NEW d, NEW t, NEW c, NEW k,
           t = in.table, c = in.column, k = R!CheckName(t, c),
           OwnCheck(d, t, c, k), Ready(d, t, c), <<"notnull", c>> \notin d
    PROVE  \E now, rest : NotNullGoesOn(in, d, t, c, k, now, rest)
<1> DEFINE a == AddStep(t, c, k)
           v == CheckStep(t, k, {<<"nulls", c>>})
           drop == IF in.keep_check THEN <<>> ELSE <<DropStep(t, k)>>
           last == <<SetStep(t, c)>> \o drop
           checked == <<v>> \o last
<1>1. ASSUME NEW d2, NEW e, R!Observe(e) = R!Observe(d2), OwnCheck(d2, t, c, k), Ready(d2, t, c)
      PROVE  /\ OwnCheck(e, t, c, k) /\ Ready(e, t, c)
             /\ <<"notnull", c>> \in e <=> <<"notnull", c>> \in d2
             /\ <<"con", t, k>> \in e <=> <<"con", t, k>> \in d2
  <2>1. OwnCheck(e, t, c, k)
    BY Zenon, <1>1, OwnIsCatalog
  <2>2. Ready(e, t, c)
    BY Zenon, <1>1, SeenReady
  <2>3. <<"notnull", c>> \in e <=> <<"notnull", c>> \in d2
    BY Zenon, <1>1, SeenReady
  <2>4. <<"con", t, k>> \in e <=> <<"con", t, k>> \in d2
    BY Zenon, <1>1, SeenConstraint
  <2> QED  BY Zenon, <2>1, <2>2, <2>3, <2>4
<1>2. ASSUME NEW e, Ready(e, t, c), <<"notnull", c>> \notin e
      PROVE  /\ <<"con", t, k>> \notin e => R!PlanSetNotNull(in, R!Observe(e)) = <<a>> \o checked
             /\ <<"con", t, k>> \in e /\ <<"notvalid", k>> \in e =>
                  R!PlanSetNotNull(in, R!Observe(e)) = checked
             /\ <<"con", t, k>> \in e /\ <<"notvalid", k>> \notin e =>
                  R!PlanSetNotNull(in, R!Observe(e)) = last
  <2> DEFINE have == R!ConstraintState(e, t, k)
  <2>1. R!PlanSetNotNull(in, R!Observe(e)) = Rest(t, c, k, have, in.keep_check)
    BY Zenon, <1>2, PlanRest
  <2>2. CASE <<"con", t, k>> \notin e
    <3>1. have = "absent"
      BY Zenon, <2>2 DEF R!ConstraintState
    <3> HIDE DEF have
    <3> QED  BY Zenon, <2>1, <2>2, <3>1 DEF Rest
  <2>3. CASE <<"con", t, k>> \in e /\ <<"notvalid", k>> \in e
    <3>1. have # "absent" /\ have # "valid"
      BY Zenon, <2>3 DEF R!ConstraintState
    <3> HIDE DEF have
    <3> QED  BY Zenon, <2>1, <2>3, <3>1 DEF Rest
  <2>4. CASE <<"con", t, k>> \in e /\ <<"notvalid", k>> \notin e
    <3>1. have = "valid" /\ "valid" # "absent"
      BY Zenon, <2>4 DEF R!ConstraintState
    <3> HIDE DEF have
    <3> QED  BY Zenon, <2>1, <2>4, <3>1 DEF Rest
  <2> QED  BY Zenon, <2>2, <2>3, <2>4
<1> HIDE DEF last, checked
<1>3. CASE <<"con", t, k>> \notin d
  <2> DEFINE s == AddCheck(t, c, k)
             d2 == R!Do(d, s)
  <2>1. s = AddCheck(t, c, k) /\ d2 = R!Do(d, s)
    BY Zenon
  <2> HIDE DEF d2, s
  <2>2. /\ R!Can(d, s) /\ R!Scans(d, s) = {} /\ OwnCheck(d2, t, c, k) /\ Ready(d2, t, c)
        /\ <<"con", t, k>> \in d2 /\ <<"notvalid", k>> \in d2 /\ <<"notnull", c>> \notin d2
        /\ Locks(s) = {t}
    BY <1>3, <2>1, AddDone
  <2>3. RunsBriefly(d, a) /\ a.sql[1] = s
    <3> DEFINE ts == {t}
    <3>1. a = BrieflyStep(s, ts)
      BY Zenon, <2>1 DEF AddStep
    <3>2. R!Can(d, s) /\ Locks(s) \subseteq ts /\ (R!Scans(d, s) = {} \/ Locks(s) = {})
      BY Zenon, <2>2
    <3> HIDE DEF a, ts
    <3>3. RunsBriefly(d, BrieflyStep(s, ts)) /\ BrieflyStep(s, ts).sql[1] = s
      BY Zenon, <3>2, BriefStep
    <3> QED  BY Zenon, <3>1, <3>3
  <2> HIDE DEF a
  <2>4. R!PlanSetNotNull(in, R!Observe(d)) = <<a>> \o checked
    BY Zenon, <1>2, <1>3
  <2>5. R!PlanSetNotNull(in, R!Observe(d2)) = checked
    BY Zenon, <1>2, <2>2
  <2>6. ASSUME NEW e, R!Observe(e) = R!Observe(R!Do(d, a.sql[1]))
        PROVE  /\ OwnCheck(e, t, c, k) /\ Ready(e, t, c) /\ <<"notnull", c>> \notin e
               /\ R!PlanSetNotNull(in, R!Observe(e)) = checked
    <3>1. R!Observe(e) = R!Observe(d2)
      BY Zenon, <2>1, <2>3, <2>6
    <3> QED  BY Zenon, <1>1, <2>2, <2>5, <3>1
  <2>7. NotNullGoesOn(in, d, t, c, k, a, checked)
    BY Zenon, <2>3, <2>4, <2>6 DEF NotNullGoesOn
  <2> QED  BY Zenon, <2>7
<1>4. CASE <<"con", t, k>> \in d /\ <<"notvalid", k>> \in d
  <2> DEFINE s == R!Validate(t, k, {<<"nulls", c>>})
             d2 == R!Do(d, s)
  <2>1. s = R!Validate(t, k, {<<"nulls", c>>}) /\ d2 = R!Do(d, s)
    BY Zenon
  <2> HIDE DEF d2, s
  <2>2. /\ R!Can(d, s) /\ Locks(s) = {} /\ OwnCheck(d2, t, c, k) /\ Ready(d2, t, c)
        /\ <<"con", t, k>> \in d2 /\ <<"notvalid", k>> \notin d2 /\ <<"notnull", c>> \notin d2
    BY <1>4, <2>1, ValidateDone
  <2>3. RunsBriefly(d, v) /\ v.sql[1] = s
    BY Zenon, <2>2, BriefStep DEF CheckStep, s
  <2> HIDE DEF v
  <2>4. R!PlanSetNotNull(in, R!Observe(d)) = <<v>> \o last
    BY Zenon, <1>2, <1>4 DEF checked
  <2>5. R!PlanSetNotNull(in, R!Observe(d2)) = last
    BY Zenon, <1>2, <2>2
  <2>6. ASSUME NEW e, R!Observe(e) = R!Observe(R!Do(d, v.sql[1]))
        PROVE  /\ OwnCheck(e, t, c, k) /\ Ready(e, t, c) /\ <<"notnull", c>> \notin e
               /\ R!PlanSetNotNull(in, R!Observe(e)) = last
    <3>1. R!Observe(e) = R!Observe(d2)
      BY Zenon, <2>1, <2>3, <2>6
    <3> QED  BY Zenon, <1>1, <2>2, <2>5, <3>1
  <2>7. NotNullGoesOn(in, d, t, c, k, v, last)
    BY Zenon, <2>3, <2>4, <2>6 DEF NotNullGoesOn
  <2> QED  BY Zenon, <2>7
<1>5. CASE <<"con", t, k>> \in d /\ <<"notvalid", k>> \notin d
  <2> DEFINE s == R!SetNotNull(t, c)
             d2 == R!Do(d, s)
             set == SetStep(t, c)
  <2>1. s = R!SetNotNull(t, c) /\ d2 = R!Do(d, s)
    BY Zenon
  <2> HIDE DEF d2, s
  <2>2. /\ R!Can(d, s) /\ R!Scans(d, s) = {} /\ OwnCheck(d2, t, c, k) /\ Ready(d2, t, c)
        /\ <<"con", t, k>> \in d2 /\ <<"notnull", c>> \in d2 /\ Locks(s) = {t}
    BY <1>5, <2>1, SetDone
  <2>3. RunsBriefly(d, set) /\ set.sql[1] = s
    <3> DEFINE ts == {t}
    <3>1. set = BrieflyStep(s, ts)
      BY Zenon, <2>1 DEF SetStep
    <3>2. R!Can(d, s) /\ Locks(s) \subseteq ts /\ (R!Scans(d, s) = {} \/ Locks(s) = {})
      BY Zenon, <2>2
    <3> HIDE DEF set, ts
    <3>3. RunsBriefly(d, BrieflyStep(s, ts)) /\ BrieflyStep(s, ts).sql[1] = s
      BY Zenon, <3>2, BriefStep
    <3> QED  BY Zenon, <3>1, <3>3
  <2>4. R!PlanSetNotNull(in, R!Observe(d)) = <<set>> \o drop
    BY Zenon, <1>2, <1>5 DEF last
  <2> HIDE DEF set
  <2>5. ASSUME NEW e, R!Observe(e) = R!Observe(R!Do(d, set.sql[1]))
        PROVE  /\ OwnCheck(e, t, c, k) /\ Ready(e, t, c) /\ <<"notnull", c>> \in e
               /\ R!PlanSetNotNull(in, R!Observe(e)) = R!Satisfied
               /\ RunsBriefly(e, DropStep(t, k))
               /\ R!Do(e, R!DropConstraint(t, k)) = Without(e, k)
    <3>1. R!Observe(e) = R!Observe(d2)
      BY Zenon, <2>1, <2>3, <2>5
    <3>2. /\ OwnCheck(e, t, c, k) /\ Ready(e, t, c)
          /\ <<"notnull", c>> \in e /\ <<"con", t, k>> \in e
      BY Zenon, <1>1, <2>2, <3>1
    <3>3. R!PlanSetNotNull(in, R!Observe(e)) = R!Satisfied
      BY Zenon, <3>2, PlanDone
    <3>4. /\ R!Can(e, R!DropConstraint(t, k)) /\ R!Scans(e, R!DropConstraint(t, k)) = {}
          /\ R!Do(e, R!DropConstraint(t, k)) = Without(e, k)
          /\ Locks(R!DropConstraint(t, k)) = {t}
      <4>1. ASSUME NEW x, NEW y, x = R!DropConstraint(t, k), y = R!Do(e, x)
            PROVE  /\ R!Can(e, x) /\ R!Scans(e, x) = {}
                   /\ y = Without(e, k) /\ Locks(x) = {t}
        <5>1. <<"rel", t>> \in e
          BY Zenon, <3>2 DEF Ready
        <5> QED  BY <3>2, <4>1, <5>1, DropDone
      <4> QED  BY Zenon, <4>1
    <3>5. RunsBriefly(e, DropStep(t, k))
      BY Zenon, <3>4, BriefStep DEF DropStep
    <3> QED  BY Zenon, <3>2, <3>3, <3>4, <3>5
  <2>6. NotNullGoesOn(in, d, t, c, k, set, drop)
    BY Zenon, <2>3, <2>4, <2>5 DEF NotNullGoesOn
  <2> QED  BY Zenon, <2>6
<1> QED  BY Zenon, <1>3, <1>4, <1>5

\* The steps of AddThenValidate.
ValidateBad(in) == CheckStep(in.table, in.name, {<<"bad", in.name>>})

\* A statement that adds a constraint NOT VALID.
AddsNotValid(d, t, k, s) ==
    /\ s.needs \subseteq d /\ s.lacks = {<<"con", t, k>>}
    /\ s.drops = {} /\ s.ren = <<>> /\ s.valid = {} /\ s.unread = {}
    /\ s.scan = {} /\ s.dels = {}
    /\ {<<"con", t, k>>, <<"notvalid", k>>} \subseteq s.adds
    /\ \A f \in s.adds : f[1] \notin {"rel", "one_step"}

\* So does the statement of plan_add_check_constraint.
LEMMA CheckAdds ==
    ASSUME NEW d, NEW t, NEW k, NEW s,
           s = R!AddNotValid(t, k, "c", {}), <<"rel", t>> \in d
    PROVE  AddsNotValid(d, t, k, s) /\ Locks(s) = {t}
<1> DEFINE new == {<<"con", t, k>>, <<"contype", k, "c">>, <<"notvalid", k>>}
<1>1. Changes(s, {<<"rel", t>>}, {<<"con", t, k>>}, {}, new) /\ s.scan = {}
  BY Zenon, AddBareFields
<1>2. \A f \in new : f[1] \notin {"rel", "one_step"}
  OBVIOUS
<1>3. {<<"con", t, k>>, <<"notvalid", k>>} \subseteq new
  BY Zenon
<1> HIDE DEF new
<1>4. s.needs \subseteq d
  BY Zenon, <1>1 DEF Changes
<1>5. Locks(s) = {t}
  BY Zenon, LocksTaken
<1> QED  BY Zenon, <1>1, <1>2, <1>3, <1>4, <1>5 DEF AddsNotValid, Changes

\* And that of plan_add_foreign_key.
LEMMA ForeignKeyAdds ==
    ASSUME NEW in, NEW d, NEW t, NEW k, NEW s,
           s = R!ForeignKey(in, R!AddNotValid(t, k, "f", {})), k = in.name,
           <<"rel", t>> \in d, <<"rel", in.references_table>> \in d
    PROVE  AddsNotValid(d, t, k, s) /\ Locks(s) = {t, in.references_table}
<1> DEFINE new == {<<"con", t, k>>, <<"contype", k, "f">>, <<"notvalid", k>>,
                   <<"reads", in.name, in.references>>}
<1>1. Changes(s, {<<"rel", t>>, <<"rel", in.references_table>>}, {<<"con", t, k>>}, {}, new) /\ s.scan = {}
  BY Zenon, ForeignKeyFields
<1>2. \A f \in new : f[1] \notin {"rel", "one_step"}
  OBVIOUS
<1>3. {<<"con", t, k>>, <<"notvalid", k>>} \subseteq new
  BY Zenon
<1> HIDE DEF new
<1>4. s.needs \subseteq d
  BY Zenon, <1>1 DEF Changes
<1>5. Locks(s) = {t, in.references_table}
  BY Zenon, LocksTaken
<1> QED  BY Zenon, <1>1, <1>2, <1>3, <1>4, <1>5 DEF AddsNotValid, Changes

\* What AddThenValidate plans in each state of the constraint.
LEMMA AddOrValidate ==
    ASSUME NEW in, NEW add, NEW tables, NEW obs
    PROVE  LET k == in.name
               t == in.table
           IN  R!AddThenValidate(in, obs, add, tables)
                 = IF <<"con", t, k>> \notin obs
                   THEN <<BrieflyStep(add, tables)>> \o <<ValidateBad(in)>>
                   ELSE IF <<"notvalid", k>> \in obs THEN <<ValidateBad(in)>> \o <<>>
                   ELSE R!Satisfied
<1> DEFINE k == in.name
           t == in.table
<1>1. R!Briefly(R!OwnTxn(<<add>>), tables) = <<BrieflyStep(add, tables)>>
  BY Zenon, OneStep
<1>2. R!ValidateStep(in, {<<"bad", in.name>>}) = <<ValidateBad(in)>>
  BY Zenon, OneStep DEF R!ValidateStep, ValidateBad, CheckStep
<1>3. <<ValidateBad(in)>> \o <<>> = <<ValidateBad(in)>>
  OBVIOUS
<1>4. CASE <<"con", t, k>> \notin obs
  <2>1. R!ConstraintState(obs, t, k) = "absent"
    BY Zenon, <1>4 DEF R!ConstraintState
  <2> QED  BY Zenon, <1>1, <1>2, <1>4, <2>1 DEF R!AddThenValidate
<1>5. CASE <<"con", t, k>> \in obs /\ <<"notvalid", k>> \in obs
  <2>1. R!ConstraintState(obs, t, k) = "not valid"
    BY Zenon, <1>5 DEF R!ConstraintState
  <2> QED  BY Zenon, <1>2, <1>3, <1>5, <2>1 DEF R!AddThenValidate
<1>6. CASE <<"con", t, k>> \in obs /\ <<"notvalid", k>> \notin obs
  <2>1. R!ConstraintState(obs, t, k) = "valid"
    BY Zenon, <1>6 DEF R!ConstraintState
  <2> QED  BY Zenon, <1>6, <2>1 DEF R!AddThenValidate
<1> QED  BY Zenon, <1>4, <1>5, <1>6

\* The first step runs briefly, and planning again after it gives the rest.
AddsInSteps(in, d, t, add, tables, now, rest) ==
    /\ R!AddThenValidate(in, R!Observe(d), add, tables) = <<now>> \o rest
    /\ RunsBriefly(d, now)
    /\ \A e : R!Observe(e) = R!Observe(R!Do(d, now.sql[1])) =>
          /\ <<"rel", t>> \in e /\ (<<"one_step", t>> \in e <=> <<"one_step", t>> \in d)
          /\ R!AddThenValidate(in, R!Observe(e), add, tables)
                = IF rest = <<>> THEN R!Satisfied ELSE rest

\* So it does from any state of the constraint but the valid one.
LEMMA AddThenValidateSteps ==
    ASSUME NEW in, NEW d, NEW t, NEW k, NEW add, NEW tables, t = in.table, k = in.name,
           AddsNotValid(d, t, k, add), Locks(add) \subseteq tables, <<"rel", t>> \in d,
           ~(<<"con", t, k>> \in d /\ <<"notvalid", k>> \notin d)
    PROVE  \E now, rest : AddsInSteps(in, d, t, add, tables, now, rest)
<1>1. /\ <<"rel", t>>[1] = "rel" /\ <<"one_step", t>>[1] = "one_step"
      /\ <<"con", t, k>>[1] = "con" /\ <<"notvalid", k>>[1] = "notvalid"
  OBVIOUS
<1>2. {"rel", "one_step", "con", "notvalid"} \cap R!RowFacts = {}
  BY DEF R!RowFacts
<1>3. ASSUME NEW e
      PROVE  /\ <<"rel", t>> \in R!Observe(e) <=> <<"rel", t>> \in e
             /\ <<"one_step", t>> \in R!Observe(e) <=> <<"one_step", t>> \in e
             /\ <<"con", t, k>> \in R!Observe(e) <=> <<"con", t, k>> \in e
             /\ <<"notvalid", k>> \in R!Observe(e) <=> <<"notvalid", k>> \in e
  BY <1>1, <1>2, Seen
<1>4. CASE <<"con", t, k>> \notin d
  <2> DEFINE d2 == R!Do(d, add)
  <2>1. R!Can(d, add) /\ R!Scans(d, add) = {}
    <3>1. add.lacks \cap d = {}
      BY Zenon, <1>4 DEF AddsNotValid
    <3>2. R!Can(d, add)
      BY Zenon, <3>1, AnyRows DEF AddsNotValid
    <3> QED  BY Zenon, <3>2 DEF AddsNotValid, R!Scans
  <2>2. d2 = d \cup add.adds
    <3>1. d2 = (d \ add.dels) \cup add.adds
      BY Zenon, NothingDropped DEF AddsNotValid
    <3> QED  BY Zenon, <3>1 DEF AddsNotValid
  <2>3. RunsBriefly(d, BrieflyStep(add, tables)) /\ BrieflyStep(add, tables).sql[1] = add
    BY Zenon, <2>1, BriefStep
  <2> HIDE DEF d2
  <2>4. /\ <<"con", t, k>> \in d2 /\ <<"notvalid", k>> \in d2 /\ <<"rel", t>> \in d2
        /\ <<"one_step", t>> \in d2 <=> <<"one_step", t>> \in d
    <3>1. <<"one_step", t>> \notin add.adds
      BY <1>1 DEF AddsNotValid
    <3> QED  BY Zenon, <2>2, <3>1 DEF AddsNotValid
  <2>5. <<ValidateBad(in)>> # <<>> /\ <<ValidateBad(in)>> \o <<>> = <<ValidateBad(in)>>
    OBVIOUS
  <2>6. R!AddThenValidate(in, R!Observe(d), add, tables) = <<BrieflyStep(add, tables)>> \o <<ValidateBad(in)>>
    BY Zenon, <1>3, <1>4, AddOrValidate
  <2>7. ASSUME NEW e, R!Observe(e) = R!Observe(d2)
        PROVE  /\ <<"rel", t>> \in e /\ (<<"one_step", t>> \in e <=> <<"one_step", t>> \in d)
               /\ R!AddThenValidate(in, R!Observe(e), add, tables) = <<ValidateBad(in)>>
    <3>1. /\ <<"con", t, k>> \in R!Observe(e) /\ <<"notvalid", k>> \in R!Observe(e)
          /\ <<"rel", t>> \in e /\ (<<"one_step", t>> \in e <=> <<"one_step", t>> \in d)
      BY Zenon, <1>3, <2>4, <2>7
    <3> QED  BY Zenon, <2>5, <3>1, AddOrValidate
  <2>8. \A e : R!Observe(e) = R!Observe(R!Do(d, BrieflyStep(add, tables).sql[1])) =>
             /\ <<"rel", t>> \in e /\ (<<"one_step", t>> \in e <=> <<"one_step", t>> \in d)
             /\ R!AddThenValidate(in, R!Observe(e), add, tables)
                   = IF <<ValidateBad(in)>> = <<>> THEN R!Satisfied ELSE <<ValidateBad(in)>>
    BY Zenon, <2>3, <2>5, <2>7 DEF d2
  <2>9. AddsInSteps(in, d, t, add, tables, BrieflyStep(add, tables), <<ValidateBad(in)>>)
    BY Zenon, <2>3, <2>6, <2>8 DEF AddsInSteps
  <2> QED  BY Zenon, <2>9
<1>5. CASE <<"con", t, k>> \in d /\ <<"notvalid", k>> \in d
  <2> DEFINE s == R!Validate(t, k, {<<"bad", k>>})
             d2 == R!Do(d, s)
  <2>0. Changes(s, {<<"rel", t>>, <<"con", t, k>>}, {}, {<<"notvalid", k>>}, {})
    BY Zenon, ValidateFields
  <2>1. /\ s.needs = {<<"rel", t>>, <<"con", t, k>>} /\ s.lacks = {}
        /\ s.drops = {} /\ s.ren = <<>> /\ s.valid = {} /\ s.unread = {}
        /\ s.dels = {<<"notvalid", k>>} /\ s.adds = {}
    BY Zenon, <2>0 DEF Changes
  <2>2. RunsBriefly(d, ValidateBad(in)) /\ ValidateBad(in).sql[1] = s
    <3> HIDE DEF s
    <3>1. s.needs \subseteq d /\ s.lacks \cap d = {}
      BY Zenon, <1>5, <2>1
    <3>2. R!Can(d, s)
      BY Zenon, <2>1, <3>1, AnyRows
    <3>3. ValidateBad(in) = R!Step("txn", TRUE, <<s>>)
      BY Zenon DEF ValidateBad, CheckStep, s
    <3>4. Locks(s) = {} /\ Locks(s) \subseteq tables
      BY Zenon, LocksTaken DEF s
    <3>5. /\ R!Step("txn", TRUE, <<s>>).sql[1] = s
          /\ Locks(s) = {} => RunsBriefly(d, R!Step("txn", TRUE, <<s>>))
      BY Zenon, <3>2, <3>4, BriefStep
    <3> QED  BY Zenon, <3>3, <3>4, <3>5
  <2> HIDE DEF s
  <2>3. d2 = d \ {<<"notvalid", k>>}
    <3>1. d2 = (d \ s.dels) \cup s.adds
      BY Zenon, <2>1, NothingDropped
    <3> QED  BY Zenon, <2>1, <3>1
  <2> HIDE DEF d2
  <2>4. /\ <<"con", t, k>> # <<"notvalid", k>> /\ <<"rel", t>> # <<"notvalid", k>>
        /\ <<"one_step", t>> # <<"notvalid", k>>
    OBVIOUS
  <2>5. /\ <<"con", t, k>> \in d2 /\ <<"notvalid", k>> \notin d2 /\ <<"rel", t>> \in d2
        /\ <<"one_step", t>> \in d2 <=> <<"one_step", t>> \in d
    BY Zenon, <1>5, <2>3, <2>4
  <2>6. R!AddThenValidate(in, R!Observe(d), add, tables) = <<ValidateBad(in)>> \o <<>>
    BY Zenon, <1>3, <1>5, AddOrValidate
  <2>7. ASSUME NEW e, R!Observe(e) = R!Observe(d2)
        PROVE  /\ <<"rel", t>> \in e /\ (<<"one_step", t>> \in e <=> <<"one_step", t>> \in d)
               /\ R!AddThenValidate(in, R!Observe(e), add, tables) = R!Satisfied
    <3>1. /\ <<"con", t, k>> \in R!Observe(e) /\ <<"notvalid", k>> \notin R!Observe(e)
          /\ <<"rel", t>> \in e /\ (<<"one_step", t>> \in e <=> <<"one_step", t>> \in d)
      BY Zenon, <1>3, <2>5, <2>7
    <3> QED  BY Zenon, <3>1, AddOrValidate
  <2>8. AddsInSteps(in, d, t, add, tables, ValidateBad(in), <<>>)
    BY Zenon, <2>2, <2>6, <2>7 DEF AddsInSteps, d2
  <2> QED  BY Zenon, <2>8
<1> QED  BY Zenon, <1>4, <1>5

\* plan_add_check_constraint can be stopped after any step: whatever the
\* database, its first step runs briefly, and planning again after it, whatever
\* rows the application writes meanwhile, gives exactly what was left, and
\* nothing when nothing was.
THEOREM CheckStepByStep ==
    ASSUME NEW in, NEW d, NEW t, NEW k, t = in.table, k = in.name,
           <<"rel", t>> \in d, <<"one_step", t>> \notin d,
           ~(<<"con", t, k>> \in d /\ <<"notvalid", k>> \notin d)
    PROVE  \E now, rest :
             /\ R!PlanAddCheckConstraint(in, R!Observe(d)) = <<now>> \o rest
             /\ RunsBriefly(d, now)
             /\ \A e : R!Observe(e) = R!Observe(R!Do(d, now.sql[1])) =>
                   R!PlanAddCheckConstraint(in, R!Observe(e))
                     = IF rest = <<>> THEN R!Satisfied ELSE rest
<1> DEFINE add == R!AddNotValid(t, k, "c", {})
           tables == {t}
<1>0. add = R!AddNotValid(t, k, "c", {})
  BY Zenon
<1> HIDE DEF add
<1>1. AddsNotValid(d, t, k, add) /\ Locks(add) \subseteq tables
  BY Zenon, <1>0, CheckAdds
<1>2. ASSUME NEW e, <<"rel", t>> \in e, <<"one_step", t>> \notin e
      PROVE  R!PlanAddCheckConstraint(in, R!Observe(e))
               = R!AddThenValidate(in, R!Observe(e), add, tables)
  <2>1. <<"rel", t>>[1] \notin R!RowFacts /\ <<"one_step", t>>[1] \notin R!RowFacts
    BY DEF R!RowFacts
  <2>2. <<"rel", t>> \in R!Observe(e) /\ <<"one_step", t>> \notin R!Observe(e)
    BY Zenon, <1>2, <2>1, Seen
  <2> QED
    BY Zenon, <2>2 DEF add, R!PlanAddCheckConstraint, R!Exists, R!ValidatesInOneStep
<1>3. PICK now, rest : AddsInSteps(in, d, t, add, tables, now, rest)
  BY Zenon, <1>1, AddThenValidateSteps
<1>4. R!PlanAddCheckConstraint(in, R!Observe(d)) = <<now>> \o rest
  BY Zenon, <1>2, <1>3 DEF AddsInSteps
<1>5. ASSUME NEW e, R!Observe(e) = R!Observe(R!Do(d, now.sql[1]))
      PROVE  R!PlanAddCheckConstraint(in, R!Observe(e))
               = IF rest = <<>> THEN R!Satisfied ELSE rest
  BY Zenon, <1>2, <1>3, <1>5 DEF AddsInSteps
<1>6. RunsBriefly(d, now)
  BY Zenon, <1>3 DEF AddsInSteps
<1> QED  BY Zenon, <1>4, <1>5, <1>6

\* plan_add_foreign_key likewise, where the referenced table is there; its
\* first step locks that table too, without scanning it.
THEOREM ForeignKeyStepByStep ==
    ASSUME NEW in, NEW d, NEW t, NEW k, t = in.table, k = in.name,
           <<"rel", t>> \in d, <<"rel", in.references_table>> \in d, <<"one_step", t>> \notin d,
           ~(<<"con", t, k>> \in d /\ <<"notvalid", k>> \notin d)
    PROVE  \E now, rest :
             /\ R!PlanAddForeignKey(in, R!Observe(d)) = <<now>> \o rest
             /\ RunsBriefly(d, now)
             /\ \A e : R!Observe(e) = R!Observe(R!Do(d, now.sql[1])) =>
                   R!PlanAddForeignKey(in, R!Observe(e))
                     = IF rest = <<>> THEN R!Satisfied ELSE rest
<1> DEFINE add == R!ForeignKey(in, R!AddNotValid(t, k, "f", {}))
           tables == {t, in.references_table}
<1>0. add = R!ForeignKey(in, R!AddNotValid(t, k, "f", {}))
  BY Zenon
<1> HIDE DEF add
<1>1. AddsNotValid(d, t, k, add) /\ Locks(add) \subseteq tables
  BY Zenon, <1>0, ForeignKeyAdds
<1>2. ASSUME NEW e, <<"rel", t>> \in e, <<"one_step", t>> \notin e
      PROVE  R!PlanAddForeignKey(in, R!Observe(e))
               = R!AddThenValidate(in, R!Observe(e), add, tables)
  <2>1. <<"rel", t>>[1] \notin R!RowFacts /\ <<"one_step", t>>[1] \notin R!RowFacts
    BY DEF R!RowFacts
  <2>2. <<"rel", t>> \in R!Observe(e) /\ <<"one_step", t>> \notin R!Observe(e)
    BY Zenon, <1>2, <2>1, Seen
  <2> QED
    BY Zenon, <2>2 DEF add, R!PlanAddForeignKey, R!Exists, R!ValidatesInOneStep
<1>3. PICK now, rest : AddsInSteps(in, d, t, add, tables, now, rest)
  BY Zenon, <1>1, AddThenValidateSteps
<1>4. R!PlanAddForeignKey(in, R!Observe(d)) = <<now>> \o rest
  BY Zenon, <1>2, <1>3 DEF AddsInSteps
<1>5. ASSUME NEW e, R!Observe(e) = R!Observe(R!Do(d, now.sql[1]))
      PROVE  R!PlanAddForeignKey(in, R!Observe(e)) = IF rest = <<>> THEN R!Satisfied ELSE rest
  BY Zenon, <1>2, <1>3, <1>5 DEF AddsInSteps
<1>6. RunsBriefly(d, now)
  BY Zenon, <1>3 DEF AddsInSteps
<1> QED  BY Zenon, <1>4, <1>5, <1>6

\* The columns are those of an index that proves them a key; the key asked for
\* and the column batches are confined by are among them.
GoesBy(obs, t, key, cols, i) ==
    /\ R!ProvesKey(obs, t, i) /\ R!IndexColumns(obs, i) = cols
    /\ key \in cols /\ R!RequiredConfinement(obs, t) \subseteq cols

\* unique_key_index, unique_index_containing and unique_group_key_index:
\* columns WalkColumns finds are those of such an index.
LEMMA WalkHasIndex ==
    ASSUME NEW obs, NEW t, NEW key, R!WalkColumns(obs, t, key) # {}
    PROVE  \E i : GoesBy(obs, t, key, R!WalkColumns(obs, t, key), i)
<1> DEFINE w == R!WalkColumns(obs, t, key)
           conf == R!RequiredConfinement(obs, t)
           one == R!UniqueKeyIndex(obs, t, key)
           many == R!UniqueIndexContaining(obs, t, key)
           group == R!UniqueGroupKeyIndex(obs, t, key, conf)
<1>1. \/ conf = {} /\ one # {} /\ w = {key}
      \/ conf = {} /\ many # {} /\ w = R!IndexColumns(obs, CHOOSE i \in many : TRUE)
      \/ group # {} /\ w = R!IndexColumns(obs, CHOOSE i \in group : TRUE)
  <2> HIDE DEF conf, one, many, group
  <2> QED  BY DEF R!WalkColumns, conf, one, many, group
<1> HIDE DEF w
<1>2. CASE conf = {} /\ one # {} /\ w = {key}
  <2>1. PICK i \in one : TRUE
    BY Zenon, <1>2
  <2>2. R!ProvesKey(obs, t, i) /\ R!IndexColumns(obs, i) = {key}
    BY Zenon, <2>1 DEF R!UniqueKeyIndex
  <2>3. GoesBy(obs, t, key, w, i)
    BY Zenon, <1>2, <2>2 DEF GoesBy
  <2> QED  BY Zenon, <2>3 DEF w
<1>3. CASE conf = {} /\ many # {} /\ w = R!IndexColumns(obs, CHOOSE i \in many : TRUE)
  <2> DEFINE i == CHOOSE i \in many : TRUE
  <2>1. i \in many
    <3> HIDE DEF many
    <3> QED  BY Zenon, <1>3
  <2> HIDE DEF i
  <2>2. i \in R!IndexesOf(obs, t) /\ R!ProvesKey(obs, t, i) /\ key \in R!IndexColumns(obs, i)
    BY Zenon, <2>1 DEF R!UniqueIndexContaining
  <2>3. GoesBy(obs, t, key, w, i)
    BY Zenon, <1>3, <2>2 DEF GoesBy, i
  <2> QED  BY Zenon, <2>3 DEF w
<1>4. CASE group # {} /\ w = R!IndexColumns(obs, CHOOSE i \in group : TRUE)
  <2> DEFINE i == CHOOSE i \in group : TRUE
  <2>1. i \in group
    <3> HIDE DEF group
    <3> QED  BY Zenon, <1>4
  <2> HIDE DEF i
  <2>2. /\ i \in R!IndexesOf(obs, t) /\ R!ProvesKey(obs, t, i) /\ key \in R!IndexColumns(obs, i)
        /\ conf \subseteq R!IndexColumns(obs, i)
    BY Zenon, <2>1 DEF R!UniqueGroupKeyIndex
  <2>3. GoesBy(obs, t, key, w, i)
    BY Zenon, <1>4, <2>2 DEF GoesBy, i
  <2> QED  BY Zenon, <2>3 DEF w
<1> QED  BY Zenon, <1>1, <1>2, <1>3, <1>4

\* The facts that tell which columns a walk may go by.
IndexFacts ==
    {"idx", "invalid", "only", "part", "attached", "unique", "expression", "partial", "on",
     "confined"}

\* Databases with the same such facts have the same keys.
LEMMA SameKeys ==
    ASSUME NEW d, NEW e, NEW t, NEW i,
           \A f : f[1] \in IndexFacts => (f \in d <=> f \in e)
    PROVE  /\ R!ProvesKey(d, t, i) => R!ProvesKey(e, t, i)
           /\ R!IndexColumns(d, i) = R!IndexColumns(e, i)
           /\ R!RequiredConfinement(d, t) = R!RequiredConfinement(e, t)
<1>1. \A j : /\ <<"idx", t, j>> \in d <=> <<"idx", t, j>> \in e
             /\ <<"invalid", j>> \in d <=> <<"invalid", j>> \in e
             /\ <<"only", j>> \in d <=> <<"only", j>> \in e
             /\ <<"unique", j>> \in d <=> <<"unique", j>> \in e
             /\ <<"expression", j>> \in d <=> <<"expression", j>> \in e
             /\ <<"partial", j>> \in d <=> <<"partial", j>> \in e
             /\ <<"attached", j, i>> \in d <=> <<"attached", j, i>> \in e
  BY DEF IndexFacts
<1>2. {"part", "idx", "on", "confined"} \subseteq IndexFacts
  BY DEF IndexFacts
<1>3. R!PartitionsOf(d, t) = R!PartitionsOf(e, t)
  BY Zenon, <1>2 DEF R!PartitionsOf
<1>4. \A p : R!IndexesOf(d, p) = R!IndexesOf(e, p)
  BY Zenon, <1>2 DEF R!IndexesOf
<1>5. R!IndexColumns(d, i) = R!IndexColumns(e, i)
  BY Zenon, <1>2 DEF R!IndexColumns
<1>7. R!RequiredConfinement(d, t) = R!RequiredConfinement(e, t)
  BY Zenon, <1>2 DEF R!RequiredConfinement
<1>6. R!IsValid(d, t, i) => R!IsValid(e, t, i)
  BY Zenon, <1>1, <1>3, <1>4 DEF R!IsValid
<1> QED  BY Zenon, <1>1, <1>5, <1>6, <1>7 DEF R!ProvesKey

\* One step.
LEMMA Singleton ==
    ASSUME NEW x
    PROVE  DOMAIN <<x>> = {1} /\ <<x>>[1] = x /\ <<>> \o <<x>> = <<x>>
<1>1. DOMAIN <<x>> = {1}
  OBVIOUS
<1>2. <<x>>[1] = x
  OBVIOUS
<1>3. <<>> \o <<x>> = <<x>>
  OBVIOUS
<1> QED  BY Zenon, <1>1, <1>2, <1>3

\* Two steps.
LEMMA Pair ==
    ASSUME NEW x, NEW y, NEW s, s = <<x>> \o <<y>>
    PROVE  DOMAIN s = {1, 2} /\ s[1] = x /\ s[2] = y
<1>1. DOMAIN s = {1, 2}
  OBVIOUS
<1>2. s[1] = x
  OBVIOUS
<1>3. s[2] = y
  OBVIOUS
<1> QED  BY Zenon, <1>1, <1>2, <1>3

\* The backfill saves the old rows in a side table.
Preserves(in) == in.preserve # ""

\* A step holds the statements it was given.
LEMMA StepFields ==
    ASSUME NEW class, NEW own, NEW sql
    PROVE  R!Step(class, own, sql).sql = sql
  BY DEF R!Step

\* The walk of plan_backfill is its last step, and goes by WalkColumns.
LEMMA WalkSteps ==
    ASSUME NEW in, NEW obs, NEW n, NEW m,
           n \in DOMAIN R!PlanBackfill(in, obs), m \in DOMAIN R!PlanBackfill(in, obs)[n].sql,
           R!PlanBackfill(in, obs)[n].sql[m].op = "walk"
    PROVE  /\ R!WalkColumns(obs, in.table, in.walk_key) # {}
           /\ R!PlanBackfill(in, obs)[n].sql[m].walk = R!WalkColumns(obs, in.table, in.walk_key)
           /\ n = IF Preserves(in) THEN 2 ELSE 1
<1> DEFINE w == R!WalkColumns(obs, in.table, in.walk_key)
           create == R!CreateIfNotExists(in.preserve)
           write == R!Walk(R!WriteRows(in.table, in.columns, in.makes, in.unmakes, {}), w)
           plan == R!PlanBackfill(in, obs)
           first == R!Step("txn", TRUE, <<create>>)
           last == R!Step("batch", FALSE, <<write>>)
<1>1. create.op # "walk" /\ write.walk = w
  BY DEF R!CreateIfNotExists, R!CreateRel, R!Walk, R!WriteRows, R!Nothing
<1>2. /\ R!Conflict[1].sql = <<>> /\ DOMAIN R!Conflict = {1}
      /\ DOMAIN <<>> = {}
  BY DEF R!Conflict, R!Step
<1>3. R!BackfillStep(in, w) = <<last>>
  BY Zenon DEF R!BackfillStep, R!Batches
<1>4. last.sql = <<write>> /\ first.sql = <<create>>
  BY Zenon, StepFields
<1>5. plan = R!Conflict \/ (w # {} /\ plan = R!PlanPreserve(in) \o R!BackfillStep(in, w))
  <2> HIDE DEF w
  <2> QED  BY Zenon DEF R!PlanBackfill, w
<1> HIDE DEF w, create, write, plan, first, last
<1>6. plan # R!Conflict
  BY Zenon, <1>2 DEF plan
<1>7. CASE ~Preserves(in)
  <2>1. R!PlanPreserve(in) = <<>>
    BY Zenon, <1>7 DEF R!PlanPreserve, Preserves
  <2>2. plan = <<>> \o <<last>>
    BY Zenon, <1>3, <1>5, <1>6, <2>1
  <2>3. DOMAIN plan = {1} /\ plan[1] = last
    BY Zenon, <2>2, Singleton
  <2>4. n = 1
    BY Zenon, <2>3 DEF plan
  <2>5. plan[n].sql = <<write>>
    BY Zenon, <1>4, <2>3, <2>4
  <2>6. DOMAIN plan[n].sql = {1} /\ plan[n].sql[1] = write
    BY Zenon, <2>5, Singleton
  <2>7. m = 1
    BY Zenon, <2>6 DEF plan
  <2> QED  BY Zenon, <1>1, <1>5, <1>6, <1>7, <2>4, <2>6, <2>7 DEF plan, w
<1>8. CASE Preserves(in)
  <2>1. R!PlanPreserve(in) = <<first>>
    BY Zenon, <1>8 DEF R!PlanPreserve, R!OwnTxn, create, first, Preserves
  <2>2. plan = <<first>> \o <<last>>
    BY Zenon, <1>3, <1>5, <1>6, <2>1
  <2>3. DOMAIN plan = {1, 2} /\ plan[1] = first /\ plan[2] = last
    BY <2>2, Pair
  <2>4. n = 1 \/ n = 2
    BY Zenon, <2>3 DEF plan
  <2>5. DOMAIN first.sql = {1} /\ first.sql[1] = create
    BY Zenon, <1>4, Singleton
  <2>6. DOMAIN last.sql = {1} /\ last.sql[1] = write
    BY Zenon, <1>4, Singleton
  <2>7. m = 1
    <3>1. DOMAIN plan[n].sql = {1}
      BY Zenon, <2>3, <2>4, <2>5, <2>6
    <3> QED  BY Zenon, <3>1 DEF plan
  <2>8. n = 2
    BY Zenon, <1>1, <2>3, <2>4, <2>5, <2>7 DEF plan
  <2> QED  BY Zenon, <1>1, <1>5, <1>6, <1>8, <2>3, <2>6, <2>7, <2>8 DEF plan, w
<1> QED  BY Zenon, <1>7, <1>8

\* plan_backfill: whatever the database, a write it plans goes by all the
\* columns of an index that proves them a key, and the index still does when
\* the write starts, after plan_preserve made the side table and whatever rows
\* the application wrote.
THEOREM BackfillWalksByKey ==
    ASSUME NEW in, NEW d, NEW e, NEW n, NEW m,
           R!Observe(e) = R!Observe(IF Preserves(in)
                                    THEN R!Do(d, R!CreateIfNotExists(in.preserve)) ELSE d),
           n \in DOMAIN R!PlanBackfill(in, R!Observe(d)),
           m \in DOMAIN R!PlanBackfill(in, R!Observe(d))[n].sql,
           R!PlanBackfill(in, R!Observe(d))[n].sql[m].op = "walk"
    PROVE  \E i : GoesBy(e, in.table, in.walk_key,
                         R!PlanBackfill(in, R!Observe(d))[n].sql[m].walk, i)
<1> DEFINE o == R!Observe(d)
           create == R!CreateIfNotExists(in.preserve)
<1>1. /\ R!WalkColumns(o, in.table, in.walk_key) # {}
      /\ R!PlanBackfill(in, o)[n].sql[m].walk = R!WalkColumns(o, in.table, in.walk_key)
  BY Zenon, WalkSteps
<1>2. PICK i : GoesBy(o, in.table, in.walk_key, R!WalkColumns(o, in.table, in.walk_key), i)
  BY Zenon, <1>1, WalkHasIndex
<1>3. /\ create.drops = {} /\ create.ren = <<>> /\ create.dels = {}
      /\ \A f \in create.adds : f[1] \notin IndexFacts
  BY DEF R!CreateIfNotExists, R!CreateRel, R!Nothing, IndexFacts
<1>4. R!Do(d, create) = d \cup create.adds
  <2> HIDE DEF create
  <2>1. R!Do(d, create) = (d \ create.dels) \cup create.adds
    BY Zenon, <1>3, NothingDropped
  <2> QED  BY Zenon, <1>3, <2>1
<1>5. \A x \in IndexFacts : x \notin R!RowFacts
  BY DEF IndexFacts, R!RowFacts
<1> HIDE DEF create
<1>6. \A f : f[1] \in IndexFacts => (f \in o <=> f \in e)
  <2> SUFFICES ASSUME NEW f, f[1] \in IndexFacts
               PROVE  f \in o <=> f \in e
    BY Zenon
  <2>1. f[1] \notin R!RowFacts
    BY Zenon, <1>5
  <2>2. f \in e <=> f \in R!Observe(e)
    BY Zenon, <2>1, Seen
  <2>3. f \in R!Do(d, create) <=> f \in d
    BY Zenon, <1>3, <1>4
  <2>4. f \in R!Observe(e) <=> f \in d
    BY Zenon, <2>1, <2>3, Seen DEF create
  <2> QED  BY Zenon, <2>1, <2>2, <2>4, Seen
<1>7. /\ R!ProvesKey(o, in.table, i) => R!ProvesKey(e, in.table, i)
      /\ R!IndexColumns(o, i) = R!IndexColumns(e, i)
      /\ R!RequiredConfinement(o, in.table) = R!RequiredConfinement(e, in.table)
  BY Zenon, <1>6, SameKeys
<1>8. GoesBy(e, in.table, in.walk_key, R!WalkColumns(o, in.table, in.walk_key), i)
  BY Zenon, <1>2, <1>7 DEF GoesBy
<1> QED  BY Zenon, <1>1, <1>8

=============================================================================
