----------------------------- MODULE PlanGroups -----------------------------
(***************************************************************************)
(* The end of plan_spec: how the steps the recipes emitted become the      *)
(* plan's steps -- the transaction group of each, and the check that       *)
(* follows every concurrent index build.                                   *)
(***************************************************************************)
EXTENDS Naturals, Sequences, FiniteSets

\* TxnClass::kForbidden; "build" is one that creates an index.
Forbidden(s) == s.class \in {"forbidden", "build"}

\* The executor owns the boundaries, or there can be none around it.
OwnTransactions(s) == Forbidden(s) \/ s.class = "batch"

\* A step that begins a group: it asks for it, or it or the step before it
\* cannot share a transaction.
BeginsGroup(steps, i) ==
    /\ i > 1
    /\ \/ steps[i].own
       \/ OwnTransactions(steps[i])
       \/ OwnTransactions(steps[i - 1])

TxnGroup(steps, i) == Cardinality({j \in 2..i : BeginsGroup(steps, j)})

\* One step of the plan, as the executor reads it.
PlanStep(steps, i) ==
    [class |-> IF Forbidden(steps[i]) THEN "forbidden" ELSE steps[i].class,
     group |-> TxnGroup(steps, i),
     apply |-> steps[i].apply,
     retry |-> steps[i].retry]

\* verify_index_valid, in the group of the build it follows.
VerifyStep(steps, i) ==
    [class |-> "verify", group |-> TxnGroup(steps, i),
     apply |-> TRUE, retry |-> FALSE]

\* What becomes of one step.
Becomes(steps, i) ==
    IF steps[i].class = "build" /\ steps[i].apply
    THEN <<PlanStep(steps, i), VerifyStep(steps, i)>>
    ELSE <<PlanStep(steps, i)>>

Planned(steps) ==
    LET upTo[n \in 0..Len(steps)] ==
            IF n = 0 THEN << >> ELSE upTo[n - 1] \o Becomes(steps, n)
    IN  upTo[Len(steps)]

\* The classes and steps of a plan.
StepClasses == {"txn", "forbidden", "batch", "verify"}

PlanSteps == [class : StepClasses, group : Nat, apply : BOOLEAN, retry : BOOLEAN]

\* What the grouping guarantees the executor: groups are numbered in plan
\* order, and a step that cannot share a transaction shares its group with
\* nothing but the check of its own build.
WellGrouped(p) ==
    \A i, j \in DOMAIN p : i < j =>
        /\ p[i].group <= p[j].group
        /\ p[i].group = p[j].group =>
              \/ p[i].class = "txn" /\ p[j].class = "txn"
              \/ p[i].class = "forbidden" /\ p[j].class = "verify"

=============================================================================
