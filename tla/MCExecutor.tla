----------------------------- MODULE MCExecutor -----------------------------
(* Plans as the planner groups them, from every short sequence of steps.    *)
EXTENDS Executor

CONSTANT MaxSteps  \* the steps the recipes emit, before the checks are added

Shape(c, o, a, r) == [class |-> c, own |-> o, apply |-> a, retry |-> r]

\* A plain step, one that begins its own transaction, one tried for its
\* exclusive lock, one found satisfied, a concurrent build, another statement
\* outside a transaction, and a walk.
Shapes ==
    {Shape("txn", FALSE, TRUE, FALSE), Shape("txn", TRUE, TRUE, FALSE),
     Shape("txn", FALSE, TRUE, TRUE), Shape("txn", FALSE, FALSE, FALSE),
     Shape("build", FALSE, TRUE, FALSE), Shape("batch", FALSE, TRUE, FALSE)}

Plain == Shape("txn", FALSE, TRUE, FALSE)

\* Every plan of fewer than MaxSteps steps, and those of MaxSteps that begin
\* with a plain one: what a group of two does when a third step follows.
Emitted ==
    UNION {[1..n -> Shapes] : n \in 1..(MaxSteps - 1)}
        \cup {s \in [1..MaxSteps -> Shapes] : s[1] = Plain}

MCPlans == {Planned(s) : s \in Emitted}

=============================================================================
