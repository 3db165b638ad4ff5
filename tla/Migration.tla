----------------------------- MODULE Migration -----------------------------
(***************************************************************************)
(* What a running plan promises of the database, and nothing of how: its   *)
(* changes become durable in the order of the plan, one unit at a time,    *)
(* and a unit is a whole transaction group, or one step that has no group  *)
(* (a statement PostgreSQL refuses inside a transaction, a paced walk).    *)
(***************************************************************************)
EXTENDS Naturals

CONSTANT Plans

VARIABLES plan, applied

\* The steps that change the database: not the ones found satisfied, and not
\* the reading that checks a concurrent build.
Changes(p) == {i \in DOMAIN p : p[i].apply /\ p[i].class # "verify"}

\* The steps made durable together with step i.
Unit(p, i) ==
    IF p[i].class = "txn"
    THEN {j \in Changes(p) : p[j].class = "txn" /\ p[j].group = p[i].group}
    ELSE {i}

Init == plan \in Plans /\ applied = {}

\* The unit of step i becomes durable, everything before it having done so.
Apply(i) ==
    /\ i \in Changes(plan) \ applied
    /\ \A j \in Changes(plan) : j < i => j \in applied \cup Unit(plan, i)
    /\ applied' = applied \cup Unit(plan, i)
    /\ UNCHANGED plan

Next == \E i \in DOMAIN plan : Apply(i)

Spec == Init /\ [][Next]_<<plan, applied>>

=============================================================================
