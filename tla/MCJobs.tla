------------------------------- MODULE MCJobs -------------------------------
(* Small instances of Jobs. *)
EXTENDS Jobs, TLC

Txn(g, r) == [class |-> "txn", group |-> g, retry |-> r, batches |-> 1]
Alone(g) == [class |-> "alone", group |-> g, retry |-> FALSE, batches |-> 1]
Walk(g, n) == [class |-> "walk", group |-> g, retry |-> FALSE, batches |-> n]

\* Two that share a target: a group that is tried again, with an index built
\* after it, and a walk.
MCSpecs ==
    "alter" :> [keys |-> <<"alter", "orders">>,
                steps |-> <<Txn(0, FALSE), Txn(0, TRUE), Alone(1)>>] @@
    "fill"  :> [keys |-> <<"fill", "orders">>, steps |-> <<Walk(0, 2)>>] @@
    "other" :> [keys |-> <<"other", "users">>, steps |-> <<Alone(0), Txn(1, FALSE)>>] @@
    "index" :> [keys |-> <<"index", "logs">>, steps |-> <<Alone(0)>>] @@
    "small" :> [keys |-> <<"small", "users">>, steps |-> <<Txn(0, FALSE)>>]

Connection(n, m, r) == [jobs |-> n, operations |-> m, role |-> r, reads |-> {r}]

\* Ceilings of one and of two, and none; and one of another role.
MCConnections ==
    "one"   :> Connection(2, 1, "owner") @@
    "two"   :> Connection(3, 2, "owner") @@
    "none"  :> Connection(2, 0, "owner") @@
    "guest" :> Connection(2, 1, "guest")

On(s, c) == [spec |-> s, conn |-> c]

\* Calls that meet at the gate, at a gate whose ceiling changes, at a shared
\* target, and one specification started again after its job died, by its own
\* role or by another.
MCClients ==
    {[calls |-> cs, losses |-> 0, stops |-> 2] : cs \in
        {<<On("alter", "one"), On("other", "one")>>,
         <<On("fill", "two"), On("small", "one")>>,
         <<On("other", "none"), On("fill", "one")>>,
         <<On("fill", "one"), On("alter", "none")>>}}
    \cup {[calls |-> <<On("alter", "one"), On("fill", "one")>>, losses |-> 1, stops |-> 0],
          [calls |-> <<On("index", "two"), On("fill", "two"), On("small", "one")>>,
           losses |-> 0, stops |-> 0],
          [calls |-> <<On("index", "one"), On("fill", "two"), On("small", "two")>>,
           losses |-> 0, stops |-> 1],
          [calls |-> <<On("small", "one"), On("small", "one"), On("small", "one")>>,
           losses |-> 1, stops |-> 0],
          [calls |-> <<On("small", "one"), On("small", "guest"), On("small", "one")>>,
           losses |-> 1, stops |-> 0]}

=============================================================================
