---------------------------- MODULE MCDeployment ----------------------------
(* One or two runs over a few files: two independent, a chain of two, both. *)
EXTENDS Deployment

File(deps, relations) ==
    [digest |-> "a", epoch |-> "live", conn |-> "main", database |-> None,
     environment |-> None, release |-> None, deps |-> deps, rels |-> relations,
     targets |-> relations, complete |-> TRUE]

CONSTANTS p1, p2

Independent == <<File({}, {"r"}), File({}, {"t"})>>

Chain == <<File({}, {"r"}), File({1}, {"r"})>>

Fork == <<File({}, {"r"}), File({1}, {"r"}), File({}, {"t"}), File({}, {"u"})>>

Setting(runs, files, most) ==
    [runs |-> runs, entries |-> files, troubles |-> most]

\* Two overlapping runs over two files, and one run over four.
MCSettings ==
    {Setting({p1, p2}, Chain, 2), Setting({p1, p2}, Independent, 0),
     Setting({p1}, Fork, 1)}

OneConnection == [main |-> 2]

=============================================================================
