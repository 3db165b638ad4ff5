----------------------------- MODULE MCBackfill -----------------------------
(* The walk on a table of a few keys, for TLC. *)
EXTENDS Backfill

Walk == [paced |-> TRUE, filled |-> FALSE, bounded |-> FALSE, verify |-> FALSE,
         grouped |-> FALSE, sourced |-> FALSE]

\* A walk that is verified, a grouped one, one over rows of the specification,
\* and one statement whose new rows are filled.
WalkOrStatement ==
    {[Walk EXCEPT !.verify = TRUE], [Walk EXCEPT !.grouped = TRUE],
     [Walk EXCEPT !.sourced = TRUE],
     [Walk EXCEPT !.paced = FALSE, !.filled = TRUE, !.bounded = TRUE]}

JustWalk == {Walk}

JustGroups == {[Walk EXCEPT !.grouped = TRUE]}

=============================================================================
