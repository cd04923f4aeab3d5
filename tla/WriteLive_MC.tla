---------------------------- MODULE WriteLive_MC ----------------------------
(***************************************************************************)
(* Two merges that contend for the same rows, and appends and overwrites   *)
(* that come in between.                                                   *)
(***************************************************************************)
EXTENDS WriteRefinement

CONSTANTS k1, k2

MCSeedKeys == <<k1>>

MCCallArgs ==
    { [op |-> op, source |-> s, chunk |-> n, matched |-> "update",
       unmatched |-> "insert", fault |-> "none"] :
        op \in Modes \union {"merge"}, s \in {<<>>, <<k2, k1, k2>>},
        n \in {0, 1, 2} }
    \union
    { [op |-> op, source |-> <<k1>>, chunk |-> 1, matched |-> "update",
       unmatched |-> "insert", fault |-> f] :
        op \in {"append", "merge"}, f \in {"server", "columns"} }
=============================================================================
