---------------------------- MODULE MergePairs_MC ---------------------------
(***************************************************************************)
(* Two backends merge into a dataset, one after the other or side by side: *)
(* every source of up to three rows over two keys, the two of them alike   *)
(* or not, whole or in chunks.                                             *)
(***************************************************************************)
EXTENDS MergeResult

CONSTANTS k1, k2, k3

MCSeedKeys == <<k1, k3>>

Symmetry == Permutations(Calls)

MCSources == UNION { [1 .. n -> {k1, k2}] : n \in 1 .. 3 }

MCCallArgs ==
    { [op |-> "merge", source |-> s, chunk |-> n, matched |-> w[1],
       unmatched |-> w[2], fault |-> "none"] :
        s \in MCSources, n \in {0, 1, 2},
        w \in {<<"update", "insert">>, <<"update", "nothing">>,
               <<"nothing", "insert">>} }
=============================================================================
