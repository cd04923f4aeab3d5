--------------------------- MODULE WriteClaims_MC ---------------------------
(***************************************************************************)
(* Two calls of lance_append over a seeded dataset.                        *)
(***************************************************************************)
EXTENDS WriteClaims

CONSTANTS k1, k2

MCSeedKeys == <<k1>>

MCCallArgs ==
    { [op |-> op, source |-> s, chunk |-> 1, matched |-> "update",
       unmatched |-> "insert", fault |-> "none"] :
        op \in {"append", "overwrite"}, s \in {<<>>, <<k1, k2>>} }
=============================================================================
