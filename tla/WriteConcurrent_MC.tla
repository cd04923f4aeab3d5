------------------------- MODULE WriteConcurrent_MC -------------------------
(***************************************************************************)
(* Two backends write to one dataset at the same time.                     *)
(***************************************************************************)
EXTENDS WritePath

CONSTANTS k1, k2

MCSeedKeys == <<k1>>

Call(op, source, chunk, matched, fault) ==
    [op |-> op, source |-> source, chunk |-> chunk, matched |-> matched,
     unmatched |-> "insert", fault |-> fault]

MCCallArgs ==
    { Call(op, s, n, "update", "none") :
        op \in Modes, s \in {<<k1, k2>>, <<k1, k2, k2>>}, n \in {0, 1, 2} }
    \union
    { Call("merge", s, n, m, "none") :
        s \in {<<k1, k2>>, <<k2, k1, k2>>}, n \in {0, 1, 2},
        m \in {"update", "nothing"} }
    \union
    { Call("merge", <<k1, k2>>, 1, "update", f) : f \in Faults }
    \union
    { Call(op, <<k1>>, 1, "update", f) :
        op \in Modes, f \in {"args", "server", "columns"} }
    \union
    { Call(op, <<>>, 1, "update", "none") : op \in {"overwrite", "merge"} }
=============================================================================
