--------------------------- MODULE Maintenance_MC ---------------------------
(***************************************************************************)
(* Two backends and a dataset of two fragments.                            *)
(***************************************************************************)
EXTENDS MaintenanceRefinement, TLC

CONSTANTS b1, b2, r1, r2, r3, r4, i1

MCSeed == <<{r1, r2}, {r3}>>

MCSeedCover == {<<i1, 1>>}

MCUnrecorded == {<<"physical", 1, 2>>, <<"deleted", 2, 1>>}

Vacuum(older, before, unverified, strict) ==
    [op |-> "vacuum", older |-> older, before |-> before,
     unverified |-> unverified, strict |-> strict]

MCRequests ==
    { [op |-> "append", rows |-> {r4}],
      [op |-> "delete", rows |-> {r1, r3}],
      [op |-> "delete", rows |-> {r1}],
      [op |-> "optimize", all |-> TRUE, cap |-> None],
      [op |-> "optimize", all |-> FALSE, cap |-> 1],
      [op |-> "optimize", all |-> TRUE, cap |-> 1],
      [op |-> "create_index", index |-> i1, replace |-> TRUE],
      [op |-> "drop_index", index |-> i1],
      [op |-> "optimize_indices", names |-> {}],
      Vacuum(0, None, FALSE, FALSE),
      Vacuum(None, 2, FALSE, TRUE),
      Vacuum(None, 2, TRUE, FALSE),
      [Vacuum(0, None, FALSE, FALSE) EXCEPT !.op = "plan"],
      [op |-> "info"], [op |-> "stats"], [op |-> "list"],
      [op |-> "scan"] }

Symmetry == Permutations(Backend)
=============================================================================
