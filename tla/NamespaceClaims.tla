-------------------------- MODULE NamespaceClaims --------------------------
(***************************************************************************)
(* What the rows of lance_attach_namespace and lance_sync_namespace say,   *)
(* taken at their word.                                                    *)
(***************************************************************************)
EXTENDS NamespaceSync

\* A row with action in_sync has the detail "up to date": the columns of the
\* local table, with the fields of its struct column, are those of the
\* dataset (for a dataset that did not change during the call).
InSyncIsUpToDate ==
    pc = "done" /\ ~meddled => \A r \in rows :
        r.action = "in_sync" /\ r.id \in steady =>
            /\ cat[r.slot].flat = remote[r.id].flat
            /\ cat[r.slot].nested =>
                 types[TypeOf[r.slot]] = remote[r.id].nested

\* A row with action create_table and status ok has the detail "attached":
\* when the call ends the slot holds a foreign table for the dataset.
CreatedIsAttached ==
    pc = "done" => \A r \in rows :
        r.action = "create_table" /\ r.status = "ok" =>
            Attached(cat[r.slot], r.id)
=============================================================================
