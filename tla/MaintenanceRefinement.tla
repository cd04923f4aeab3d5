----------------------- MODULE MaintenanceRefinement ------------------------
(***************************************************************************)
(* The calls of Maintenance, seen as calls on one table of rows: only an   *)
(* append or a delete that has opened the dataset and not yet committed    *)
(* owes the table a change.                                                *)
(***************************************************************************)
EXTENDS Maintenance

Idle == <<"idle">>
Done == <<"done">>

\* What the call of backend b still owes.
Must(b) ==
    IF call[b].op = "append" THEN call[b].rows ELSE call[b].rows \intersect RowsAt(base[b])

Todo ==
    [b \in Backend |->
        CASE pc[b] = "run" /\ call[b].op \in {"append", "delete"} ->
               <<call[b].op, call[b].rows, Must(b)>>
          [] reply[b].op \in {"append", "delete"} -> Done
          [] OTHER -> Idle]

Change == {r.rows : r \in {q \in Requests : q.op \in {"append", "delete"}}}

Table == INSTANCE RowTable WITH rows <- RowsAt(Latest), todo <- Todo

\* Whatever is deleted, rewritten, indexed or vacuumed at the same time, the
\* rows of the latest version change only by appends and deletes, each as a
\* whole: no rewrite brings back a deleted row or loses an appended one, a
\* delete takes all the rows it found that are still there, and a call that
\* fails has changed no row.
ImplementsTable == Table!Spec
=============================================================================
