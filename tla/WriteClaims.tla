---------------------------- MODULE WriteClaims -----------------------------
(***************************************************************************)
(* Sentences of the documentation and comments about the write path that   *)
(* the code does not live up to, each as an invariant TLC refutes.         *)
(***************************************************************************)
EXTENDS WritePath

\* README, modes of lance_append: "`overwrite` | Replaces all data in an
\* existing dataset."  With nobody else writing, the rows of the seed version
\* are gone when an overwrite has returned.  lance_append commits only when a
\* chunk has rows (append.rs: `if batches.is_empty()`, and the fetch loop stops
\* before the handler when the source is empty).
OverwriteReplacesAll ==
    \A c \in Calls : args[c].op = "overwrite" /\ pc[c] = "ok" =>
        \A r \in Newest : r.by # NoCall

\* README, lance.max_write_buffer_mb: "If a chunk exceeds it, the operation
\* aborts cleanly (rolling back the transaction)".  The table an append leaves
\* when the guard stops it is the one it found.
GuardAbortsCleanly ==
    \A c \in Calls : pc[c] = "guard" /\ ~Merges(c) => Mine(c) = {}

\* lance_append_impl: "The first chunk uses the requested `mode`; subsequent
\* chunks append to the dataset created/overwritten by the first chunk."
\* Nobody replaced the table between two chunks of the same call.
LaterChunksFollowFirst ==
    \A c \in Calls : ~Merges(c) =>
        \A v, w \in Mine(c) : \A u \in v + 1 .. w - 1 :
            log[u].op \notin {"create", "overwrite"}
=============================================================================
