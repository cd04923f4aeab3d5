---------------------------- MODULE MergeResult -----------------------------
(***************************************************************************)
(* What a merge-insert means, whole: the table it leaves, given the table  *)
(* it found and its source, with no word of chunks, cursors, handles or    *)
(* versions.  The calls of WritePath, chunked and interrupted, are held    *)
(* against it.                                                             *)
(***************************************************************************)
EXTENDS WritePath, FiniteSetsExt, SequencesExt

\* The table is F after source, applied in order to B, by the calls in who.
\* Later rows of the source win where matches are updated, and the first one
\* where they are not.
IsMergeOf(a, source, B, F, who) ==
    LET keys    == ToSet(source)
        Occ(k)  == { p \in DOMAIN source : source[p] = k }
        Wins(k) == IF a.matched = "update" THEN Max(Occ(k)) ELSE Min(Occ(k))
        Of(T, k) == { r \in T : r.key = k }
        Ids(T)  == { r.id : r \in T }
        FromSource(T, k) == \A r \in T : r.by \in who /\ r.pos = Wins(k)
    IN  /\ { r \in F : r.key \notin keys } = { r \in B : r.key \notin keys }
        /\ \A k \in keys :
             IF Of(B, k) = {}
             THEN IF a.unmatched = "insert"
                  THEN Cardinality(Of(F, k)) = 1 /\ FromSource(Of(F, k), k)
                  ELSE Of(F, k) = {}
             ELSE IF a.matched = "update"
                  THEN Ids(Of(F, k)) = Ids(Of(B, k)) /\ FromSource(Of(F, k), k)
                  ELSE Of(F, k) = Of(B, k)

\* From the version on that its first commit was prepared against, all commits
\* up to its last one are of call c: no other call's came in between.
Undisturbed(c) ==
    /\ Mine(c) # {}
    /\ \A v \in log[Min(Mine(c))].read + 1 .. Max(Mine(c)) : log[v].by = c

Before(c) == RowsAt(log, Min(Mine(c)) - 1)
After(c)  == RowsAt(log, Max(Mine(c)))

\* A merge applied in chunks leaves, after each chunk, the table that one merge
\* of the source rows so far would leave: chunk boundaries do not show, as long
\* as each chunk has a key once.
ChunkedMergeIsOneMerge ==
    \A c \in Calls :
        /\ Merges(c)
        /\ Undisturbed(c)
        /\ DistinctInChunks(args[c])
        => IsMergeOf(args[c], SubSeq(Source(c), 1, done[c]),
                     Before(c), After(c), {c})

\* A merge that stopped partway is repaired by running it again, with any
\* chunk size: the table is that of one complete run (README: "Re-running an
\* idempotent merge (when_matched := 'update') is safe").
RerunCompletesMerge ==
    \A c, d \in Calls :
        /\ Merges(c) /\ Merges(d)
        /\ [args[c] EXCEPT !.chunk = 0] = [args[d] EXCEPT !.chunk = 0]
        /\ args[c].matched = "update"
        /\ DistinctInChunks(args[c]) /\ DistinctInChunks(args[d])
        /\ Ended(c) /\ pc[d] = "ok"
        /\ Undisturbed(c) /\ Undisturbed(d)
        /\ Max(Mine(c)) + 1 = Min(Mine(d))
        => IsMergeOf(args[d], Source(d), Before(c), After(d), {d})
=============================================================================
