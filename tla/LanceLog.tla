------------------------------ MODULE LanceLog ------------------------------
(***************************************************************************)
(* What the extension relies on from a Lance dataset: a log of committed   *)
(* versions, each with the full set of rows a reader of it sees, and the   *)
(* rules by which Lance accepts, rebases or refuses a commit that was      *)
(* prepared against an older version.  The Lance crate is not part of the  *)
(* repository; these operators state the contract its calls are made under *)
(* (Dataset::open, Dataset::write, MergeInsertBuilder::execute_reader).    *)
(*                                                                         *)
(* The empty log is a dataset that does not exist.  Nothing in the         *)
(* extension removes a dataset, so a log only grows.                       *)
(*                                                                         *)
(* A version is [op, by, read, lo, hi, rows]: the kind of commit, the call *)
(* that made it, the version it was prepared against, the source rows      *)
(* lo+1..hi of that call that it applied, and the rows it leaves visible.  *)
(* A row is [id, key, by, pos]: the identity it got when it was inserted,  *)
(* its merge key, and the call and source row its contents come from, which*)
(* stand for the values of all its other columns.                          *)
(***************************************************************************)
EXTENDS Naturals, Sequences, FiniteSets, Chunking

\* The version Dataset::open returns; 0 when there is no dataset.
Latest(log) == Len(log)

\* The rows visible at version v.
RowsAt(log, v) == IF v = 0 THEN {} ELSE log[v].rows

\* Some commit after version v replaced the whole table.
ReplacedSince(log, v) ==
    \E w \in (v + 1) .. Len(log) : log[w].op \in {"create", "overwrite"}

\* The rows version v of the log inserts for source rows P of call c.
Inserted(source, P, c, v) ==
    { [id |-> <<v, p>>, key |-> source[p], by |-> c, pos |-> p] : p \in P }

-----------------------------------------------------------------------------
(* Merge-insert: source rows P of `source` joined with the target rows T.  *)

\* The source rows that match target row r.
MatchesOf(r, source, P) == { p \in P : source[p] = r.key }

\* Two source rows update the same target row: Lance refuses the merge.
Ambiguous(T, source, P) ==
    \E r \in T : Cardinality(MatchesOf(r, source, P)) > 1

\* The target rows an updating merge rewrites.
Rewritten(T, source, P) == { r \in T : MatchesOf(r, source, P) # {} }

\* The new contents of the rewritten rows.
Updated(T, source, P, c) ==
    UNION { { [id |-> r.id, key |-> r.key, by |-> c, pos |-> p] :
                p \in MatchesOf(r, source, P) } : r \in T }

\* The source rows that match nothing in T.
Unmatched(T, source, P) == { p \in P : \A r \in T : r.key # source[p] }
=============================================================================
