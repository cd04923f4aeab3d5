------------------------------ MODULE Chunking ------------------------------
(***************************************************************************)
(* The cursor arithmetic of for_each_spi_chunk (src/write/pg_to_arrow.rs): *)
(* how far one fetch of lance.write_chunk_rows rows moves the cursor of a  *)
(* source query, and the source rows (numbered from 1) a chunk holds.      *)
(***************************************************************************)
EXTENDS Naturals

\* Mutant of NextStop: 0 is clamped to one row.
ClampedStop(len, chunk, n) ==
    LET step == IF chunk = 0 THEN 1 ELSE chunk IN
    IF len <= n + step THEN len ELSE n + step

\* Where the cursor stands after one more fetch from position n of a source of
\* len rows.  A chunk of 0 rows disables chunking: fetch_count is c_long::MAX.
NextStop(len, chunk, n) ==
    IF chunk = 0 \/ len <= n + chunk THEN len ELSE n + chunk

\* The source rows of the chunk that took the cursor from lo to hi.
Positions(lo, hi) == (lo + 1) .. hi
=============================================================================
