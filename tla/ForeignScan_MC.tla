--------------------------- MODULE ForeignScan_MC ---------------------------
(***************************************************************************)
(* Statements of two scans over a dataset whose columns are reordered,     *)
(* extended or retyped by the next version, or whose rows are gone.        *)
(***************************************************************************)
EXTENDS ScanRefinement

CONSTANTS v1, v2, v3

Id   == [name |-> "id", type |-> "int4"]
Name == [name |-> "name", type |-> "text"]
Note == [name |-> "note", type |-> "text"]
Size == [name |-> "size", type |-> "int4"]

MCContents ==
    { [cols |-> <<Id, Name, Note>>,
       rows |-> <<<<v1, v2, v2>>, <<v2, v2, v1>>, <<v3, v1, v1>>>>],
      [cols |-> <<Name, Size, Id>>, rows |-> <<<<v3, v1, v2>>>>],
      [cols |-> <<Size, [Name EXCEPT !.type = "bytea"], Id>>, rows |-> <<>>] }

MCTables == { <<Id, Name>>, <<Size, Dropped, Id>> }
=============================================================================
