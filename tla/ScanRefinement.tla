--------------------------- MODULE ScanRefinement ---------------------------
(***************************************************************************)
(* The scans of ForeignScan implement those of TableScan, opened on the    *)
(* tuples of the pinned version.                                           *)
(***************************************************************************)
EXTENDS ForeignScan

TuplesOf(n) == [p \in DOMAIN Held(n).rows |-> Tuple(n, p)]

\* The rows of a version as a definition of the table shows them.
TuplesIn(c, a) ==
    [p \in DOMAIN c.rows |->
       [i \in DOMAIN a |-> IF a[i] = Dropped THEN Null
          ELSE c.rows[p][CHOOSE j \in DOMAIN c.cols : c.cols[j].name = a[i].name]]]

TupleLists ==
    UNION { { TuplesIn(c, a) : c \in {d \in Contents : Binds(a, d)} } : a \in Tables }

StateOf(n) == IF ~Open(n) THEN "closed"
              ELSE IF phase[n] = "end" THEN "through" ELSE "open"

Scan == INSTANCE TableScan WITH
    Lists <- TupleLists,
    state <- [n \in Node |-> StateOf(n)],
    list  <- [n \in Node |-> IF Open(n) THEN TuplesOf(n) ELSE <<>>],
    given <- [n \in Node |-> IF Open(n) THEN out[n] ELSE <<>>]

\* Every behaviour of the scans, with its batches, rescans and failures, is
\* one of the abstract scan.
ImplementsScan == Scan!Spec
=============================================================================
