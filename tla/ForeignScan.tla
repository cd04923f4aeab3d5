---------------------------- MODULE ForeignScan -----------------------------
(***************************************************************************)
(* The foreign scans of a statement (scan.rs): BeginForeignScan pins the   *)
(* latest version of the dataset and binds the attributes of the foreign   *)
(* table to its columns; IterateForeignScan takes rows out of the batches  *)
(* of a stream; ReScanForeignScan makes a new stream on the pinned version;*)
(* EndForeignScan frees the state.  Other backends commit new versions at  *)
(* any time, with other rows and other columns.                            *)
(*                                                                         *)
(* A statement has one scan for each use of the table.  PostgreSQL begins  *)
(* all of them before it runs any, and ends all of them when it is done;   *)
(* when the statement fails it ends none.                                  *)
(***************************************************************************)
EXTENDS Naturals, Sequences, FiniteSets

CONSTANTS
    Node,          \* the scans of a statement
    Tables,        \* definitions the foreign table may have: attributes
    Contents,      \* versions the dataset may have
    Value,
    Dropped,       \* an attribute that has been dropped
    Null,
    BatchSize,     \* option batch_size
    MaxEmpty,      \* how many batches of a stream hold no row
    MaxVersions, MaxStatements

Column  == [name: STRING, type: STRING]
Content == [cols: Seq(Column), rows: Seq(Seq(Value))]

ASSUME ContentAssumption ==
    /\ Contents \subseteq Content
    /\ Contents # {}
    /\ \A c \in Contents :
         /\ \A i, j \in DOMAIN c.cols : c.cols[i].name = c.cols[j].name => i = j
         /\ \A p \in DOMAIN c.rows : Len(c.rows[p]) = Len(c.cols)
ASSUME TableAssumption ==
    /\ Tables \subseteq Seq(Column \union {Dropped})
    /\ Dropped \notin Column
ASSUME SizeAssumption ==
    /\ BatchSize \in Nat \ {0}
    /\ MaxEmpty \in Nat
    /\ MaxVersions \in Nat
    /\ MaxStatements \in Nat
ASSUME NodeAssumption == IsFiniteSet(Node) /\ Node # {}

VARIABLES
    data,      \* the versions of the dataset
    attrs,     \* the attributes of the foreign table
    phase,     \* where each scan is
    pinned,    \* dataset: the version it is pinned to
    colOf,     \* att_to_batch_col, 0 for None
    streamed,  \* how many rows the stream has delivered
    empties,   \* how many empty batches it may still deliver
    batch,     \* current_batch: which rows of the version, <<>> for None
    row,       \* current_row
    out,       \* the tuples this pass has returned
    through,   \* the tuples of the last pass that reached the end
    boxed,     \* how many LanceScanStates are allocated
    failed,    \* how many statements have failed
    stmts      \* how many have begun

cursor == <<streamed, empties, batch, row, out>>
bound  == <<pinned, colOf, through>>
scans  == <<phase, bound, cursor>>
env    == <<data, attrs, boxed, failed, stmts>>
vars   == <<env, scans>>

-----------------------------------------------------------------------------
Latest  == Len(data)
Held(n) == data[pinned[n]]
Open(n) == phase[n] \in {"ready", "reading", "end"}

InUse   == {n \in Node : Open(n)}

\* The statement is running: every scan has begun and none has ended.
Running == \A n \in Node : Open(n)

\* A column for every attribute, of a type that can be read as its type.
Binds(a, c) ==
    \A i \in DOMAIN a : a[i] # Dropped => a[i] \in {c.cols[j] : j \in DOMAIN c.cols}

\* Mutant of ColumnIndex: attributes are bound by their position.
ByPosition(a, c, i) == IF a[i] = Dropped THEN 0 ELSE i

ColumnIndex(a, c, i) ==
    IF a[i] = Dropped THEN 0
    ELSE CHOOSE j \in DOMAIN c.cols : c.cols[j].name = a[i].name

\* The tuple made of row p of the pinned version.
Tuple(n, p) ==
    [i \in DOMAIN attrs |-> IF attrs[i] = Dropped THEN Null
                            ELSE Held(n).rows[p][colOf[n][i]]]

Init ==
    /\ \E c \in Contents : data = <<c>>
    /\ attrs \in Tables
    /\ phase    = [n \in Node |-> "none"]
    /\ pinned   = [n \in Node |-> 1]
    /\ colOf    = [n \in Node |-> <<>>]
    /\ streamed = [n \in Node |-> 0]
    /\ empties  = [n \in Node |-> 0]
    /\ batch    = [n \in Node |-> <<>>]
    /\ row      = [n \in Node |-> 0]
    /\ out      = [n \in Node |-> <<>>]
    /\ through  = [n \in Node |-> {}]
    /\ boxed  = 0
    /\ failed = 0
    /\ stmts  = 0

-----------------------------------------------------------------------------
(* The statement.                                                          *)

\* A statement begins; the table may have been altered since the last one.
Start(a) ==
    /\ \A n \in Node : phase[n] = "none"
    /\ stmts < MaxStatements
    /\ stmts' = stmts + 1
    /\ attrs' = a
    /\ phase' = [n \in Node |-> "init"]
    /\ UNCHANGED <<data, boxed, failed, bound, cursor>>

Unbound == [n \in Node |-> 1]
NoRows  == [n \in Node |-> <<>>]
Zero    == [n \in Node |-> 0]

\* The scans of the statement are forgotten.
Forget ==
    /\ phase'    = [n \in Node |-> "none"]
    /\ pinned'   = Unbound
    /\ colOf'    = NoRows
    /\ through'  = [n \in Node |-> {}]
    /\ out'      = NoRows
    /\ batch'    = NoRows
    /\ streamed' = Zero /\ empties' = Zero /\ row' = Zero

\* An error, or a cancel: no EndForeignScan is called, and what was boxed
\* stays so.
Abort ==
    /\ failed' = failed + 1
    /\ Forget
    /\ UNCHANGED <<data, attrs, boxed, stmts>>

-----------------------------------------------------------------------------
(* begin_foreign_scan.                                                     *)

BeginScan(n) ==
    /\ phase[n] = "init"
    /\ Binds(attrs, data[Latest])
    /\ phase'  = [phase EXCEPT ![n] = "ready"]
    /\ pinned' = [pinned EXCEPT ![n] = Latest]
    /\ colOf'  = [colOf EXCEPT ![n] =
                    [i \in DOMAIN attrs |-> ColumnIndex(attrs, data[Latest], i)]]
    /\ empties' = [empties EXCEPT ![n] = MaxEmpty]
    /\ boxed' = boxed + 1
    /\ UNCHANGED <<data, attrs, failed, stmts, through, streamed, batch, row, out>>

\* EXPLAIN: nothing is opened, and there is nothing to free.
ExplainOnly(n) ==
    /\ \A m \in Node : phase[m] \in {"init", "explained"}
    /\ phase[n] = "init"
    /\ phase' = [m \in Node |-> "explained"]
    /\ UNCHANGED <<env, bound, cursor>>

\* The options are wrong, the dataset cannot be opened or lacks a column, or
\* a column has another type.
BeginFails(n) == phase[n] = "init" /\ Abort

-----------------------------------------------------------------------------
(* iterate_foreign_scan: a call returns a row of the batch, or asks the    *)
(* stream for another batch until it has one.                              *)

NeedBatch(n) == row[n] >= Len(batch[n])
Left(n)      == Len(Held(n).rows) - streamed[n]

FetchBatch(n) ==
    /\ Running
    /\ phase[n] \in {"ready", "reading"}
    /\ NeedBatch(n)
    /\ \E k \in 0 .. BatchSize :
         /\ k <= Left(n)
         /\ k = 0 => empties[n] > 0
         /\ empties'  = [empties EXCEPT ![n] = IF k = 0 THEN @ - 1 ELSE @]
         /\ streamed' = [streamed EXCEPT ![n] = @ + k]
         /\ batch'    = [batch EXCEPT ![n] = [i \in 1 .. k |-> streamed[n] + i]]
         /\ row'      = [row EXCEPT ![n] = 0]
    /\ phase' = [phase EXCEPT ![n] = "reading"]
    /\ UNCHANGED <<env, bound, out>>

ReturnRow(n) ==
    /\ Running
    /\ phase[n] \in {"ready", "reading"}
    /\ ~NeedBatch(n)
    /\ out'   = [out EXCEPT ![n] = Append(@, Tuple(n, batch[n][row[n] + 1]))]
    /\ row'   = [row EXCEPT ![n] = @ + 1]
    /\ phase' = [phase EXCEPT ![n] = "ready"]
    /\ UNCHANGED <<env, bound, streamed, empties, batch>>

\* Mutants of StreamEnds: an empty batch is taken for the end; the end of the
\* stream is polled again.
EndsWhenEmpty(n) == Left(n) = 0 \/ (phase[n] = "reading" /\ batch[n] = <<>>)
EndIgnored(n) == FALSE

StreamEnds(n) == Left(n) = 0

EndOfStream(n) ==
    /\ Running
    /\ phase[n] \in {"ready", "reading"}
    /\ NeedBatch(n)
    /\ StreamEnds(n)
    /\ phase'   = [phase EXCEPT ![n] = "end"]
    /\ through' = [through EXCEPT ![n] = @ \union {out[n]}]
    /\ UNCHANGED <<env, pinned, colOf, cursor>>

\* The stream fails, a value cannot be converted, or the statement is
\* cancelled.
ScanFails(n) == Open(n) /\ Abort

-----------------------------------------------------------------------------
(* rescan_foreign_scan and end_foreign_scan, between two calls of iterate. *)

\* Mutant of StreamVersion: the dataset is opened again.
Reopened(n) == Latest

StreamVersion(n) == pinned[n]

Rescan(n) ==
    /\ Running
    /\ phase[n] \in {"ready", "end"}
    /\ phase'    = [phase EXCEPT ![n] = "ready"]
    /\ pinned'   = [pinned EXCEPT ![n] = StreamVersion(n)]
    /\ streamed' = [streamed EXCEPT ![n] = 0]
    /\ empties'  = [empties EXCEPT ![n] = MaxEmpty]
    /\ batch'    = [batch EXCEPT ![n] = <<>>]
    /\ row'      = [row EXCEPT ![n] = 0]
    /\ out'      = [out EXCEPT ![n] = <<>>]
    /\ UNCHANGED <<env, colOf, through>>

\* Mutants of Freed: the box is not dropped, or a null one is.
NotFreed(n) == 0
FreedUnchecked(n) == 1

Freed(n) == IF Open(n) THEN 1 ELSE 0

EndScan(n) ==
    /\ phase[n] \in {"ready", "end", "explained"}
    /\ \A m \in Node : phase[m] \in {"ready", "end", "explained", "closed"}
    /\ boxed' = boxed - Freed(n)
    /\ IF \A m \in Node \ {n} : phase[m] = "closed"
       THEN Forget
       ELSE /\ phase' = [phase EXCEPT ![n] = "closed"]
            /\ UNCHANGED <<bound, cursor>>
    /\ UNCHANGED <<data, attrs, failed, stmts>>

-----------------------------------------------------------------------------
\* Another backend commits a version.
Commit(c) ==
    /\ Len(data) < MaxVersions
    /\ data' = Append(data, c)
    /\ UNCHANGED <<attrs, boxed, failed, stmts, scans>>

Iterate(n) == FetchBatch(n) \/ ReturnRow(n) \/ EndOfStream(n)

Finished == stmts = MaxStatements /\ (\A n \in Node : phase[n] = "none") /\ UNCHANGED vars

Next ==
    \/ \E a \in Tables : Start(a)
    \/ \E n \in Node :
         \/ BeginScan(n) \/ ExplainOnly(n) \/ BeginFails(n)
         \/ Iterate(n) \/ ScanFails(n)
         \/ Rescan(n) \/ EndScan(n)
    \/ \E c \in Contents : Commit(c)
    \/ Finished

Spec == Init /\ [][Next]_vars

\* A call of iterate runs until it returns.
FairSpec == Spec /\ \A n \in Node : WF_vars(phase[n] = "reading" /\ Iterate(n))

-----------------------------------------------------------------------------
TypeOK ==
    /\ data \in Seq(Contents) /\ data # <<>>
    /\ attrs \in Tables
    /\ phase \in [Node -> {"none", "init", "explained", "ready", "reading", "end", "closed"}]
    /\ pinned \in [Node -> 1 .. Len(data)]
    /\ colOf \in [Node -> Seq(Nat)]
    /\ \A n \in Node : Open(n) => DOMAIN colOf[n] = DOMAIN attrs
    /\ streamed \in [Node -> Nat]
    /\ empties \in [Node -> Nat]
    /\ batch \in [Node -> Seq(Nat)]
    /\ row \in [Node -> Nat]
    /\ out \in [Node -> Seq(Seq(Value \union {Null}))]
    /\ through \in [Node -> SUBSET Seq(Seq(Value \union {Null}))]
    /\ boxed \in Nat
    /\ failed \in Nat
    /\ stmts \in 0 .. MaxStatements

\* The first k rows of c, as the foreign table's definition a names its
\* columns.
Shows(a, c, ts) ==
    /\ Len(ts) <= Len(c.rows)
    /\ \A p \in DOMAIN ts : \A i \in DOMAIN a :
         IF a[i] = Dropped THEN ts[p][i] = Null
         ELSE \E j \in DOMAIN c.cols :
                c.cols[j].name = a[i].name /\ ts[p][i] = c.rows[p][j]

\* A pass returns the rows of the pinned version, from the first on, each
\* once, with the value of the column an attribute is named after, although
\* other versions with other rows and columns are committed meanwhile; and
\* when it ends it has returned all of them (empty batches end nothing).
PassShowsVersion ==
    \A n \in Node : Open(n) =>
        /\ Shows(attrs, Held(n), out[n])
        /\ phase[n] = "end" => Len(out[n]) = Len(Held(n).rows)

\* All passes of a scan that reach the end return the same tuples: a rescan
\* stays with the version that was opened first.
PassesAgree ==
    \A n \in Node : \A t, u \in through[n] : t = u

\* Nothing is left allocated by statements that do not fail, and a statement
\* that fails leaves at most one state per scan.
LeaksOnlyByFailure ==
    /\ Cardinality(InUse) <= boxed
    /\ boxed <= Cardinality(InUse) + failed * Cardinality(Node)

\* A call of iterate returns, however many empty batches come.
IterateReturns == \A n \in Node : phase[n] = "reading" ~> phase[n] # "reading"
=============================================================================
