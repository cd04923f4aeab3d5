------------------------- MODULE ForeignScan_proofs -------------------------
(***************************************************************************)
(* Proofs about the foreign scans, for any statements, any definitions of  *)
(* the table, any versions and any sizes of the batches.                   *)
(***************************************************************************)
EXTENDS ScanRefinement, FiniteSetTheorems, SequenceTheorems, TLAPS

(* The inductive invariant.                                                *)

Rows(n) == Held(n).rows

\* A scan that has not begun has read nothing.
Blank(n) ==
    /\ streamed[n] = 0 /\ row[n] = 0 /\ batch[n] = <<>> /\ out[n] = <<>>
    /\ through[n] = {}

\* Each attribute is bound to the column of its name in the pinned version.
ColumnsBound(n) ==
    \A i \in DOMAIN attrs : attrs[i] # Dropped =>
        /\ colOf[n][i] \in DOMAIN Held(n).cols
        /\ Held(n).cols[colOf[n][i]].name = attrs[i].name

\* The batch holds the last rows the stream has delivered, and what the pass
\* has returned are the rows before current_row.
CursorInv(n) ==
    /\ streamed[n] <= Len(Rows(n))
    /\ Len(batch[n]) <= streamed[n]
    /\ row[n] <= Len(batch[n])
    /\ \A i \in DOMAIN batch[n] : batch[n][i] = streamed[n] - Len(batch[n]) + i
    /\ Len(out[n]) = streamed[n] - Len(batch[n]) + row[n]
    /\ \A p \in DOMAIN out[n] : out[n][p] = Tuple(n, p)
    /\ phase[n] = "end" => streamed[n] = Len(Rows(n)) /\ row[n] = Len(batch[n])

\* Every pass that reached the end returned all rows.
Passed(n) == \A t \in through[n] : t = TuplesOf(n)

ScanInv(n) ==
    /\ phase[n] \in {"none", "init", "explained"} => Blank(n)
    /\ Open(n) => ColumnsBound(n) /\ CursorInv(n)
    /\ Passed(n)

IInv ==
    /\ TypeOK
    /\ \A n \in Node : ScanInv(n)
    /\ LeaksOnlyByFailure

-----------------------------------------------------------------------------
(* Facts about the operators.                                              *)

LEMMA ContentFacts ==
    ASSUME NEW c \in Contents
    PROVE  /\ c.cols \in Seq(Column)
           /\ c.rows \in Seq(Seq(Value))
           /\ \A p \in DOMAIN c.rows : Len(c.rows[p]) = Len(c.cols)
  BY ContentAssumption DEF Content

\* An attribute that binds has a column of its name.
LEMMA IndexIsColumn ==
    ASSUME NEW a \in Tables, NEW c \in Contents, Binds(a, c),
           NEW i \in DOMAIN a, a[i] # Dropped
    PROVE  /\ ColumnIndex(a, c, i) \in DOMAIN c.cols
           /\ c.cols[ColumnIndex(a, c, i)].name = a[i].name
<1>1. \E j \in DOMAIN c.cols : c.cols[j].name = a[i].name
  BY DEF Binds
<1> QED
  BY <1>1 DEF ColumnIndex

\* The scan's rows are those of a version.
LEMMA HeldIsContent ==
    ASSUME TypeOK, NEW n \in Node
    PROVE  /\ Held(n) \in Contents
           /\ Rows(n) \in Seq(Seq(Value))
<1>1. data \in Seq(Contents) /\ pinned[n] \in 1 .. Len(data)
  BY DEF TypeOK
<1>2. Held(n) \in Contents
  BY <1>1 DEF Held
<1> QED
  BY <1>2, ContentFacts DEF Rows

\* A tuple has a value, or null, for every attribute.
LEMMA TupleIsTyped ==
    ASSUME TypeOK, NEW n \in Node, ColumnsBound(n), NEW p \in DOMAIN Rows(n)
    PROVE  Tuple(n, p) \in Seq(Value \union {Null})
<1>1. attrs \in Seq(Column \union {Dropped})
  BY TableAssumption DEF TypeOK
<1>2. PICK k \in Nat : DOMAIN attrs = 1 .. k
  BY <1>1
<1>3. Held(n) \in Contents
  BY HeldIsContent
<1>4. /\ Rows(n)[p] \in Seq(Value)
      /\ Len(Rows(n)[p]) = Len(Held(n).cols)
      /\ Held(n).cols \in Seq(Column)
  BY <1>3, ContentFacts DEF Rows
<1>5. ASSUME NEW i \in DOMAIN attrs, attrs[i] # Dropped
      PROVE  Rows(n)[p][colOf[n][i]] \in Value
  <2>1. colOf[n][i] \in 1 .. Len(Held(n).cols)
    BY <1>4, <1>5 DEF ColumnsBound
  <2>2. colOf[n][i] \in 1 .. Len(Rows(n)[p])
    BY <2>1, <1>4
  <2> QED
    BY <2>2, <1>4
<1>6. \A i \in DOMAIN attrs : Tuple(n, p)[i] \in Value \union {Null}
  BY <1>5 DEF Tuple, Rows
<1>7. Tuple(n, p) \in [1 .. k -> Value \union {Null}]
  BY <1>2, <1>6 DEF Tuple
<1> QED
  BY <1>7

LEMMA TuplesAreTyped ==
    ASSUME TypeOK, NEW n \in Node, ColumnsBound(n)
    PROVE  /\ TuplesOf(n) \in Seq(Seq(Value \union {Null}))
           /\ Len(TuplesOf(n)) = Len(Rows(n))
<1>1. Rows(n) \in Seq(Seq(Value))
  BY HeldIsContent
<1>2. PICK k \in Nat : DOMAIN Rows(n) = 1 .. k /\ Len(Rows(n)) = k
  BY <1>1
<1>3. TuplesOf(n) \in [1 .. k -> Seq(Value \union {Null})]
  BY <1>2, TupleIsTyped DEF TuplesOf, Rows
<1> QED
  BY <1>2, <1>3

\* The lengths of a scan: its rows, its batch, current_row, what the stream
\* has delivered and what the pass has returned.
LEMMA Lengths ==
    ASSUME TypeOK, NEW n \in Node, CursorInv(n)
    PROVE  \E l, b, r, s, o \in Nat :
             /\ l = Len(Rows(n)) /\ DOMAIN Rows(n) = 1 .. l
             /\ b = Len(batch[n]) /\ DOMAIN batch[n] = 1 .. b
             /\ r = row[n] /\ s = streamed[n]
             /\ o = Len(out[n]) /\ DOMAIN out[n] = 1 .. o
             /\ r <= b /\ b <= s /\ s <= l /\ o = s - b + r
<1>1. PICK l \in Nat : l = Len(Rows(n)) /\ DOMAIN Rows(n) = 1 .. l
  <2>1. Rows(n) \in Seq(Seq(Value))
    BY HeldIsContent
  <2> QED
    BY <2>1
<1>2. batch[n] \in Seq(Nat) /\ out[n] \in Seq(Seq(Value \union {Null}))
  BY DEF TypeOK
<1>3. PICK b \in Nat : b = Len(batch[n]) /\ DOMAIN batch[n] = 1 .. b
  BY <1>2
<1>4. PICK o \in Nat : o = Len(out[n]) /\ DOMAIN out[n] = 1 .. o
  BY <1>2
<1>5. row[n] \in Nat /\ streamed[n] \in Nat
  BY DEF TypeOK
<1>6. /\ streamed[n] <= Len(Rows(n)) /\ Len(batch[n]) <= streamed[n]
      /\ row[n] <= Len(batch[n])
      /\ Len(out[n]) = streamed[n] - Len(batch[n]) + row[n]
  BY DEF CursorInv
<1> QED
  BY <1>1, <1>3, <1>4, <1>5, <1>6

-----------------------------------------------------------------------------
(* What a step leaves alone.                                               *)

\* A scan whose own variables stay, on a version that stays, stays right.
LEMMA ScanStays ==
    ASSUME NEW n \in Node, ScanInv(n),
           Held(n)' = Held(n), attrs' = attrs, colOf'[n] = colOf[n],
           phase'[n] = phase[n], streamed'[n] = streamed[n],
           batch'[n] = batch[n], row'[n] = row[n], out'[n] = out[n],
           through'[n] = through[n]
    PROVE  ScanInv(n)'
<1>1. \A p : Tuple(n, p)' = Tuple(n, p)
  BY DEF Tuple
<1>2. TuplesOf(n)' = TuplesOf(n)
  BY <1>1 DEF TuplesOf
<1> QED
  BY <1>1, <1>2 DEF ScanInv, Blank, Open, ColumnsBound, CursorInv, Passed, Rows

\* A commit leaves the versions before it as they are.
LEMMA CommitKeepsVersions ==
    ASSUME TypeOK, NEW c \in Contents, Commit(c), NEW n \in Node
    PROVE  Held(n)' = Held(n)
<1>1. data \in Seq(Contents) /\ pinned[n] \in 1 .. Len(data)
  BY DEF TypeOK
<1>2. data' = Append(data, c) /\ pinned' = pinned
  BY DEF Commit, scans, bound
<1> QED
  BY <1>1, <1>2 DEF Held

LEMMA InUseCounts ==
    /\ IsFiniteSet(InUse)
    /\ Cardinality(InUse) \in Nat
    /\ Cardinality(Node) \in Nat
    /\ Cardinality(InUse) <= Cardinality(Node)
<1>1. InUse \subseteq Node
  BY DEF InUse
<1>2. IsFiniteSet(InUse) /\ Cardinality(InUse) <= Cardinality(Node)
  BY <1>1, NodeAssumption, FS_Subset
<1> QED
  BY <1>2, NodeAssumption, FS_CardinalityType

LEMMA LeaksStay ==
    ASSUME LeaksOnlyByFailure, InUse' = InUse, boxed' = boxed, failed' = failed
    PROVE  LeaksOnlyByFailure'
  BY DEF LeaksOnlyByFailure

-----------------------------------------------------------------------------
(* The invariant holds at first and is kept by every action.               *)

LEMMA InitInv ==
    ASSUME Init
    PROVE  IInv
<1>1. \A n \in Node : phase[n] = "none" /\ ~Open(n) /\ Blank(n)
  BY DEF Init, Open, Blank
<1>2. \A c \in Contents : <<c>> \in Seq(Contents) /\ <<c>> # <<>> /\ Len(<<c>>) = 1
  OBVIOUS
<1>3. TypeOK
  <2>1. data \in Seq(Contents) /\ data # <<>> /\ Len(data) = 1
    BY <1>2 DEF Init
  <2>2. <<>> \in Seq(Nat) /\ <<>> \in Seq(Seq(Value \union {Null}))
    BY EmptySeq
  <2>3. 0 \in 0 .. MaxStatements
    BY SizeAssumption
  <2>4. pinned \in [Node -> 1 .. Len(data)]
    BY <2>1 DEF Init
  <2>5. through \in [Node -> SUBSET Seq(Seq(Value \union {Null}))]
    BY DEF Init
  <2> QED
    BY <1>1, <2>1, <2>2, <2>3, <2>4, <2>5 DEF TypeOK, Init
<1>4. \A n \in Node : ScanInv(n)
  BY <1>1 DEF ScanInv, Blank, Passed
<1>5. LeaksOnlyByFailure
  <2>1. InUse = {}
    BY <1>1 DEF InUse
  <2>2. Cardinality(InUse) = 0
    BY <2>1, FS_EmptySet
  <2>3. PICK k \in Nat : k = Cardinality(Node)
    BY InUseCounts
  <2>4. boxed = 0 /\ failed = 0
    BY DEF Init
  <2> QED
    BY <2>2, <2>3, <2>4 DEF LeaksOnlyByFailure
<1> QED
  BY <1>3, <1>4, <1>5 DEF IInv

LEMMA StartInv ==
    ASSUME IInv, NEW a \in Tables, Start(a)
    PROVE  IInv'
<1> USE DEF scans, bound, cursor
<1>1. \A n \in Node : phase[n] = "none" /\ Blank(n)
  BY DEF Start, IInv, ScanInv
<1>2. \A n \in Node : phase'[n] = "init" /\ ~Open(n) /\ ~Open(n)'
  BY <1>1 DEF Start, Open
<1>3. TypeOK'
  <2>1. stmts' \in 0 .. MaxStatements
    BY SizeAssumption DEF Start, IInv, TypeOK
  <2> QED
    BY <1>2, <2>1 DEF Start, IInv, TypeOK
<1>4. \A n \in Node : ScanInv(n)'
  BY <1>1, <1>2 DEF Start, ScanInv, Blank, Passed
<1>5. InUse' = InUse
  BY <1>2 DEF InUse
<1> QED
  BY <1>3, <1>4, <1>5, LeaksStay DEF IInv, Start

LEMMA ForgetInv ==
    ASSUME Forget
    PROVE  \A n \in Node : ~Open(n)' /\ ScanInv(n)'
<1>1. \A n \in Node : phase'[n] = "none" /\ Blank(n)'
  BY DEF Forget, NoRows, Zero, Blank
<1> QED
  BY <1>1 DEF ScanInv, Open, Blank, Passed

LEMMA ForgetTypes ==
    ASSUME TypeOK, Forget, data' = data, attrs' = attrs, stmts' = stmts,
           boxed' \in Nat, failed' \in Nat
    PROVE  TypeOK'
<1>1. pinned' \in [Node -> 1 .. Len(data')]
  <2>1. PICK k \in Nat : k = Len(data) /\ k > 0
    BY EmptySeq DEF TypeOK
  <2>2. 1 \in 1 .. Len(data')
    BY <2>1
  <2> QED
    BY <2>2 DEF Forget, Unbound
<1>2. <<>> \in Seq(Nat) /\ <<>> \in Seq(Seq(Value \union {Null}))
  BY EmptySeq
<1>3. \A n \in Node : ~Open(n)'
  BY ForgetInv
<1>4. through' \in [Node -> SUBSET Seq(Seq(Value \union {Null}))]
  BY DEF Forget
<1>5. /\ streamed' \in [Node -> Nat] /\ empties' \in [Node -> Nat]
      /\ row' \in [Node -> Nat] /\ batch' \in [Node -> Seq(Nat)]
      /\ out' \in [Node -> Seq(Seq(Value \union {Null}))]
      /\ colOf' \in [Node -> Seq(Nat)]
  BY <1>2 DEF Forget, Zero, NoRows
<1>6. phase' \in [Node -> {"none", "init", "explained", "ready", "reading", "end", "closed"}]
  BY DEF Forget
<1> QED
  BY <1>1, <1>3, <1>4, <1>5, <1>6 DEF TypeOK

\* A failing statement leaves at most what its scans have allocated.
LEMMA AbortInv ==
    ASSUME IInv, Abort
    PROVE  IInv'
<1>1. Forget /\ failed' = failed + 1 /\ boxed' = boxed
      /\ data' = data /\ attrs' = attrs /\ stmts' = stmts
  BY DEF Abort
<1>2. boxed \in Nat /\ failed \in Nat
  BY DEF IInv, TypeOK
<1>3. TypeOK'
  BY <1>1, <1>2, ForgetTypes DEF IInv
<1>4. LeaksOnlyByFailure'
  <2>1. InUse' = {}
    BY <1>1, ForgetInv DEF InUse
  <2>2. Cardinality(InUse)' = 0
    BY <2>1, FS_EmptySet
  <2>3. PICK k \in Nat, u \in Nat : /\ k = Cardinality(Node) /\ u = Cardinality(InUse)
                                    /\ u <= k
    BY InUseCounts
  <2>4. boxed <= u + failed * k
    BY <2>3 DEF IInv, LeaksOnlyByFailure
  <2>5. (failed + 1) * k = failed * k + k
    BY <1>2, <2>3
  <2>6. failed * k \in Nat
    BY <1>2, <2>3
  <2>7. boxed <= (failed + 1) * k
    BY <1>2, <2>3, <2>4, <2>5, <2>6
  <2> QED
    BY <1>1, <1>2, <2>2, <2>3, <2>6, <2>5, <2>7 DEF LeaksOnlyByFailure
<1> QED
  BY <1>1, <1>3, <1>4, ForgetInv DEF IInv

LEMMA BeginInv ==
    ASSUME IInv, NEW n \in Node, BeginScan(n)
    PROVE  IInv'
<1> USE DEF cursor
<1>1. PICK k \in Nat : k = Len(data) /\ k > 0
  BY EmptySeq DEF IInv, TypeOK
<1>2. data[Latest] \in Contents /\ Latest \in 1 .. Len(data)
  BY <1>1 DEF Latest, IInv, TypeOK
<1>3. /\ phase[n] = "init" /\ Blank(n) /\ ~Open(n) /\ Binds(attrs, data[Latest])
      /\ phase' = [phase EXCEPT ![n] = "ready"]
      /\ pinned' = [pinned EXCEPT ![n] = Latest]
      /\ data' = data /\ attrs' = attrs /\ attrs \in Tables
      /\ boxed' = boxed + 1 /\ failed' = failed
      /\ UNCHANGED <<through, streamed, batch, row, out>>
  BY DEF BeginScan, IInv, ScanInv, Open, TypeOK
<1>4. /\ \A m \in Node : Open(m)' <=> Open(m) \/ m = n
      /\ Held(n)' = data[Latest]
      /\ phase'[n] = "ready"
  BY <1>3 DEF Open, Held, IInv, TypeOK
<1>5. colOf'[n] = [i \in DOMAIN attrs |-> ColumnIndex(attrs, data[Latest], i)]
  BY DEF BeginScan, IInv, TypeOK
<1>6. ColumnsBound(n)'
  BY <1>2, <1>3, <1>4, <1>5, IndexIsColumn DEF ColumnsBound
<1>7. TypeOK'
  <2>1. \A i \in DOMAIN attrs : ColumnIndex(attrs, data[Latest], i) \in Nat
    <3>1. DOMAIN data[Latest].cols \subseteq Nat
      BY <1>2, ContentFacts
    <3>2. ASSUME NEW i \in DOMAIN attrs, attrs[i] = Dropped
          PROVE  ColumnIndex(attrs, data[Latest], i) = 0
      BY <3>2 DEF ColumnIndex
    <3> QED
      BY <1>2, <1>3, <3>1, <3>2, IndexIsColumn
  <2>2. PICK d \in Nat : DOMAIN attrs = 1 .. d
    BY <1>3, TableAssumption
  <2>3. colOf'[n] \in Seq(Nat)
    BY <1>5, <2>1, <2>2
  <2>4. colOf' \in [Node -> Seq(Nat)]
    BY <2>3 DEF BeginScan, IInv, TypeOK
  <2>5. \A m \in Node : Open(m)' => DOMAIN colOf'[m] = DOMAIN attrs'
    BY <1>3, <1>4, <1>5 DEF BeginScan, IInv, TypeOK
  <2>6. empties' \in [Node -> Nat]
    BY SizeAssumption DEF BeginScan, IInv, TypeOK
  <2>7. phase' \in [Node -> {"none", "init", "explained", "ready", "reading", "end", "closed"}]
    BY <1>3 DEF IInv, TypeOK
  <2>8. pinned' \in [Node -> 1 .. Len(data')]
    BY <1>2, <1>3 DEF IInv, TypeOK
  <2> QED
    <3>1. /\ data' \in Seq(Contents) /\ data' # <<>> /\ attrs' \in Tables
          /\ streamed' \in [Node -> Nat] /\ batch' \in [Node -> Seq(Nat)]
          /\ row' \in [Node -> Nat]
          /\ out' \in [Node -> Seq(Seq(Value \union {Null}))]
          /\ through' \in [Node -> SUBSET Seq(Seq(Value \union {Null}))]
      BY <1>3 DEF IInv, TypeOK
    <3>2. boxed' \in Nat /\ failed' \in Nat /\ stmts' \in 0 .. MaxStatements
      BY <1>3 DEF BeginScan, IInv, TypeOK
    <3> QED
      BY <2>4, <2>5, <2>6, <2>7, <2>8, <3>1, <3>2 DEF TypeOK
<1>8. ScanInv(n)'
  <2>1. Rows(n)' \in Seq(Seq(Value))
    BY <1>2, <1>4, ContentFacts DEF Rows
  <2>2. PICK l \in Nat : l = Len(Rows(n)')
    BY <2>1
  <2>3. Len(<<>>) = 0 /\ DOMAIN <<>> = {}
    OBVIOUS
  <2>4. CursorInv(n)'
    BY <1>3, <1>4, <2>2, <2>3 DEF CursorInv, Blank
  <2> QED
    BY <1>3, <1>4, <1>6, <2>4 DEF ScanInv, Blank, Passed
<1>9. \A m \in Node \ {n} : ScanInv(m)'
  <2> TAKE m \in Node \ {n}
  <2>1. Held(m)' = Held(m) /\ phase'[m] = phase[m] /\ colOf'[m] = colOf[m]
    BY <1>3 DEF Held, BeginScan, IInv, TypeOK
  <2> QED
    BY <1>3, <2>1, ScanStays DEF IInv
<1>10. LeaksOnlyByFailure'
  <2>1. InUse' = InUse \union {n} /\ n \notin InUse
    BY <1>3, <1>4 DEF InUse
  <2>2. Cardinality(InUse)' = Cardinality(InUse) + 1
    BY <2>1, InUseCounts, FS_AddElement
  <2>3. PICK c \in Nat, u \in Nat : c = Cardinality(Node) /\ u = Cardinality(InUse)
    BY InUseCounts
  <2>4. PICK f \in Nat : f = failed * c
    BY <2>3 DEF IInv, TypeOK
  <2>5. boxed \in Nat /\ u <= boxed /\ boxed <= u + f
    BY <2>3, <2>4 DEF IInv, TypeOK, LeaksOnlyByFailure
  <2>6. u + 1 <= boxed + 1 /\ boxed + 1 <= (u + 1) + f
    BY <2>3, <2>4, <2>5
  <2> QED
    BY <1>3, <2>2, <2>3, <2>4, <2>6 DEF LeaksOnlyByFailure
<1> QED
  BY <1>7, <1>8, <1>9, <1>10 DEF IInv

LEMMA ExplainInv ==
    ASSUME IInv, NEW n \in Node, ExplainOnly(n)
    PROVE  IInv'
<1> USE DEF env, bound, cursor
<1>1. \A m \in Node : /\ ~Open(m) /\ ~Open(m)' /\ Blank(m) /\ Blank(m)'
                      /\ phase'[m] = "explained"
  BY DEF ExplainOnly, IInv, ScanInv, Open, Blank
<1>2. TypeOK'
  BY <1>1 DEF ExplainOnly, IInv, TypeOK
<1>3. \A m \in Node : ScanInv(m)'
  BY <1>1 DEF ScanInv, Passed, Blank
<1>4. InUse' = InUse
  BY <1>1 DEF InUse
<1> QED
  BY <1>2, <1>3, <1>4, LeaksStay DEF IInv, ExplainOnly

LEMMA FetchBatchInv ==
    ASSUME IInv, NEW n \in Node, FetchBatch(n)
    PROVE  IInv'
<1> USE DEF env, bound
<1>1. PICK k \in 0 .. BatchSize :
        /\ k <= Left(n)
        /\ k = 0 => empties[n] > 0
        /\ empties'  = [empties EXCEPT ![n] = IF k = 0 THEN @ - 1 ELSE @]
        /\ streamed' = [streamed EXCEPT ![n] = @ + k]
        /\ batch'    = [batch EXCEPT ![n] = [i \in 1 .. k |-> streamed[n] + i]]
        /\ row'      = [row EXCEPT ![n] = 0]
  BY DEF FetchBatch
<1>2. k \in Nat /\ streamed[n] \in Nat
  BY SizeAssumption DEF IInv, TypeOK
<1>3. /\ batch'[n] = [i \in 1 .. k |-> streamed[n] + i]
      /\ batch'[n] \in Seq(Nat) /\ Len(batch'[n]) = k
      /\ streamed'[n] = streamed[n] + k /\ row'[n] = 0
  BY <1>1, <1>2 DEF IInv, TypeOK
<1>4. /\ phase' = [phase EXCEPT ![n] = "reading"]
      /\ data' = data /\ attrs' = attrs /\ pinned' = pinned /\ colOf' = colOf
      /\ out' = out /\ through' = through
  BY DEF FetchBatch
<1>5. Open(n) /\ phase'[n] = "reading" /\ \A m \in Node : Open(m)' <=> Open(m)
  BY <1>4 DEF FetchBatch, Open, IInv, TypeOK
<1>6. TypeOK'
  <2>1. empties' \in [Node -> Nat]
    BY <1>1 DEF IInv, TypeOK
  <2>2. streamed' \in [Node -> Nat]
    BY <1>1, <1>2 DEF IInv, TypeOK
  <2>3. batch' \in [Node -> Seq(Nat)]
    BY <1>1, <1>3 DEF IInv, TypeOK
  <2>4. row' \in [Node -> Nat]
    BY <1>1 DEF IInv, TypeOK
  <2>5. /\ data' \in Seq(Contents) /\ data' # <<>> /\ attrs' \in Tables
        /\ pinned' \in [Node -> 1 .. Len(data')] /\ colOf' \in [Node -> Seq(Nat)]
        /\ out' \in [Node -> Seq(Seq(Value \union {Null}))]
        /\ through' \in [Node -> SUBSET Seq(Seq(Value \union {Null}))]
    BY <1>4 DEF IInv, TypeOK
  <2>6. /\ boxed' \in Nat /\ failed' \in Nat /\ stmts' \in 0 .. MaxStatements
        /\ phase' \in [Node -> {"none", "init", "explained", "ready", "reading", "end", "closed"}]
    BY <1>4 DEF FetchBatch, IInv, TypeOK
  <2>7. \A m \in Node : Open(m)' => DOMAIN colOf'[m] = DOMAIN attrs'
    BY <1>4, <1>5 DEF IInv, TypeOK
  <2> QED
    BY <2>1, <2>2, <2>3, <2>4, <2>5, <2>6, <2>7 DEF TypeOK
<1>7. ScanInv(n)'
  <2>1. /\ \A p : Tuple(n, p)' = Tuple(n, p)
        /\ Held(n)' = Held(n) /\ Rows(n)' = Rows(n) /\ TuplesOf(n)' = TuplesOf(n)
    BY <1>4 DEF Tuple, Held, Rows, TuplesOf
  <2>2. CursorInv(n)
    BY <1>5 DEF IInv, ScanInv
  <2>3. PICK l, b, r, s, o \in Nat :
          /\ l = Len(Rows(n)) /\ b = Len(batch[n]) /\ r = row[n]
          /\ s = streamed[n] /\ o = Len(out[n])
          /\ r <= b /\ b <= s /\ s <= l /\ o = s - b + r
    BY <2>2, Lengths DEF IInv
  <2>4. row[n] >= Len(batch[n]) /\ k <= Len(Rows(n)) - streamed[n]
    BY <1>1 DEF FetchBatch, NeedBatch, Left, Rows
  <2>5. r = b
    BY <2>3, <2>4
  <2>6. o = s /\ s + k <= l /\ k <= s + k /\ 0 <= k /\ s = (s + k) - k + 0
    BY <1>2, <2>3, <2>4, <2>5
  <2>7. \A i \in DOMAIN batch'[n] : batch'[n][i] = streamed'[n] - Len(batch'[n]) + i
    BY <1>2, <1>3
  <2>8. CursorInv(n)'
    <3>1. /\ streamed'[n] <= Len(Rows(n)')
          /\ Len(batch'[n]) <= streamed'[n]
          /\ row'[n] <= Len(batch'[n])
          /\ Len(out'[n]) = streamed'[n] - Len(batch'[n]) + row'[n]
      BY <1>3, <1>4, <2>1, <2>3, <2>6
    <3>2. \A p \in DOMAIN out'[n] : out'[n][p] = Tuple(n, p)'
      BY <1>4, <2>1, <2>2 DEF CursorInv
    <3> QED
      BY <1>5, <2>7, <3>1, <3>2 DEF CursorInv
  <2> QED
    BY <1>4, <1>5, <2>1, <2>8 DEF IInv, ScanInv, ColumnsBound, Passed
<1>8. \A m \in Node \ {n} : ScanInv(m)'
  <2> TAKE m \in Node \ {n}
  <2>1. Held(m)' = Held(m)
    BY <1>4 DEF Held
  <2>2. /\ phase'[m] = phase[m] /\ streamed'[m] = streamed[m]
        /\ batch'[m] = batch[m] /\ row'[m] = row[m]
    BY <1>1, <1>4 DEF IInv, TypeOK
  <2> QED
    BY <1>4, <2>1, <2>2, ScanStays DEF IInv
<1>9. InUse' = InUse
  BY <1>5 DEF InUse
<1> QED
  BY <1>6, <1>7, <1>8, <1>9, LeaksStay DEF IInv, FetchBatch

LEMMA ReturnRowInv ==
    ASSUME IInv, NEW n \in Node, ReturnRow(n)
    PROVE  IInv'
<1> USE DEF env, bound
<1> DEFINE pos == batch[n][row[n] + 1]
<1>1. /\ phase' = [phase EXCEPT ![n] = "ready"]
      /\ row' = [row EXCEPT ![n] = @ + 1]
      /\ out' = [out EXCEPT ![n] = Append(@, Tuple(n, pos))]
      /\ data' = data /\ attrs' = attrs /\ pinned' = pinned /\ colOf' = colOf
      /\ streamed' = streamed /\ batch' = batch /\ through' = through
  BY DEF ReturnRow
<1>2. Open(n) /\ phase'[n] = "ready" /\ \A m \in Node : Open(m)' <=> Open(m)
  BY <1>1 DEF ReturnRow, Open, IInv, TypeOK
<1>3. CursorInv(n) /\ ColumnsBound(n)
  BY <1>2 DEF IInv, ScanInv
<1>4. PICK l, b, r, s, o \in Nat :
        /\ l = Len(Rows(n)) /\ DOMAIN Rows(n) = 1 .. l
        /\ b = Len(batch[n]) /\ DOMAIN batch[n] = 1 .. b
        /\ r = row[n] /\ s = streamed[n]
        /\ o = Len(out[n]) /\ DOMAIN out[n] = 1 .. o
        /\ r < b /\ b <= s /\ s <= l /\ o = s - b + r
  <2>1. ~(row[n] >= Len(batch[n]))
    BY DEF ReturnRow, NeedBatch
  <2> QED
    BY <1>3, <2>1, Lengths DEF IInv
<1>5. pos = o + 1 /\ pos \in DOMAIN Rows(n)
  <2>1. r + 1 \in 1 .. b
    BY <1>4
  <2>2. \A i \in DOMAIN batch[n] : batch[n][i] = streamed[n] - Len(batch[n]) + i
    BY <1>3 DEF CursorInv
  <2>3. \A i \in 1 .. b : batch[n][i] = s - b + i
    BY <1>4, <2>2
  <2>4. pos = s - b + (r + 1)
    BY <1>4, <2>1, <2>3
  <2>5. r < b /\ b <= s /\ s <= l /\ o = s - b + r
    BY <1>4
  <2>6. s - b + (r + 1) = o + 1
    BY <2>5
  <2>7. o + 1 \in 1 .. l
    BY <2>5
  <2> QED
    BY <1>4, <2>4, <2>6, <2>7
<1>6. Tuple(n, pos) \in Seq(Value \union {Null})
  BY <1>3, <1>5, TupleIsTyped DEF IInv
<1>7. /\ out[n] \in Seq(Seq(Value \union {Null}))
      /\ out'[n] = Append(out[n], Tuple(n, pos))
  BY <1>1 DEF IInv, TypeOK
<1>8. /\ out'[n] \in Seq(Seq(Value \union {Null})) /\ Len(out'[n]) = o + 1
      /\ \A p \in 1 .. o : out'[n][p] = out[n][p]
      /\ out'[n][o + 1] = Tuple(n, pos)
      /\ DOMAIN out'[n] = 1 .. (o + 1)
  <2> DEFINE T == Seq(Value \union {Null})
  <2>1. out[n] \in Seq(T) /\ Tuple(n, pos) \in T /\ out'[n] = Append(out[n], Tuple(n, pos))
    BY <1>6, <1>7
  <2> HIDE DEF T, pos
  <2>2. out'[n] \in Seq(T) /\ Len(out'[n]) = o + 1 /\ out'[n][o + 1] = Tuple(n, pos)
    BY <1>4, <2>1, AppendProperties
  <2>3. \A p \in 1 .. o : out'[n][p] = out[n][p]
    BY <1>4, <2>1, AppendProperties
  <2>4. DOMAIN out'[n] = 1 .. (o + 1)
    BY <2>2
  <2> QED
    BY <2>2, <2>3, <2>4 DEF T
<1>9. TypeOK'
  <2>1. row' \in [Node -> Nat]
    <3>1. row \in [Node -> Nat]
      BY DEF IInv, TypeOK
    <3> QED
      BY <1>1, <3>1
  <2>2. out' \in [Node -> Seq(Seq(Value \union {Null}))]
    BY <1>1, <1>7, <1>8 DEF IInv, TypeOK
  <2> QED
    BY <1>1, <1>2, <2>1, <2>2 DEF ReturnRow, IInv, TypeOK
<1>10. ScanInv(n)'
  <2>1. /\ \A p : Tuple(n, p)' = Tuple(n, p)
        /\ Held(n)' = Held(n) /\ Rows(n)' = Rows(n) /\ TuplesOf(n)' = TuplesOf(n)
    BY <1>1 DEF Tuple, Held, Rows, TuplesOf
  <2>2. row'[n] = r + 1
    BY <1>1, <1>4 DEF IInv, TypeOK
  <2>3. \A p \in DOMAIN out'[n] : out'[n][p] = Tuple(n, p)'
    <3>1. \A p \in 1 .. o : out[n][p] = Tuple(n, p)
      BY <1>3, <1>4 DEF CursorInv
    <3>2. \A p \in 1 .. (o + 1) : p \in 1 .. o \/ p = o + 1
      OBVIOUS
    <3> QED
      BY <1>5, <1>8, <2>1, <3>1, <3>2
  <2>4. r + 1 <= b /\ o + 1 = s - b + (r + 1)
    <3>1. r < b /\ o = s - b + r
      BY <1>4
    <3> QED
      BY <3>1
  <2>5. CursorInv(n)'
    BY <1>1, <1>2, <1>3, <1>4, <1>8, <2>1, <2>2, <2>3, <2>4 DEF CursorInv
  <2> QED
    BY <1>1, <1>2, <2>1, <2>5 DEF IInv, ScanInv, ColumnsBound, Passed
<1>11. \A m \in Node \ {n} : ScanInv(m)'
  <2> TAKE m \in Node \ {n}
  <2>1. Held(m)' = Held(m)
    BY <1>1 DEF Held
  <2>2. phase'[m] = phase[m] /\ row'[m] = row[m] /\ out'[m] = out[m]
    BY <1>1 DEF IInv, TypeOK
  <2> QED
    BY <1>1, <2>1, <2>2, ScanStays DEF IInv
<1>12. InUse' = InUse
  BY <1>2 DEF InUse
<1> QED
  BY <1>9, <1>10, <1>11, <1>12, LeaksStay DEF IInv, ReturnRow

\* At the end of the stream the pass has returned every row.
LEMMA EndIsComplete ==
    ASSUME IInv, NEW n \in Node, EndOfStream(n)
    PROVE  /\ Open(n) /\ CursorInv(n) /\ ColumnsBound(n)
           /\ streamed[n] = Len(Rows(n)) /\ row[n] = Len(batch[n])
           /\ out[n] = TuplesOf(n)
<1>1. Open(n) /\ CursorInv(n) /\ ColumnsBound(n)
  BY DEF EndOfStream, Open, IInv, ScanInv
<1>2. PICK l, b, r, s, o \in Nat :
        /\ l = Len(Rows(n)) /\ DOMAIN Rows(n) = 1 .. l
        /\ b = Len(batch[n]) /\ r = row[n] /\ s = streamed[n]
        /\ o = Len(out[n]) /\ DOMAIN out[n] = 1 .. o
        /\ r <= b /\ b <= s /\ s <= l /\ o = s - b + r
  BY <1>1, Lengths DEF IInv
<1>3. row[n] >= Len(batch[n]) /\ Len(Rows(n)) - streamed[n] = 0
  BY DEF EndOfStream, NeedBatch, StreamEnds, Left, Rows
<1>4. r = b /\ s = l
  BY <1>2, <1>3
<1>5. o = l
  BY <1>2, <1>4
<1>6. \A p \in 1 .. l : out[n][p] = Tuple(n, p)
  BY <1>1, <1>2, <1>5 DEF CursorInv
<1>7. out[n] \in Seq(Seq(Value \union {Null}))
  BY DEF IInv, TypeOK
<1>8. out[n] = [p \in 1 .. l |-> Tuple(n, p)]
  <2>1. out[n] \in [1 .. o -> Seq(Value \union {Null})]
    BY <1>2, <1>7
  <2> QED
    BY <1>5, <1>6, <2>1
<1> QED
  BY <1>1, <1>2, <1>4, <1>8 DEF TuplesOf, Rows

LEMMA EndOfStreamInv ==
    ASSUME IInv, NEW n \in Node, EndOfStream(n)
    PROVE  IInv'
<1> USE DEF env, cursor
<1>1. /\ phase' = [phase EXCEPT ![n] = "end"]
      /\ through' = [through EXCEPT ![n] = @ \union {out[n]}]
      /\ data' = data /\ attrs' = attrs /\ pinned' = pinned /\ colOf' = colOf
      /\ streamed' = streamed /\ batch' = batch /\ row' = row /\ out' = out
  BY DEF EndOfStream
<1>2. Open(n) /\ phase'[n] = "end" /\ \A m \in Node : Open(m)' <=> Open(m)
  BY <1>1 DEF EndOfStream, Open, IInv, TypeOK
<1>3. TypeOK'
  <2>1. out[n] \in Seq(Seq(Value \union {Null}))
    BY DEF IInv, TypeOK
  <2>2. through' \in [Node -> SUBSET Seq(Seq(Value \union {Null}))]
    BY <1>1, <2>1 DEF IInv, TypeOK
  <2> QED
    BY <1>1, <1>2, <2>2 DEF EndOfStream, IInv, TypeOK
<1>4. ScanInv(n)'
  <2>1. /\ \A p : Tuple(n, p)' = Tuple(n, p)
        /\ Held(n)' = Held(n) /\ Rows(n)' = Rows(n) /\ TuplesOf(n)' = TuplesOf(n)
    BY <1>1 DEF Tuple, Held, Rows, TuplesOf
  <2>2. through'[n] = through[n] \union {out[n]}
    BY <1>1 DEF IInv, TypeOK
  <2>3. Passed(n)'
    BY <2>1, <2>2, EndIsComplete DEF Passed, IInv, ScanInv
  <2>4. CursorInv(n)' /\ ColumnsBound(n)'
    BY <1>1, <2>1, EndIsComplete DEF CursorInv, ColumnsBound
  <2> QED
    BY <1>2, <2>3, <2>4 DEF ScanInv
<1>5. \A m \in Node \ {n} : ScanInv(m)'
  <2> TAKE m \in Node \ {n}
  <2>1. Held(m)' = Held(m) /\ phase'[m] = phase[m] /\ through'[m] = through[m]
    BY <1>1 DEF Held, IInv, TypeOK
  <2> QED
    BY <1>1, <2>1, ScanStays DEF IInv
<1>6. InUse' = InUse
  BY <1>2 DEF InUse
<1> QED
  BY <1>3, <1>4, <1>5, <1>6, LeaksStay DEF IInv, EndOfStream

LEMMA RescanInv ==
    ASSUME IInv, NEW n \in Node, Rescan(n)
    PROVE  IInv'
<1> USE DEF env
<1>1. /\ phase'    = [phase EXCEPT ![n] = "ready"]
      /\ pinned'   = [pinned EXCEPT ![n] = pinned[n]]
      /\ streamed' = [streamed EXCEPT ![n] = 0]
      /\ empties'  = [empties EXCEPT ![n] = MaxEmpty]
      /\ batch'    = [batch EXCEPT ![n] = <<>>]
      /\ row'      = [row EXCEPT ![n] = 0]
      /\ out'      = [out EXCEPT ![n] = <<>>]
      /\ data' = data /\ attrs' = attrs /\ colOf' = colOf /\ through' = through
  BY DEF Rescan, StreamVersion
<1>2. pinned' = pinned
  BY <1>1 DEF IInv, TypeOK
<1>3. Open(n) /\ phase'[n] = "ready" /\ \A m \in Node : Open(m)' <=> Open(m)
  BY <1>1 DEF Rescan, Open, IInv, TypeOK
<1>4. TypeOK'
  <2>1. <<>> \in Seq(Nat) /\ <<>> \in Seq(Seq(Value \union {Null})) /\ MaxEmpty \in Nat
    BY EmptySeq, SizeAssumption
  <2>2. /\ streamed' \in [Node -> Nat] /\ empties' \in [Node -> Nat]
        /\ row' \in [Node -> Nat] /\ batch' \in [Node -> Seq(Nat)]
        /\ out' \in [Node -> Seq(Seq(Value \union {Null}))]
    BY <1>1, <2>1 DEF IInv, TypeOK
  <2>3. \A m \in Node : Open(m)' => DOMAIN colOf'[m] = DOMAIN attrs'
    BY <1>1, <1>3 DEF IInv, TypeOK
  <2>4. phase' \in [Node -> {"none", "init", "explained", "ready", "reading", "end", "closed"}]
    BY <1>1 DEF IInv, TypeOK
  <2>5. /\ data' \in Seq(Contents) /\ data' # <<>> /\ attrs' \in Tables
        /\ pinned' \in [Node -> 1 .. Len(data')] /\ colOf' \in [Node -> Seq(Nat)]
        /\ through' \in [Node -> SUBSET Seq(Seq(Value \union {Null}))]
    BY <1>1, <1>2 DEF IInv, TypeOK
  <2>6. boxed' \in Nat /\ failed' \in Nat /\ stmts' \in 0 .. MaxStatements
    BY DEF Rescan, IInv, TypeOK
  <2> QED
    BY <2>2, <2>3, <2>4, <2>5, <2>6 DEF TypeOK
<1>5. ScanInv(n)'
  <2>1. /\ \A p : Tuple(n, p)' = Tuple(n, p)
        /\ Held(n)' = Held(n) /\ Rows(n)' = Rows(n) /\ TuplesOf(n)' = TuplesOf(n)
    BY <1>1, <1>2 DEF Tuple, Held, Rows, TuplesOf
  <2>2. /\ streamed'[n] = 0 /\ batch'[n] = <<>> /\ row'[n] = 0 /\ out'[n] = <<>>
    BY <1>1 DEF IInv, TypeOK
  <2>3. Len(<<>>) = 0 /\ DOMAIN <<>> = {}
    OBVIOUS
  <2>4. 0 <= Len(Rows(n))
    BY HeldIsContent DEF IInv
  <2>5. CursorInv(n)'
    <3>1. Len(batch'[n]) = 0 /\ Len(out'[n]) = 0 /\ DOMAIN batch'[n] = {} /\ DOMAIN out'[n] = {}
      BY <2>2, <2>3
    <3>2. 0 <= 0 /\ 0 = 0 - 0 + 0
      OBVIOUS
    <3> QED
      BY <1>3, <2>1, <2>2, <2>4, <3>1, <3>2 DEF CursorInv
  <2> QED
    BY <1>1, <1>3, <2>1, <2>5 DEF IInv, ScanInv, ColumnsBound, Passed
<1>6. \A m \in Node \ {n} : ScanInv(m)'
  <2> TAKE m \in Node \ {n}
  <2>1. /\ Held(m)' = Held(m) /\ phase'[m] = phase[m] /\ streamed'[m] = streamed[m]
        /\ batch'[m] = batch[m] /\ row'[m] = row[m] /\ out'[m] = out[m]
    BY <1>1, <1>2 DEF Held, IInv, TypeOK
  <2> QED
    BY <1>1, <2>1, ScanStays DEF IInv
<1>7. InUse' = InUse
  BY <1>3 DEF InUse
<1> QED
  BY <1>4, <1>5, <1>6, <1>7, LeaksStay DEF IInv, Rescan

LEMMA CommitInv ==
    ASSUME IInv, NEW c \in Contents, Commit(c)
    PROVE  IInv'
<1> USE DEF scans, bound, cursor
<1>1. data' = Append(data, c) /\ UNCHANGED <<attrs, boxed, failed, stmts, scans>>
  BY DEF Commit
<1>2. \A m \in Node : Held(m)' = Held(m)
  BY CommitKeepsVersions DEF IInv
<1>3. TypeOK'
  <2>1. data' \in Seq(Contents) /\ data' # <<>> /\ Len(data') = Len(data) + 1
    BY <1>1, AppendProperties DEF IInv, TypeOK
  <2>2. PICK k \in Nat : k = Len(data)
    BY DEF IInv, TypeOK
  <2>3. 1 .. Len(data) \subseteq 1 .. Len(data')
    BY <2>1, <2>2
  <2>4. pinned' \in [Node -> 1 .. Len(data')]
    BY <1>1, <2>3 DEF IInv, TypeOK
  <2> QED
    BY <1>1, <2>1, <2>4 DEF IInv, TypeOK, Open
<1>4. \A m \in Node : ScanInv(m)'
  BY <1>1, <1>2, ScanStays DEF IInv
<1>5. InUse' = InUse
  BY <1>1 DEF InUse, Open
<1> QED
  BY <1>1, <1>3, <1>4, <1>5, LeaksStay DEF IInv

LEMMA EndScanInv ==
    ASSUME IInv, NEW n \in Node, EndScan(n)
    PROVE  IInv'
<1> USE DEF bound, cursor
<1>1. PICK c, u, f \in Nat :
        /\ c = Cardinality(Node) /\ u = Cardinality(InUse) /\ f = failed * c
        /\ u <= boxed /\ boxed <= u + f
  <2>1. PICK c \in Nat, u \in Nat : c = Cardinality(Node) /\ u = Cardinality(InUse)
    BY InUseCounts
  <2>2. failed * c \in Nat
    BY <2>1 DEF IInv, TypeOK
  <2> QED
    BY <2>1, <2>2 DEF IInv, LeaksOnlyByFailure
<1>2. Freed(n) = (IF Open(n) THEN 1 ELSE 0) /\ boxed' = boxed - Freed(n) /\ boxed \in Nat
  BY DEF EndScan, Freed, IInv, TypeOK
<1>3. data' = data /\ attrs' = attrs /\ failed' = failed /\ stmts' = stmts
  BY DEF EndScan
<1>4. n \in InUse <=> Open(n)
  BY DEF InUse
<1>5. Cardinality(InUse \ {n}) = u - Freed(n) /\ u - Freed(n) \in Nat
  <2>1. CASE Open(n)
    <3>1. Cardinality(InUse \ {n}) = Cardinality(InUse) - 1
      BY <1>4, <2>1, InUseCounts, FS_RemoveElement
    <3>2. Cardinality(InUse \ {n}) \in Nat
      BY InUseCounts, FS_RemoveElement, FS_CardinalityType
    <3> QED
      BY <1>1, <1>2, <2>1, <3>1, <3>2
  <2>2. CASE ~Open(n)
    <3>1. InUse \ {n} = InUse
      BY <1>4, <2>2
    <3> QED
      BY <1>1, <1>2, <2>2, <3>1
  <2> QED
    BY <2>1, <2>2
<1>6. ASSUME InUse' = InUse \ {n}
      PROVE  boxed' \in Nat /\ LeaksOnlyByFailure'
  <2>1. Cardinality(InUse)' = u - Freed(n)
    BY <1>5, <1>6
  <2>2. PICK d \in {0, 1} : d = Freed(n)
    BY <1>2
  <2>3. u - d \in Nat /\ u <= boxed /\ boxed <= u + f /\ boxed' = boxed - d
    BY <1>1, <1>2, <1>5, <2>2
  <2>4. boxed' \in Nat /\ u - d <= boxed' /\ boxed' <= (u - d) + f
    BY <1>2, <2>3
  <2> QED
    BY <1>1, <1>3, <2>1, <2>2, <2>4 DEF LeaksOnlyByFailure
<1>7. CASE \A m \in Node \ {n} : phase[m] = "closed"
  <2>1. Forget
    BY <1>7 DEF EndScan
  <2>2. InUse' = InUse \ {n}
    BY <1>7, <2>1, ForgetInv DEF InUse, Open
  <2> QED
    BY <1>3, <1>6, <2>1, <2>2, ForgetInv, ForgetTypes DEF IInv, TypeOK
<1>8. CASE ~\A m \in Node \ {n} : phase[m] = "closed"
  <2>1. phase' = [phase EXCEPT ![n] = "closed"] /\ UNCHANGED <<bound, cursor>>
    BY <1>8 DEF EndScan
  <2>2. \A m \in Node : Open(m)' <=> Open(m) /\ m # n
    BY <2>1 DEF Open, IInv, TypeOK
  <2>3. InUse' = InUse \ {n}
    BY <2>2 DEF InUse
  <2>4. TypeOK'
    <3>1. phase' \in [Node -> {"none", "init", "explained", "ready", "reading", "end", "closed"}]
      BY <2>1 DEF IInv, TypeOK
    <3>2. boxed' \in Nat
      BY <1>6, <2>3
    <3> QED
      BY <1>3, <2>1, <2>2, <3>1, <3>2 DEF IInv, TypeOK
  <2>5. \A m \in Node : Held(m)' = Held(m)
    BY <1>3, <2>1 DEF Held
  <2>6. \A m \in Node \ {n} : ScanInv(m)'
    <3> TAKE m \in Node \ {n}
    <3>1. phase'[m] = phase[m]
      BY <2>1 DEF IInv, TypeOK
    <3> QED
      BY <1>3, <2>1, <2>5, <3>1, ScanStays DEF IInv
  <2>7. ScanInv(n)'
    <3>1. TuplesOf(n)' = TuplesOf(n)
      BY <1>3, <2>1, <2>5 DEF TuplesOf, Tuple, Held
    <3>2. phase'[n] = "closed"
      BY <2>1 DEF IInv, TypeOK
    <3> QED
      BY <2>1, <2>2, <3>1, <3>2 DEF IInv, ScanInv, Passed
  <2> QED
    BY <1>6, <2>3, <2>4, <2>6, <2>7 DEF IInv
<1> QED
  BY <1>7, <1>8

LEMMA StutterInv ==
    ASSUME IInv, UNCHANGED vars
    PROVE  IInv'
<1> USE DEF vars, env, scans, bound, cursor
<1>1. TypeOK'
  BY DEF IInv, TypeOK, Open
<1>2. \A n \in Node : ScanInv(n)'
  BY ScanStays DEF IInv, Held
<1>3. InUse' = InUse
  BY DEF InUse, Open
<1> QED
  BY <1>1, <1>2, <1>3, LeaksStay DEF IInv

THEOREM Inductive == Spec => []IInv
<1>1. Init => IInv
  BY InitInv
<1>2. IInv /\ [Next]_vars => IInv'
  <2> SUFFICES ASSUME IInv, [Next]_vars PROVE IInv'
    OBVIOUS
  <2>1. ASSUME NEW a \in Tables, Start(a) PROVE IInv'
    BY <2>1, StartInv
  <2>2. ASSUME NEW n \in Node, BeginScan(n) \/ ExplainOnly(n) PROVE IInv'
    BY <2>2, BeginInv, ExplainInv
  <2>3. ASSUME NEW n \in Node, BeginFails(n) \/ ScanFails(n) PROVE IInv'
    BY <2>3, AbortInv DEF BeginFails, ScanFails
  <2>4. ASSUME NEW n \in Node, Iterate(n) PROVE IInv'
    BY <2>4, FetchBatchInv, ReturnRowInv, EndOfStreamInv DEF Iterate
  <2>5. ASSUME NEW n \in Node, Rescan(n) \/ EndScan(n) PROVE IInv'
    BY <2>5, RescanInv, EndScanInv
  <2>6. ASSUME NEW c \in Contents, Commit(c) PROVE IInv'
    BY <2>6, CommitInv
  <2>7. CASE Finished \/ UNCHANGED vars
    BY <2>7, StutterInv DEF Finished
  <2> QED
    BY <2>1, <2>2, <2>3, <2>4, <2>5, <2>6, <2>7 DEF Next
<1> QED
  BY <1>1, <1>2, PTL DEF Spec

-----------------------------------------------------------------------------
(* The properties.                                                         *)

\* Every variable keeps its type.
THEOREM ScanTypeCorrect == Spec => []TypeOK
  BY Inductive, PTL DEF IInv

\* A pass returns the rows of the version its scan is pinned to, in order,
\* each attribute with the column of its name, and all of them when it ends.
THEOREM PassShowsVersionCorrect == Spec => []PassShowsVersion
<1>1. ASSUME IInv PROVE PassShowsVersion
  <2> SUFFICES ASSUME NEW n \in Node, Open(n)
               PROVE  /\ Shows(attrs, Held(n), out[n])
                      /\ phase[n] = "end" => Len(out[n]) = Len(Held(n).rows)
    BY DEF PassShowsVersion
  <2>1. ColumnsBound(n) /\ CursorInv(n)
    BY <1>1 DEF IInv, ScanInv
  <2>2. PICK l, b, r, s, o \in Nat :
          /\ l = Len(Rows(n)) /\ b = Len(batch[n]) /\ r = row[n]
          /\ s = streamed[n] /\ o = Len(out[n])
          /\ r <= b /\ b <= s /\ s <= l /\ o = s - b + r
    BY <1>1, <2>1, Lengths DEF IInv
  <2>3. o <= l
    BY <2>2
  <2>4. phase[n] = "end" => o = l
    <3>1. phase[n] = "end" => s = l /\ r = b
      BY <2>1, <2>2 DEF CursorInv
    <3> QED
      BY <2>2, <3>1
  <2>5. ASSUME NEW p \in DOMAIN out[n], NEW i \in DOMAIN attrs
        PROVE  IF attrs[i] = Dropped THEN out[n][p][i] = Null
               ELSE \E j \in DOMAIN Held(n).cols :
                      /\ Held(n).cols[j].name = attrs[i].name
                      /\ out[n][p][i] = Held(n).rows[p][j]
    <3>1. out[n][p] = Tuple(n, p)
      BY <2>1 DEF CursorInv
    <3>2. CASE attrs[i] = Dropped
      BY <3>1, <3>2 DEF Tuple
    <3>3. CASE attrs[i] # Dropped
      <4>1. out[n][p][i] = Held(n).rows[p][colOf[n][i]]
        BY <3>1, <3>3 DEF Tuple
      <4> QED
        BY <2>1, <3>3, <4>1 DEF ColumnsBound
    <3> QED
      BY <3>2, <3>3
  <2> QED
    BY <2>2, <2>3, <2>4, <2>5 DEF Shows, Rows
<1> QED
  BY <1>1, Inductive, PTL

\* All passes of a scan that reach the end return the same tuples.
THEOREM PassesAgreeCorrect == Spec => []PassesAgree
<1>1. IInv => PassesAgree
  BY DEF IInv, ScanInv, Passed, PassesAgree
<1> QED
  BY <1>1, Inductive, PTL

\* Only statements that fail leave a scan's state allocated.
THEOREM LeaksOnlyByFailureCorrect == Spec => []LeaksOnlyByFailure
  BY Inductive, PTL DEF IInv

-----------------------------------------------------------------------------
(* The scans implement the abstract one.                                   *)

ListOf(n)  == IF Open(n) THEN TuplesOf(n) ELSE <<>>
GivenOf(n) == IF Open(n) THEN out[n] ELSE <<>>

\* What the abstract scan sees of n is as it was.
Unseen(n) ==
    /\ StateOf(n)' = StateOf(n)
    /\ ListOf(n)'  = ListOf(n)
    /\ GivenOf(n)' = GivenOf(n)

LEMMA UnseenScan ==
    ASSUME NEW n \in Node, phase'[n] = phase[n], Held(n)' = Held(n),
           attrs' = attrs, colOf'[n] = colOf[n], out'[n] = out[n]
    PROVE  Unseen(n)
<1>1. TuplesOf(n)' = TuplesOf(n)
  BY DEF TuplesOf, Tuple
<1> QED
  BY <1>1 DEF Unseen, StateOf, ListOf, GivenOf, Open

LEMMA AllUnseen ==
    ASSUME \A n \in Node : Unseen(n)
    PROVE  UNCHANGED Scan!svars
  BY DEF Unseen, ListOf, GivenOf, Scan!svars

\* Only n is seen to change.
LEMMA OneSeen ==
    ASSUME NEW n \in Node, \A m \in Node \ {n} : Unseen(m)
    PROVE  /\ [m \in Node |-> StateOf(m)]' =
                [[m \in Node |-> StateOf(m)] EXCEPT ![n] = StateOf(n)']
           /\ [m \in Node |-> ListOf(m)]' =
                [[m \in Node |-> ListOf(m)] EXCEPT ![n] = ListOf(n)']
           /\ [m \in Node |-> GivenOf(m)]' =
                [[m \in Node |-> GivenOf(m)] EXCEPT ![n] = GivenOf(n)']
  BY DEF Unseen

\* A scan that has just begun is opened on the tuples of a version.
LEMMA BoundToVersion ==
    ASSUME IInv, NEW n \in Node, BeginScan(n)
    PROVE  TuplesOf(n)' \in TupleLists
<1>1. PICK k \in Nat : k = Len(data) /\ k > 0
  BY EmptySeq DEF IInv, TypeOK
<1>2. data[Latest] \in Contents
  BY <1>1 DEF Latest, IInv, TypeOK
<1>3. /\ Held(n)' = data[Latest] /\ attrs' = attrs /\ attrs \in Tables
      /\ colOf'[n] = [i \in DOMAIN attrs |-> ColumnIndex(attrs, data[Latest], i)]
  BY DEF BeginScan, Held, IInv, TypeOK
<1>4. \A p : Tuple(n, p)' =
        [i \in DOMAIN attrs |->
           IF attrs[i] = Dropped THEN Null
           ELSE data[Latest].rows[p][ColumnIndex(attrs, data[Latest], i)]]
  BY <1>3 DEF Tuple
<1>5. TuplesOf(n)' = TuplesIn(data[Latest], attrs)
  <2> DEFINE c == data[Latest]
  <2>1. ASSUME NEW i \in DOMAIN attrs, attrs[i] # Dropped
        PROVE  ColumnIndex(attrs, c, i) =
                 CHOOSE j \in DOMAIN c.cols : c.cols[j].name = attrs[i].name
    BY <2>1 DEF ColumnIndex
  <2>2. TuplesOf(n)' = [p \in DOMAIN c.rows |-> Tuple(n, p)']
    BY <1>3 DEF TuplesOf
  <2>3. \A p : Tuple(n, p)' =
          [i \in DOMAIN attrs |->
             IF attrs[i] = Dropped THEN Null
             ELSE c.rows[p][CHOOSE j \in DOMAIN c.cols : c.cols[j].name = attrs[i].name]]
    BY <1>4, <2>1
  <2> QED
    BY <2>2, <2>3 DEF TuplesIn
<1>6. Binds(attrs, data[Latest])
  BY DEF BeginScan
<1> QED
  BY <1>2, <1>3, <1>5, <1>6 DEF TupleLists

LEMMA BeginOpens ==
    ASSUME IInv, NEW n \in Node, BeginScan(n)
    PROVE  Scan!Open(n)
<1>1. /\ phase[n] = "init" /\ phase'[n] = "ready"
      /\ ~Open(n) /\ Open(n)' /\ out'[n] = <<>>
  BY DEF BeginScan, Open, IInv, TypeOK, ScanInv, Blank
<1>2. \A m \in Node \ {n} : Unseen(m)
  <2> TAKE m \in Node \ {n}
  <2>1. /\ phase'[m] = phase[m] /\ Held(m)' = Held(m) /\ attrs' = attrs
        /\ colOf'[m] = colOf[m] /\ out'[m] = out[m]
    BY DEF BeginScan, Held, IInv, TypeOK
  <2> QED
    BY <2>1, UnseenScan
<1>3. StateOf(n) = "closed" /\ StateOf(n)' = "open"
  BY <1>1 DEF StateOf
<1>4. ListOf(n)' \in TupleLists
  BY <1>1, BoundToVersion DEF ListOf
<1>5. GivenOf(n)' = GivenOf(n)
  BY <1>1 DEF GivenOf
<1> QED
  BY <1>2, <1>3, <1>4, <1>5, OneSeen DEF Scan!Open, ListOf, GivenOf

LEMMA FetchIsUnseen ==
    ASSUME IInv, NEW n \in Node, FetchBatch(n)
    PROVE  UNCHANGED Scan!svars
<1>1. /\ phase' = [phase EXCEPT ![n] = "reading"] /\ phase[n] \in {"ready", "reading"}
      /\ data' = data /\ attrs' = attrs /\ pinned' = pinned /\ colOf' = colOf
      /\ out' = out
  BY DEF FetchBatch, env, bound
<1>2. \A m \in Node : TuplesOf(m)' = TuplesOf(m)
  BY <1>1 DEF TuplesOf, Tuple, Held
<1>3. \A m \in Node : StateOf(m)' = StateOf(m) /\ (Open(m)' <=> Open(m))
  BY <1>1 DEF StateOf, Open, IInv, TypeOK
<1> QED
  BY <1>1, <1>2, <1>3, AllUnseen DEF Unseen, ListOf, GivenOf

LEMMA ReturnGivesNext ==
    ASSUME IInv, NEW n \in Node, ReturnRow(n)
    PROVE  Scan!GiveNext(n)
<1>1. /\ phase' = [phase EXCEPT ![n] = "ready"] /\ phase[n] \in {"ready", "reading"}
      /\ data' = data /\ attrs' = attrs /\ pinned' = pinned /\ colOf' = colOf
      /\ out' = [out EXCEPT ![n] = Append(@, Tuple(n, batch[n][row[n] + 1]))]
  BY DEF ReturnRow, env, bound
<1>2. /\ Open(n) /\ Open(n)' /\ CursorInv(n) /\ ColumnsBound(n)
      /\ StateOf(n) = "open" /\ StateOf(n)' = "open"
  BY <1>1 DEF Open, StateOf, IInv, TypeOK, ScanInv
<1>3. \A m \in Node : TuplesOf(m)' = TuplesOf(m)
  BY <1>1 DEF TuplesOf, Tuple, Held
<1>4. PICK l, b, r, s, o \in Nat :
        /\ l = Len(Rows(n)) /\ DOMAIN Rows(n) = 1 .. l
        /\ b = Len(batch[n]) /\ DOMAIN batch[n] = 1 .. b
        /\ r = row[n] /\ s = streamed[n] /\ o = Len(out[n])
        /\ r < b /\ b <= s /\ s <= l /\ o = s - b + r
  <2>1. ~(row[n] >= Len(batch[n]))
    BY DEF ReturnRow, NeedBatch
  <2> QED
    BY <1>2, <2>1, Lengths DEF IInv
<1>5. r < b /\ b <= s /\ s <= l /\ o = s - b + r
  BY <1>4
<1>6. batch[n][r + 1] = o + 1
  <2>1. \A i \in DOMAIN batch[n] : batch[n][i] = streamed[n] - Len(batch[n]) + i
    BY <1>2 DEF CursorInv
  <2>2. \A i \in 1 .. b : batch[n][i] = s - b + i
    BY <1>4, <2>1
  <2>3. r + 1 \in 1 .. b /\ s - b + (r + 1) = o + 1
    BY <1>5
  <2>4. batch[n][r + 1] = s - b + (r + 1)
    BY <2>2, <2>3
  <2> QED
    BY <2>3, <2>4
<1>7. o + 1 \in 1 .. l /\ o < l
  BY <1>5
<1>8. Tuple(n, o + 1) = TuplesOf(n)[o + 1]
  BY <1>4, <1>7 DEF TuplesOf, Rows
<1>9. Len(TuplesOf(n)) = l
  BY <1>2, <1>4, TuplesAreTyped DEF IInv
<1>10. out'[n] = Append(out[n], TuplesOf(n)[Len(out[n]) + 1])
  BY <1>1, <1>4, <1>6, <1>8 DEF IInv, TypeOK
<1>11. \A m \in Node \ {n} : Unseen(m)
  <2> TAKE m \in Node \ {n}
  <2>1. phase'[m] = phase[m] /\ out'[m] = out[m] /\ Held(m)' = Held(m)
    BY <1>1 DEF Held, IInv, TypeOK
  <2> QED
    BY <1>1, <2>1, UnseenScan
<1>12. /\ GivenOf(n) = out[n] /\ ListOf(n) = TuplesOf(n) /\ ListOf(n)' = ListOf(n)
       /\ GivenOf(n)' = out'[n]
  BY <1>2, <1>3 DEF GivenOf, ListOf
<1>13. Len(out[n]) < Len(TuplesOf(n))
  BY <1>4, <1>7, <1>9
<1>14. /\ [m \in Node |-> StateOf(m)]' = [m \in Node |-> StateOf(m)]
       /\ [m \in Node |-> ListOf(m)]' = [m \in Node |-> ListOf(m)]
       /\ [m \in Node |-> GivenOf(m)]' =
            [[m \in Node |-> GivenOf(m)] EXCEPT
               ![n] = Append(@, [m \in Node |-> ListOf(m)][n][Len(@) + 1])]
  BY <1>2, <1>10, <1>11, <1>12, OneSeen DEF Unseen
<1> QED
  BY <1>2, <1>12, <1>13, <1>14 DEF Scan!GiveNext, ListOf, GivenOf

LEMMA EndGivesNone ==
    ASSUME IInv, NEW n \in Node, EndOfStream(n)
    PROVE  Scan!GiveNone(n)
<1>1. /\ phase' = [phase EXCEPT ![n] = "end"] /\ phase[n] \in {"ready", "reading"}
      /\ data' = data /\ attrs' = attrs /\ pinned' = pinned /\ colOf' = colOf
      /\ out' = out
  BY DEF EndOfStream, env, cursor
<1>2. /\ Open(n) /\ Open(n)' /\ StateOf(n) = "open" /\ StateOf(n)' = "through"
  BY <1>1 DEF Open, StateOf, IInv, TypeOK
<1>3. \A m \in Node : TuplesOf(m)' = TuplesOf(m)
  BY <1>1 DEF TuplesOf, Tuple, Held
<1>4. GivenOf(n) = ListOf(n) /\ ListOf(n)' = ListOf(n) /\ GivenOf(n)' = GivenOf(n)
  BY <1>1, <1>2, <1>3, EndIsComplete DEF GivenOf, ListOf
<1>5. \A m \in Node \ {n} : Unseen(m)
  <2> TAKE m \in Node \ {n}
  <2>1. phase'[m] = phase[m] /\ Held(m)' = Held(m)
    BY <1>1 DEF Held, IInv, TypeOK
  <2> QED
    BY <1>1, <2>1, UnseenScan
<1>6. /\ [m \in Node |-> ListOf(m)]' = [m \in Node |-> ListOf(m)]
      /\ [m \in Node |-> GivenOf(m)]' = [m \in Node |-> GivenOf(m)]
  BY <1>4, <1>5 DEF Unseen
<1> QED
  BY <1>2, <1>4, <1>5, <1>6, OneSeen DEF Scan!GiveNone, ListOf, GivenOf

LEMMA RescanRestarts ==
    ASSUME IInv, NEW n \in Node, Rescan(n)
    PROVE  Scan!Restart(n)
<1>1. /\ phase' = [phase EXCEPT ![n] = "ready"] /\ phase[n] \in {"ready", "end"}
      /\ data' = data /\ attrs' = attrs /\ colOf' = colOf
      /\ pinned' = pinned
      /\ out' = [out EXCEPT ![n] = <<>>]
  BY DEF Rescan, StreamVersion, env, IInv, TypeOK
<1>2. /\ Open(n) /\ Open(n)' /\ StateOf(n) # "closed" /\ StateOf(n)' = "open"
      /\ out'[n] = <<>>
  BY <1>1 DEF Open, StateOf, IInv, TypeOK
<1>3. \A m \in Node : TuplesOf(m)' = TuplesOf(m)
  BY <1>1 DEF TuplesOf, Tuple, Held
<1>4. ListOf(n)' = ListOf(n) /\ GivenOf(n)' = <<>>
  BY <1>1, <1>2, <1>3 DEF GivenOf, ListOf
<1>5. \A m \in Node \ {n} : Unseen(m)
  <2> TAKE m \in Node \ {n}
  <2>1. phase'[m] = phase[m] /\ out'[m] = out[m] /\ Held(m)' = Held(m)
    BY <1>1 DEF Held, IInv, TypeOK
  <2> QED
    BY <1>1, <2>1, UnseenScan
<1>6. [m \in Node |-> ListOf(m)]' = [m \in Node |-> ListOf(m)]
  BY <1>4, <1>5 DEF Unseen
<1> QED
  BY <1>2, <1>4, <1>5, <1>6, OneSeen DEF Scan!Restart, ListOf, GivenOf

LEMMA ForgetCloses ==
    ASSUME IInv, Forget
    PROVE  Scan!Close(Node)
<1>1. \A m \in Node : StateOf(m)' = "closed" /\ ListOf(m)' = <<>> /\ GivenOf(m)' = <<>>
  BY ForgetInv DEF StateOf, ListOf, GivenOf
<1> QED
  BY <1>1 DEF Scan!Close, ListOf, GivenOf

LEMMA EndCloses ==
    ASSUME IInv, NEW n \in Node, EndScan(n)
    PROVE  \E S \in SUBSET Node : Scan!Close(S)
<1>1. CASE Forget
  BY <1>1, ForgetCloses
<1>2. CASE ~Forget
  <2>1. /\ phase' = [phase EXCEPT ![n] = "closed"]
        /\ data' = data /\ attrs' = attrs /\ pinned' = pinned /\ colOf' = colOf
        /\ out' = out
    BY <1>2 DEF EndScan, bound, cursor
  <2>2. StateOf(n)' = "closed" /\ ListOf(n)' = <<>> /\ GivenOf(n)' = <<>>
    BY <2>1 DEF StateOf, ListOf, GivenOf, Open, IInv, TypeOK
  <2>3. \A m \in Node \ {n} : Unseen(m)
    <3> TAKE m \in Node \ {n}
    <3>1. phase'[m] = phase[m] /\ Held(m)' = Held(m)
      BY <2>1 DEF Held, IInv, TypeOK
    <3> QED
      BY <2>1, <3>1, UnseenScan
  <2>4. Scan!Close({n})
    BY <2>2, <2>3 DEF Unseen, Scan!Close, ListOf, GivenOf
  <2> QED
    BY <2>4
<1> QED
  BY <1>1, <1>2

\* A step that neither opens a scan nor touches an open one.
LEMMA OthersUnseen ==
    ASSUME IInv,
           \/ \E a \in Tables : Start(a)
           \/ \E n \in Node : ExplainOnly(n)
           \/ \E c \in Contents : Commit(c)
           \/ UNCHANGED vars
    PROVE  UNCHANGED Scan!svars
<1>1. ASSUME NEW a \in Tables, Start(a) PROVE UNCHANGED Scan!svars
  <2>1. \A m \in Node : ~Open(m) /\ ~Open(m)'
    BY <1>1 DEF Start, Open
  <2> QED
    BY <2>1, AllUnseen DEF Unseen, StateOf, ListOf, GivenOf
<1>2. ASSUME NEW n \in Node, ExplainOnly(n) PROVE UNCHANGED Scan!svars
  <2>1. \A m \in Node : ~Open(m) /\ ~Open(m)'
    BY <1>2 DEF ExplainOnly, Open
  <2> QED
    BY <2>1, AllUnseen DEF Unseen, StateOf, ListOf, GivenOf
<1>3. ASSUME NEW c \in Contents, Commit(c) PROVE UNCHANGED Scan!svars
  <2>1. \A m \in Node : Held(m)' = Held(m)
    BY <1>3, CommitKeepsVersions DEF IInv
  <2>2. phase' = phase /\ attrs' = attrs /\ colOf' = colOf /\ out' = out
    BY <1>3 DEF Commit, scans, bound, cursor
  <2> QED
    BY <2>1, <2>2, UnseenScan, AllUnseen
<1>4. CASE UNCHANGED vars
  <2>1. \A m \in Node : Held(m)' = Held(m)
    BY <1>4 DEF vars, env, scans, bound, Held
  <2>2. phase' = phase /\ attrs' = attrs /\ colOf' = colOf /\ out' = out
    BY <1>4 DEF vars, env, scans, bound, cursor
  <2> QED
    BY <2>1, <2>2, UnseenScan, AllUnseen
<1> QED
  BY <1>1, <1>2, <1>3, <1>4

\* The scans, with their batches, rescans and failures, implement a scan that
\* is opened on the tuples of one version and gives them one by one.
THEOREM ScansImplement == Spec => ImplementsScan
<1>1. Init => Scan!Init
  <2> SUFFICES ASSUME Init PROVE Scan!Init
    OBVIOUS
  <2>1. \A n \in Node : ~Open(n)
    BY DEF Init, Open
  <2> QED
    BY <2>1 DEF Scan!Init, StateOf
<1>2. IInv /\ [Next]_vars => [Scan!Next]_(Scan!svars)
  <2> SUFFICES ASSUME IInv, [Next]_vars
               PROVE  Scan!Next \/ UNCHANGED Scan!svars
    OBVIOUS
  <2>1. ASSUME NEW n \in Node, BeginScan(n) PROVE Scan!Next
    BY <2>1, BeginOpens DEF Scan!Next
  <2>2. ASSUME NEW n \in Node, BeginFails(n) \/ ScanFails(n) PROVE Scan!Next
    <3>1. Forget
      BY <2>2 DEF BeginFails, ScanFails, Abort
    <3> QED
      BY <3>1, ForgetCloses DEF Scan!Next
  <2>3. ASSUME NEW n \in Node, FetchBatch(n) PROVE UNCHANGED Scan!svars
    BY <2>3, FetchIsUnseen
  <2>4. ASSUME NEW n \in Node, ReturnRow(n) \/ EndOfStream(n) PROVE Scan!Next
    BY <2>4, ReturnGivesNext, EndGivesNone DEF Scan!Next
  <2>5. ASSUME NEW n \in Node, Rescan(n) PROVE Scan!Next
    BY <2>5, RescanRestarts DEF Scan!Next
  <2>6. ASSUME NEW n \in Node, EndScan(n) PROVE Scan!Next
    BY <2>6, EndCloses DEF Scan!Next
  <2>7. CASE \/ \E a \in Tables : Start(a)
             \/ \E n \in Node : ExplainOnly(n)
             \/ \E c \in Contents : Commit(c)
             \/ Finished
             \/ UNCHANGED vars
    BY <2>7, OthersUnseen DEF Finished
  <2> QED
    BY <2>1, <2>2, <2>3, <2>4, <2>5, <2>6, <2>7 DEF Next, Iterate
<1> QED
  BY <1>1, <1>2, Inductive, PTL DEF Spec, ImplementsScan, Scan!Spec
=============================================================================
