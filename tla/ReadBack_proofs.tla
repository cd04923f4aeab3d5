-------------------------- MODULE ReadBack_proofs --------------------------
(***************************************************************************)
(* What a session sees of a dataset, whatever the datasets, queries and    *)
(* declarations, the widths of the integers and the depth of the types.    *)
(***************************************************************************)
EXTENDS ReadBack, ArrowValues_proofs

-----------------------------------------------------------------------------
(* What a query writes is a dataset.                                       *)

QueryColumn == [name : Name, base : Written, override : {<<>>} \union {<<n>> : n \in TypeNames}]
QueryCell   == [n : Numbers, sub : {<<>>}, null : BOOLEAN]

Columnar ==
    {"Boolean", "Int16", "Int32", "Int64", "Float32", "Float64", "Utf8", "Binary", "Date32",
     "Timestamp"}

LEMMA PlainType ==
    ASSUME NEW k \in Columnar \ {"Timestamp"}, NEW z \in BOOLEAN
    PROVE  Scalar(k) \in Types /\ Timestamp("us", z) \in Types
<1>1. 0 \in 0 .. MaxDepth /\ 0 \in Int
  BY DepthAssumption
<1>2. TypesTo[0] = TypesOver({}) /\ TypesTo[0] \subseteq Types
  BY <1>1, TypesToIs, TypesToGrow DEF Below, Types
<1>3. <<>> \in Seq(Name \X {}) /\ Named(<<>>)
  BY DEF Named
<1>4. k \in Kinds /\ "Timestamp" \in Kinds /\ k \notin Lists \union {"Dictionary", "Struct", "Timestamp"}
      /\ "Timestamp" \notin Lists
  BY DEF Columnar, Kinds, Lists, Integer
<1>5. Scalar(k) \in TypesOver({})
  BY <1>1, <1>3, <1>4 DEF TypesOver, Shaped, Scalar, Type
<1>6. PICK t : t = Timestamp("us", z)
  OBVIOUS
<1>7. t = [k |-> "Timestamp", sub |-> <<>>, scale |-> 0, unit |-> "us", tz |-> z]
  BY <1>6 DEF Timestamp, Scalar, Type
<1>8. t \in TypesOver({})
  BY <1>1, <1>3, <1>4, <1>7 DEF TypesOver, Shaped
<1> QED
  BY <1>2, <1>5, <1>6, <1>8

LEMMA ColumnTyped ==
    ASSUME NEW c \in QueryColumn
    PROVE  /\ ColumnType(c) \in Types /\ ColumnType(c).k \in Columnar /\ ColumnType(c).scale = 0
           /\ ColumnType(c).k = "Timestamp" => ColumnType(c).unit = "us"
<1>1. ASSUME NEW base \in Written
      PROVE  /\ ArrowType(base) \in Types /\ ArrowType(base).k \in Columnar /\ ArrowType(base).scale = 0
             /\ ArrowType(base).k = "Timestamp" => ArrowType(base).unit = "us"
  <2>1. CASE base \in Texts
    BY <2>1, PlainType DEF ArrowType, Texts, Columnar, Scalar, Type
  <2>2. CASE base \in {"timestamp", "timestamptz"}
    <3>1. \A z \in BOOLEAN : Timestamp("us", z) \in Types
      <4>1. "Utf8" \in Columnar \ {"Timestamp"}
        BY DEF Columnar
      <4> QED
        BY <4>1, PlainType
    <3> QED
      BY <2>2, <3>1 DEF ArrowType, Texts, Columnar, Scalar, Type, Timestamp
  <2>3. CASE base \notin Texts /\ base \notin {"timestamp", "timestamptz"}
    BY <2>3, PlainType DEF ArrowType, Written, Texts, Columnar, Scalar, Type
  <2> QED
    BY <2>1, <2>2, <2>3
<1>2. CASE c.override = <<>>
  BY <1>1, <1>2 DEF ColumnType, QueryColumn
<1>3. CASE c.override # <<>>
  <2>1. PICK n \in TypeNames : c.override = <<n>>
    BY <1>3 DEF QueryColumn
  <2>2. c.override[1] = n /\ n \in Written
    BY <2>1 DEF TypeNames
  <2>3. ColumnType(c) = ArrowType(n)
    BY <1>3, <2>1, <2>2 DEF ColumnType, NamedType
  <2> QED
    BY <1>1, <2>2, <2>3
<1> QED
  BY <1>2, <1>3

LEMMA PlainCell ==
    ASSUME NEW v, NEW x \in Numbers, NEW z \in BOOLEAN, v = [n |-> x, sub |-> <<>>, null |-> z]
    PROVE  v \in Cells /\ \A n \in 0 .. MaxDepth : v \in CellsTo[n]
<1>1. ASSUME NEW n \in 0 .. MaxDepth PROVE v \in CellsTo[n]
  <2>1. <<>> \in Seq(Below(CellsTo, n))
    OBVIOUS
  <2> QED
    BY <2>1, CellsToIs DEF CellsOver
<1> QED
  BY <1>1, DepthAssumption DEF Cells

LEMMA DatumInRange ==
    ASSUME NEW c \in QueryColumn, NEW cell, IsDatum(c, cell), ~cell.null,
           c.base \notin {"float4", "float8"}
    PROVE  cell.n \in I64
<1>1. /\ Max64 \in Nat /\ PgFirst \in Int /\ PgLast \in Int
      /\ -Max64 <= PgFirst /\ PgFirst <= PgLast /\ PgLast <= Max64 - 1
  BY TimeAssumption
<1>2. PgTimestamp \subseteq I64
  BY <1>1 DEF PgTimestamp, I64, Min64
<1>3. cell.n \in DatumsOf(c.base)
  BY DEF IsDatum
<1>4. DatumsOf(c.base) = PgTimestamp \/ DatumsOf(c.base) = I64
  BY DEF DatumsOf
<1> QED
  BY <1>2, <1>3, <1>4

LEMMA WrittenInRange ==
    ASSUME NEW p \in I64
    PROVE  ToUnix(p) \in I64 /\ I64 \subseteq Numbers /\ I64 \subseteq Int
<1>1. Max64 \in Nat /\ Epoch \in 0 .. Max64
  BY TimeAssumption
<1> QED
  BY <1>1 DEF I64, Min64, ToUnix, Wrapped, Size, Numbers

LEMMA AppendHeld ==
    ASSUME NEW c \in QueryColumn, NEW cell \in QueryCell, IsDatum(c, cell), NEW z, ~Panics(c, cell, z)
    PROVE  AppendDatum(c, cell) \in Cells /\ Holds[ColumnType(c)][AppendDatum(c, cell)]
<1>1. PICK t \in Types : t = ColumnType(c) /\ t.k \in Columnar /\ t.scale = 0
  BY ColumnTyped
<1>2. PICK v : v = AppendDatum(c, cell)
  OBVIOUS
<1>3. 0 \in Numbers /\ I64 \subseteq Numbers /\ I64 \subseteq Int
  BY WrittenInRange DEF Numbers
<1>4. v \in Cells /\ (v.null \/ v.n \in NumbersOf(t))
  <2>1. CASE cell.null \/ c.base \notin Reads(t)
    <3>1. v = [n |-> 0, sub |-> <<>>, null |-> TRUE]
      BY <1>1, <1>2, <2>1 DEF AppendDatum, Null
    <3> QED
      BY <1>3, <3>1, PlainCell
  <2>2. CASE ~cell.null /\ c.base \in Reads(t) /\ c.base \in {"timestamp", "timestamptz"}
    <3>1. v = [n |-> ToUnix(cell.n), sub |-> <<>>, null |-> FALSE]
      BY <1>1, <1>2, <2>2 DEF AppendDatum, Cell, Coded
    <3>2. cell.n \in I64
      BY <2>2, DatumInRange
    <3>3. ToUnix(cell.n) \in I64
      BY <3>2, WrittenInRange
    <3>4. t.k = "Timestamp"
      BY <1>1, <2>2, ReadingAssumption DEF Reads, Columnar, Texts
    <3>5. NumbersOf(t) = I64
      BY <3>4 DEF NumbersOf, Integer, Float
    <3> QED
      BY <1>3, <3>1, <3>3, <3>5, PlainCell
  <2>4. CASE ~cell.null /\ c.base \in Reads(t) /\ c.base \in JsonTexts
    <3>1. c.base \notin {"timestamp", "timestamptz"}
      BY <2>4 DEF JsonTexts
    <3>2. v = [n |-> Reprinted[cell.n], sub |-> <<>>, null |-> FALSE]
      BY <1>1, <1>2, <2>4, <3>1 DEF AppendDatum, Cell, Coded
    <3>3. cell.n \in DOMAIN Reprinted
      BY <1>1, <2>4 DEF Panics
    <3>4. Reprinted[cell.n] \in Int /\ Reprinted[cell.n] \in Numbers
      BY <3>3, ReadingAssumption DEF Numbers
    <3>5. t.k = "Utf8"
      BY <1>1, <2>4, ReadingAssumption DEF Reads, Columnar, JsonTexts, Required
    <3>6. NumbersOf(t) = Int
      BY <3>5 DEF NumbersOf, Integer, Float
    <3> QED
      BY <3>2, <3>4, <3>6, PlainCell
  <2>3. CASE ~cell.null /\ c.base \in Reads(t) /\ c.base \notin {"timestamp", "timestamptz"} \union JsonTexts
    <3>1. v = cell
      BY <1>1, <1>2, <2>3 DEF AppendDatum
    <3>2. v = [n |-> cell.n, sub |-> <<>>, null |-> cell.null] /\ cell.n \in Numbers /\ cell.null \in BOOLEAN
      BY <3>1 DEF QueryCell
    <3>3. v \in Cells
      BY <3>2, PlainCell
    <3>4. CASE c.base \in {"float4", "float8"}
      <4>0. t.k = "Timestamp" => Required(t) \in {"timestamp", "timestamptz"}
        BY DEF Required
      <4>1. t.k \in Float
        BY <1>1, <2>3, <3>4, <4>0, ReadingAssumption DEF Reads, Columnar, Texts, Float
      <4>2. NumbersOf(t) = Numbers
        BY <4>1 DEF NumbersOf, Integer, Float
      <4> QED
        BY <3>2, <3>3, <4>2
    <3>5. CASE c.base \notin {"float4", "float8"}
      <4>1. cell.n \in I64
        BY <2>3, <3>5, DatumInRange
      <4>2. t.k \in Columnar \ Float
        BY <1>1, <2>3, <3>5, ReadingAssumption DEF Reads, Columnar, Texts, Float
      <4>3. I64 \subseteq NumbersOf(t)
        BY <1>3, <4>2 DEF NumbersOf, Integer, Float, Columnar
      <4> QED
        BY <3>2, <3>3, <4>1, <4>3
    <3> QED
      BY <3>4, <3>5
  <2> QED
    BY <1>1, <2>1, <2>2, <2>3, <2>4 DEF QueryCell
<1>5. Held(Holds, t, v)
  BY <1>1, <1>4 DEF Held, Columnar, Lists, Maskless
<1>6. Holds[t][v]
  BY <1>4, <1>5, HoldsIs
<1> QED
  BY <1>1, <1>2, <1>4, <1>6

\* A row that was written from datums of columns.
Came(from, schema, row, z) ==
    /\ DOMAIN from.cols = DOMAIN schema
    /\ \A j \in DOMAIN schema :
         LET c == from.cols[j]  cell == from.row[j] IN
         /\ c \in QueryColumn /\ cell \in QueryCell /\ IsDatum(c, cell) /\ ~Panics(c, cell, z)
         /\ schema[j] = <<c.name, ColumnType(c)>>
         /\ row[j] = AppendDatum(c, cell)

LEMMA QueryParts ==
    ASSUME NEW q, IsQuery(q)
    PROVE  /\ Len(q.cols) \in Nat /\ DOMAIN q.cols = 1 .. Len(q.cols)
           /\ \A j \in 1 .. Len(q.cols) : q.cols[j] \in QueryColumn /\ q.cols[j].name \in Name
           /\ Len(q.rows) \in Nat /\ DOMAIN q.rows = 1 .. Len(q.rows)
           /\ \A i \in 1 .. Len(q.rows) : \A j \in 1 .. Len(q.cols) :
                q.rows[i][j] \in QueryCell /\ IsDatum(q.cols[j], q.rows[i][j])
<1>1. q.cols \in Seq(QueryColumn) /\ q.rows \in Seq(Seq(QueryCell))
  BY DEF IsQuery, QueryColumn, QueryCell
<1>2. PICK l \in Nat : l = Len(q.cols) /\ DOMAIN q.cols = 1 .. l /\ \A j \in 1 .. l : q.cols[j] \in QueryColumn
  BY <1>1
<1>3. PICK m \in Nat : m = Len(q.rows) /\ DOMAIN q.rows = 1 .. m
  <2>1. PICK A : A = Seq(QueryCell)
    OBVIOUS
  <2>2. q.rows \in Seq(A)
    BY <1>1, <2>1
  <2> QED
    BY <2>2
<1>4. ASSUME NEW i \in 1 .. m, NEW j \in 1 .. l
      PROVE  q.rows[i][j] \in QueryCell /\ IsDatum(q.cols[j], q.rows[i][j])
  <2>1. q.rows[i] \in Seq(QueryCell)
    BY <1>1, <1>3
  <2>2. DOMAIN q.rows[i] = 1 .. l /\ IsDatum(q.cols[j], q.rows[i][j])
    BY <1>2, <1>3 DEF IsQuery
  <2> QED
    BY <2>1, <2>2
<1>5. \A j \in 1 .. l : q.cols[j].name \in Name
  BY <1>2 DEF QueryColumn
<1> QED
  BY <1>2, <1>3, <1>4, <1>5

\* What a query without panic writes: a schema, and rows of it.
LEMMA QueryWrites ==
    ASSUME NEW q, IsQuery(q), NEW z,
           \A i \in DOMAIN q.rows : \A j \in DOMAIN q.cols : ~Panics(q.cols[j], q.rows[i][j], z)
    PROVE  /\ QuerySchema(q) \in Seq(Name \X Types) /\ Named(QuerySchema(q))
           /\ QueryRows(q) \in Seq(Seq(Cells)) /\ Len(QueryRows(q)) = Len(q.rows)
           /\ DOMAIN Origins(q) = DOMAIN QueryRows(q) /\ Origins(q) \in Seq(Range(Origins(q)))
           /\ \A i \in DOMAIN QueryRows(q) :
                /\ DOMAIN QueryRows(q)[i] = DOMAIN QuerySchema(q)
                /\ \A j \in DOMAIN QuerySchema(q) : Holds[TypeOf(QuerySchema(q)[j])][QueryRows(q)[i][j]]
                /\ \E from : Origins(q)[i] = <<from>> /\ Came(from, QuerySchema(q), QueryRows(q)[i], z)
<1>2. PICK l \in Nat : l = Len(q.cols) /\ DOMAIN q.cols = 1 .. l
                       /\ \A j \in 1 .. l : q.cols[j] \in QueryColumn /\ q.cols[j].name \in Name
  BY QueryParts
<1>3. PICK m \in Nat : m = Len(q.rows) /\ DOMAIN q.rows = 1 .. m
  BY QueryParts
<1>4. ASSUME NEW i \in 1 .. m, NEW j \in 1 .. l
      PROVE  /\ q.rows[i][j] \in QueryCell /\ IsDatum(q.cols[j], q.rows[i][j])
             /\ ~Panics(q.cols[j], q.rows[i][j], z)
  BY <1>2, <1>3, QueryParts
<1>5. PICK schema : schema = QuerySchema(q) /\ schema = [j \in 1 .. l |-> <<q.cols[j].name, ColumnType(q.cols[j])>>]
  BY <1>2 DEF QuerySchema
<1>6. schema \in Seq(Name \X Types)
  <2>1. PICK A : A = Name \X Types
    OBVIOUS
  <2>2. ASSUME NEW j \in 1 .. l PROVE schema[j] \in A
    BY <1>2, <1>5, <2>1, ColumnTyped
  <2>3. schema = [j \in 1 .. l |-> schema[j]]
    BY <1>5
  <2>4. schema \in Seq(A)
    BY <2>2, <2>3
  <2> QED
    BY <2>1, <2>4
<1>7. Named(schema)
  BY <1>2, <1>5 DEF Named, NameOf, IsQuery
<1>8. PICK rows : rows = QueryRows(q)
                  /\ rows = [i \in 1 .. m |-> [j \in 1 .. l |-> AppendDatum(q.cols[j], q.rows[i][j])]]
  BY <1>2, <1>3 DEF QueryRows
<1>9. ASSUME NEW i \in 1 .. m
      PROVE  /\ rows[i] \in Seq(Cells) /\ DOMAIN rows[i] = 1 .. l
             /\ \A j \in 1 .. l : Holds[TypeOf(schema[j])][rows[i][j]]
  <2>1. rows[i] = [j \in 1 .. l |-> AppendDatum(q.cols[j], q.rows[i][j])]
    BY <1>8
  <2>2. ASSUME NEW j \in 1 .. l
        PROVE  rows[i][j] \in Cells /\ Holds[TypeOf(schema[j])][rows[i][j]]
    <3>1. TypeOf(schema[j]) = ColumnType(q.cols[j])
      BY <1>5 DEF TypeOf
    <3>2. AppendDatum(q.cols[j], q.rows[i][j]) \in Cells
          /\ Holds[ColumnType(q.cols[j])][AppendDatum(q.cols[j], q.rows[i][j])]
      BY <1>2, <1>4, AppendHeld
    <3> QED
      BY <2>1, <3>1, <3>2
  <2>3. rows[i] = [j \in 1 .. l |-> rows[i][j]]
    BY <2>1
  <2>4. rows[i] \in Seq(Cells)
    BY <2>2, <2>3
  <2> QED
    BY <2>1, <2>2, <2>4
<1>10. rows \in Seq(Seq(Cells)) /\ DOMAIN rows = 1 .. m /\ Len(rows) = m
  <2>1. rows = [i \in 1 .. m |-> rows[i]]
    BY <1>8
  <2>2. PICK A : A = Seq(Cells)
    OBVIOUS
  <2>3. \A i \in 1 .. m : rows[i] \in A
    BY <1>9, <2>2
  <2>4. rows \in Seq(A)
    BY <2>1, <2>3
  <2> QED
    BY <1>8, <2>2, <2>4
<1>11. PICK froms : froms = Origins(q) /\ froms = [i \in 1 .. m |-> <<[cols |-> q.cols, row |-> q.rows[i]]>>]
  BY <1>3 DEF Origins
<1>12. froms \in Seq(Range(froms)) /\ DOMAIN froms = 1 .. m
  <2>1. \A i \in 1 .. m : froms[i] \in Range(froms)
    BY <1>11 DEF Range
  <2>2. froms = [i \in 1 .. m |-> froms[i]]
    BY <1>11
  <2> QED
    BY <2>1, <2>2
<1>13. ASSUME NEW i \in 1 .. m
       PROVE  \E from : froms[i] = <<from>> /\ Came(from, schema, rows[i], z)
  <2>1. PICK from : from = [cols |-> q.cols, row |-> q.rows[i]]
    OBVIOUS
  <2>2. froms[i] = <<from>> /\ from.cols = q.cols /\ from.row = q.rows[i]
    BY <1>11, <2>1
  <2>3. DOMAIN schema = 1 .. l
    BY <1>5
  <2>4. ASSUME NEW j \in 1 .. l
        PROVE  schema[j] = <<q.cols[j].name, ColumnType(q.cols[j])>> /\ rows[i][j] = AppendDatum(q.cols[j], q.rows[i][j])
    BY <1>5, <1>8
  <2>5. Came(from, schema, rows[i], z)
    BY <1>2, <1>4, <2>2, <2>3, <2>4 DEF Came
  <2> QED
    BY <2>2, <2>5
<1>14. DOMAIN schema = 1 .. l
  BY <1>5
<1>15. QuerySchema(q) \in Seq(Name \X Types) /\ Named(QuerySchema(q))
  BY <1>5, <1>6, <1>7
<1>16. QueryRows(q) \in Seq(Seq(Cells)) /\ Len(QueryRows(q)) = Len(q.rows)
  BY <1>3, <1>8, <1>10
<1>17. DOMAIN Origins(q) = DOMAIN QueryRows(q) /\ Origins(q) \in Seq(Range(Origins(q)))
  <2>1. DOMAIN Origins(q) = DOMAIN QueryRows(q)
    BY <1>8, <1>10, <1>11, <1>12
  <2>2. froms \in Seq(Range(froms))
    BY <1>12
  <2> QED
    BY <1>11, <2>1, <2>2
<1>18. ASSUME NEW i \in DOMAIN QueryRows(q)
       PROVE  /\ DOMAIN QueryRows(q)[i] = DOMAIN QuerySchema(q)
              /\ \A j \in DOMAIN QuerySchema(q) : Holds[TypeOf(QuerySchema(q)[j])][QueryRows(q)[i][j]]
              /\ \E from : Origins(q)[i] = <<from>> /\ Came(from, QuerySchema(q), QueryRows(q)[i], z)
  <2>1. i \in 1 .. m
    BY <1>8, <1>10
  <2>2. DOMAIN rows[i] = DOMAIN schema
    BY <1>9, <1>14, <2>1
  <2>3. \A j \in DOMAIN schema : Holds[TypeOf(schema[j])][rows[i][j]]
    BY <1>9, <1>14, <2>1
  <2>4. \E from : froms[i] = <<from>> /\ Came(from, schema, rows[i], z)
    BY <1>13, <2>1
  <2>5. QuerySchema(q) = schema /\ QueryRows(q) = rows /\ Origins(q) = froms
    BY <1>5, <1>8, <1>11
  <2> QED
    BY <2>2, <2>3, <2>4, <2>5
<1> QED
  BY <1>15, <1>16, <1>17, <1>18

-----------------------------------------------------------------------------
(* The invariant.                                                          *)

\* The dataset is one, and a row that was written from a query is what the
\* query makes of it.
Stored ==
    /\ IsDataset(data) /\ DOMAIN data = {"schema", "rows", "from"}
    /\ data.from \in Seq(Range(data.from)) /\ Len(data.from) = Len(data.rows)
    /\ \A i \in 1 .. Len(data.rows) :
         \/ data.from[i] = <<>>
         \/ \E from : data.from[i] = <<from>> /\ Came(from, data.schema, data.rows[i], checked)

Cataloged == catalog \in Catalogs /\ Unique(catalog)

\* The columns of a table are what it was declared with or, of each field it
\* was imported from, the type an import finds.
Tabled ==
    /\ table.st \in {"none", "failed", "imported", "declared"}
    /\ table.cols \in Seq(Name \X PgTypes)
    /\ table.st \in {"imported", "failed"} => table.from \in Seq(Name \X Types)
    /\ table.st = "imported" =>
         /\ DOMAIN table.cols = DOMAIN table.from
         /\ \A j \in DOMAIN table.from :
              table.cols[j] = <<NameOf(table.from[j]), Resolve(TextAt(TableName, table.from, <<>>, j))>>

\* A scan that has begun found that every column fits; the rows it has shown
\* are the first of the dataset, converted, and it fails at the next one.
Scanned ==
    /\ scan.st \in {"idle", "open", "refused", "failed", "done"}
    /\ scan.st = "idle" => scan = NoScan
    /\ scan.st # "idle" => scan.data = data /\ table.st \in {"imported", "declared"}
    /\ scan.st \in {"open", "failed", "done"} => \A j \in DOMAIN table.cols : ColumnFits(table.cols[j])
    /\ scan.st = "refused" => \E j \in DOMAIN table.cols : ~ColumnFits(table.cols[j])
    /\ scan.st \in {"idle", "refused"} => scan.out = <<>>
    /\ scan.out \in Seq(Seq(Datums)) /\ Len(scan.out) <= Len(data.rows)
    /\ \A i \in 1 .. Len(scan.out) :
         Converted(data.rows[i]).err = "none" /\ scan.out[i] = Converted(data.rows[i]).d.sub
    /\ scan.st = "failed" => /\ Len(scan.out) < Len(data.rows)
                             /\ scan.err = Converted(data.rows[Len(scan.out) + 1]).err
                             /\ scan.err # "none"
    /\ scan.st # "failed" => scan.err = "none"

Asked == answer.st = "given" => answer.col \in DOMAIN data.schema

IInv ==
    /\ checked \in BOOLEAN /\ tables \in 0 .. MaxTables
    /\ Stored /\ Cataloged /\ Tabled /\ Scanned /\ Asked

-----------------------------------------------------------------------------
(* A row.                                                                  *)

\* What a row shows in a column.
ShownIn(row, j) ==
    ToDatum(Env)[TypeOf(data.schema[Column(NameOf(table.cols[j]))])]
                [row[Column(NameOf(table.cols[j]))]][TypeOf(table.cols[j])]

LEMMA DatasetParts ==
    ASSUME IsDataset(data)
    PROVE  /\ Len(data.schema) \in Nat /\ DOMAIN data.schema = 1 .. Len(data.schema)
           /\ Len(data.rows) \in Nat /\ DOMAIN data.rows = 1 .. Len(data.rows)
           /\ \A c \in 1 .. Len(data.schema) :
                TypeOf(data.schema[c]) \in Types /\ NameOf(data.schema[c]) \in Name
           /\ \A i \in 1 .. Len(data.rows) : \A c \in 1 .. Len(data.schema) :
                data.rows[i][c] \in Cells /\ Holds[TypeOf(data.schema[c])][data.rows[i][c]]
<1>1. data.schema \in Seq(Name \X Types) /\ data.rows \in Seq(Seq(Cells))
  BY DEF IsDataset
<1>2. ASSUME NEW c \in DOMAIN data.schema PROVE TypeOf(data.schema[c]) \in Types /\ NameOf(data.schema[c]) \in Name
  <2>1. data.schema[c] \in Name \X Types
    BY <1>1
  <2> QED
    BY <2>1 DEF TypeOf, NameOf
<1>3. ASSUME NEW i \in DOMAIN data.rows, NEW c \in DOMAIN data.schema
      PROVE  data.rows[i][c] \in Cells /\ Holds[TypeOf(data.schema[c])][data.rows[i][c]]
  <2>1. data.rows[i] \in Seq(Cells) /\ c \in DOMAIN data.rows[i]
    BY <1>1 DEF IsDataset
  <2> QED
    BY <2>1 DEF IsDataset
<1>4. Len(data.schema) \in Nat /\ DOMAIN data.schema = 1 .. Len(data.schema)
  BY <1>1
<1>5. Len(data.rows) \in Nat /\ DOMAIN data.rows = 1 .. Len(data.rows)
  BY <1>1
<1> QED
  BY <1>2, <1>3, <1>4, <1>5

LEMMA TableParts ==
    ASSUME Tabled
    PROVE  /\ Len(table.cols) \in Nat /\ DOMAIN table.cols = 1 .. Len(table.cols)
           /\ \A j \in 1 .. Len(table.cols) :
                TypeOf(table.cols[j]) \in PgTypes /\ NameOf(table.cols[j]) \in Name
<1>1. table.cols \in Seq(Name \X PgTypes)
  BY DEF Tabled
<1>2. ASSUME NEW j \in DOMAIN table.cols PROVE TypeOf(table.cols[j]) \in PgTypes /\ NameOf(table.cols[j]) \in Name
  <2>1. table.cols[j] \in Name \X PgTypes
    BY <1>1
  <2> QED
    BY <2>1 DEF TypeOf, NameOf
<1>3. Len(table.cols) \in Nat /\ DOMAIN table.cols = 1 .. Len(table.cols)
  BY <1>1
<1> QED
  BY <1>2, <1>3

\* A field that is there is found.
LEMMA ColumnIs ==
    ASSUME IsDataset(data), NEW name
    PROVE  /\ Column(name) \in 0 .. Len(data.schema)
           /\ Column(name) # 0 => Column(name) \in 1 .. Len(data.schema)
                                  /\ NameOf(data.schema[Column(name)]) = name
           /\ \A c \in 1 .. Len(data.schema) : NameOf(data.schema[c]) = name => Column(name) = c
<1>1. PICK l \in Nat : l = Len(data.schema) /\ DOMAIN data.schema = 1 .. l
  BY DatasetParts
<1>2. PICK p : p = Column(name)
  OBVIOUS
<1>3. /\ p \in 0 .. l
      /\ p # 0 => NameOf(data.schema[p]) = name
      /\ \A i \in 1 .. l : NameOf(data.schema[i]) = name => 0 < p /\ p <= i
  BY <1>1, <1>2, PositionIs DEF Column
<1>4. ASSUME NEW c \in 1 .. l, NameOf(data.schema[c]) = name PROVE p = c
  <2>1. p \in 1 .. l /\ NameOf(data.schema[p]) = name
    BY <1>3, <1>4
  <2> QED
    BY <1>1, <1>4, <2>1 DEF IsDataset, Named
<1> QED
  BY <1>1, <1>2, <1>3, <1>4

\* A cell of a column that fits.
LEMMA CellConverts ==
    ASSUME checked \in BOOLEAN, IsDataset(data), catalog \in Catalogs, Tabled,
           NEW i \in 1 .. Len(data.rows), NEW j \in 1 .. Len(table.cols), ColumnFits(table.cols[j])
    PROVE  /\ ShownIn(data.rows[i], j).err \in Errors \ {"mismatch"}
           /\ ShownIn(data.rows[i], j).d \in Datums
<1>1. PICK c \in 1 .. Len(data.schema) : c = Column(NameOf(table.cols[j]))
  BY ColumnIs DEF ColumnFits
<1>2. PICK t \in Types : t = TypeOf(data.schema[c])
  BY DatasetParts
<1>3. PICK v \in Cells : v = data.rows[i][c] /\ Holds[t][v]
  BY <1>2, DatasetParts
<1>4. PICK pg \in PgTypes : pg = TypeOf(table.cols[j])
  BY TableParts
<1>5. Validates(catalog)[t][pg]
  BY <1>1, <1>2, <1>4 DEF ColumnFits
<1>6. PICK env : env = Env
  OBVIOUS
<1>7. env.types = catalog /\ env.checked = checked
  BY <1>6 DEF Env
<1>8. MaxDepth \in 0 .. MaxDepth /\ v \in CellsTo[MaxDepth]
  BY DepthAssumption DEF Cells
<1>9. Sound(env, t, v, pg, MaxDepth)
  BY <1>3, <1>7, <1>8, ConversionSound
<1>10. ShownIn(data.rows[i], j) = ToDatum(env)[t][v][pg]
  BY <1>1, <1>2, <1>3, <1>4, <1>6 DEF ShownIn
<1> QED
  BY <1>5, <1>7, <1>9, <1>10 DEF Sound, Converts, Datums

\* A row shows what its columns show, or fails as one of them does.
LEMMA RowShown ==
    ASSUME Tabled, NEW row
    PROVE  LET r == Converted(row) IN
           \/ \E j \in 1 .. Len(table.cols) : ShownIn(row, j).err # "none" /\ r = ShownIn(row, j)
           \/ /\ r.err = "none"
              /\ r.d.sub = [j \in 1 .. Len(table.cols) |-> ShownIn(row, j).d]
              /\ \A j \in 1 .. Len(table.cols) : ShownIn(row, j).err = "none"
<1>1. PICK l \in Nat : l = Len(table.cols) /\ DOMAIN table.cols = 1 .. l
  BY TableParts
<1>2. PICK results : results = [j \in 1 .. l |-> ShownIn(row, j)]
  OBVIOUS
<1>3. Converted(row) = Assembled("row", results, <<>>)
  BY <1>1, <1>2 DEF Converted, ShownIn
<1>4. DOMAIN results = 1 .. l /\ Len(results) = l
  <2>1. DOMAIN results = 1 .. l /\ results = [j \in 1 .. l |-> results[j]]
    BY <1>2
  <2> QED
    BY <2>1, LenIs
<1>5. PICK r : r = Assembled("row", results, <<>>)
  OBVIOUS
<1>6. \/ \E i \in 1 .. l : results[i].err # "none" /\ r = results[i]
      \/ /\ \A i \in 1 .. l : results[i].err = "none"
         /\ r = Ok(Compound("row", DatumsIn(results, l), <<>>))
  BY <1>4, <1>5, AssembledIs
<1>7. ASSUME r = Ok(Compound("row", DatumsIn(results, l), <<>>))
      PROVE  r.err = "none" /\ r.d.sub = [j \in 1 .. l |-> ShownIn(row, j).d]
  <2>1. r.err = "none" /\ r.d = Compound("row", DatumsIn(results, l), <<>>)
    BY <1>7, ResultParts
  <2>2. r.d.sub = DatumsIn(results, l)
    BY <2>1 DEF Compound, Datum
  <2> QED
    BY <1>2, <2>1, <2>2 DEF DatumsIn
<1> QED
  BY <1>1, <1>2, <1>3, <1>5, <1>6, <1>7

-----------------------------------------------------------------------------
(* The steps.                                                              *)

\* An import finds a type for every field, and the catalog keeps its names
\* apart.
LEMMA ImportFinds ==
    ASSUME IsDataset(data), Cataloged
    PROVE  /\ FieldsMapped(TableName, data.schema, <<>>, Nothing, Mapping)
           /\ Mapping.defs \in SUBSET Defs /\ IsFiniteSet(Mapping.defs)
           /\ Created.ok \in BOOLEAN /\ Created.catalog \in Catalogs /\ Unique(Created.catalog)
           /\ catalog \subseteq Created.catalog
<1>1. data.schema \in Seq(Name \X Types) /\ TableName \in Name
  BY SessionAssumption DEF IsDataset
<1>2. PICK m : m = Mapping
  OBVIOUS
<1>3. FieldsMapped(TableName, data.schema, <<>>, Nothing, m)
  BY <1>1, <1>2, MappingFound DEF Mapping
<1>4. m.defs \in SUBSET Defs /\ IsFiniteSet(m.defs)
  BY <1>3 DEF FieldsMapped, Sane, Accs, Defs
<1>5. PICK order : order = OrderTypes(m.defs)
  OBVIOUS
<1>6. order \in Seq(Defs)
  <2>1. order \in Seq(m.defs)
    BY <1>4, <1>5, OrderSound
  <2>2. \A S \in SUBSET Defs : Seq(S) \subseteq Seq(Defs)
    OBVIOUS
  <2> QED
    BY <1>4, <2>1, <2>2
<1>7. PICK r : r = CreateTypes(order, catalog)
  OBVIOUS
<1>8. Created = r
  BY <1>2, <1>5, <1>7 DEF Created
<1>9. r.ok \in BOOLEAN /\ r.catalog \in Catalogs /\ catalog \subseteq r.catalog /\ Unique(r.catalog)
  BY <1>6, <1>7, CreateAll DEF Cataloged
<1> QED
  BY <1>2, <1>3, <1>4, <1>8, <1>9

\* What others write comes from no query.
LEMMA OfRows ==
    ASSUME NEW d, IsDataset(d)
    PROVE  /\ DOMAIN Of(d) = {"schema", "rows", "from"}
           /\ Of(d).schema = d.schema /\ Of(d).rows = d.rows
           /\ Of(d).from \in Seq(Range(Of(d).from)) /\ Len(Of(d).from) = Len(d.rows)
           /\ \A i \in 1 .. Len(d.rows) : Of(d).from[i] = <<>>
<1>1. PICK m \in Nat : m = Len(d.rows) /\ DOMAIN d.rows = 1 .. m
  <2>1. d.rows \in Seq(Seq(Cells))
    BY DEF IsDataset
  <2> QED
    BY <2>1
<1>2. PICK from : from = Of(d).from /\ from = [i \in 1 .. m |-> <<>>]
  BY <1>1 DEF Of
<1>3. \A i \in 1 .. m : from[i] \in Range(from)
  BY <1>2 DEF Range
<1>4. from \in Seq(Range(from)) /\ Len(from) = m
  <2>1. from = [i \in 1 .. m |-> from[i]]
    BY <1>2
  <2> QED
    BY <1>3, <2>1
<1>5. DOMAIN Of(d) = {"schema", "rows", "from"} /\ Of(d).schema = d.schema /\ Of(d).rows = d.rows
  BY DEF Of
<1>6. \A i \in 1 .. m : from[i] = <<>>
  BY <1>2
<1>7. Of(d).from \in Seq(Range(Of(d).from)) /\ Len(Of(d).from) = Len(d.rows)
  BY <1>1, <1>2, <1>4
<1>8. \A i \in 1 .. Len(d.rows) : Of(d).from[i] = <<>>
  BY <1>1, <1>2, <1>6
<1> QED
  BY <1>5, <1>7, <1>8

LEMMA InitHolds == Init => IInv
<1> SUFFICES ASSUME Init PROVE IInv
  OBVIOUS
<1>1. PICK d \in Datasets : data = Of(d)
  BY DEF Init
<1>2. IsDataset(d)
  BY SessionAssumption
<1>3. data.schema = d.schema /\ data.rows = d.rows
  BY <1>1 DEF Of
<1>4. IsDataset(data)
  BY <1>2, <1>3 DEF IsDataset
<1>5. Stored
  <2>1. DOMAIN data = {"schema", "rows", "from"}
    BY <1>1, <1>2, OfRows
  <2>2. data.from \in Seq(Range(data.from)) /\ Len(data.from) = Len(data.rows)
    BY <1>1, <1>2, <1>3, OfRows
  <2>3. \A i \in 1 .. Len(data.rows) : data.from[i] = <<>>
    BY <1>1, <1>2, <1>3, OfRows
  <2> QED
    BY <1>4, <2>1, <2>2, <2>3 DEF Stored
<1>6. Cataloged
  BY DEF Init, Cataloged, Catalogs, Unique
<1>7. Tabled
  BY DEF Init, NoTable, Tabled
<1>8. Scanned
  <2>1. Len(data.rows) \in Nat
    BY <1>4, DatasetParts
  <2>2. scan = NoScan
    BY DEF Init
  <2> QED
    BY <2>1, <2>2 DEF NoScan, Scanned
<1>9. Asked
  BY DEF Init, NoAnswer, Asked
<1>10. tables \in 0 .. MaxTables /\ checked \in BOOLEAN
  BY SessionAssumption DEF Init
<1> QED
  BY <1>5, <1>6, <1>7, <1>8, <1>9, <1>10 DEF IInv

\* No scan is open: what the dataset and the table become does not matter
\* to it.
LEMMA IdleScan ==
    ASSUME Scanned, Idle, UNCHANGED scan, Len(data.rows)' \in Nat
    PROVE  Scanned'
<1>1. scan' = NoScan
  BY DEF Scanned, Idle
<1> QED
  BY <1>1 DEF Scanned, NoScan

LEMMA SameLength == ASSUME NEW a \in Nat, NEW b \in Nat, 1 .. a = 1 .. b PROVE a = b
  OBVIOUS

LEMMA ReplaceStep == IInv /\ (\E d \in Datasets : Replace(d)) => IInv'
<1> SUFFICES ASSUME IInv, NEW d \in Datasets, Replace(d) PROVE IInv'
  OBVIOUS
<1>1. IsDataset(d)
  BY SessionAssumption
<1>2. data'.schema = d.schema /\ data'.rows = d.rows /\ data' = Of(d)
  BY DEF Replace, Of
<1>3. IsDataset(data')
  BY <1>1, <1>2 DEF IsDataset
<1>4. Stored'
  <2>1. DOMAIN data' = {"schema", "rows", "from"}
    BY <1>1, <1>2, OfRows
  <2>2. data'.from \in Seq(Range(data'.from)) /\ Len(data'.from) = Len(data'.rows)
    BY <1>1, <1>2, OfRows
  <2>3. \A i \in 1 .. Len(data'.rows) : data'.from[i] = <<>>
    BY <1>1, <1>2, OfRows
  <2> QED
    BY <1>3, <2>1, <2>2, <2>3 DEF Stored
<1>5. Cataloged' /\ Tabled'
  BY DEF IInv, Replace, Cataloged, Tabled
<1>6. Scanned'
  <2>1. Len(data.rows)' \in Nat
    BY <1>2, <1>3 DEF IsDataset
  <2> QED
    BY <2>1, IdleScan DEF IInv, Replace
<1>7. Asked'
  BY DEF Replace, NoAnswer, Asked
<1>8. checked' \in BOOLEAN /\ tables' \in 0 .. MaxTables
  BY DEF IInv, Replace
<1> QED
  BY <1>4, <1>5, <1>6, <1>7, <1>8 DEF IInv

LEMMA WriteStep == IInv /\ (\E q \in Queries : Write(q)) => IInv'
<1> SUFFICES ASSUME IInv, NEW q \in Queries, Write(q) PROVE IInv'
  OBVIOUS
<1>1. IsQuery(q)
  BY SessionAssumption
<1>2. data'.schema = QuerySchema(q) /\ data'.rows = QueryRows(q) /\ data'.from = Origins(q)
  BY DEF Write
<1>3. \A i \in DOMAIN q.rows : \A j \in DOMAIN q.cols : ~Panics(q.cols[j], q.rows[i][j], checked)
  BY DEF Write, Sourced
<1>4. IsDataset(data')
  BY <1>1, <1>2, <1>3, QueryWrites DEF IsDataset
<1>5. Stored'
  <2>1. checked' = checked
    BY DEF Write
  <2>2. /\ Len(QueryRows(q)) \in Nat /\ DOMAIN QueryRows(q) = 1 .. Len(QueryRows(q))
        /\ Origins(q) \in Seq(Range(Origins(q))) /\ Len(Origins(q)) = Len(QueryRows(q))
    <3>1. QueryRows(q) \in Seq(Seq(Cells))
      BY <1>1, <1>3, QueryWrites
    <3>2. Origins(q) \in Seq(Range(Origins(q))) /\ DOMAIN Origins(q) = DOMAIN QueryRows(q)
      BY <1>1, <1>3, QueryWrites
    <3>3. Len(QueryRows(q)) \in Nat /\ DOMAIN QueryRows(q) = 1 .. Len(QueryRows(q))
      BY <3>1
    <3>4. Len(Origins(q)) \in Nat /\ DOMAIN Origins(q) = 1 .. Len(Origins(q))
      BY <3>2
    <3>5. Len(Origins(q)) = Len(QueryRows(q))
      BY <3>2, <3>3, <3>4, SameLength
    <3> QED
      BY <3>2, <3>3, <3>5
  <2>3. DOMAIN data' = {"schema", "rows", "from"}
    BY DEF Write
  <2>4. ASSUME NEW i \in 1 .. Len(QueryRows(q))
        PROVE  \E from : Origins(q)[i] = <<from>> /\ Came(from, QuerySchema(q), QueryRows(q)[i], checked)
    BY <1>1, <1>3, <2>2, QueryWrites
  <2>5. data'.from \in Seq(Range(data'.from)) /\ Len(data'.from) = Len(data'.rows)
    BY <1>2, <2>2
  <2>6. \A i \in 1 .. Len(data'.rows) :
          \E from : data'.from[i] = <<from>> /\ Came(from, data'.schema, data'.rows[i], checked')
    BY <1>2, <2>1, <2>4
  <2> QED
    BY <1>4, <2>3, <2>5, <2>6 DEF Stored
<1>6. Cataloged' /\ Tabled'
  BY DEF IInv, Write, Cataloged, Tabled
<1>7. Scanned'
  <2>1. Len(data.rows)' \in Nat
    BY <1>4 DEF IsDataset
  <2> QED
    BY <2>1, IdleScan DEF IInv, Write
<1>8. Asked'
  BY DEF Write, NoAnswer, Asked
<1>9. checked' \in BOOLEAN /\ tables' \in 0 .. MaxTables
  BY DEF IInv, Write
<1> QED
  BY <1>5, <1>6, <1>7, <1>8, <1>9 DEF IInv

\* Rows behind others.
LEMMA RowsBehind ==
    ASSUME NEW S, NEW A \in Seq(S), NEW T, NEW B \in Seq(T)
    PROVE  /\ A \o B \in Seq(S \union T) /\ Len(A \o B) = Len(A) + Len(B)
           /\ Len(A) \in Nat /\ Len(B) \in Nat
           /\ \A i \in 1 .. Len(A) : (A \o B)[i] = A[i]
           /\ \A i \in 1 .. Len(A) + Len(B) :
                i \notin 1 .. Len(A) => i - Len(A) \in 1 .. Len(B) /\ (A \o B)[i] = B[i - Len(A)]
<1>1. A \in Seq(S \union T) /\ B \in Seq(S \union T)
  OBVIOUS
<1> QED
  BY <1>1

LEMMA MergeStep == IInv /\ (\E q \in Queries : Merge(q)) => IInv'
<1> SUFFICES ASSUME IInv, NEW q \in Queries, Merge(q) PROVE IInv'
  OBVIOUS
<1>1. IsQuery(q) /\ QuerySchema(q) = data.schema
  BY SessionAssumption DEF Merge
<1>2. PICK rows : rows = QueryRows(q)
  OBVIOUS
<1>3. PICK froms : froms = Origins(q)
  OBVIOUS
<1>4. data'.schema = data.schema /\ data'.rows = data.rows \o rows /\ data'.from = data.from \o froms
  <2>1. data' = [data EXCEPT !.rows = @ \o rows, !.from = @ \o froms]
    BY <1>2, <1>3 DEF Merge
  <2>2. DOMAIN data = {"schema", "rows", "from"}
    BY DEF IInv, Stored
  <2> QED
    BY <2>1, <2>2
<1>5. \A i \in DOMAIN q.rows : \A j \in DOMAIN q.cols : ~Panics(q.cols[j], q.rows[i][j], checked)
  BY DEF Merge, Sourced
<1>6. /\ rows \in Seq(Seq(Cells)) /\ DOMAIN froms = DOMAIN rows /\ froms \in Seq(Range(froms))
      /\ \A i \in DOMAIN rows :
           /\ DOMAIN rows[i] = DOMAIN data.schema
           /\ \A j \in DOMAIN data.schema : Holds[TypeOf(data.schema[j])][rows[i][j]]
           /\ \E from : froms[i] = <<from>> /\ Came(from, data.schema, rows[i], checked)
  BY <1>1, <1>2, <1>3, <1>5, QueryWrites
<1>7. IsDataset(data) /\ data.from \in Seq(Range(data.from)) /\ Len(data.from) = Len(data.rows)
      /\ \A i \in 1 .. Len(data.rows) :
           \/ data.from[i] = <<>>
           \/ \E from : data.from[i] = <<from>> /\ Came(from, data.schema, data.rows[i], checked)
  BY DEF IInv, Stored
<1>8. data.rows \in Seq(Seq(Cells)) /\ data.schema \in Seq(Name \X Types) /\ Named(data.schema)
      /\ \A i \in DOMAIN data.rows :
           /\ DOMAIN data.rows[i] = DOMAIN data.schema
           /\ \A j \in DOMAIN data.schema : Holds[TypeOf(data.schema[j])][data.rows[i][j]]
  BY <1>7 DEF IsDataset
<1>9. PICK n \in Nat : n = Len(data.rows) /\ DOMAIN data.rows = 1 .. n
  BY <1>8
<1>10. PICK m \in Nat : m = Len(rows) /\ DOMAIN rows = 1 .. m /\ Len(froms) = m
  <2>1. Len(rows) \in Nat /\ DOMAIN rows = 1 .. Len(rows)
    BY <1>6
  <2>2. Len(froms) \in Nat /\ DOMAIN froms = 1 .. Len(froms)
    BY <1>6
  <2>3. 1 .. Len(froms) = 1 .. Len(rows)
    BY <1>6, <2>1, <2>2
  <2>4. Len(froms) = Len(rows)
    BY <2>1, <2>2, <2>3, SameLength
  <2> QED
    BY <2>1, <2>4
<1>11. PICK all : all = data.rows \o rows
  OBVIOUS
<1>12. PICK from_ : from_ = data.from \o froms
  OBVIOUS
<1>13. /\ all \in Seq(Seq(Cells) \union Seq(Cells)) /\ Len(all) = n + m
       /\ \A i \in 1 .. n : all[i] = data.rows[i]
       /\ \A i \in 1 .. n + m : i \notin 1 .. n => i - n \in 1 .. m /\ all[i] = rows[i - n]
  BY <1>6, <1>8, <1>9, <1>10, <1>11, RowsBehind
<1>14. /\ from_ \in Seq(Range(data.from) \union Range(froms)) /\ Len(from_) = n + m
       /\ \A i \in 1 .. n : from_[i] = data.from[i]
       /\ \A i \in 1 .. n + m : i \notin 1 .. n => i - n \in 1 .. m /\ from_[i] = froms[i - n]
  <2>1. PICK S : S = Range(data.from)
    OBVIOUS
  <2>2. PICK T : T = Range(froms)
    OBVIOUS
  <2>3. PICK A \in Seq(S) : A = data.from /\ Len(A) = n
    BY <1>7, <1>9, <2>1
  <2>4. PICK B \in Seq(T) : B = froms /\ Len(B) = m
    BY <1>6, <1>10, <2>2
  <2>5. /\ A \o B \in Seq(S \union T) /\ Len(A \o B) = n + m
        /\ \A i \in 1 .. n : (A \o B)[i] = A[i]
        /\ \A i \in 1 .. n + m : i \notin 1 .. n => i - n \in 1 .. m /\ (A \o B)[i] = B[i - n]
    <3>1. A \o B \in Seq(S \union T) /\ Len(A \o B) = Len(A) + Len(B)
      BY RowsBehind
    <3>2. \A i \in 1 .. Len(A) : (A \o B)[i] = A[i]
      BY RowsBehind
    <3>3. \A i \in 1 .. Len(A) + Len(B) :
            i \notin 1 .. Len(A) => i - Len(A) \in 1 .. Len(B) /\ (A \o B)[i] = B[i - Len(A)]
      BY RowsBehind
    <3> QED
      BY <2>3, <2>4, <3>1, <3>2, <3>3
  <2> QED
    BY <1>12, <2>1, <2>2, <2>3, <2>4, <2>5
<1>15. all \in Seq(Seq(Cells)) /\ DOMAIN all = 1 .. n + m
  <2>1. Seq(Cells) \union Seq(Cells) = Seq(Cells)
    OBVIOUS
  <2>2. all \in Seq(Seq(Cells))
    BY <1>13, <2>1
  <2> QED
    BY <1>13, <2>2
<1>16. from_ \in Seq(Range(from_))
  <2>1. DOMAIN from_ = 1 .. n + m /\ from_ = [i \in 1 .. n + m |-> from_[i]]
    BY <1>14
  <2>2. \A i \in 1 .. n + m : from_[i] \in Range(from_)
    BY <2>1 DEF Range
  <2> QED
    BY <1>9, <1>10, <2>1, <2>2
<1>17. ASSUME NEW i \in 1 .. n + m
       PROVE  /\ DOMAIN all[i] = DOMAIN data.schema
              /\ \A j \in DOMAIN data.schema : Holds[TypeOf(data.schema[j])][all[i][j]]
              /\ \/ from_[i] = <<>>
                 \/ \E from : from_[i] = <<from>> /\ Came(from, data.schema, all[i], checked)
  <2>1. CASE i \in 1 .. n
    BY <1>7, <1>8, <1>9, <1>13, <1>14, <2>1
  <2>2. CASE i \notin 1 .. n
    <3>1. i - n \in 1 .. m /\ all[i] = rows[i - n] /\ from_[i] = froms[i - n]
      BY <1>13, <1>14, <2>2
    <3> QED
      BY <1>6, <1>10, <3>1
  <2> QED
    BY <2>1, <2>2
<1>18. IsDataset(data')
  BY <1>4, <1>8, <1>11, <1>15, <1>17 DEF IsDataset
<1>19. Stored'
  <2>1. checked' = checked
    BY DEF Merge
  <2>2. DOMAIN data' = {"schema", "rows", "from"}
    <3>1. DOMAIN data = {"schema", "rows", "from"}
      BY DEF IInv, Stored
    <3> QED
      BY <3>1 DEF Merge
  <2>3. data'.schema = data.schema /\ data'.rows = all /\ data'.from = from_
    BY <1>4, <1>11, <1>12
  <2>4. from_ \in Seq(Range(from_)) /\ Len(from_) = Len(all) /\ Len(all) = n + m
    BY <1>13, <1>14, <1>16
  <2>5. data'.from \in Seq(Range(data'.from)) /\ Len(data'.from) = Len(data'.rows)
    BY <2>3, <2>4
  <2>6. \A i \in 1 .. Len(data'.rows) :
          \/ data'.from[i] = <<>>
          \/ \E from : data'.from[i] = <<from>> /\ Came(from, data'.schema, data'.rows[i], checked')
    BY <1>17, <2>1, <2>3, <2>4
  <2> QED
    BY <1>18, <2>2, <2>5, <2>6 DEF Stored
<1>20. Cataloged' /\ Tabled'
  BY DEF IInv, Merge, Cataloged, Tabled
<1>21. Scanned'
  <2>1. Len(data.rows)' \in Nat
    BY <1>18 DEF IsDataset
  <2> QED
    BY <2>1, IdleScan DEF IInv, Merge
<1>22. Asked'
  BY DEF Merge, NoAnswer, Asked
<1>23. checked' \in BOOLEAN /\ tables' \in 0 .. MaxTables
  BY DEF IInv, Merge
<1> QED
  BY <1>19, <1>20, <1>21, <1>22, <1>23 DEF IInv

LEMMA ImportStep == IInv /\ Import => IInv'
<1> SUFFICES ASSUME IInv, Import PROVE IInv'
  OBVIOUS
<1>0. IsDataset(data) /\ Cataloged /\ Tabled
  BY DEF IInv, Stored
<1>1. Stored'
  BY DEF IInv, Import, Stored
<1>2. /\ FieldsMapped(TableName, data.schema, <<>>, Nothing, Mapping)
      /\ Created.ok \in BOOLEAN /\ Created.catalog \in Catalogs /\ Unique(Created.catalog)
  BY <1>0, ImportFinds
<1>3. Cataloged'
  BY <1>0, <1>2 DEF Import, Cataloged
<1>4. Tabled'
  <2>1. CASE table.st \in {"imported", "declared"}
    BY <1>0, <2>1 DEF Import, Tabled
  <2>2. CASE table.st \notin {"imported", "declared"} /\ ~Created.ok
    <3>1. table' = [st |-> "failed", cols |-> <<>>, from |-> data.schema, fresh |-> Fresh]
      BY <2>2 DEF Import
    <3>2. data.schema \in Seq(Name \X Types)
      BY <1>0 DEF IsDataset
    <3> QED
      BY <3>1, <3>2 DEF Tabled
  <2>3. CASE table.st \notin {"imported", "declared"} /\ Created.ok
    <3>1. PICK cols : cols = [j \in DOMAIN data.schema |-> <<NameOf(data.schema[j]), Resolve(Mapping.types[j])>>]
      OBVIOUS
    <3>2. table' = [st |-> "imported", cols |-> cols, from |-> data.schema, fresh |-> Fresh]
      BY <2>3, <3>1 DEF Import
    <3>3. data.schema \in Seq(Name \X Types)
      BY <1>0 DEF IsDataset
    <3>4. PICK l \in Nat : l = Len(data.schema) /\ DOMAIN data.schema = 1 .. l
      BY <1>0, DatasetParts
    <3>5. ASSUME NEW j \in 1 .. l
          PROVE  /\ cols[j] = <<NameOf(data.schema[j]), Resolve(TextAt(TableName, data.schema, <<>>, j))>>
                 /\ cols[j] \in Name \X PgTypes
      <4>1. PICK text : text = TextAt(TableName, data.schema, <<>>, j)
        OBVIOUS
      <4>2. Mapping.types[j] = text
        BY <1>2, <3>4, <4>1 DEF FieldsMapped
      <4>3. TypeOf(data.schema[j]) \in Types /\ NameOf(data.schema[j]) \in Name
        BY <1>0, <3>4, DatasetParts
      <4>4. <<>> \in Name /\ TableName \in Name
        BY SessionAssumption DEF Name
      <4>5. Under(<<>>, NameOf(data.schema[j])) \in Name
        BY <4>3, <4>4, NamesInside
      <4>6. text \in PgTexts
        BY <4>1, <4>3, <4>4, <4>5, TextTyped DEF TextAt
      <4>7. Resolve(text) \in PgTypes
        BY <4>6 DEF Resolve, PgTexts, PgTypes
      <4> QED
        BY <3>1, <3>4, <4>1, <4>2, <4>3, <4>7
    <3>6. cols \in Seq(Name \X PgTypes)
      <4>1. PICK A : A = Name \X PgTypes
        OBVIOUS
      <4>2. cols = [j \in 1 .. l |-> cols[j]] /\ \A j \in 1 .. l : cols[j] \in A
        BY <3>1, <3>4, <3>5, <4>1
      <4>3. cols \in Seq(A)
        BY <4>2
      <4> QED
        BY <4>1, <4>3
    <3>7. DOMAIN cols = DOMAIN data.schema
      BY <3>1
    <3> QED
      BY <3>2, <3>3, <3>4, <3>5, <3>6, <3>7 DEF Tabled
  <2> QED
    BY <1>2, <2>1, <2>2, <2>3
<1>5. Scanned'
  <2>1. Len(data.rows)' \in Nat
    BY <1>0, DatasetParts DEF Import
  <2> QED
    BY <2>1, IdleScan DEF IInv, Import
<1>6. Asked'
  BY DEF Import, NoAnswer, Asked
<1>7. checked' \in BOOLEAN /\ tables' \in 0 .. MaxTables
  BY SessionAssumption DEF IInv, Import
<1> QED
  BY <1>1, <1>3, <1>4, <1>5, <1>6, <1>7 DEF IInv

LEMMA DeclareStep == IInv /\ (\E cols \in Declarations : Declare(cols)) => IInv'
<1> SUFFICES ASSUME IInv, NEW cols \in Declarations, Declare(cols) PROVE IInv'
  OBVIOUS
<1>1. cols \in Seq(Name \X PgTypes)
  BY SessionAssumption
<1>2. table' = [st |-> "declared", cols |-> cols, from |-> <<>>, fresh |-> FALSE]
  BY DEF Declare, NoTable
<1>3. Tabled'
  BY <1>1, <1>2 DEF Tabled
<1>4. Stored' /\ Cataloged'
  BY DEF IInv, Declare, Stored, Cataloged
<1>5. Scanned'
  <2>1. Len(data.rows)' \in Nat
    BY DatasetParts DEF Declare, IInv, Stored
  <2> QED
    BY <2>1, IdleScan DEF IInv, Declare
<1>6. Asked'
  BY DEF Declare, NoAnswer, Asked
<1>7. checked' \in BOOLEAN /\ tables' \in 0 .. MaxTables
  BY SessionAssumption DEF IInv, Declare
<1> QED
  BY <1>3, <1>4, <1>5, <1>6, <1>7 DEF IInv

LEMMA DropStep == IInv /\ DropTable => IInv'
<1> SUFFICES ASSUME IInv, DropTable PROVE IInv'
  OBVIOUS
<1>1. Tabled'
  BY DEF DropTable, NoTable, Tabled
<1>2. Stored' /\ Cataloged'
  BY DEF IInv, DropTable, Stored, Cataloged
<1>3. Scanned'
  <2>1. Len(data.rows)' \in Nat
    BY DatasetParts DEF DropTable, IInv, Stored
  <2> QED
    BY <2>1, IdleScan DEF IInv, DropTable
<1>4. Asked'
  BY DEF DropTable, NoAnswer, Asked
<1>5. checked' \in BOOLEAN /\ tables' \in 0 .. MaxTables
  BY DEF IInv, DropTable
<1> QED
  BY <1>1, <1>2, <1>3, <1>4, <1>5 DEF IInv

LEMMA SameConversion ==
    ASSUME UNCHANGED <<checked, data, catalog, table>>
    PROVE  /\ \A row : Converted(row)' = Converted(row)
           /\ \A c : ColumnFits(c)' = ColumnFits(c)
<1>1. ASSUME NEW row PROVE Converted(row)' = Converted(row)
  BY DEF Converted, Column, Env
<1>2. ASSUME NEW c PROVE ColumnFits(c)' = ColumnFits(c)
  BY DEF ColumnFits, Column
<1> QED
  BY <1>1, <1>2

LEMMA BeginStep == IInv /\ Begin => IInv'
<1> SUFFICES ASSUME IInv, Begin PROVE IInv'
  OBVIOUS
<1>1. UNCHANGED <<checked, data, catalog, table>>
  BY DEF Begin
<1>2. Stored' /\ Cataloged' /\ Tabled'
  BY <1>1 DEF IInv, Stored, Cataloged, Tabled
<1>3. Len(data.rows) \in Nat
  BY DatasetParts DEF IInv, Stored
<1>4. Scanned'
  <2>1. scan' = [st   |-> IF \A j \in DOMAIN table.cols : ColumnFits(table.cols[j])
                          THEN "open" ELSE "refused",
                 data |-> data, out |-> <<>>, err |-> "none"]
    BY DEF Begin, NoScan
  <2>2. \A c : ColumnFits(c)' = ColumnFits(c)
    BY <1>1, SameConversion
  <2>3. table.st \in {"imported", "declared"}
    BY DEF Begin
  <2>4. CASE \A j \in DOMAIN table.cols : ColumnFits(table.cols[j])
    BY <1>1, <1>3, <2>1, <2>2, <2>3, <2>4 DEF Scanned
  <2>5. CASE ~(\A j \in DOMAIN table.cols : ColumnFits(table.cols[j]))
    BY <1>1, <1>3, <2>1, <2>2, <2>3, <2>5 DEF Scanned
  <2> QED
    BY <2>4, <2>5
<1>5. Asked'
  BY DEF Begin, NoAnswer, Asked
<1>6. checked' \in BOOLEAN /\ tables' \in 0 .. MaxTables
  BY DEF IInv, Begin
<1> QED
  BY <1>2, <1>4, <1>5, <1>6 DEF IInv

LEMMA IterateStep == IInv /\ Iterate => IInv'
<1> SUFFICES ASSUME IInv, Iterate PROVE IInv'
  OBVIOUS
<1>0. IsDataset(data) /\ catalog \in Catalogs /\ Tabled /\ checked \in BOOLEAN
  BY DEF IInv, Stored, Cataloged
<1>1. UNCHANGED <<checked, data, catalog, table>>
  BY DEF Iterate
<1>2. Stored' /\ Cataloged' /\ Tabled'
  BY <1>1 DEF IInv, Stored, Cataloged, Tabled
<1>3. PICK n \in Nat : n = Len(data.rows)
  BY <1>0, DatasetParts
<1>4. PICK l \in Nat : l = Len(scan.out) /\ l <= n
  BY <1>3 DEF IInv, Scanned
<1>5. /\ scan.st = "open" /\ scan.data = data /\ scan.err = "none" /\ scan.out \in Seq(Seq(Datums))
      /\ table.st \in {"imported", "declared"}
      /\ \A j \in DOMAIN table.cols : ColumnFits(table.cols[j])
      /\ \A i \in 1 .. l : Converted(data.rows[i]).err = "none" /\ scan.out[i] = Converted(data.rows[i]).d.sub
  BY <1>4 DEF IInv, Scanned, Iterate
<1>6. /\ \A row : Converted(row)' = Converted(row)
      /\ \A c : ColumnFits(c)' = ColumnFits(c)
  BY <1>1, SameConversion
<1>7. CASE l = n
  <2>1. scan' = [scan EXCEPT !.st = "done"]
    BY <1>3, <1>4, <1>7 DEF Iterate
  <2>2. /\ scan'.st = "done" /\ scan'.data = data /\ scan'.err = "none" /\ scan'.out = scan.out
    BY <1>5, <2>1 DEF IInv, Scanned
  <2> QED
    <3>1. Scanned'
      BY <1>1, <1>3, <1>4, <1>5, <1>6, <2>2 DEF Scanned
    <3>2. Asked' /\ checked' \in BOOLEAN /\ tables' \in 0 .. MaxTables
      BY DEF IInv, Iterate, NoAnswer, Asked
    <3> QED
      BY <1>2, <3>1, <3>2 DEF IInv
<1>8. CASE l < n
  <2>1. PICK row : row = data.rows[l + 1]
    OBVIOUS
  <2>2. PICK r : r = Converted(row)
    OBVIOUS
  <2>3. scan' = IF r.err = "none" THEN [scan EXCEPT !.out = Append(@, r.d.sub)]
                ELSE [scan EXCEPT !.st = "failed", !.err = r.err]
    BY <1>3, <1>4, <1>8, <2>1, <2>2 DEF Iterate
  <2>4. CASE r.err = "none"
    <3>1. r.d.sub \in Seq(Datums)
      <4>1. PICK m \in Nat : m = Len(table.cols) /\ DOMAIN table.cols = 1 .. m
        BY <1>0, TableParts
      <4>2. r.d.sub = [j \in 1 .. m |-> ShownIn(row, j).d]
        BY <1>0, <2>2, <2>4, <4>1, RowShown
      <4>3. l + 1 \in 1 .. Len(data.rows)
        BY <1>3, <1>4, <1>8
      <4>4. \A j \in 1 .. m : ShownIn(row, j).d \in Datums
        BY <1>0, <1>5, <2>1, <4>1, <4>3, CellConverts
      <4> QED
        BY <4>2, <4>4
    <3>2. /\ scan'.st = "open" /\ scan'.data = data /\ scan'.err = "none"
          /\ scan'.out = Append(scan.out, r.d.sub)
      BY <1>5, <2>3, <2>4 DEF IInv, Scanned
    <3>3. /\ scan'.out \in Seq(Seq(Datums)) /\ Len(scan'.out) = l + 1
          /\ scan'.out[l + 1] = r.d.sub /\ \A i \in 1 .. l : scan'.out[i] = scan.out[i]
      BY <1>4, <1>5, <3>1, <3>2, AppendProperties
    <3>4. \A i \in 1 .. l + 1 : i \in 1 .. l \/ i = l + 1
      OBVIOUS
    <3>5. \A i \in 1 .. l + 1 : Converted(data.rows[i]).err = "none" /\ scan'.out[i] = Converted(data.rows[i]).d.sub
      BY <1>5, <2>1, <2>2, <2>4, <3>3, <3>4
    <3>6. l + 1 <= n
      BY <1>8
    <3>7. Scanned'
      BY <1>1, <1>3, <1>5, <1>6, <3>2, <3>3, <3>5, <3>6 DEF Scanned
    <3>8. Asked' /\ checked' \in BOOLEAN /\ tables' \in 0 .. MaxTables
      BY DEF IInv, Iterate, NoAnswer, Asked
    <3> QED
      BY <1>2, <3>7, <3>8 DEF IInv
  <2>5. CASE r.err # "none"
    <3>1. /\ scan'.st = "failed" /\ scan'.data = data /\ scan'.err = r.err /\ scan'.out = scan.out
      BY <1>5, <2>3, <2>5 DEF IInv, Scanned
    <3>2. Scanned'
      BY <1>1, <1>3, <1>4, <1>5, <1>6, <1>8, <2>1, <2>2, <2>5, <3>1 DEF Scanned
    <3>3. Asked' /\ checked' \in BOOLEAN /\ tables' \in 0 .. MaxTables
      BY DEF IInv, Iterate, NoAnswer, Asked
    <3> QED
      BY <1>2, <3>2, <3>3 DEF IInv
  <2> QED
    BY <2>4, <2>5
<1> QED
  BY <1>4, <1>7, <1>8

LEMMA EndStep == IInv /\ EndScan => IInv'
<1> SUFFICES ASSUME IInv, EndScan PROVE IInv'
  OBVIOUS
<1>1. Stored' /\ Cataloged' /\ Tabled'
  BY DEF EndScan, IInv, Stored, Cataloged, Tabled
<1>2. Scanned'
  <2>1. Len(data.rows)' \in Nat
    BY DatasetParts DEF EndScan, IInv, Stored
  <2>2. scan' = NoScan
    BY DEF EndScan
  <2> QED
    BY <2>1, <2>2 DEF Scanned, NoScan
<1>3. Asked'
  BY DEF EndScan, NoAnswer, Asked
<1>4. checked' \in BOOLEAN /\ tables' \in 0 .. MaxTables
  BY DEF IInv, EndScan
<1> QED
  BY <1>1, <1>2, <1>3, <1>4 DEF IInv

\* Nothing but the answer changes.
LEMMA AskStep ==
    ASSUME IInv, UNCHANGED <<checked, data, catalog, table, tables, scan>>, Asked'
    PROVE  IInv'
<1>1. Stored' /\ Cataloged' /\ Tabled'
  BY DEF IInv, Stored, Cataloged, Tabled
<1>2. Scanned'
  <2>1. /\ \A row : Converted(row)' = Converted(row)
        /\ \A c : ColumnFits(c)' = ColumnFits(c)
    BY SameConversion
  <2> QED
    BY <2>1 DEF IInv, Scanned
<1> QED
  BY <1>1, <1>2 DEF IInv

LEMMA NextHolds == IInv /\ [Next]_vars => IInv'
<1> SUFFICES ASSUME IInv, [Next]_vars PROVE IInv'
  OBVIOUS
<1>1. ASSUME NEW op \in Extrema, NEW col \in DOMAIN data.schema, Ask(op, col) PROVE IInv'
  <2>1. UNCHANGED <<checked, data, catalog, table, tables, scan>>
    BY <1>1 DEF Ask
  <2>2. answer'.col = col
    BY <1>1 DEF Ask
  <2>3. Asked'
    BY <2>1, <2>2 DEF Asked
  <2> QED
    BY <2>1, <2>3, AskStep
<1>2. CASE UNCHANGED vars
  <2>1. UNCHANGED <<checked, data, catalog, table, tables, scan>> /\ Asked'
    BY <1>2 DEF vars, IInv, Asked
  <2> QED
    BY <2>1, AskStep
<1> QED
  BY <1>1, <1>2, ReplaceStep, WriteStep, MergeStep, ImportStep, DeclareStep, DropStep, BeginStep, IterateStep, EndStep
  DEF Next

(***************************************************************************)
(* A scan that has begun found that every column fits, and the rows it has *)
(* shown are the first ones, converted (begin_foreign_scan,                *)
(* iterate_foreign_scan); the dataset, the table and the composite types   *)
(* stay what a writer, an import and a declaration make.                   *)
(***************************************************************************)
THEOREM InductiveInvariant == Spec => []IInv
  BY InitHolds, NextHolds, PTL DEF Spec

-----------------------------------------------------------------------------
(* Types, and the check.                                                   *)

\* What a scan has shown was converted from a cell of a column that fits.
LEMMA Shown ==
    ASSUME IInv, NEW i \in 1 .. Len(scan.out)
    PROVE  /\ i \in 1 .. Len(data.rows)
           /\ DOMAIN scan.out[i] = 1 .. Len(table.cols)
           /\ \A j \in 1 .. Len(table.cols) :
                /\ ColumnFits(table.cols[j])
                /\ ShownIn(data.rows[i], j).err = "none"
                /\ scan.out[i][j] = ShownIn(data.rows[i], j).d
<1>1. Tabled /\ Scanned /\ IsDataset(data)
  BY DEF IInv, Stored
<1>2. PICK m \in Nat : m = Len(table.cols) /\ DOMAIN table.cols = 1 .. m
  BY <1>1, TableParts
<1>3. Len(data.rows) \in Nat /\ Len(scan.out) \in Nat /\ Len(scan.out) <= Len(data.rows)
  BY <1>1, DatasetParts DEF Scanned
<1>4. scan.out # <<>>
  OBVIOUS
<1>5. scan.st \in {"open", "failed", "done"}
  BY <1>1, <1>4 DEF Scanned
<1>6. PICK row : row = data.rows[i]
  OBVIOUS
<1>7. PICK r : r = Converted(row)
  OBVIOUS
<1>8. r.err = "none" /\ scan.out[i] = r.d.sub
  BY <1>1, <1>6, <1>7 DEF Scanned
<1>9. r.d.sub = [j \in 1 .. m |-> ShownIn(row, j).d] /\ \A j \in 1 .. m : ShownIn(row, j).err = "none"
  BY <1>1, <1>2, <1>7, <1>8, RowShown
<1>10. \A j \in 1 .. m : ColumnFits(table.cols[j])
  BY <1>1, <1>2, <1>5 DEF Scanned
<1> QED
  BY <1>2, <1>3, <1>6, <1>8, <1>9, <1>10

\* A scan fails at the first cell of the next row that cannot be shown.
LEMMA Failed ==
    ASSUME IInv, scan.err # "none"
    PROVE  /\ scan.st = "failed" /\ Len(scan.out) + 1 \in 1 .. Len(data.rows)
           /\ \E j \in 1 .. Len(table.cols) :
                ColumnFits(table.cols[j]) /\ scan.err = ShownIn(data.rows[Len(scan.out) + 1], j).err
<1>1. Tabled /\ Scanned /\ IsDataset(data)
  BY DEF IInv, Stored
<1>2. PICK m \in Nat : m = Len(table.cols) /\ DOMAIN table.cols = 1 .. m
  BY <1>1, TableParts
<1>3. PICK n \in Nat : n = Len(scan.out)
  BY <1>1 DEF Scanned
<1>4. PICK row : row = data.rows[n + 1]
  OBVIOUS
<1>5. scan.st = "failed" /\ n < Len(data.rows) /\ scan.err = Converted(row).err
  BY <1>1, <1>3, <1>4 DEF Scanned
<1>6. n + 1 \in 1 .. Len(data.rows)
  BY <1>1, <1>5, DatasetParts
<1>7. PICK j \in 1 .. m : scan.err = ShownIn(row, j).err
  BY <1>1, <1>2, <1>5, RowShown
<1>8. ColumnFits(table.cols[j])
  BY <1>1, <1>2, <1>5 DEF Scanned
<1> QED
  BY <1>2, <1>3, <1>4, <1>5, <1>6, <1>7, <1>8

LEMMA FailedTyped == IInv => scan.err \in Errors \ {"mismatch"}
<1> SUFFICES ASSUME IInv, scan.err # "none" PROVE scan.err \in Errors \ {"mismatch"}
  BY DEF Errors
<1>1. PICK i \in 1 .. Len(data.rows) : i = Len(scan.out) + 1
  BY Failed
<1>2. PICK j \in 1 .. Len(table.cols) :
        ColumnFits(table.cols[j]) /\ scan.err = ShownIn(data.rows[i], j).err
  BY <1>1, Failed
<1>3. checked \in BOOLEAN /\ IsDataset(data) /\ catalog \in Catalogs /\ Tabled
  BY DEF IInv, Stored, Cataloged
<1> QED
  BY <1>2, <1>3, CellConverts

(***************************************************************************)
(* Every value shown is a datum of PostgreSQL: a kind, and inside an array *)
(* or a row datums of less depth.                                          *)
(***************************************************************************)
THEOREM TypeCorrect == Spec => []TypeOK
<1>1. ASSUME IInv PROVE TypeOK
  <2>1. Tabled /\ Scanned /\ IsDataset(data) /\ catalog \in Catalogs /\ checked \in BOOLEAN
        /\ tables \in 0 .. MaxTables /\ Asked
    BY <1>1 DEF IInv, Stored, Cataloged
  <2>2. DOMAIN table.cols = 1 .. Len(table.cols)
    BY <2>1, TableParts
  <2>3. DOMAIN scan.out = 1 .. Len(scan.out)
    BY <2>1 DEF Scanned
  <2>4. ASSUME NEW i \in DOMAIN scan.out
        PROVE  /\ DOMAIN scan.out[i] = DOMAIN table.cols
               /\ \A j \in DOMAIN scan.out[i] : scan.out[i][j] \in Datums
    <3>1. i \in 1 .. Len(scan.out)
      BY <2>3
    <3>2. i \in 1 .. Len(data.rows) /\ DOMAIN scan.out[i] = 1 .. Len(table.cols)
      BY <1>1, <3>1, Shown
    <3>3. ASSUME NEW j \in 1 .. Len(table.cols) PROVE scan.out[i][j] \in Datums
      <4>1. ColumnFits(table.cols[j]) /\ scan.out[i][j] = ShownIn(data.rows[i], j).d
        BY <1>1, <3>1, Shown
      <4> QED
        BY <2>1, <3>2, <4>1, CellConverts
    <3> QED
      BY <2>2, <3>2, <3>3
  <2>5. scan.err \in Errors
    BY <1>1, FailedTyped
  <2> QED
    BY <2>1, <2>4, <2>5 DEF TypeOK, Tabled, Scanned, Asked, Errors
<1> QED
  BY <1>1, InductiveInvariant, PTL

(***************************************************************************)
(* What validate_arrow_type_for_pg_oid lets through arrow_value_to_datum   *)
(* accepts, for every type however deep, every declared table and every    *)
(* composite type left from before: no row of a scan that has begun ends   *)
(* it because a type does not fit.                                         *)
(***************************************************************************)
THEOREM CheckedNeverMismatches == Spec => []ValidatedNeverMismatches
<1>1. IInv => ValidatedNeverMismatches
  BY FailedTyped DEF ValidatedNeverMismatches
<1> QED
  BY <1>1, InductiveInvariant, PTL


-----------------------------------------------------------------------------
(* What is shown is true.                                                  *)

LEMMA JsonAgreesLocal ==
    ASSUME NEW f, NEW g, NEW t \in Types, NEW v \in Cells, NEW d \in Datums,
           \A i \in DOMAIN t.sub : f[TypeOf(t.sub[i])] = g[TypeOf(t.sub[i])]
    PROVE  JsonAgrees(f, t, v, d) = JsonAgrees(g, t, v, d)
<1>1. t.k \in Lists \union {"Dictionary"} => f[Item(t)] = g[Item(t)]
  BY TypeParts DEF Item
<1>2. CASE v.null
  BY <1>2 DEF JsonAgrees
<1>3. CASE ~v.null /\ t.k \in Lists
  BY <1>1, <1>3 DEF JsonAgrees, Lists
<1>4. CASE ~v.null /\ t.k = "Dictionary"
  BY <1>1, <1>4 DEF JsonAgrees, Lists
<1>5. CASE ~v.null /\ t.k = "Struct"
  BY <1>5 DEF JsonAgrees, Lists
<1>6. CASE ~v.null /\ t.k \notin Lists \union {"Dictionary", "Struct"}
  BY <1>6 DEF JsonAgrees
<1> QED
  BY <1>2, <1>3, <1>4, <1>5, <1>6

LEMMA AgreesLocal ==
    ASSUME NEW types, NEW f, NEW g, NEW t \in Types, NEW v \in Cells, NEW pg \in PgTypes,
           NEW d \in Datums,
           \A i \in DOMAIN t.sub : f[TypeOf(t.sub[i])] = g[TypeOf(t.sub[i])]
    PROVE  Agrees(f, t, v, pg, d, types) = Agrees(g, t, v, pg, d, types)
<1>1. t.k \in Lists \union {"Dictionary"} => f[Item(t)] = g[Item(t)]
  BY TypeParts DEF Item
<1>2. CASE v.null
  BY <1>2 DEF Agrees
<1>3. CASE ~v.null /\ t.k \in Lists /\ pg.array
  BY <1>1, <1>3 DEF Agrees, Lists
<1>4. CASE ~v.null /\ t.k \in Lists /\ ~pg.array
  BY <1>4 DEF Agrees, Lists
<1>5. CASE ~v.null /\ t.k = "Dictionary"
  BY <1>1, <1>5 DEF Agrees, Lists
<1>6. CASE ~v.null /\ t.k = "Struct"
  BY <1>6 DEF Agrees, Lists
<1>7. CASE ~v.null /\ t.k \notin Lists \union {"Dictionary", "Struct"}
  BY <1>7 DEF Agrees
<1> QED
  BY <1>2, <1>3, <1>4, <1>5, <1>6, <1>7

\* JsonTrue is what its definition says.
LEMMA JsonTrueIs ==
    ASSUME NEW t \in Types, NEW v \in Cells, NEW d \in Datums
    PROVE  JsonTrue[t][v][d] = JsonAgrees(JsonTrue, t, v, d)
<1> DEFINE Row(f, s) == [c \in Cells |-> [e \in Datums |-> JsonAgrees(f, s, c, e)]]
<1> DEFINE Good(f, m) == \A s \in TypesTo[m] : f[s] = Row(f, s)
<1> DEFINE S == {m \in 0 .. MaxDepth : \E f : f = [s \in Types |-> f[s]] /\ Good(f, m)}
<1>0. MaxDepth \in Nat
  BY DepthAssumption
<1>1. ASSUME NEW f, NEW g, NEW s \in Types,
             \A i \in DOMAIN s.sub : f[TypeOf(s.sub[i])] = g[TypeOf(s.sub[i])]
      PROVE  Row(f, s) = Row(g, s)
  <2>1. ASSUME NEW c \in Cells, NEW e \in Datums PROVE JsonAgrees(f, s, c, e) = JsonAgrees(g, s, c, e)
    BY <1>1, JsonAgreesLocal
  <2> QED
    BY <2>1
<1> HIDE DEF Row
<1>2. ASSUME NEW m \in 0 .. MaxDepth, NEW f, NEW g, g = [s \in Types |-> Row(f, s)],
             \A s \in TypesTo[m] : \A i \in DOMAIN s.sub : f[TypeOf(s.sub[i])] = g[TypeOf(s.sub[i])]
      PROVE  g = [s \in Types |-> g[s]] /\ Good(g, m)
  <2>1. g = [s \in Types |-> g[s]]
    BY <1>2
  <2>2. ASSUME NEW s \in TypesTo[m] PROVE g[s] = Row(g, s)
    <3>1. s \in Types
      BY TypesToGrow DEF Types
    <3>2. Row(f, s) = Row(g, s)
      BY <1>1, <1>2, <3>1
    <3> QED
      BY <1>2, <3>1, <3>2
  <2> QED
    BY <2>1, <2>2
<1>3. 0 \in S
  <2>1. PICK f : f = [s \in Types |-> {}]
    OBVIOUS
  <2>2. PICK g : g = [s \in Types |-> Row(f, s)]
    OBVIOUS
  <2>3. 0 \in 0 .. MaxDepth
    BY <1>0
  <2>4. \A s \in TypesTo[0] : \A i \in DOMAIN s.sub : f[TypeOf(s.sub[i])] = g[TypeOf(s.sub[i])]
    BY <2>3, Inside
  <2>5. g = [s \in Types |-> g[s]] /\ Good(g, 0)
    <3> HIDE DEF Good
    <3> QED
      BY <1>2, <2>2, <2>3, <2>4
  <2> QED
    BY <2>3, <2>5
<1>4. ASSUME NEW m \in 0 .. MaxDepth - 1, m \in S PROVE m + 1 \in S
  <2>1. PICK f : f = [s \in Types |-> f[s]] /\ Good(f, m)
    BY <1>4
  <2>2. PICK g : g = [s \in Types |-> Row(f, s)]
    OBVIOUS
  <2>3. m + 1 \in 0 .. MaxDepth /\ m \in 0 .. MaxDepth /\ m + 1 - 1 = m
    BY <1>0
  <2>4. ASSUME NEW s \in TypesTo[m + 1], NEW i \in DOMAIN s.sub
        PROVE  f[TypeOf(s.sub[i])] = g[TypeOf(s.sub[i])]
    <3>1. TypeOf(s.sub[i]) \in TypesTo[m]
      BY <2>3, Inside
    <3>2. TypeOf(s.sub[i]) \in Types
      BY <2>3, <3>1, TypesToGrow DEF Types
    <3> QED
      BY <2>1, <2>2, <3>1, <3>2
  <2>5. g = [s \in Types |-> g[s]] /\ Good(g, m + 1)
    <3> HIDE DEF Good
    <3> QED
      BY <1>2, <2>2, <2>3, <2>4
  <2> QED
    BY <2>3, <2>5
<1>5. MaxDepth \in S
  <2> HIDE DEF S
  <2> QED
    BY <1>0, <1>3, <1>4, Induct
<1>6. PICK f : f = [s \in Types |-> f[s]] /\ Good(f, MaxDepth)
  BY <1>5
<1>7. f = [s \in Types |-> Row(f, s)]
  BY <1>6 DEF Types
<1>8. \E h : h = [s \in Types |-> Row(h, s)]
  BY <1>7
<1>9. JsonTrue = [s \in Types |-> Row(JsonTrue, s)]
  BY <1>8 DEF Row, JsonTrue
<1>10. PICK h : h = JsonTrue
  OBVIOUS
<1>11. h[t] = Row(h, t)
  BY <1>9, <1>10
<1>12. h[t][v][d] = JsonAgrees(h, t, v, d)
  BY <1>11 DEF Row
<1> QED
  BY <1>10, <1>12

\* ShownTrue is what its definition says.
LEMMA ShownTrueIs ==
    ASSUME NEW types, NEW t \in Types, NEW v \in Cells, NEW pg \in PgTypes, NEW d \in Datums
    PROVE  ShownTrue(types)[t][v][pg][d] = Agrees(ShownTrue(types), t, v, pg, d, types)
<1> DEFINE Row(f, s) == [c \in Cells |-> [p \in PgTypes |-> [e \in Datums |-> Agrees(f, s, c, p, e, types)]]]
<1> DEFINE Good(f, m) == \A s \in TypesTo[m] : f[s] = Row(f, s)
<1> DEFINE S == {m \in 0 .. MaxDepth : \E f : f = [s \in Types |-> f[s]] /\ Good(f, m)}
<1>0. MaxDepth \in Nat
  BY DepthAssumption
<1>1. ASSUME NEW f, NEW g, NEW s \in Types,
             \A i \in DOMAIN s.sub : f[TypeOf(s.sub[i])] = g[TypeOf(s.sub[i])]
      PROVE  Row(f, s) = Row(g, s)
  <2>1. ASSUME NEW c \in Cells, NEW p \in PgTypes, NEW e \in Datums PROVE Agrees(f, s, c, p, e, types) = Agrees(g, s, c, p, e, types)
    BY <1>1, AgreesLocal
  <2> QED
    BY <2>1
<1> HIDE DEF Row
<1>2. ASSUME NEW m \in 0 .. MaxDepth, NEW f, NEW g, g = [s \in Types |-> Row(f, s)],
             \A s \in TypesTo[m] : \A i \in DOMAIN s.sub : f[TypeOf(s.sub[i])] = g[TypeOf(s.sub[i])]
      PROVE  g = [s \in Types |-> g[s]] /\ Good(g, m)
  <2>1. g = [s \in Types |-> g[s]]
    BY <1>2
  <2>2. ASSUME NEW s \in TypesTo[m] PROVE g[s] = Row(g, s)
    <3>1. s \in Types
      BY TypesToGrow DEF Types
    <3>2. Row(f, s) = Row(g, s)
      BY <1>1, <1>2, <3>1
    <3> QED
      BY <1>2, <3>1, <3>2
  <2> QED
    BY <2>1, <2>2
<1>3. 0 \in S
  <2>1. PICK f : f = [s \in Types |-> {}]
    OBVIOUS
  <2>2. PICK g : g = [s \in Types |-> Row(f, s)]
    OBVIOUS
  <2>3. 0 \in 0 .. MaxDepth
    BY <1>0
  <2>4. \A s \in TypesTo[0] : \A i \in DOMAIN s.sub : f[TypeOf(s.sub[i])] = g[TypeOf(s.sub[i])]
    BY <2>3, Inside
  <2>5. g = [s \in Types |-> g[s]] /\ Good(g, 0)
    <3> HIDE DEF Good
    <3> QED
      BY <1>2, <2>2, <2>3, <2>4
  <2> QED
    BY <2>3, <2>5
<1>4. ASSUME NEW m \in 0 .. MaxDepth - 1, m \in S PROVE m + 1 \in S
  <2>1. PICK f : f = [s \in Types |-> f[s]] /\ Good(f, m)
    BY <1>4
  <2>2. PICK g : g = [s \in Types |-> Row(f, s)]
    OBVIOUS
  <2>3. m + 1 \in 0 .. MaxDepth /\ m \in 0 .. MaxDepth /\ m + 1 - 1 = m
    BY <1>0
  <2>4. ASSUME NEW s \in TypesTo[m + 1], NEW i \in DOMAIN s.sub
        PROVE  f[TypeOf(s.sub[i])] = g[TypeOf(s.sub[i])]
    <3>1. TypeOf(s.sub[i]) \in TypesTo[m]
      BY <2>3, Inside
    <3>2. TypeOf(s.sub[i]) \in Types
      BY <2>3, <3>1, TypesToGrow DEF Types
    <3> QED
      BY <2>1, <2>2, <3>1, <3>2
  <2>5. g = [s \in Types |-> g[s]] /\ Good(g, m + 1)
    <3> HIDE DEF Good
    <3> QED
      BY <1>2, <2>2, <2>3, <2>4
  <2> QED
    BY <2>3, <2>5
<1>5. MaxDepth \in S
  <2> HIDE DEF S
  <2> QED
    BY <1>0, <1>3, <1>4, Induct
<1>6. PICK f : f = [s \in Types |-> f[s]] /\ Good(f, MaxDepth)
  BY <1>5
<1>7. f = [s \in Types |-> Row(f, s)]
  BY <1>6 DEF Types
<1>8. \E h : h = [s \in Types |-> Row(h, s)]
  BY <1>7
<1>9. ShownTrue(types) = [s \in Types |-> Row(ShownTrue(types), s)]
  BY <1>8 DEF Row, ShownTrue
<1>10. PICK h : h = ShownTrue(types)
  OBVIOUS
<1>11. h[t] = Row(h, t)
  BY <1>9, <1>10
<1>12. h[t][v][pg][d] = Agrees(h, t, v, pg, d, types)
  BY <1>11 DEF Row
<1> QED
  BY <1>10, <1>12

LEMMA JsonScalarIs ==
    ASSUME NEW t \in Types, t.k \notin Lists \union {"Dictionary", "Struct"}, NEW n \in NumbersOf(t)
    PROVE  \/ /\ JsonScalar(t, n).k \in {"jsonb number", "jsonb string", "jsonb bool"}
              /\ JsonScalar(t, n).n = n /\ JsonScalar(t, n).scale = t.scale
           \/ t.k = "UInt64" /\ n > Max64
           \/ n = NaN /\ JsonScalar(t, n).k = "jsonb null"
           \/ /\ JsonScalar(t, n).k = "jsonb placeholder"
              /\ MappedTo(t) \in {"jsonb", "date", "timestamp", "timestamptz"}
<1>1. t.k \notin {"Decimal128", "Decimal256"} => t.scale = 0
  BY TypeParts DEF Shaped
<1>2. ASSUME NEW k \in {"jsonb number", "jsonb string", "jsonb bool"}, JsonScalar(t, n) = Datum(k, n), t.scale = 0
      PROVE  JsonScalar(t, n).k = k /\ JsonScalar(t, n).n = n /\ JsonScalar(t, n).scale = t.scale
  <2>1. Datum(k, n).k = k /\ Datum(k, n).n = n /\ Datum(k, n).scale = 0
    BY DEF Datum
  <2> QED
    BY <1>2, <2>1
<1>3. CASE t.k \in Integer
  <2>1. JsonScalar(t, n) = Datum("jsonb number", Wrapped(n))
    BY <1>3 DEF JsonScalar, Integer, Float
  <2>2. t.scale = 0
    BY <1>1, <1>3 DEF Integer
  <2>3. Max64 \in Nat
    BY TimeAssumption
  <2>4. (n > Max64 /\ t.k = "UInt64") \/ Wrapped(n) = n
    <3>1. CASE t.k = "UInt64"
      <4>1. n \in 0 .. Size - 1
        BY <3>1 DEF NumbersOf, Integer, Float
      <4> QED
        BY <2>3, <3>1, <4>1 DEF Wrapped, Min64, Size
    <3>2. CASE t.k # "UInt64"
      <4>1. n \in I64
        BY <1>3, <3>2 DEF NumbersOf, Integer, Float
      <4> QED
        BY <2>3, <4>1 DEF Wrapped, Min64, I64
    <3> QED
      BY <3>1, <3>2
  <2> QED
    BY <1>2, <2>1, <2>2, <2>4
<1>4. CASE t.k \in Float
  <2>1. t.scale = 0
    BY <1>1, <1>4 DEF Float
  <2>2. CASE n = NaN
    <3>1. JsonScalar(t, n) = Datum("jsonb null", 0)
      BY <1>4, <2>2 DEF JsonScalar, Integer, Float
    <3>2. Datum("jsonb null", 0).k = "jsonb null"
      BY DEF Datum
    <3> QED
      BY <2>2, <3>1, <3>2
  <2>3. CASE n # NaN
    <3>1. JsonScalar(t, n) = Datum("jsonb number", n)
      BY <1>4, <2>3 DEF JsonScalar, Integer, Float
    <3> QED
      BY <1>2, <2>1, <3>1
  <2> QED
    BY <2>2, <2>3
<1>5. CASE t.k = "Boolean"
  <2>1. JsonScalar(t, n) = Datum("jsonb bool", n) /\ t.scale = 0
    BY <1>1, <1>5 DEF JsonScalar, Integer, Float
  <2> QED
    BY <1>2, <2>1
<1>6. CASE t.k \in {"Utf8", "LargeUtf8", "Binary", "LargeBinary", "FixedSizeBinary"}
  <2>1. JsonScalar(t, n) = Datum("jsonb string", n) /\ t.scale = 0
    BY <1>1, <1>6 DEF JsonScalar, Integer, Float
  <2> QED
    BY <1>2, <2>1
<1>7. CASE t.k \in {"Decimal128", "Decimal256"}
  <2>1. JsonScalar(t, n) = [Datum("jsonb string", n) EXCEPT !.scale = t.scale]
    BY <1>7 DEF JsonScalar, Integer, Float
  <2> QED
    BY <2>1 DEF Datum
<1>8. CASE t.k \notin Integer /\ t.k \notin Float /\ t.k # "Boolean"
           /\ t.k \notin {"Utf8", "LargeUtf8", "Binary", "LargeBinary", "FixedSizeBinary"}
           /\ t.k \notin {"Decimal128", "Decimal256"}
  <2>1. JsonScalar(t, n) = Datum("jsonb placeholder", 0)
    BY <1>8 DEF JsonScalar
  <2>2. Datum("jsonb placeholder", 0).k = "jsonb placeholder"
    BY DEF Datum
  <2>3. MappedTo(t) \in {"jsonb", "date", "timestamp", "timestamptz"}
    BY <1>8 DEF MappedTo, Float
  <2> QED
    BY <2>1, <2>2, <2>3
<1> QED
  BY <1>3, <1>4, <1>5, <1>6, <1>7, <1>8

LEMMA JsonScalarTrue ==
    ASSUME NEW t \in Types, t.k \notin Lists \union {"Dictionary", "Struct"},
           NEW v \in Cells, ~v.null, v.n \in NumbersOf(t), NEW d, d = JsonScalar(t, v.n)
    PROVE  JsonAgrees(JsonTrue, t, v, d)
  BY JsonScalarIs DEF JsonAgrees

\* The JSON value made of a cell holds what the cell does.
LEMMA JsonShown ==
    ASSUME NEW t \in Types, NEW v \in Cells, Holds[t][v]
    PROVE  JsonTrue[t][v][ToJson[t][v]]
<1> DEFINE P == {s \in Types : \A c \in Cells : Holds[s][c] => JsonTrue[s][c][ToJson[s][c]]}
<1>1. ASSUME NEW s \in Types, \A i \in DOMAIN s.sub : TypeOf(s.sub[i]) \in P
      PROVE  s \in P
  <2> SUFFICES ASSUME NEW c \in Cells, Holds[s][c] PROVE JsonTrue[s][c][ToJson[s][c]]
    OBVIOUS
  <2>0. MaxDepth \in 0 .. MaxDepth /\ c \in CellsTo[MaxDepth]
    BY DepthAssumption DEF Cells
  <2>1. PICK d : d = ToJson[s][c]
    OBVIOUS
  <2>2. d = JsonOf(ToJson, s, c)
    BY <2>1, ToJsonIs
  <2>3. d \in Datums
    BY <2>0, <2>1, ToJsonTyped DEF Datums
  <2>4. JsonTrue[s][c][d] = JsonAgrees(JsonTrue, s, c, d)
    BY <2>3, JsonTrueIs
  <2>5. JsonAgrees(JsonTrue, s, c, d)
    <3>1. CASE c.null
      BY <2>2, <3>1, KindOf DEF JsonOf, JsonAgrees
    <3>2. CASE ~c.null /\ s.k \in Lists
      <4>1. d.k = "jsonb array" /\ d.sub = [i \in DOMAIN c.sub |-> ToJson[Item(s)][c.sub[i]]]
        BY <2>2, <3>2 DEF JsonOf, Lists, Compound, Datum
      <4>2. Item(s) \in P
        BY <1>1, <3>2, TypeParts DEF Item
      <4>3. \A i \in DOMAIN c.sub : c.sub[i] \in Cells /\ Holds[Item(s)][c.sub[i]]
        BY <2>0, <3>2, HeldInside, CellFacts
      <4>4. \A i \in DOMAIN c.sub : JsonTrue[Item(s)][c.sub[i]][d.sub[i]]
        BY <4>1, <4>2, <4>3
      <4> HIDE DEF P
      <4> QED
        BY <3>2, <4>1, <4>4 DEF JsonAgrees, Lists
    <3>3. CASE ~c.null /\ s.k = "Struct"
      <4> DEFINE sub == [i \in DOMAIN s.sub |-> ToJson[TypeOf(s.sub[i])][c.sub[i]]]
      <4>1. d.k = "jsonb object" /\ d.sub = sub /\ d.names = [i \in DOMAIN s.sub |-> NameOf(s.sub[i])]
        BY <2>2, <3>3 DEF JsonOf, Lists, Compound, Datum
      <4>2. PICK l \in Nat : l = Len(s.sub) /\ DOMAIN s.sub = 1 .. l
        BY TypeParts
      <4>3. Len(d.sub) = l
        <5>1. DOMAIN sub = 1 .. l /\ sub = [i \in 1 .. l |-> sub[i]]
          BY <4>2
        <5> HIDE DEF sub
        <5> QED
          BY <4>1, <5>1, LenIs
      <4>4. ASSUME NEW i \in DOMAIN s.sub
            PROVE  d.names[i] = NameOf(s.sub[i]) /\ JsonTrue[TypeOf(s.sub[i])][c.sub[i]][d.sub[i]]
        <5>1. i \in DOMAIN c.sub /\ Holds[TypeOf(s.sub[i])][c.sub[i]]
          BY <2>0, <3>3, HeldInside
        <5>2. c.sub[i] \in Cells
          BY <5>1, CellFacts
        <5>3. TypeOf(s.sub[i]) \in P
          BY <1>1
        <5> QED
          BY <4>1, <5>1, <5>2, <5>3
      <4> HIDE DEF P, sub
      <4> QED
        BY <3>3, <4>1, <4>2, <4>3, <4>4 DEF JsonAgrees, Lists
    <3>4. CASE ~c.null /\ s.k = "Dictionary"
      <4>1. d = ToJson[Item(s)][Entry(c)]
        BY <2>2, <3>4 DEF JsonOf, Lists
      <4>2. Item(s) \in P
        BY <1>1, <3>4, TypeParts DEF Item
      <4>3. Entry(c) \in Cells /\ Holds[Item(s)][Entry(c)]
        BY <2>0, <3>4, HeldInside
      <4>4. JsonTrue[Item(s)][Entry(c)][d]
        BY <4>1, <4>2, <4>3
      <4> HIDE DEF P
      <4> QED
        BY <3>4, <4>4 DEF JsonAgrees, Lists
    <3>5. CASE ~c.null /\ s.k \notin Lists \union {"Dictionary", "Struct"}
      <4>1. d = JsonScalar(s, c.n)
        BY <2>2, <3>5 DEF JsonOf
      <4>2. c.n \in NumbersOf(s)
        BY <2>0, <3>5, HeldInside
      <4> QED
        BY <3>5, <4>1, <4>2, JsonScalarTrue
    <3> QED
      BY <3>1, <3>2, <3>3, <3>4, <3>5
  <2> QED
    BY <2>1, <2>4, <2>5
<1> HIDE DEF P
<1>2. t \in P
  BY <1>1, TypeInduction
<1> QED
  BY <1>2 DEF P

LEMMA WholeDays ==
    ASSUME NEW n \in Int
    PROVE  n \div Day \in Int /\ (n \div Day) * Day <= n /\ n < (n \div Day + 1) * Day
  BY DayAssumption

LEMMA TimestampKind ==
    ASSUME NEW t \in Types, t.k = "Timestamp", NEW n, NEW checked_,
           ToScalar(t, n, checked_).err = "none"
    PROVE  ToScalar(t, n, checked_).d.k # "jsonb placeholder"
<1>1. ToScalar(t, n, checked_) = ToTimestamp(t, n, checked_)
  BY DEF ToScalar, Integer, Required
<1>2. PICK m : m = PgMicros(UnixMicros(t.unit, n))
  OBVIOUS
<1>3. \/ ToTimestamp(t, n, checked_) = Fails("panic")
      \/ ToTimestamp(t, n, checked_) = Fails("range")
      \/ ToTimestamp(t, n, checked_) = Ok(Datum(Required(t), m))
  BY <1>2 DEF ToTimestamp
<1>4. Fails("panic").err = "panic" /\ Fails("range").err = "range"
  BY ResultParts
<1>5. Ok(Datum(Required(t), m)).d.k = Required(t)
  BY DEF Ok, Datum
<1>6. Required(t) # "jsonb placeholder"
  BY RequiredTyped DEF PgBases
<1> QED
  BY <1>1, <1>3, <1>4, <1>5, <1>6

LEMMA TimestampShown ==
    ASSUME NEW t \in Types, t.k = "Timestamp", NEW n \in NumbersOf(t), NEW checked_ \in BOOLEAN,
           ToScalar(t, n, checked_).err = "none", InRange(t.unit, n)
    PROVE  ToScalar(t, n, checked_).d.n + Epoch = TrueMicros(t.unit, n)
<1>1. n \in I64 /\ t.unit \in {"s", "ms", "us", "ns"}
  BY TypeParts DEF NumbersOf, Integer, Float, Shaped
<1>2. ToScalar(t, n, checked_) = ToTimestamp(t, n, checked_)
  BY DEF ToScalar, Integer, Required
<1>3. PICK u : u = UnixMicros(t.unit, n)
  OBVIOUS
<1>4. ToScalar(t, n, checked_) = Ok(Datum(Required(t), PgMicros(u)))
  <2>1. \/ ToTimestamp(t, n, checked_) = Fails("panic")
        \/ ToTimestamp(t, n, checked_) = Fails("range")
        \/ ToTimestamp(t, n, checked_) = Ok(Datum(Required(t), PgMicros(u)))
    BY <1>3 DEF ToTimestamp
  <2>2. Fails("panic").err = "panic" /\ Fails("range").err = "range"
    BY ResultParts
  <2> QED
    BY <1>2, <2>1, <2>2
<1>5. Ok(Datum(Required(t), PgMicros(u))).d.n = PgMicros(u)
  BY DEF Ok, Datum
<1>6. PgMicros(u) = TrueMicros(t.unit, n) - Epoch
  BY <1>1, <1>3, InRangeIsExact
<1>7. TrueMicros(t.unit, n) \in Int /\ Epoch \in Int
  <2>1. Max64 \in Nat /\ Epoch \in 0 .. Max64
    BY TimeAssumption
  <2> QED
    BY <2>1 DEF InRange, Min64
<1> QED
  BY <1>4, <1>5, <1>6, <1>7

Scaled(k, n, s) == [Datum(k, n) EXCEPT !.scale = s]

LEMMA ScaledDatum ==
    ASSUME NEW k, NEW n, NEW s
    PROVE  /\ Scaled(k, n, s).k = k /\ Scaled(k, n, s).n = n /\ Scaled(k, n, s).scale = s
           /\ Datum(k, n) = Scaled(k, n, 0)
  BY DEF Scaled, Datum

ShownScalar(t, n, d) ==
    \/ d.k = "jsonb placeholder" /\ MappedTo(t) = "jsonb" /\ t.k \notin {"Date32", "Date64"}
    \/ /\ d.k # "jsonb placeholder"
       /\ t.k = "Date32" => SameDate(n, d.n)
       /\ t.k = "Date64" => SameDate(n \div Day, d.n)
       /\ t.k \notin {"Date32", "Date64"} => d.n = n /\ d.scale = t.scale

\* What a scalar is shown as.
LEMMA ScalarShown ==
    ASSUME NEW t \in Types, t.k \notin Lists \union {"Dictionary", "Struct"}, t.k # "Timestamp",
           NEW n \in NumbersOf(t), NEW checked_ \in BOOLEAN,
           ToScalar(t, n, checked_).err = "none"
    PROVE  ShownScalar(t, n, ToScalar(t, n, checked_).d)
<1>0. PICK r : r = ToScalar(t, n, checked_)
  OBVIOUS
<1> SUFFICES ShownScalar(t, n, r.d)
  BY <1>0
<1>1. t.k \notin {"Decimal128", "Decimal256"} => t.scale = 0
  BY TypeParts DEF Shaped
<1>2. Required(t) # "jsonb placeholder"
  BY RequiredTyped DEF PgBases
<1>3. ASSUME NEW k, k # "jsonb placeholder", NEW m, NEW s, r = Ok(Scaled(k, m, s))
      PROVE  r.d.k # "jsonb placeholder" /\ r.d.n = m /\ r.d.scale = s
  <2>1. PICK d : d = Scaled(k, m, s)
    OBVIOUS
  <2>2. r.d = d
    BY <1>3, <2>1, ResultParts
  <2>3. d.k = k /\ d.n = m /\ d.scale = s
    BY <2>1, ScaledDatum
  <2> QED
    BY <1>3, <2>2, <2>3
<1>4. \A k, m : Datum(k, m) = Scaled(k, m, 0)
  BY ScaledDatum
<1>5. CASE t.k \in Integer \union {"Boolean"}
  <2>1. r = Fails("range") \/ r = Ok(Datum(Required(t), n))
    BY <1>0, <1>5 DEF ToScalar, ToInteger, Integer, Required
  <2>2. r = Ok(Scaled(Required(t), n, 0))
    BY <1>0, <1>4, <2>1, ResultParts
  <2> QED
    BY <1>1, <1>2, <1>3, <1>5, <2>2 DEF Integer, ShownScalar
<1>6. ASSUME NEW m \in Int, r = ToDate(m) PROVE r.d.k # "jsonb placeholder" /\ SameDate(m, r.d.n)
  <2>1. r # Fails("range") /\ r # Fails("internal")
    BY <1>0, ResultParts
  <2>2. PICK d \in Int : r = Ok(Datum("date", d)) /\ SameDate(m, d)
    BY <1>6, <2>1, ToDateIs
  <2>3. r = Ok(Scaled("date", d, 0))
    BY <1>4, <2>2
  <2>4. r.d.k # "jsonb placeholder" /\ r.d.n = d
    BY <1>3, <2>3
  <2> QED
    BY <2>2, <2>4
<1>7. CASE t.k = "Date32"
  <2>1. r = ToDate(n)
    BY <1>0, <1>7 DEF ToScalar, Integer, Required
  <2>2. n \in Int
    BY <1>7, WholeNumbers DEF Float
  <2> QED
    BY <1>6, <1>7, <2>1, <2>2 DEF ShownScalar
<1>8. CASE t.k = "Date64"
  <2>1. r = ToDate(n \div Day)
    BY <1>0, <1>8 DEF ToScalar, Integer, Required
  <2>2. n \div Day \in Int
    <3>1. n \in Int
      BY <1>8, WholeNumbers DEF Float
    <3> QED
      BY <3>1, DayAssumption
  <2> QED
    BY <1>6, <1>8, <2>1, <2>2 DEF ShownScalar
<1>9. CASE t.k \in {"Decimal128", "Decimal256"}
  <2>1. r = Ok(Scaled("numeric", n, t.scale))
    BY <1>0, <1>9 DEF ToScalar, ToDecimal, Integer, Required, Scaled
  <2> QED
    BY <1>3, <1>9, <2>1 DEF ShownScalar
<1>10. CASE Required(t) = "jsonb" /\ t.k \notin {"Decimal128", "Decimal256", "Date32", "Date64"}
            /\ t.k \notin Integer \union {"Boolean"}
  <2>1. r = Ok(JsonScalar(t, n))
    BY <1>0, <1>10 DEF ToScalar, Integer, Required
  <2>2. t.k \notin {"Float16", "Float32", "Float64", "Utf8", "LargeUtf8", "Binary", "LargeBinary", "FixedSizeBinary"}
    BY <1>10 DEF Required
  <2>3. JsonScalar(t, n) = Datum("jsonb placeholder", 0)
    BY <1>10, <2>2 DEF JsonScalar, Float
  <2>4. Ok(Datum("jsonb placeholder", 0)).d.k = "jsonb placeholder"
    BY DEF Ok, Datum
  <2>5. MappedTo(t) = "jsonb"
    BY <1>10, <2>2 DEF MappedTo
  <2> QED
    BY <1>10, <2>1, <2>3, <2>4, <2>5 DEF ShownScalar
<1>11. CASE Required(t) # "jsonb" /\ t.k \notin {"Decimal128", "Decimal256", "Date32", "Date64"}
            /\ t.k \notin Integer \union {"Boolean"}
  <2>1. r = Ok(Datum(Required(t), n))
    BY <1>0, <1>11 DEF ToScalar, ToPlain
  <2>2. r = Ok(Scaled(Required(t), n, 0))
    BY <1>4, <2>1
  <2> QED
    BY <1>1, <1>2, <1>3, <1>11, <2>2 DEF ShownScalar
<1> QED
  BY <1>5, <1>7, <1>8, <1>9, <1>10, <1>11

LEMMA ScalarAgrees ==
    ASSUME NEW types, NEW t \in Types, t.k \notin Lists \union {"Dictionary", "Struct"},
           NEW v \in Cells, ~v.null, v.n \in NumbersOf(t), NEW pg, NEW checked_ \in BOOLEAN,
           ToScalar(t, v.n, checked_).err = "none"
    PROVE  Agrees(ShownTrue(types), t, v, pg, ToScalar(t, v.n, checked_).d, types)
<1>1. PICK n \in NumbersOf(t) : n = v.n
  OBVIOUS
<1>2. PICK r : r = ToScalar(t, n, checked_)
  OBVIOUS
<1>3. r.err = "none"
  BY <1>1, <1>2
<1>4. ScalarTrue(t, v, r.d)
  <2>1. CASE t.k = "Timestamp"
    <3>0. r.d.k # "jsonb placeholder"
      BY <1>2, <1>3, <2>1, TimestampKind
    <3>1. InRange(t.unit, n) => r.d.n + Epoch = TrueMicros(t.unit, n)
      BY <1>2, <1>3, <2>1, TimestampShown
    <3> QED
      BY <1>1, <2>1, <3>0, <3>1 DEF ScalarTrue
  <2>2. CASE t.k # "Timestamp"
    <3>1. ShownScalar(t, n, r.d)
      <4>1. ToScalar(t, n, checked_).err = "none"
        BY <1>2, <1>3
      <4>2. ShownScalar(t, n, ToScalar(t, n, checked_).d)
        BY <2>2, <4>1, ScalarShown
      <4> QED
        BY <1>2, <4>2
    <3>2. CASE t.k = "Date32"
      BY <1>1, <2>2, <3>1, <3>2 DEF ScalarTrue, ShownScalar
    <3>3. CASE t.k = "Date64"
      BY <1>1, <2>2, <3>1, <3>3 DEF ScalarTrue, ShownScalar
    <3>4. CASE t.k \notin {"Date32", "Date64"}
      BY <1>1, <2>2, <3>1, <3>4 DEF ScalarTrue, ShownScalar
    <3> QED
      BY <3>2, <3>3, <3>4
  <2> QED
    BY <2>1, <2>2
<1>5. Agrees(ShownTrue(types), t, v, pg, r.d, types)
  BY <1>4 DEF Agrees
<1> QED
  BY <1>1, <1>2, <1>5

\* What an array is made of.
LEMMA ArrayParts ==
    ASSUME NEW env, NEW t \in Types, t.k \in Lists, NEW v \in Cells, ~v.null,
           NEW pg \in PgTypes, pg.array, ToDatum(env)[t][v][pg].err = "none"
    PROVE  /\ ToDatum(env)[t][v][pg].d.k = "array"
           /\ DOMAIN ToDatum(env)[t][v][pg].d.sub = DOMAIN v.sub
           /\ \A i \in DOMAIN v.sub :
                /\ ToDatum(env)[Item(t)][v.sub[i]][Element(pg)].err = "none"
                /\ ToDatum(env)[t][v][pg].d.sub[i] = ToDatum(env)[Item(t)][v.sub[i]][Element(pg)].d
<1>1. PICK r : r = ToDatum(env)[t][v][pg]
  OBVIOUS
<1>2. r = ToArray(ToDatum(env), t, v, pg, env)
  <2>1. r = DatumOf(ToDatum(env), t, v, pg, env)
    BY <1>1, ToDatumIs
  <2> QED
    BY <2>1 DEF DatumOf, Lists
<1>3. r.err = "none"
  BY <1>1
<1> DEFINE results == [i \in DOMAIN v.sub |-> ToDatum(env)[Item(t)][v.sub[i]][Element(pg)]]
<1>4. r = Assembled("array", results, <<>>)
  BY <1>2 DEF ToArray
<1>5. PICK l \in Nat : l = Len(v.sub) /\ DOMAIN v.sub = 1 .. l
  BY CellFacts
<1>6. DOMAIN results = 1 .. l /\ Len(results) = l
  BY <1>5, LenIs
<1>7. \A i \in 1 .. l : results[i] = ToDatum(env)[Item(t)][v.sub[i]][Element(pg)]
  BY <1>5
<1> HIDE DEF results
<1>8. \/ \E i \in 1 .. l : results[i].err # "none" /\ Assembled("array", results, <<>>) = results[i]
      \/ /\ \A i \in 1 .. l : results[i].err = "none"
         /\ Assembled("array", results, <<>>) = Ok(Compound("array", DatumsIn(results, l), <<>>))
  BY <1>6, AssembledIs
<1>9. (\A i \in 1 .. l : results[i].err = "none") /\ r = Ok(Compound("array", DatumsIn(results, l), <<>>))
  BY <1>3, <1>4, <1>8
<1>10. r.d = Compound("array", DatumsIn(results, l), <<>>)
  BY <1>9, ResultParts
<1>11. r.d.k = "array" /\ r.d.sub = DatumsIn(results, l)
  BY <1>10 DEF Compound, Datum
<1>12. DOMAIN r.d.sub = DOMAIN v.sub /\ \A i \in 1 .. l : r.d.sub[i] = results[i].d
  BY <1>5, <1>11 DEF DatumsIn
<1>13. ASSUME NEW i \in DOMAIN v.sub
       PROVE  /\ ToDatum(env)[Item(t)][v.sub[i]][Element(pg)].err = "none"
              /\ r.d.sub[i] = ToDatum(env)[Item(t)][v.sub[i]][Element(pg)].d
  <2>1. i \in 1 .. l /\ results[i] = ToDatum(env)[Item(t)][v.sub[i]][Element(pg)]
    BY <1>5, <1>7, <1>13
  <2>2. results[i].err = "none" /\ r.d.sub[i] = results[i].d
    BY <1>9, <1>12, <2>1
  <2> QED
    BY <2>1, <2>2
<1> QED
  BY <1>1, <1>11, <1>12, <1>13

\* A list that is not shown as an array is shown as JSON.
LEMMA JsonParts ==
    ASSUME NEW env, NEW t \in Types, t.k \in Lists, NEW v \in Cells, ~v.null,
           NEW pg \in PgTypes, ~pg.array, ToDatum(env)[t][v][pg].err = "none"
    PROVE  ToDatum(env)[t][v][pg].d = ToJson[t][v]
<1>1. PICK r : r = ToDatum(env)[t][v][pg]
  OBVIOUS
<1>2. r = ToArray(ToDatum(env), t, v, pg, env)
  <2>1. r = DatumOf(ToDatum(env), t, v, pg, env)
    BY <1>1, ToDatumIs
  <2> QED
    BY <2>1 DEF DatumOf, Lists
<1>3. r.err = "none" /\ Fails("mismatch").err # "none"
  BY <1>1, ResultParts
<1>4. r = Ok(ToJson[t][v])
  BY <1>2, <1>3 DEF ToArray
<1>5. r.d = ToJson[t][v]
  BY <1>4, ResultParts
<1> QED
  BY <1>1, <1>5

LEMMA NotZero == ASSUME NEW m \in Nat, NEW x \in 1 .. m PROVE x # 0
  OBVIOUS

\* What a row is made of: each attribute from the field of its name.
RowOf(env, t, v, atts, d) ==
    /\ d.k = "row" /\ DOMAIN d.sub = DOMAIN atts
    /\ d.names = [i \in DOMAIN atts |-> NameOf(atts[i])]
    /\ \A i \in DOMAIN atts : TypeOf(atts[i]) \in PgTypes
    /\ \A i \in DOMAIN atts : \E x \in DOMAIN t.sub :
         /\ x = Position(t.sub, NameOf(atts[i])) /\ NameOf(t.sub[x]) = NameOf(atts[i])
         /\ ToDatum(env)[TypeOf(t.sub[x])][v.sub[x]][TypeOf(atts[i])].err = "none"
         /\ d.sub[i] = ToDatum(env)[TypeOf(t.sub[x])][v.sub[x]][TypeOf(atts[i])].d

LEMMA RowParts ==
    ASSUME NEW env, env.types \in Catalogs, NEW t \in Types, t.k = "Struct", NEW v \in Cells, ~v.null,
           NEW pg \in PgTypes, ToDatum(env)[t][v][pg].err = "none"
    PROVE  RowOf(env, t, v, Attributes(env.types, pg), ToDatum(env)[t][v][pg].d)
<1>0. PICK atts, d : atts = Attributes(env.types, pg) /\ d = ToDatum(env)[t][v][pg].d
  OBVIOUS
<1>1. PICK r : r = ToDatum(env)[t][v][pg]
  OBVIOUS
<1>2. r = ToRow(ToDatum(env), t, v, pg, env)
  <2>1. r = DatumOf(ToDatum(env), t, v, pg, env)
    BY <1>1, ToDatumIs
  <2> QED
    BY <2>1 DEF DatumOf, Lists
<1>3. r.err = "none"
  BY <1>1
<1>4. Fails("mismatch").err # "none"
  BY ResultParts
<1>5. Composites(env.types, pg) # {}
  BY <1>2, <1>3, <1>4 DEF ToRow
<1>6. PICK l \in Nat : l = Len(atts) /\ DOMAIN atts = 1 .. l /\ \A i \in 1 .. l : TypeOf(atts[i]) \in PgTypes
  BY <1>0, <1>5, AttributeParts
<1> DEFINE f(i) == Position(t.sub, NameOf(atts[i]))
<1> DEFINE results == [i \in DOMAIN atts |->
             IF f(i) \notin DOMAIN t.sub THEN Fails("mismatch")
             ELSE ToDatum(env)[TypeOf(t.sub[f(i)])][v.sub[f(i)]][TypeOf(atts[i])]]
<1> DEFINE names == [i \in DOMAIN atts |-> NameOf(atts[i])]
<1>7. r = Assembled("row", results, names)
  BY <1>0, <1>2, <1>5 DEF ToRow, FieldFor
<1>8. DOMAIN results = 1 .. l /\ Len(results) = l
  BY <1>6, LenIs
<1>9. \A i \in 1 .. l : /\ f(i) \notin DOMAIN t.sub => results[i] = Fails("mismatch")
                        /\ f(i) \in DOMAIN t.sub =>
                             results[i] = ToDatum(env)[TypeOf(t.sub[f(i)])][v.sub[f(i)]][TypeOf(atts[i])]
  BY <1>6
<1> HIDE DEF results
<1>10. \/ \E i \in 1 .. l : results[i].err # "none" /\ Assembled("row", results, names) = results[i]
       \/ /\ \A i \in 1 .. l : results[i].err = "none"
          /\ Assembled("row", results, names) = Ok(Compound("row", DatumsIn(results, l), names))
  <2> HIDE DEF names
  <2> QED
    BY <1>8, AssembledIs
<1>11. (\A i \in 1 .. l : results[i].err = "none") /\ r = Ok(Compound("row", DatumsIn(results, l), names))
  BY <1>3, <1>7, <1>10
<1>12. d = Compound("row", DatumsIn(results, l), names)
  BY <1>0, <1>1, <1>11, ResultParts
<1>13. d.k = "row" /\ d.names = names /\ d.sub = DatumsIn(results, l)
  <2> HIDE DEF names
  <2> QED
    BY <1>12 DEF Compound, Datum
<1>14. DOMAIN d.sub = 1 .. l /\ \A i \in 1 .. l : d.sub[i] = results[i].d
  BY <1>13 DEF DatumsIn
<1>15. ASSUME NEW i \in 1 .. l
       PROVE  \E x \in DOMAIN t.sub :
                /\ x = Position(t.sub, NameOf(atts[i])) /\ NameOf(t.sub[x]) = NameOf(atts[i])
                /\ ToDatum(env)[TypeOf(t.sub[x])][v.sub[x]][TypeOf(atts[i])].err = "none"
                /\ d.sub[i] = ToDatum(env)[TypeOf(t.sub[x])][v.sub[x]][TypeOf(atts[i])].d
  <2>1. PICK x \in DOMAIN t.sub : x = f(i)
    BY <1>4, <1>9, <1>11
  <2>2. NameOf(t.sub[x]) = NameOf(atts[i])
    <3>1. PICK m \in Nat : m = Len(t.sub) /\ DOMAIN t.sub = 1 .. m
      BY TypeParts
    <3>2. x \in 1 .. m
      BY <3>1
    <3>3. x # 0
      BY <3>2, NotZero
    <3> QED
      BY <2>1, <3>1, <3>2, <3>3, PositionIs
  <2>3. results[i] = ToDatum(env)[TypeOf(t.sub[x])][v.sub[x]][TypeOf(atts[i])]
    BY <1>9, <2>1
  <2>4. results[i].err = "none" /\ d.sub[i] = results[i].d
    BY <1>11, <1>14
  <2> QED
    BY <2>1, <2>2, <2>3, <2>4
<1>16. RowOf(env, t, v, atts, d)
  BY <1>6, <1>13, <1>14, <1>15 DEF RowOf
<1> QED
  BY <1>0, <1>16

\* A cell is shown as what it is, as whatever it is asked for.
ConvertsTrue(env, t, v) ==
    \A pg \in PgTypes :
      ToDatum(env)[t][v][pg].err = "none" => ShownTrue(env.types)[t][v][pg][ToDatum(env)[t][v][pg].d]

\* Where every item converted is true, the array is.
LEMMA ArrayAgrees ==
    ASSUME NEW env, NEW t \in Types, t.k \in Lists, NEW v \in Cells, Holds[t][v], ~v.null,
           NEW pg \in PgTypes, ToDatum(env)[t][v][pg].err = "none",
           \A i \in DOMAIN v.sub : ConvertsTrue(env, Item(t), v.sub[i])
    PROVE  Agrees(ShownTrue(env.types), t, v, pg, ToDatum(env)[t][v][pg].d, env.types)
<1>1. PICK d : d = ToDatum(env)[t][v][pg].d
  OBVIOUS
<1>2. CASE pg.array
  <2>1. PICK e \in PgTypes : e = Element(pg)
    BY PgTypeParts
  <2>2. /\ d.k = "array" /\ DOMAIN d.sub = DOMAIN v.sub
        /\ \A i \in DOMAIN v.sub : /\ ToDatum(env)[Item(t)][v.sub[i]][e].err = "none"
                                   /\ d.sub[i] = ToDatum(env)[Item(t)][v.sub[i]][e].d
    <3>1. /\ ToDatum(env)[t][v][pg].d.k = "array"
          /\ DOMAIN ToDatum(env)[t][v][pg].d.sub = DOMAIN v.sub
          /\ \A i \in DOMAIN v.sub :
               /\ ToDatum(env)[Item(t)][v.sub[i]][Element(pg)].err = "none"
               /\ ToDatum(env)[t][v][pg].d.sub[i] = ToDatum(env)[Item(t)][v.sub[i]][Element(pg)].d
      BY <1>2, ArrayParts
    <3> QED
      BY <1>1, <2>1, <3>1
  <2>3. ASSUME NEW i \in DOMAIN v.sub PROVE ShownTrue(env.types)[Item(t)][v.sub[i]][Element(pg)][d.sub[i]]
    BY <2>1, <2>2 DEF ConvertsTrue
  <2>4. Agrees(ShownTrue(env.types), t, v, pg, d, env.types)
    BY <1>2, <2>2, <2>3 DEF Agrees, Lists
  <2> QED
    BY <1>1, <2>4
<1>3. CASE ~pg.array
  <2>1. d = ToJson[t][v]
    <3>1. ToDatum(env)[t][v][pg].d = ToJson[t][v]
      BY <1>3, JsonParts
    <3> QED
      BY <1>1, <3>1
  <2>2. JsonTrue[t][v][d]
    BY <2>1, JsonShown
  <2>3. Agrees(ShownTrue(env.types), t, v, pg, d, env.types)
    BY <1>3, <2>2 DEF Agrees, Lists
  <2> QED
    BY <1>1, <2>3
<1> QED
  BY <1>2, <1>3

\* Where every field converted is true, the row is.
LEMMA RowAgrees ==
    ASSUME NEW env, env.types \in Catalogs, NEW t \in Types, t.k = "Struct", NEW v \in Cells,
           Holds[t][v], ~v.null, NEW pg \in PgTypes, ToDatum(env)[t][v][pg].err = "none",
           \A i \in DOMAIN t.sub : ConvertsTrue(env, TypeOf(t.sub[i]), v.sub[i])
    PROVE  Agrees(ShownTrue(env.types), t, v, pg, ToDatum(env)[t][v][pg].d, env.types)
<1>1. PICK d : d = ToDatum(env)[t][v][pg].d
  OBVIOUS
<1>2. PICK atts : atts = Attributes(env.types, pg)
  OBVIOUS
<1>3. RowOf(env, t, v, atts, d)
  BY <1>1, <1>2, RowParts
<1>4. ASSUME NEW i \in DOMAIN d.sub
      PROVE  \E x \in DOMAIN t.sub :
               /\ NameOf(t.sub[x]) = d.names[i]
               /\ ShownTrue(env.types)[TypeOf(t.sub[x])][v.sub[x]][TypeOf(Attributes(env.types, pg)[i])][d.sub[i]]
  <2>1. PICK x \in DOMAIN t.sub :
          /\ NameOf(t.sub[x]) = NameOf(atts[i])
          /\ ToDatum(env)[TypeOf(t.sub[x])][v.sub[x]][TypeOf(atts[i])].err = "none"
          /\ d.sub[i] = ToDatum(env)[TypeOf(t.sub[x])][v.sub[x]][TypeOf(atts[i])].d
    BY <1>3 DEF RowOf
  <2>2. TypeOf(atts[i]) \in PgTypes /\ d.names[i] = NameOf(atts[i])
    BY <1>3 DEF RowOf
  <2> QED
    BY <1>2, <2>1, <2>2 DEF ConvertsTrue
<1>5. Agrees(ShownTrue(env.types), t, v, pg, d, env.types)
  BY <1>4 DEF Agrees, Lists
<1> QED
  BY <1>1, <1>5

(***************************************************************************)
(* arrow_value_to_datum, where it gives a datum, gives the value of the    *)
(* cell, whatever the types of the catalog: every item of an array, every  *)
(* attribute of a row from the field of its name, every number a JSON      *)
(* value can hold, and of a timestamp what is neither saturated nor        *)
(* wrapped.                                                                *)
(***************************************************************************)
THEOREM ConversionTrue ==
    ASSUME NEW env, env.types \in Catalogs, env.checked \in BOOLEAN,
           NEW t \in Types, NEW v \in Cells, Holds[t][v], NEW pg \in PgTypes,
           ToDatum(env)[t][v][pg].err = "none"
    PROVE  ShownTrue(env.types)[t][v][pg][ToDatum(env)[t][v][pg].d]
<1> DEFINE P == {s \in Types : \A c \in Cells : Holds[s][c] => ConvertsTrue(env, s, c)}
<1>1. ASSUME NEW s \in Types, \A i \in DOMAIN s.sub : TypeOf(s.sub[i]) \in P
      PROVE  s \in P
  <2> SUFFICES ASSUME NEW c \in Cells, Holds[s][c], NEW p \in PgTypes, ToDatum(env)[s][c][p].err = "none"
               PROVE  ShownTrue(env.types)[s][c][p][ToDatum(env)[s][c][p].d]
    BY DEF ConvertsTrue
  <2>0. MaxDepth \in 0 .. MaxDepth /\ c \in CellsTo[MaxDepth]
    BY DepthAssumption DEF Cells
  <2>1. PICK r : r = ToDatum(env)[s][c][p]
    OBVIOUS
  <2>2. r = DatumOf(ToDatum(env), s, c, p, env) /\ r.err = "none"
    BY <2>1, ToDatumIs
  <2>3. r.d \in Datums
    <3>1. Sound(env, s, c, p, MaxDepth)
      BY <2>0, ConversionSound
    <3> QED
      BY <2>1, <3>1 DEF Sound, Converts, Datums
  <2>4. ShownTrue(env.types)[s][c][p][r.d] = Agrees(ShownTrue(env.types), s, c, p, r.d, env.types)
    BY <2>3, ShownTrueIs
  <2>5. Agrees(ShownTrue(env.types), s, c, p, r.d, env.types)
    <3>1. CASE c.null
      <4>1. r = Ok(NullDatum)
        BY <2>2, <3>1 DEF DatumOf
      <4>2. r.d = NullDatum
        BY <4>1, ResultParts
      <4> QED
        BY <3>1, <4>2 DEF Agrees
    <3>2. CASE ~c.null /\ s.k \in Lists
      <4>1. Item(s) \in P
        BY <1>1, <3>2, TypeParts DEF Item
      <4>2. \A i \in DOMAIN c.sub : c.sub[i] \in Cells /\ Holds[Item(s)][c.sub[i]]
        BY <2>0, <3>2, HeldInside, CellFacts
      <4>3. \A i \in DOMAIN c.sub : ConvertsTrue(env, Item(s), c.sub[i])
        BY <4>1, <4>2
      <4> HIDE DEF P
      <4>4. Agrees(ShownTrue(env.types), s, c, p, ToDatum(env)[s][c][p].d, env.types)
        BY <3>2, <4>3, ArrayAgrees
      <4> QED
        BY <2>1, <4>4
    <3>3. CASE ~c.null /\ s.k = "Struct"
      <4>1. ASSUME NEW i \in DOMAIN s.sub PROVE ConvertsTrue(env, TypeOf(s.sub[i]), c.sub[i])
        <5>1. i \in DOMAIN c.sub /\ Holds[TypeOf(s.sub[i])][c.sub[i]]
          BY <2>0, <3>3, HeldInside
        <5>2. c.sub[i] \in Cells
          BY <5>1, CellFacts
        <5>3. TypeOf(s.sub[i]) \in P
          BY <1>1
        <5> QED
          BY <4>1, <5>1, <5>2, <5>3
      <4> HIDE DEF P
      <4>2. Agrees(ShownTrue(env.types), s, c, p, ToDatum(env)[s][c][p].d, env.types)
        BY <3>3, <4>1, RowAgrees
      <4> QED
        BY <2>1, <4>2
    <3>4. CASE ~c.null /\ s.k = "Dictionary"
      <4>1. r = ToDatum(env)[Item(s)][Entry(c)][p]
        BY <2>2, <3>4 DEF DatumOf, Lists
      <4>2. Item(s) \in P
        BY <1>1, <3>4, TypeParts DEF Item
      <4>3. Entry(c) \in Cells /\ Holds[Item(s)][Entry(c)]
        BY <2>0, <3>4, HeldInside
      <4>4. ShownTrue(env.types)[Item(s)][Entry(c)][p][r.d]
        BY <2>2, <4>1, <4>2, <4>3 DEF ConvertsTrue
      <4> HIDE DEF P
      <4> QED
        BY <3>4, <4>4 DEF Agrees, Lists
    <3>5. CASE ~c.null /\ s.k \notin Lists \union {"Dictionary", "Struct"}
      <4>1. c.n \in NumbersOf(s)
        BY <2>0, <3>5, HeldInside
      <4>2. Fails("mismatch").err # "none"
        BY ResultParts
      <4>3. r = ToScalar(s, c.n, env.checked)
        BY <2>2, <3>5, <4>2 DEF DatumOf
      <4>4. Agrees(ShownTrue(env.types), s, c, p, ToScalar(s, c.n, env.checked).d, env.types)
        BY <2>2, <3>5, <4>1, <4>3, ScalarAgrees
      <4> QED
        BY <4>3, <4>4
    <3> QED
      BY <3>1, <3>2, <3>3, <3>4, <3>5
  <2> QED
    BY <2>1, <2>4, <2>5
<1> HIDE DEF P
<1>2. t \in P
  BY <1>1, TypeInduction
<1> QED
  BY <1>2 DEF P, ConvertsTrue

(***************************************************************************)
(* Whatever table is declared and whatever types are left from before,     *)
(* what a scan shows is what the dataset holds under that name, however    *)
(* deep the types.                                                         *)
(***************************************************************************)
THEOREM ShownIsAlwaysTrue == Spec => []ShownIsTrue
<1>1. ASSUME IInv PROVE ShownIsTrue
  <2>1. Tabled /\ Scanned /\ IsDataset(data) /\ catalog \in Catalogs /\ checked \in BOOLEAN
    BY <1>1 DEF IInv, Stored, Cataloged
  <2>2. DOMAIN table.cols = 1 .. Len(table.cols) /\ DOMAIN scan.out = 1 .. Len(scan.out)
    BY <2>1, TableParts DEF Scanned
  <2>3. ASSUME NEW i \in 1 .. Len(scan.out), NEW j \in 1 .. Len(table.cols)
        PROVE  LET c == Column(NameOf(table.cols[j]))
               IN  ShownTrue(catalog)[TypeOf(data.schema[c])][data.rows[i][c]][TypeOf(table.cols[j])][scan.out[i][j]]
    <3>1. /\ i \in 1 .. Len(data.rows)
          /\ ColumnFits(table.cols[j])
          /\ ShownIn(data.rows[i], j).err = "none"
          /\ scan.out[i][j] = ShownIn(data.rows[i], j).d
      BY <1>1, <2>3, Shown
    <3>2. PICK c \in 1 .. Len(data.schema) : c = Column(NameOf(table.cols[j]))
      BY <2>1, <3>1, ColumnIs DEF ColumnFits
    <3>3. PICK t \in Types : t = TypeOf(data.schema[c])
      BY <2>1, DatasetParts
    <3>4. PICK v \in Cells : v = data.rows[i][c] /\ Holds[t][v]
      BY <2>1, <3>1, <3>3, DatasetParts
    <3>5. PICK pg \in PgTypes : pg = TypeOf(table.cols[j])
      BY <2>1, TableParts
    <3>6. PICK env : env = Env
      OBVIOUS
    <3>7. env.types = catalog /\ env.checked = checked
      BY <3>6 DEF Env
    <3>8. ShownIn(data.rows[i], j) = ToDatum(env)[t][v][pg]
      BY <3>2, <3>3, <3>4, <3>5, <3>6 DEF ShownIn
    <3>9. ShownTrue(env.types)[t][v][pg][ToDatum(env)[t][v][pg].d]
      BY <2>1, <3>1, <3>4, <3>7, <3>8, ConversionTrue
    <3> QED
      BY <3>1, <3>2, <3>3, <3>4, <3>5, <3>7, <3>8, <3>9
  <2> QED
    BY <2>2, <2>3 DEF ShownIsTrue
<1> QED
  BY <1>1, InductiveInvariant, PTL

-----------------------------------------------------------------------------
(* What a query wrote comes back.                                          *)

\* type_mapping.rs and the check of convert.rs name the same types.
LEMMA MappedIsRequired ==
    ASSUME NEW t
    PROVE  MappedTo(t) = Required(t)
<1>1. CASE t.k \in Integer
  BY <1>1 DEF MappedTo, MappedInteger, Required, Integer
<1>2. CASE t.k \notin Integer
  BY <1>2 DEF MappedTo, Required, Integer
<1> QED
  BY <1>1, <1>2

LEMMA ScalarText ==
    ASSUME NEW name \in Name, NEW t \in Types, t.k \notin Lists \union {"Dictionary", "Struct"},
           NEW path \in Name
    PROVE  Resolve(TextIn(name)[t][path]) = Pg(Required(t))
<1>1. TextIn(name)[t][path] = TextOf(TextIn(name), name, t, path)
  BY TextInIs
<1>2. TextIn(name)[t][path] = PgText(Required(t), <<>>, 0)
  BY <1>1, MappedIsRequired DEF TextOf
<1>3. ASSUME NEW base PROVE Resolve(PgText(base, <<>>, 0)) = Pg(base)
  <2>1. PICK text : text = PgText(base, <<>>, 0)
    OBVIOUS
  <2>2. text.name = <<>> /\ text.base = base /\ text.dims = 0
    BY <2>1 DEF PgText
  <2>3. PICK many : many = (text.dims > 0)
    OBVIOUS
  <2>4. (0 > 0) = FALSE
    OBVIOUS
  <2>5. many = FALSE
    BY <2>2, <2>3, <2>4, Zenon
  <2>6. Resolve(text) = [name |-> <<>>, base |-> base, array |-> many]
    BY <2>2, <2>3, Zenon DEF Resolve
  <2> QED
    BY <2>1, <2>5, <2>6 DEF Pg
<1> QED
  BY <1>2, <1>3

LEMMA PgTyped ==
    ASSUME NEW t
    PROVE  Pg(Required(t)) \in PgTypes
<1>1. <<>> \in Name
  BY DEF Name
<1> QED
  BY <1>1, RequiredTyped DEF PgTypes, Pg

LEMMA ScalarFits ==
    ASSUME NEW t \in Types, t.k \notin Lists \union {"Dictionary", "Struct"}
    PROVE  Validates(catalog)[t][Pg(Required(t))]
<1>1. Validates(catalog)[t][Pg(Required(t))] = Fits(Validates(catalog), t, Pg(Required(t)), catalog)
  BY PgTyped, ValidatesIs
<1> QED
  BY <1>1 DEF Fits

\* A timestamp that was written is read as it was, where writing it did not
\* panic.
LEMMA WrittenReads ==
    ASSUME NEW n \in PgTimestamp, NEW z \in BOOLEAN, z => n + Epoch <= Max64,
           NEW t \in Types, t.k = "Timestamp", t.unit = "us"
    PROVE  ToTimestamp(t, ToUnix(n), z) = Ok(Datum(Required(t), n))
<1>1. /\ Max64 \in Nat /\ Epoch \in 0 .. Max64 /\ PgFirst \in Int /\ PgLast \in Int
      /\ -Max64 <= PgFirst /\ PgFirst <= PgLast /\ PgLast <= Max64 - 1
  BY TimeAssumption
<1>2. n \in I64
  BY <1>1 DEF PgTimestamp, I64, Min64
<1>3. PICK u : u = ToUnix(n)
  OBVIOUS
<1>4. PgMicros(u) = n
  BY <1>2, <1>3, WrittenTimestampReturns
<1>5. UnixMicros(t.unit, u) = u
  BY DEF UnixMicros
<1>6. ~(z /\ u - Epoch < Min64)
  <2> SUFFICES ASSUME z PROVE ~(u - Epoch < Min64)
    OBVIOUS
  <2>1. u = n + Epoch
    BY <1>1, <1>2, <1>3 DEF ToUnix, Wrapped, I64, Min64
  <2> QED
    BY <1>1, <1>2, <2>1 DEF I64, Min64
<1>7. ToTimestamp(t, u, z) = Ok(Datum(Required(t), n))
  BY <1>4, <1>5, <1>6 DEF ToTimestamp
<1> QED
  BY <1>3, <1>7

\* An int8 taken for microseconds since 1970.
LEMMA MicrosRead ==
    ASSUME NEW n \in I64, NEW z \in BOOLEAN, NEW t \in Types, t.k = "Timestamp", t.unit = "us",
           NEW r, r = ToTimestamp(t, n, z)
    PROVE  \/ r.err # "none" /\ (PgMicros(n) \notin PgTimestamp \/ (z /\ ~InRange("us", n)))
           \/ r = Ok(Datum(Required(t), PgMicros(n))) /\ (InRange("us", n) => PgMicros(n) + Epoch = n)
<1>1. Max64 \in Nat /\ Epoch \in 0 .. Max64
  BY TimeAssumption
<1>2. n \in Int /\ -Max64 - 1 <= n /\ n <= Max64
  BY <1>1 DEF I64, Min64
<1>3. UnixMicros(t.unit, n) = n
  BY DEF UnixMicros
<1>4. InRange("us", n) <=> n \in Min64 + Epoch .. Max64
  BY DEF InRange, TrueMicros
<1>5. InRange("us", n) <=> ~(n - Epoch < Min64)
  BY <1>1, <1>2, <1>4 DEF Min64
<1>6. ASSUME InRange("us", n) PROVE PgMicros(n) + Epoch = n
  <2>1. n >= Min64 + Epoch
    BY <1>1, <1>2, <1>4, <1>6 DEF Min64
  <2>2. PgMicros(n) = n - Epoch
    BY <2>1, ReadTimestampIsExactOrWraps
  <2> QED
    BY <1>1, <1>2, <2>2
<1>7. \/ (z /\ n - Epoch < Min64) /\ r = Fails("panic")
      \/ PgMicros(n) \notin PgTimestamp /\ r = Fails("range")
      \/ r = Ok(Datum(Required(t), PgMicros(n)))
  BY <1>3 DEF ToTimestamp
<1>8. Fails("panic").err # "none" /\ Fails("range").err # "none"
  BY ResultParts
<1> QED
  BY <1>5, <1>6, <1>7, <1>8

\* A cell of a query in a column of the type its import declares.
ReadsBack(c, cell, r) ==
    /\ cell.null \/ c.base \notin Reads(ColumnType(c)) => r.err = "none" /\ r.d = NullDatum
    /\ ~cell.null /\ c.base \in Reads(ColumnType(c)) =>
         \/ r.err = "none" /\ r.d.k # "null" /\ Returned(c, cell, r.d)
         \/ r.err # "none" /\ Unreadable(c, cell)

LEMMA QueryShown ==
    ASSUME NEW env, env.types \in Catalogs, checked \in BOOLEAN, env.checked = checked,
           NEW c \in QueryColumn, NEW cell \in QueryCell, IsDatum(c, cell),
           ~Panics(c, cell, checked)
    PROVE  ReadsBack(c, cell, ToDatum(env)[ColumnType(c)][AppendDatum(c, cell)][Pg(Required(ColumnType(c)))])
<1>1. PICK t \in Types : t = ColumnType(c) /\ t.k \in Columnar /\ t.scale = 0
                         /\ (t.k = "Timestamp" => t.unit = "us")
  BY ColumnTyped
<1>2. PICK v \in Cells : v = AppendDatum(c, cell) /\ Holds[t][v]
  BY <1>1, AppendHeld
<1>3. PICK r : r = ToDatum(env)[t][v][Pg(Required(t))]
  OBVIOUS
<1>4. r = DatumOf(ToDatum(env), t, v, Pg(Required(t)), env)
  BY <1>3, PgTyped, ToDatumIs
<1>5. t.k \notin Lists \union {"Dictionary", "Struct"}
  BY <1>1 DEF Columnar, Lists
<1>6. v.null => r = Ok(NullDatum)
  BY <1>4 DEF DatumOf
<1>7. ~v.null => r = ToScalar(t, v.n, checked)
  BY <1>4, <1>5 DEF DatumOf
<1>8. CASE cell.null \/ c.base \notin Reads(t)
  <2>1. v.null
    BY <1>1, <1>2, <1>8 DEF AppendDatum, Null
  <2>2. r.err = "none" /\ r.d = NullDatum
    BY <1>6, <2>1, ResultParts
  <2>3. ReadsBack(c, cell, r)
    BY <1>1, <1>8, <2>2 DEF ReadsBack
  <2> QED
    BY <1>1, <1>2, <1>3, <2>3
<1>9. CASE ~cell.null /\ c.base \in Reads(t)
  <2>1. PICK n : n = cell.n
    OBVIOUS
  <2>2. Required(t) # "null"
    BY RequiredTyped DEF PgBases
  <2>3. \A d, m : d = Datum(Required(t), m) => Ok(d).err = "none" /\ Ok(d).d = d /\ d.k # "null" /\ d.n = m
    BY <2>2 DEF Datum, Ok
  <2>4. \/ r.err = "none" /\ r.d.k # "null" /\ Returned(c, cell, r.d)
        \/ r.err # "none" /\ Unreadable(c, cell)
    <3>1. CASE c.base \in {"timestamp", "timestamptz"}
      <4>1. t.k = "Timestamp" /\ t.unit = "us"
        BY <1>1, <1>9, <3>1, ReadingAssumption DEF Reads, Columnar, Texts
      <4>2. v = Cell(ToUnix(n))
        BY <1>1, <1>2, <1>9, <2>1, <3>1 DEF AppendDatum
      <4>3. v.n = ToUnix(n) /\ ~v.null
        BY <4>2 DEF Cell, Coded
      <4>4. n \in PgTimestamp
        BY <1>9, <2>1, <3>1 DEF IsDatum, DatumsOf
      <4>5. checked => n + Epoch <= Max64
        <5>1. checked => ~(n + Epoch > Max64)
          BY <1>1, <1>9, <2>1, <3>1 DEF Panics
        <5>2. n \in Int /\ Epoch \in Int /\ Max64 \in Int
          BY <4>4, TimeAssumption DEF PgTimestamp, Min64
        <5> QED
          BY <5>1, <5>2
      <4>6. r = ToTimestamp(t, ToUnix(n), checked)
        BY <1>7, <4>1, <4>3 DEF ToScalar, Integer, Required
      <4>7. r = Ok(Datum(Required(t), n))
        BY <4>1, <4>4, <4>5, <4>6, WrittenReads
      <4>8. r.err = "none" /\ r.d.k # "null" /\ r.d.n = n
        BY <2>3, <4>7
      <4> QED
        BY <1>1, <2>1, <3>1, <4>1, <4>8 DEF Returned, JsonTexts
    <3>2. CASE c.base \notin {"timestamp", "timestamptz"} /\ t.k = "Timestamp"
      <4>1. c.base = "int8" /\ t.unit = "us"
        BY <1>1, <1>9, <3>2 DEF Reads, Required
      <4>2. v = cell
        BY <1>1, <1>2, <1>9, <3>2, <4>1 DEF AppendDatum, JsonTexts
      <4>3. r = ToTimestamp(t, n, checked)
        BY <1>7, <1>9, <2>1, <3>2, <4>2 DEF ToScalar, Integer, Required
      <4>4. n \in I64
        BY <1>9, <2>1, <4>1, DatumInRange
      <4>5. \/ r.err # "none" /\ (PgMicros(n) \notin PgTimestamp \/ (checked /\ ~InRange("us", n)))
            \/ r = Ok(Datum(Required(t), PgMicros(n))) /\ (InRange("us", n) => PgMicros(n) + Epoch = n)
        BY <3>2, <4>1, <4>3, <4>4, MicrosRead
      <4>6. CASE r.err # "none" /\ (PgMicros(n) \notin PgTimestamp \/ (checked /\ ~InRange("us", n)))
        BY <1>1, <1>9, <2>1, <3>2, <4>1, <4>6 DEF Unreadable
      <4>7. CASE r = Ok(Datum(Required(t), PgMicros(n))) /\ (InRange("us", n) => PgMicros(n) + Epoch = n)
        <5>1. r.err = "none" /\ r.d.k # "null" /\ r.d.n = PgMicros(n)
          BY <2>3, <4>7
        <5>2. Returned(c, cell, r.d)
          <6>1. c.base = "int8" /\ ColumnType(c).k = "Timestamp" /\ cell.n = n
            BY <1>1, <2>1, <3>2, <4>1
          <6>2. Returned(c, cell, r.d) <=> (InRange("us", n) => r.d.n + Epoch = n)
            BY <6>1 DEF Returned, JsonTexts
          <6> QED
            BY <4>7, <5>1, <6>2
        <5> QED
          BY <5>1, <5>2
      <4> QED
        BY <4>5, <4>6, <4>7
    <3>4. CASE c.base \in JsonTexts
      <4>1. t.k = "Utf8"
        BY <1>1, <1>9, <3>4, ReadingAssumption DEF Reads, Columnar, JsonTexts, Required
      <4>2. v = Cell(Reprinted[n])
        BY <1>1, <1>2, <1>9, <2>1, <3>4 DEF AppendDatum, JsonTexts
      <4>3. v.n = Reprinted[n] /\ ~v.null
        BY <4>2 DEF Cell, Coded
      <4>4. r = ToPlain(t, Reprinted[n])
        BY <1>7, <4>1, <4>3 DEF ToScalar, Integer, Required
      <4>5. r.err = "none" /\ r.d.k # "null" /\ r.d.n = Reprinted[n]
        BY <2>3, <4>4 DEF ToPlain
      <4>6. Returned(c, cell, r.d)
        BY <1>1, <2>1, <3>4, <4>1, <4>5 DEF Returned, JsonTexts
      <4> QED
        BY <4>5, <4>6
    <3>3. CASE c.base \notin {"timestamp", "timestamptz"} \union JsonTexts /\ t.k # "Timestamp"
      <4>1. v = cell
        BY <1>1, <1>2, <1>9, <3>3 DEF AppendDatum
      <4>2. r = ToScalar(t, n, checked)
        BY <1>7, <1>9, <2>1, <4>1
      <4>3. ASSUME r = Ok(Datum(Required(t), n)), t.k # "Date32"
            PROVE  r.err = "none" /\ r.d.k # "null" /\ Returned(c, cell, r.d)
        <5>1. r.err = "none" /\ r.d.k # "null" /\ r.d.n = n
          BY <2>3, <4>3
        <5>2. Returned(c, cell, r.d)
          BY <1>1, <2>1, <3>3, <4>3, <5>1 DEF Returned
        <5> QED
          BY <5>1, <5>2
      <4>4. CASE t.k = "Date32"
        <5>1. r = ToDate(n)
          BY <4>2, <4>4 DEF ToScalar, Integer, Required
        <5>2. n \in I64
          <6>1. c.base \notin {"float4", "float8"}
            BY <1>9, <4>4 DEF Reads
          <6> QED
            BY <1>9, <2>1, <6>1, DatumInRange
        <5>3. n \in Int
          BY <5>2, TimeAssumption DEF I64, Min64
        <5>4. Required(t) = "date"
          BY <4>4 DEF Required, Integer
        <5>5. CASE NoDate(n) /\ r \in {Fails("range"), Fails("internal")}
          <6>1. r.err # "none"
            BY <5>5, ResultParts
          <6>2. Unreadable(c, cell)
            BY <1>1, <1>9, <2>1, <4>4, <5>5 DEF Unreadable
          <6> QED
            BY <6>1, <6>2
        <5>6. CASE \E d \in Int : r = Ok(Datum("date", d)) /\ SameDate(n, d)
          <6>1. PICK d \in Int : r = Ok(Datum("date", d)) /\ SameDate(n, d)
            BY <5>6
          <6>2. r.err = "none" /\ r.d.k # "null" /\ r.d.n = d
            BY <2>3, <5>4, <6>1
          <6>3. Returned(c, cell, r.d)
            <7>1. ColumnType(c).k = "Date32" /\ cell.n = n
              BY <1>1, <2>1, <4>4
            <7>2. Returned(c, cell, r.d) <=> SameDate(n, r.d.n)
              BY <3>3, <7>1 DEF Returned
            <7> QED
              BY <6>1, <6>2, <7>2
          <6> QED
            BY <6>2, <6>3
        <5> QED
          BY <5>1, <5>3, <5>5, <5>6, ToDateIs
      <4>5. CASE t.k \in {"Boolean", "Int16", "Int32", "Int64"}
        <5>1. r = ToInteger(t, n)
          BY <4>2, <4>5 DEF ToScalar, Integer, Required
        <5>2. r = Ok(Datum(Required(t), n))
          BY <4>5, <5>1 DEF ToInteger
        <5> QED
          BY <4>3, <4>5, <5>2
      <4>6. CASE t.k \in {"Float32", "Float64", "Utf8", "Binary"}
        <5>1. r = ToPlain(t, n)
          BY <4>2, <4>6 DEF ToScalar, Integer, Required
        <5> QED
          BY <4>3, <4>6, <5>1 DEF ToPlain
      <4> QED
        BY <1>1, <3>3, <4>4, <4>5, <4>6 DEF Columnar
    <3>5. c.base \in JsonTexts => c.base \notin {"timestamp", "timestamptz"}
      BY DEF JsonTexts
    <3> QED
      BY <3>1, <3>2, <3>3, <3>4, <3>5
  <2>5. ReadsBack(c, cell, r)
    BY <1>1, <1>9, <2>4 DEF ReadsBack
  <2> QED
    BY <1>1, <1>2, <1>3, <2>5
<1> QED
  BY <1>1, <1>8, <1>9

\* A table imported over rows of which a query wrote this one.
LEMMA ImportedRow ==
    ASSUME IInv, Imported, NEW i \in 1 .. Len(data.rows),
           NEW from, Came(from, data.schema, data.rows[i], checked)
    PROVE  /\ DOMAIN from.cols = 1 .. Len(table.cols)
           /\ \A j \in 1 .. Len(table.cols) : ColumnFits(table.cols[j])
           /\ \A j \in 1 .. Len(table.cols) :
                ReadsBack(from.cols[j], from.row[j], ShownIn(data.rows[i], j))
<1>1. Tabled /\ IsDataset(data) /\ catalog \in Catalogs /\ checked \in BOOLEAN
  BY DEF IInv, Stored, Cataloged
<1>2. PICK l \in Nat : l = Len(data.schema) /\ DOMAIN data.schema = 1 .. l
  BY <1>1, DatasetParts
<1>3. DOMAIN from.cols = 1 .. l
  BY <1>2 DEF Came
<1>4. ASSUME NEW j \in 1 .. l
      PROVE  /\ from.cols[j] \in QueryColumn /\ from.row[j] \in QueryCell
             /\ IsDatum(from.cols[j], from.row[j]) /\ ~Panics(from.cols[j], from.row[j], checked)
             /\ data.schema[j] = <<from.cols[j].name, ColumnType(from.cols[j])>>
             /\ data.rows[i][j] = AppendDatum(from.cols[j], from.row[j])
  BY <1>2 DEF Came
<1>5. DOMAIN table.cols = 1 .. l /\ Len(table.cols) = l
  <2>1. DOMAIN table.cols = 1 .. l
    BY <1>1, <1>2 DEF Tabled, Imported
  <2>2. table.cols \in Seq(Name \X PgTypes)
    BY <1>1 DEF Tabled
  <2> QED
    BY <2>1, <2>2
<1>6. ASSUME NEW j \in 1 .. l
      PROVE  /\ Column(NameOf(table.cols[j])) = j
             /\ TypeOf(data.schema[j]) = ColumnType(from.cols[j])
             /\ TypeOf(table.cols[j]) = Pg(Required(ColumnType(from.cols[j])))
             /\ ColumnFits(table.cols[j])
  <2>1. PICK name \in Name : name = from.cols[j].name
    BY <1>4 DEF QueryColumn
  <2>2. NameOf(data.schema[j]) = name /\ TypeOf(data.schema[j]) = ColumnType(from.cols[j])
    BY <1>4, <2>1 DEF NameOf, TypeOf
  <2>3. table.cols[j] = <<NameOf(data.schema[j]), Resolve(TextAt(TableName, data.schema, <<>>, j))>>
    BY <1>1, <1>2 DEF Tabled, Imported
  <2>4. NameOf(table.cols[j]) = NameOf(data.schema[j])
        /\ TypeOf(table.cols[j]) = Resolve(TextAt(TableName, data.schema, <<>>, j))
    BY <2>3 DEF NameOf, TypeOf
  <2>5. PICK t \in Types : t = ColumnType(from.cols[j]) /\ t.k \in Columnar
    BY <1>4, ColumnTyped
  <2>6. t.k \notin Lists \union {"Dictionary", "Struct"}
    BY <2>5 DEF Columnar, Lists
  <2>7. TextAt(TableName, data.schema, <<>>, j) = TextIn(TableName)[t][name]
    BY <2>2, <2>5 DEF TextAt, Under
  <2>8. TypeOf(table.cols[j]) = Pg(Required(t))
    BY <2>1, <2>4, <2>6, <2>7, ScalarText, SessionAssumption
  <2>9. Column(NameOf(table.cols[j])) = j
    BY <1>1, <1>2, <2>4, ColumnIs
  <2>10. Validates(catalog)[t][Pg(Required(t))]
    BY <2>6, ScalarFits
  <2>11. j # 0
    BY NotZero
  <2>12. ColumnFits(table.cols[j])
    BY <2>2, <2>5, <2>8, <2>9, <2>10, <2>11 DEF ColumnFits
  <2> QED
    BY <2>2, <2>5, <2>8, <2>9, <2>12
<1>7. ASSUME NEW j \in 1 .. l
      PROVE  ReadsBack(from.cols[j], from.row[j], ShownIn(data.rows[i], j))
  <2>1. PICK c \in QueryColumn : c = from.cols[j]
    BY <1>4
  <2>2. PICK cell \in QueryCell : cell = from.row[j] /\ IsDatum(c, cell) /\ ~Panics(c, cell, checked)
    BY <1>4, <2>1
  <2>3. PICK env : env = Env
    OBVIOUS
  <2>4. env.types \in Catalogs /\ env.checked = checked
    BY <1>1, <2>3 DEF Env
  <2>5. data.rows[i][j] = AppendDatum(c, cell)
    BY <1>4, <2>1, <2>2
  <2>6. ShownIn(data.rows[i], j) = ToDatum(env)[ColumnType(c)][AppendDatum(c, cell)][Pg(Required(ColumnType(c)))]
    BY <1>6, <2>1, <2>3, <2>5 DEF ShownIn
  <2>7. ReadsBack(c, cell, ToDatum(env)[ColumnType(c)][AppendDatum(c, cell)][Pg(Required(ColumnType(c)))])
    BY <1>1, <2>2, <2>4, QueryShown
  <2> QED
    BY <2>1, <2>2, <2>6, <2>7
<1> QED
  BY <1>3, <1>5, <1>6, <1>7

\* What a row of the dataset came from, if from a query.
LEMMA RowOrigin ==
    ASSUME IInv, NEW i \in 1 .. Len(data.rows), NEW from \in Range(data.from[i])
    PROVE  Came(from, data.schema, data.rows[i], checked)
<1>1. \/ data.from[i] = <<>>
      \/ \E f : data.from[i] = <<f>> /\ Came(f, data.schema, data.rows[i], checked)
  BY DEF IInv, Stored
<1>2. data.from[i] # <<>>
  BY DEF Range
<1>3. PICK f : data.from[i] = <<f>> /\ Came(f, data.schema, data.rows[i], checked)
  BY <1>1, <1>2
<1>4. from = f
  BY <1>3 DEF Range
<1> QED
  BY <1>3, <1>4

(***************************************************************************)
(* What a query wrote, by an append or a merge, comes back through an      *)
(* imported table: the columns fit, NULL stays NULL, every value is the    *)
(* one written, the infinite timestamps included, but for the dates before *)
(* Christ, which come a year late, and JSON, which is what serde_json      *)
(* prints; a scan fails at it only for a value the reader has no date or   *)
(* timestamp for.                                                          *)
(***************************************************************************)
THEOREM WrittenComesBack == Spec => []RoundTrip
<1>1. ASSUME IInv PROVE RoundTrip
  <2> SUFFICES ASSUME Imported
               PROVE  /\ \A i \in DOMAIN scan.out : \A from \in Range(data.from[i]) : ComesBack(from, scan.out[i])
                      /\ scan.st = "refused" => \A i \in DOMAIN data.from : data.from[i] = <<>>
                      /\ scan.st = "failed" =>
                           \A from \in Range(data.from[Len(scan.out) + 1]) :
                             \E j \in DOMAIN from.cols : Unreadable(from.cols[j], from.row[j])
    BY DEF RoundTrip
  <2>1. PICK l : l = Len(table.cols)
    OBVIOUS
  <2>2. Tabled /\ Scanned /\ DOMAIN table.cols = 1 .. l /\ DOMAIN scan.out = 1 .. Len(scan.out)
    <3>1. Tabled /\ Scanned
      BY <1>1 DEF IInv
    <3> QED
      BY <2>1, <3>1, TableParts DEF Scanned
  <2>3. ASSUME NEW i \in DOMAIN scan.out, NEW from \in Range(data.from[i])
        PROVE  ComesBack(from, scan.out[i])
    <3>1. i \in 1 .. Len(scan.out) /\ i \in 1 .. Len(data.rows)
      BY <1>1, <2>2, Shown
    <3>2. Came(from, data.schema, data.rows[i], checked)
      BY <1>1, <3>1, RowOrigin
    <3>3. DOMAIN from.cols = 1 .. l
      BY <1>1, <2>1, <3>1, <3>2, ImportedRow
    <3>4. ASSUME NEW j \in 1 .. l
          PROVE  IF from.row[j].null \/ from.cols[j].base \notin Reads(ColumnType(from.cols[j]))
                 THEN scan.out[i][j] = NullDatum
                 ELSE scan.out[i][j].k # "null" /\ Returned(from.cols[j], from.row[j], scan.out[i][j])
      <4>1. ShownIn(data.rows[i], j).err = "none" /\ scan.out[i][j] = ShownIn(data.rows[i], j).d
        BY <1>1, <2>1, <3>1, Shown
      <4>2. ReadsBack(from.cols[j], from.row[j], ShownIn(data.rows[i], j))
        BY <1>1, <2>1, <3>1, <3>2, ImportedRow
      <4> QED
        BY <4>1, <4>2 DEF ReadsBack
    <3> QED
      BY <3>3, <3>4 DEF ComesBack
  <2>4. ASSUME scan.st = "refused", NEW i \in DOMAIN data.from
        PROVE  data.from[i] = <<>>
    <3>1. i \in 1 .. Len(data.rows)
      BY <1>1 DEF IInv, Stored
    <3>2. ASSUME NEW from, Came(from, data.schema, data.rows[i], checked) PROVE FALSE
      <4>1. \A j \in 1 .. l : ColumnFits(table.cols[j])
        BY <1>1, <2>1, <3>1, <3>2, ImportedRow
      <4> QED
        BY <2>2, <2>4, <4>1 DEF Scanned
    <3> QED
      BY <1>1, <3>1, <3>2 DEF IInv, Stored
  <2>5. ASSUME scan.st = "failed", NEW from \in Range(data.from[Len(scan.out) + 1])
        PROVE  \E j \in DOMAIN from.cols : Unreadable(from.cols[j], from.row[j])
    <3>1. scan.err # "none"
      BY <2>2, <2>5 DEF Scanned
    <3>2. PICK n \in 1 .. Len(data.rows) : n = Len(scan.out) + 1
      BY <1>1, <3>1, Failed
    <3>3. PICK j \in 1 .. l : scan.err = ShownIn(data.rows[n], j).err
      BY <1>1, <2>1, <3>1, <3>2, Failed
    <3>4. Came(from, data.schema, data.rows[n], checked)
      BY <1>1, <2>5, <3>2, RowOrigin
    <3>5. ReadsBack(from.cols[j], from.row[j], ShownIn(data.rows[n], j)) /\ DOMAIN from.cols = 1 .. l
      BY <1>1, <2>1, <3>3, <3>4, ImportedRow
    <3>6. Unreadable(from.cols[j], from.row[j])
      BY <3>1, <3>3, <3>5 DEF ReadsBack
    <3> QED
      BY <3>3, <3>5, <3>6
  <2> QED
    BY <2>3, <2>4, <2>5
<1> QED
  BY <1>1, InductiveInvariant, PTL

-----------------------------------------------------------------------------
(* What an import defines.                                                 *)

\* The composite types of a type by themselves: what an import defines if
\* no name was seen before.
SelfDef(t, path) ==
    <<CompositeTypeName(TableName, path),
      [i \in DOMAIN t.sub |-> <<NameOf(t.sub[i]), TextAt(TableName, t.sub, path, i)>>]>>

InFields(f, fields, path) == UNION {f[TypeOf(fields[i])][Under(path, NameOf(fields[i]))] : i \in DOMAIN fields}

DefsOf(defs, t, path) ==
    IF t.k \in Lists THEN defs[Item(t)][Under(path, <<"i">>)]
    ELSE IF t.k = "Dictionary" THEN defs[Item(t)][Under(path, <<"d">>)]
    ELSE IF t.k # "Struct" THEN {}
    ELSE {SelfDef(t, path)} \union InFields(defs, t.sub, path)

DefsIn[t \in Types] == [path \in Name |-> DefsOf(DefsIn, t, path)]

LEMMA DefsOfLocal ==
    ASSUME NEW f, NEW g, NEW t \in Types, NEW path \in Name,
           \A i \in DOMAIN t.sub : f[TypeOf(t.sub[i])] = g[TypeOf(t.sub[i])]
    PROVE  DefsOf(f, t, path) = DefsOf(g, t, path)
<1>1. t.k \in Lists \union {"Dictionary"} => f[Item(t)] = g[Item(t)]
  BY TypeParts DEF Item
<1>2. InFields(f, t.sub, path) = InFields(g, t.sub, path)
  BY DEF InFields
<1> QED
  BY <1>1, <1>2 DEF DefsOf

LEMMA FieldwiseIs ==
    ASSUME NEW f, NEW fields, NEW path
    PROVE  /\ DOMAIN Fieldwise(f, fields, path) = DOMAIN fields
           /\ \A i \in DOMAIN fields :
                Fieldwise(f, fields, path)[i] = f[TypeOf(fields[i])][Under(path, NameOf(fields[i]))]
           /\ UNION Range(Fieldwise(f, fields, path)) = InFields(f, fields, path)
<1>1. PICK w : w = Fieldwise(f, fields, path)
  OBVIOUS
<1>2. DOMAIN w = DOMAIN fields
      /\ \A i \in DOMAIN fields : w[i] = f[TypeOf(fields[i])][Under(path, NameOf(fields[i]))]
  BY <1>1 DEF Fieldwise, Joined, Under
<1>3. UNION Range(w) = InFields(f, fields, path)
  <2>1. Range(w) = {w[i] : i \in DOMAIN w}
    BY DEF Range
  <2> QED
    BY <1>2, <2>1 DEF InFields
<1> QED
  BY <1>1, <1>2, <1>3

LEMMA StructNamesOfLocal ==
    ASSUME NEW f, NEW g, NEW t \in Types, NEW path \in Name,
           \A i \in DOMAIN t.sub : f[TypeOf(t.sub[i])] = g[TypeOf(t.sub[i])]
    PROVE  StructNamesOf(f, t, path) = StructNamesOf(g, t, path)
<1>1. t.k \in Lists \union {"Dictionary"} => f[Item(t)] = g[Item(t)]
  BY TypeParts DEF Item
<1>2. Fieldwise(f, t.sub, path) = Fieldwise(g, t.sub, path)
  BY DEF Fieldwise
<1>3. CASE t.k \in Lists
  BY <1>1, <1>3 DEF StructNamesOf, Lists
<1>4. CASE t.k = "Dictionary"
  BY <1>1, <1>4 DEF StructNamesOf, Lists
<1>5. CASE t.k = "Struct"
  BY <1>2, <1>5 DEF StructNamesOf, Lists
<1>6. CASE t.k \notin Lists \union {"Dictionary", "Struct"}
  BY <1>6 DEF StructNamesOf
<1> QED
  BY <1>3, <1>4, <1>5, <1>6

LEMMA DistinctOfLocal ==
    ASSUME NEW f, NEW g, NEW t \in Types, NEW path \in Name,
           \A i \in DOMAIN t.sub : f[TypeOf(t.sub[i])] = g[TypeOf(t.sub[i])]
    PROVE  DistinctOf(f, t, path) = DistinctOf(g, t, path)
<1>1. t.k \in Lists \union {"Dictionary"} => f[Item(t)] = g[Item(t)]
  BY TypeParts DEF Item
<1>2. Fieldwise(f, t.sub, path) = Fieldwise(g, t.sub, path)
  BY DEF Fieldwise
<1>3. CASE t.k \in Lists
  BY <1>1, <1>3 DEF DistinctOf, Lists
<1>4. CASE t.k = "Dictionary"
  BY <1>1, <1>4 DEF DistinctOf, Lists
<1>5. CASE t.k = "Struct"
  BY <1>2, <1>5 DEF DistinctOf, Lists
<1>6. CASE t.k \notin Lists \union {"Dictionary", "Struct"}
  BY <1>6 DEF DistinctOf
<1> QED
  BY <1>3, <1>4, <1>5, <1>6

LEMMA NestsListsLocal ==
    ASSUME NEW f, NEW g, NEW t \in Types, NEW item \in BOOLEAN,
           \A i \in DOMAIN t.sub : f[TypeOf(t.sub[i])] = g[TypeOf(t.sub[i])]
    PROVE  NestsLists(f, t, item) = NestsLists(g, t, item)
<1>1. t.k \in Lists \union {"Dictionary"} => f[Item(t)] = g[Item(t)]
  BY TypeParts DEF Item
<1>2. (\E i \in DOMAIN t.sub : f[TypeOf(t.sub[i])][FALSE]) = (\E i \in DOMAIN t.sub : g[TypeOf(t.sub[i])][FALSE])
  OBVIOUS
<1>3. CASE t.k \in Lists
  BY <1>1, <1>3 DEF NestsLists, Lists
<1>4. CASE t.k = "Dictionary"
  BY <1>1, <1>4 DEF NestsLists, Lists
<1>5. CASE t.k \notin Lists \union {"Dictionary"}
  BY <1>2, <1>5 DEF NestsLists
<1> QED
  BY <1>3, <1>4, <1>5

LEMMA CompleteLocal ==
    ASSUME NEW f, NEW g, NEW t \in Types, NEW v \in Cells, NEW d \in Datums,
           \A i \in DOMAIN t.sub : f[TypeOf(t.sub[i])] = g[TypeOf(t.sub[i])]
    PROVE  Complete(f, t, v, d) = Complete(g, t, v, d)
<1>1. t.k \in Lists \union {"Dictionary"} => f[Item(t)] = g[Item(t)]
  BY TypeParts DEF Item
<1>2. CASE v.null
  BY <1>2 DEF Complete
<1>3. CASE ~v.null /\ t.k \in Lists
  BY <1>1, <1>3 DEF Complete, Lists
<1>4. CASE ~v.null /\ t.k = "Dictionary"
  BY <1>1, <1>4 DEF Complete, Lists
<1>5. CASE ~v.null /\ t.k = "Struct" /\ d.k = "row"
  BY <1>5 DEF Complete, Lists
<1>6. CASE ~v.null /\ t.k = "Struct" /\ d.k # "row"
  BY <1>6 DEF Complete, Lists
<1>7. CASE ~v.null /\ t.k \notin Lists \union {"Dictionary", "Struct"}
  BY <1>7 DEF Complete
<1> QED
  BY <1>2, <1>3, <1>4, <1>5, <1>6, <1>7

\* DefsIn is what its definition says.
LEMMA DefsInIs ==
    ASSUME NEW t \in Types, NEW path \in Name
    PROVE  DefsIn[t][path] = DefsOf(DefsIn, t, path)
<1> DEFINE Row(f, s) == [q \in Name |-> DefsOf(f, s, q)]
<1> DEFINE Good(f, m) == \A s \in TypesTo[m] : f[s] = Row(f, s)
<1> DEFINE S == {m \in 0 .. MaxDepth : \E f : f = [s \in Types |-> f[s]] /\ Good(f, m)}
<1>0. MaxDepth \in Nat
  BY DepthAssumption
<1>1. ASSUME NEW f, NEW g, NEW s \in Types,
             \A i \in DOMAIN s.sub : f[TypeOf(s.sub[i])] = g[TypeOf(s.sub[i])]
      PROVE  Row(f, s) = Row(g, s)
  <2>1. ASSUME NEW q \in Name PROVE DefsOf(f, s, q) = DefsOf(g, s, q)
    BY <1>1, DefsOfLocal
  <2> QED
    BY <2>1
<1> HIDE DEF Row
<1>2. ASSUME NEW m \in 0 .. MaxDepth, NEW f, NEW g, g = [s \in Types |-> Row(f, s)],
             \A s \in TypesTo[m] : \A i \in DOMAIN s.sub : f[TypeOf(s.sub[i])] = g[TypeOf(s.sub[i])]
      PROVE  g = [s \in Types |-> g[s]] /\ Good(g, m)
  <2>1. g = [s \in Types |-> g[s]]
    BY <1>2
  <2>2. ASSUME NEW s \in TypesTo[m] PROVE g[s] = Row(g, s)
    <3>1. s \in Types
      BY TypesToGrow DEF Types
    <3>2. Row(f, s) = Row(g, s)
      BY <1>1, <1>2, <3>1
    <3> QED
      BY <1>2, <3>1, <3>2
  <2> QED
    BY <2>1, <2>2
<1>3. 0 \in S
  <2>1. PICK f : f = [s \in Types |-> {}]
    OBVIOUS
  <2>2. PICK g : g = [s \in Types |-> Row(f, s)]
    OBVIOUS
  <2>3. 0 \in 0 .. MaxDepth
    BY <1>0
  <2>4. \A s \in TypesTo[0] : \A i \in DOMAIN s.sub : f[TypeOf(s.sub[i])] = g[TypeOf(s.sub[i])]
    BY <2>3, Inside
  <2>5. g = [s \in Types |-> g[s]] /\ Good(g, 0)
    <3> HIDE DEF Good
    <3> QED
      BY <1>2, <2>2, <2>3, <2>4
  <2> QED
    BY <2>3, <2>5
<1>4. ASSUME NEW m \in 0 .. MaxDepth - 1, m \in S PROVE m + 1 \in S
  <2>1. PICK f : f = [s \in Types |-> f[s]] /\ Good(f, m)
    BY <1>4
  <2>2. PICK g : g = [s \in Types |-> Row(f, s)]
    OBVIOUS
  <2>3. m + 1 \in 0 .. MaxDepth /\ m \in 0 .. MaxDepth /\ m + 1 - 1 = m
    BY <1>0
  <2>4. ASSUME NEW s \in TypesTo[m + 1], NEW i \in DOMAIN s.sub
        PROVE  f[TypeOf(s.sub[i])] = g[TypeOf(s.sub[i])]
    <3>1. TypeOf(s.sub[i]) \in TypesTo[m]
      BY <2>3, Inside
    <3>2. TypeOf(s.sub[i]) \in Types
      BY <2>3, <3>1, TypesToGrow DEF Types
    <3> QED
      BY <2>1, <2>2, <3>1, <3>2
  <2>5. g = [s \in Types |-> g[s]] /\ Good(g, m + 1)
    <3> HIDE DEF Good
    <3> QED
      BY <1>2, <2>2, <2>3, <2>4
  <2> QED
    BY <2>3, <2>5
<1>5. MaxDepth \in S
  <2> HIDE DEF S
  <2> QED
    BY <1>0, <1>3, <1>4, Induct
<1>6. PICK f : f = [s \in Types |-> f[s]] /\ Good(f, MaxDepth)
  BY <1>5
<1>7. f = [s \in Types |-> Row(f, s)]
  BY <1>6 DEF Types
<1>8. \E h : h = [s \in Types |-> Row(h, s)]
  BY <1>7
<1>9. DefsIn = [s \in Types |-> Row(DefsIn, s)]
  BY <1>8 DEF Row, DefsIn
<1>10. PICK h : h = DefsIn
  OBVIOUS
<1>11. h[t] = Row(h, t)
  BY <1>9, <1>10
<1>12. h[t][path] = DefsOf(h, t, path)
  BY <1>11 DEF Row
<1> QED
  BY <1>10, <1>12

\* StructNames is what its definition says.
LEMMA StructNamesIs ==
    ASSUME NEW t \in Types, NEW path \in Name
    PROVE  StructNames[t][path] = StructNamesOf(StructNames, t, path)
<1> DEFINE Row(f, s) == [q \in Name |-> StructNamesOf(f, s, q)]
<1> DEFINE Good(f, m) == \A s \in TypesTo[m] : f[s] = Row(f, s)
<1> DEFINE S == {m \in 0 .. MaxDepth : \E f : f = [s \in Types |-> f[s]] /\ Good(f, m)}
<1>0. MaxDepth \in Nat
  BY DepthAssumption
<1>1. ASSUME NEW f, NEW g, NEW s \in Types,
             \A i \in DOMAIN s.sub : f[TypeOf(s.sub[i])] = g[TypeOf(s.sub[i])]
      PROVE  Row(f, s) = Row(g, s)
  <2>1. ASSUME NEW q \in Name PROVE StructNamesOf(f, s, q) = StructNamesOf(g, s, q)
    BY <1>1, StructNamesOfLocal
  <2> QED
    BY <2>1
<1> HIDE DEF Row
<1>2. ASSUME NEW m \in 0 .. MaxDepth, NEW f, NEW g, g = [s \in Types |-> Row(f, s)],
             \A s \in TypesTo[m] : \A i \in DOMAIN s.sub : f[TypeOf(s.sub[i])] = g[TypeOf(s.sub[i])]
      PROVE  g = [s \in Types |-> g[s]] /\ Good(g, m)
  <2>1. g = [s \in Types |-> g[s]]
    BY <1>2
  <2>2. ASSUME NEW s \in TypesTo[m] PROVE g[s] = Row(g, s)
    <3>1. s \in Types
      BY TypesToGrow DEF Types
    <3>2. Row(f, s) = Row(g, s)
      BY <1>1, <1>2, <3>1
    <3> QED
      BY <1>2, <3>1, <3>2
  <2> QED
    BY <2>1, <2>2
<1>3. 0 \in S
  <2>1. PICK f : f = [s \in Types |-> {}]
    OBVIOUS
  <2>2. PICK g : g = [s \in Types |-> Row(f, s)]
    OBVIOUS
  <2>3. 0 \in 0 .. MaxDepth
    BY <1>0
  <2>4. \A s \in TypesTo[0] : \A i \in DOMAIN s.sub : f[TypeOf(s.sub[i])] = g[TypeOf(s.sub[i])]
    BY <2>3, Inside
  <2>5. g = [s \in Types |-> g[s]] /\ Good(g, 0)
    <3> HIDE DEF Good
    <3> QED
      BY <1>2, <2>2, <2>3, <2>4
  <2> QED
    BY <2>3, <2>5
<1>4. ASSUME NEW m \in 0 .. MaxDepth - 1, m \in S PROVE m + 1 \in S
  <2>1. PICK f : f = [s \in Types |-> f[s]] /\ Good(f, m)
    BY <1>4
  <2>2. PICK g : g = [s \in Types |-> Row(f, s)]
    OBVIOUS
  <2>3. m + 1 \in 0 .. MaxDepth /\ m \in 0 .. MaxDepth /\ m + 1 - 1 = m
    BY <1>0
  <2>4. ASSUME NEW s \in TypesTo[m + 1], NEW i \in DOMAIN s.sub
        PROVE  f[TypeOf(s.sub[i])] = g[TypeOf(s.sub[i])]
    <3>1. TypeOf(s.sub[i]) \in TypesTo[m]
      BY <2>3, Inside
    <3>2. TypeOf(s.sub[i]) \in Types
      BY <2>3, <3>1, TypesToGrow DEF Types
    <3> QED
      BY <2>1, <2>2, <3>1, <3>2
  <2>5. g = [s \in Types |-> g[s]] /\ Good(g, m + 1)
    <3> HIDE DEF Good
    <3> QED
      BY <1>2, <2>2, <2>3, <2>4
  <2> QED
    BY <2>3, <2>5
<1>5. MaxDepth \in S
  <2> HIDE DEF S
  <2> QED
    BY <1>0, <1>3, <1>4, Induct
<1>6. PICK f : f = [s \in Types |-> f[s]] /\ Good(f, MaxDepth)
  BY <1>5
<1>7. f = [s \in Types |-> Row(f, s)]
  BY <1>6 DEF Types
<1>8. \E h : h = [s \in Types |-> Row(h, s)]
  BY <1>7
<1>9. StructNames = [s \in Types |-> Row(StructNames, s)]
  BY <1>8 DEF Row, StructNames
<1>10. PICK h : h = StructNames
  OBVIOUS
<1>11. h[t] = Row(h, t)
  BY <1>9, <1>10
<1>12. h[t][path] = StructNamesOf(h, t, path)
  BY <1>11 DEF Row
<1> QED
  BY <1>10, <1>12

\* DistinctIn is what its definition says.
LEMMA DistinctInIs ==
    ASSUME NEW t \in Types, NEW path \in Name
    PROVE  DistinctIn[t][path] = DistinctOf(DistinctIn, t, path)
<1> DEFINE Row(f, s) == [q \in Name |-> DistinctOf(f, s, q)]
<1> DEFINE Good(f, m) == \A s \in TypesTo[m] : f[s] = Row(f, s)
<1> DEFINE S == {m \in 0 .. MaxDepth : \E f : f = [s \in Types |-> f[s]] /\ Good(f, m)}
<1>0. MaxDepth \in Nat
  BY DepthAssumption
<1>1. ASSUME NEW f, NEW g, NEW s \in Types,
             \A i \in DOMAIN s.sub : f[TypeOf(s.sub[i])] = g[TypeOf(s.sub[i])]
      PROVE  Row(f, s) = Row(g, s)
  <2>1. ASSUME NEW q \in Name PROVE DistinctOf(f, s, q) = DistinctOf(g, s, q)
    BY <1>1, DistinctOfLocal
  <2> QED
    BY <2>1
<1> HIDE DEF Row
<1>2. ASSUME NEW m \in 0 .. MaxDepth, NEW f, NEW g, g = [s \in Types |-> Row(f, s)],
             \A s \in TypesTo[m] : \A i \in DOMAIN s.sub : f[TypeOf(s.sub[i])] = g[TypeOf(s.sub[i])]
      PROVE  g = [s \in Types |-> g[s]] /\ Good(g, m)
  <2>1. g = [s \in Types |-> g[s]]
    BY <1>2
  <2>2. ASSUME NEW s \in TypesTo[m] PROVE g[s] = Row(g, s)
    <3>1. s \in Types
      BY TypesToGrow DEF Types
    <3>2. Row(f, s) = Row(g, s)
      BY <1>1, <1>2, <3>1
    <3> QED
      BY <1>2, <3>1, <3>2
  <2> QED
    BY <2>1, <2>2
<1>3. 0 \in S
  <2>1. PICK f : f = [s \in Types |-> {}]
    OBVIOUS
  <2>2. PICK g : g = [s \in Types |-> Row(f, s)]
    OBVIOUS
  <2>3. 0 \in 0 .. MaxDepth
    BY <1>0
  <2>4. \A s \in TypesTo[0] : \A i \in DOMAIN s.sub : f[TypeOf(s.sub[i])] = g[TypeOf(s.sub[i])]
    BY <2>3, Inside
  <2>5. g = [s \in Types |-> g[s]] /\ Good(g, 0)
    <3> HIDE DEF Good
    <3> QED
      BY <1>2, <2>2, <2>3, <2>4
  <2> QED
    BY <2>3, <2>5
<1>4. ASSUME NEW m \in 0 .. MaxDepth - 1, m \in S PROVE m + 1 \in S
  <2>1. PICK f : f = [s \in Types |-> f[s]] /\ Good(f, m)
    BY <1>4
  <2>2. PICK g : g = [s \in Types |-> Row(f, s)]
    OBVIOUS
  <2>3. m + 1 \in 0 .. MaxDepth /\ m \in 0 .. MaxDepth /\ m + 1 - 1 = m
    BY <1>0
  <2>4. ASSUME NEW s \in TypesTo[m + 1], NEW i \in DOMAIN s.sub
        PROVE  f[TypeOf(s.sub[i])] = g[TypeOf(s.sub[i])]
    <3>1. TypeOf(s.sub[i]) \in TypesTo[m]
      BY <2>3, Inside
    <3>2. TypeOf(s.sub[i]) \in Types
      BY <2>3, <3>1, TypesToGrow DEF Types
    <3> QED
      BY <2>1, <2>2, <3>1, <3>2
  <2>5. g = [s \in Types |-> g[s]] /\ Good(g, m + 1)
    <3> HIDE DEF Good
    <3> QED
      BY <1>2, <2>2, <2>3, <2>4
  <2> QED
    BY <2>3, <2>5
<1>5. MaxDepth \in S
  <2> HIDE DEF S
  <2> QED
    BY <1>0, <1>3, <1>4, Induct
<1>6. PICK f : f = [s \in Types |-> f[s]] /\ Good(f, MaxDepth)
  BY <1>5
<1>7. f = [s \in Types |-> Row(f, s)]
  BY <1>6 DEF Types
<1>8. \E h : h = [s \in Types |-> Row(h, s)]
  BY <1>7
<1>9. DistinctIn = [s \in Types |-> Row(DistinctIn, s)]
  BY <1>8 DEF Row, DistinctIn
<1>10. PICK h : h = DistinctIn
  OBVIOUS
<1>11. h[t] = Row(h, t)
  BY <1>9, <1>10
<1>12. h[t][path] = DistinctOf(h, t, path)
  BY <1>11 DEF Row
<1> QED
  BY <1>10, <1>12

\* ListsInLists is what its definition says.
LEMMA ListsInListsIs ==
    ASSUME NEW t \in Types, NEW item \in BOOLEAN
    PROVE  ListsInLists[t][item] = NestsLists(ListsInLists, t, item)
<1> DEFINE Row(f, s) == [b \in BOOLEAN |-> NestsLists(f, s, b)]
<1> DEFINE Good(f, m) == \A s \in TypesTo[m] : f[s] = Row(f, s)
<1> DEFINE S == {m \in 0 .. MaxDepth : \E f : f = [s \in Types |-> f[s]] /\ Good(f, m)}
<1>0. MaxDepth \in Nat
  BY DepthAssumption
<1>1. ASSUME NEW f, NEW g, NEW s \in Types,
             \A i \in DOMAIN s.sub : f[TypeOf(s.sub[i])] = g[TypeOf(s.sub[i])]
      PROVE  Row(f, s) = Row(g, s)
  <2>1. ASSUME NEW b \in BOOLEAN PROVE NestsLists(f, s, b) = NestsLists(g, s, b)
    BY <1>1, NestsListsLocal
  <2> QED
    BY <2>1
<1> HIDE DEF Row
<1>2. ASSUME NEW m \in 0 .. MaxDepth, NEW f, NEW g, g = [s \in Types |-> Row(f, s)],
             \A s \in TypesTo[m] : \A i \in DOMAIN s.sub : f[TypeOf(s.sub[i])] = g[TypeOf(s.sub[i])]
      PROVE  g = [s \in Types |-> g[s]] /\ Good(g, m)
  <2>1. g = [s \in Types |-> g[s]]
    BY <1>2
  <2>2. ASSUME NEW s \in TypesTo[m] PROVE g[s] = Row(g, s)
    <3>1. s \in Types
      BY TypesToGrow DEF Types
    <3>2. Row(f, s) = Row(g, s)
      BY <1>1, <1>2, <3>1
    <3> QED
      BY <1>2, <3>1, <3>2
  <2> QED
    BY <2>1, <2>2
<1>3. 0 \in S
  <2>1. PICK f : f = [s \in Types |-> {}]
    OBVIOUS
  <2>2. PICK g : g = [s \in Types |-> Row(f, s)]
    OBVIOUS
  <2>3. 0 \in 0 .. MaxDepth
    BY <1>0
  <2>4. \A s \in TypesTo[0] : \A i \in DOMAIN s.sub : f[TypeOf(s.sub[i])] = g[TypeOf(s.sub[i])]
    BY <2>3, Inside
  <2>5. g = [s \in Types |-> g[s]] /\ Good(g, 0)
    <3> HIDE DEF Good
    <3> QED
      BY <1>2, <2>2, <2>3, <2>4
  <2> QED
    BY <2>3, <2>5
<1>4. ASSUME NEW m \in 0 .. MaxDepth - 1, m \in S PROVE m + 1 \in S
  <2>1. PICK f : f = [s \in Types |-> f[s]] /\ Good(f, m)
    BY <1>4
  <2>2. PICK g : g = [s \in Types |-> Row(f, s)]
    OBVIOUS
  <2>3. m + 1 \in 0 .. MaxDepth /\ m \in 0 .. MaxDepth /\ m + 1 - 1 = m
    BY <1>0
  <2>4. ASSUME NEW s \in TypesTo[m + 1], NEW i \in DOMAIN s.sub
        PROVE  f[TypeOf(s.sub[i])] = g[TypeOf(s.sub[i])]
    <3>1. TypeOf(s.sub[i]) \in TypesTo[m]
      BY <2>3, Inside
    <3>2. TypeOf(s.sub[i]) \in Types
      BY <2>3, <3>1, TypesToGrow DEF Types
    <3> QED
      BY <2>1, <2>2, <3>1, <3>2
  <2>5. g = [s \in Types |-> g[s]] /\ Good(g, m + 1)
    <3> HIDE DEF Good
    <3> QED
      BY <1>2, <2>2, <2>3, <2>4
  <2> QED
    BY <2>3, <2>5
<1>5. MaxDepth \in S
  <2> HIDE DEF S
  <2> QED
    BY <1>0, <1>3, <1>4, Induct
<1>6. PICK f : f = [s \in Types |-> f[s]] /\ Good(f, MaxDepth)
  BY <1>5
<1>7. f = [s \in Types |-> Row(f, s)]
  BY <1>6 DEF Types
<1>8. \E h : h = [s \in Types |-> Row(h, s)]
  BY <1>7
<1>9. ListsInLists = [s \in Types |-> Row(ListsInLists, s)]
  BY <1>8 DEF Row, ListsInLists
<1>10. PICK h : h = ListsInLists
  OBVIOUS
<1>11. h[t] = Row(h, t)
  BY <1>9, <1>10
<1>12. h[t][item] = NestsLists(h, t, item)
  BY <1>11 DEF Row
<1> QED
  BY <1>10, <1>12

\* AllShown is what its definition says.
LEMMA AllShownIs ==
    ASSUME NEW t \in Types, NEW v \in Cells, NEW d \in Datums
    PROVE  AllShown[t][v][d] = Complete(AllShown, t, v, d)
<1> DEFINE Row(f, s) == [c \in Cells |-> [e \in Datums |-> Complete(f, s, c, e)]]
<1> DEFINE Good(f, m) == \A s \in TypesTo[m] : f[s] = Row(f, s)
<1> DEFINE S == {m \in 0 .. MaxDepth : \E f : f = [s \in Types |-> f[s]] /\ Good(f, m)}
<1>0. MaxDepth \in Nat
  BY DepthAssumption
<1>1. ASSUME NEW f, NEW g, NEW s \in Types,
             \A i \in DOMAIN s.sub : f[TypeOf(s.sub[i])] = g[TypeOf(s.sub[i])]
      PROVE  Row(f, s) = Row(g, s)
  <2>1. ASSUME NEW c \in Cells, NEW e \in Datums PROVE Complete(f, s, c, e) = Complete(g, s, c, e)
    BY <1>1, CompleteLocal
  <2> QED
    BY <2>1
<1> HIDE DEF Row
<1>2. ASSUME NEW m \in 0 .. MaxDepth, NEW f, NEW g, g = [s \in Types |-> Row(f, s)],
             \A s \in TypesTo[m] : \A i \in DOMAIN s.sub : f[TypeOf(s.sub[i])] = g[TypeOf(s.sub[i])]
      PROVE  g = [s \in Types |-> g[s]] /\ Good(g, m)
  <2>1. g = [s \in Types |-> g[s]]
    BY <1>2
  <2>2. ASSUME NEW s \in TypesTo[m] PROVE g[s] = Row(g, s)
    <3>1. s \in Types
      BY TypesToGrow DEF Types
    <3>2. Row(f, s) = Row(g, s)
      BY <1>1, <1>2, <3>1
    <3> QED
      BY <1>2, <3>1, <3>2
  <2> QED
    BY <2>1, <2>2
<1>3. 0 \in S
  <2>1. PICK f : f = [s \in Types |-> {}]
    OBVIOUS
  <2>2. PICK g : g = [s \in Types |-> Row(f, s)]
    OBVIOUS
  <2>3. 0 \in 0 .. MaxDepth
    BY <1>0
  <2>4. \A s \in TypesTo[0] : \A i \in DOMAIN s.sub : f[TypeOf(s.sub[i])] = g[TypeOf(s.sub[i])]
    BY <2>3, Inside
  <2>5. g = [s \in Types |-> g[s]] /\ Good(g, 0)
    <3> HIDE DEF Good
    <3> QED
      BY <1>2, <2>2, <2>3, <2>4
  <2> QED
    BY <2>3, <2>5
<1>4. ASSUME NEW m \in 0 .. MaxDepth - 1, m \in S PROVE m + 1 \in S
  <2>1. PICK f : f = [s \in Types |-> f[s]] /\ Good(f, m)
    BY <1>4
  <2>2. PICK g : g = [s \in Types |-> Row(f, s)]
    OBVIOUS
  <2>3. m + 1 \in 0 .. MaxDepth /\ m \in 0 .. MaxDepth /\ m + 1 - 1 = m
    BY <1>0
  <2>4. ASSUME NEW s \in TypesTo[m + 1], NEW i \in DOMAIN s.sub
        PROVE  f[TypeOf(s.sub[i])] = g[TypeOf(s.sub[i])]
    <3>1. TypeOf(s.sub[i]) \in TypesTo[m]
      BY <2>3, Inside
    <3>2. TypeOf(s.sub[i]) \in Types
      BY <2>3, <3>1, TypesToGrow DEF Types
    <3> QED
      BY <2>1, <2>2, <3>1, <3>2
  <2>5. g = [s \in Types |-> g[s]] /\ Good(g, m + 1)
    <3> HIDE DEF Good
    <3> QED
      BY <1>2, <2>2, <2>3, <2>4
  <2> QED
    BY <2>3, <2>5
<1>5. MaxDepth \in S
  <2> HIDE DEF S
  <2> QED
    BY <1>0, <1>3, <1>4, Induct
<1>6. PICK f : f = [s \in Types |-> f[s]] /\ Good(f, MaxDepth)
  BY <1>5
<1>7. f = [s \in Types |-> Row(f, s)]
  BY <1>6 DEF Types
<1>8. \E h : h = [s \in Types |-> Row(h, s)]
  BY <1>7
<1>9. AllShown = [s \in Types |-> Row(AllShown, s)]
  BY <1>8 DEF Row, AllShown
<1>10. PICK h : h = AllShown
  OBVIOUS
<1>11. h[t] = Row(h, t)
  BY <1>9, <1>10
<1>12. h[t][v][d] = Complete(h, t, v, d)
  BY <1>11 DEF Row
<1> QED
  BY <1>10, <1>12

\* The types of fields, each under the path of its name.
FieldsKnown(fields) ==
    \A i \in DOMAIN fields : TypeOf(fields[i]) \in Types /\ NameOf(fields[i]) \in Name

LEMMA PathsInside ==
    ASSUME NEW path \in Name, NEW name \in Name
    PROVE  /\ Under(path, name) \in Name /\ Under(path, <<"i">>) \in Name /\ Under(path, <<"d">>) \in Name
           /\ CompositeTypeName(TableName, path) \in Name /\ TableName \in Name /\ <<>> \in Name
<1>1. TableName \in Name
  BY SessionAssumption
<1>2. <<"i">> \in Name /\ <<"d">> \in Name
  BY <1>1, NamesInside
<1> QED
  BY <1>1, <1>2, NamesInside

LEMMA SelfDefTyped ==
    ASSUME NEW t \in Types, t.k = "Struct", NEW path \in Name
    PROVE  /\ SelfDef(t, path) \in Defs
           /\ SelfDef(t, path)[1] = CompositeTypeName(TableName, path)
<1>1. PICK l \in Nat : l = Len(t.sub) /\ DOMAIN t.sub = 1 .. l
  BY TypeParts
<1>2. PICK cols : cols = [i \in DOMAIN t.sub |-> <<NameOf(t.sub[i]), TextAt(TableName, t.sub, path, i)>>]
  OBVIOUS
<1>3. PICK A : A = Name \X PgTexts
  OBVIOUS
<1>4. ASSUME NEW i \in 1 .. l PROVE cols[i] \in A
  <2>1. TypeOf(t.sub[i]) \in Types /\ NameOf(t.sub[i]) \in Name
    BY <1>1, TypeParts
  <2>2. Under(path, NameOf(t.sub[i])) \in Name /\ TableName \in Name
    BY <2>1, PathsInside
  <2>3. TextAt(TableName, t.sub, path, i) \in PgTexts
    BY <2>1, <2>2, TextTyped DEF TextAt
  <2> QED
    BY <1>1, <1>2, <1>3, <2>1, <2>3
<1>5. cols = [i \in 1 .. l |-> cols[i]]
  BY <1>1, <1>2
<1>6. cols \in Seq(A)
  BY <1>4, <1>5
<1>7. CompositeTypeName(TableName, path) \in Name
  BY PathsInside
<1> QED
  BY <1>2, <1>3, <1>6, <1>7 DEF SelfDef, Defs

\* What a type defines is named as its structs are.
DefsNamed(t) ==
    \A path \in Name : DefsIn[t][path] \subseteq Defs /\ Names(DefsIn[t][path]) = StructNames[t][path]

LEMMA FieldsNamed ==
    ASSUME NEW fields, FieldsKnown(fields), \A i \in DOMAIN fields : DefsNamed(TypeOf(fields[i])),
           NEW path \in Name
    PROVE  /\ InFields(DefsIn, fields, path) \subseteq Defs
           /\ Names(InFields(DefsIn, fields, path)) = InFields(StructNames, fields, path)
<1>1. ASSUME NEW i \in DOMAIN fields
      PROVE  /\ DefsIn[TypeOf(fields[i])][Under(path, NameOf(fields[i]))] \subseteq Defs
             /\ Names(DefsIn[TypeOf(fields[i])][Under(path, NameOf(fields[i]))])
                  = StructNames[TypeOf(fields[i])][Under(path, NameOf(fields[i]))]
  <2>1. NameOf(fields[i]) \in Name /\ DefsNamed(TypeOf(fields[i]))
    BY DEF FieldsKnown
  <2>2. Under(path, NameOf(fields[i])) \in Name
    BY <2>1, PathsInside
  <2> QED
    BY <2>1, <2>2 DEF DefsNamed
<1>2. PICK D : D = [i \in DOMAIN fields |-> DefsIn[TypeOf(fields[i])][Under(path, NameOf(fields[i]))]]
  OBVIOUS
<1>3. PICK W : W = [i \in DOMAIN fields |-> StructNames[TypeOf(fields[i])][Under(path, NameOf(fields[i]))]]
  OBVIOUS
<1>4. \A i \in DOMAIN fields : D[i] \subseteq Defs /\ Names(D[i]) = W[i]
  BY <1>1, <1>2, <1>3
<1>5. InFields(DefsIn, fields, path) = UNION {D[i] : i \in DOMAIN fields}
  BY <1>2 DEF InFields
<1>6. InFields(StructNames, fields, path) = UNION {W[i] : i \in DOMAIN fields}
  BY <1>3 DEF InFields
<1>7. Names(UNION {D[i] : i \in DOMAIN fields}) = UNION {Names(D[i]) : i \in DOMAIN fields}
  BY DEF Names
<1>8. UNION {D[i] : i \in DOMAIN fields} \subseteq Defs
  BY <1>4
<1>9. UNION {Names(D[i]) : i \in DOMAIN fields} = UNION {W[i] : i \in DOMAIN fields}
  BY <1>4
<1> QED
  BY <1>5, <1>6, <1>7, <1>8, <1>9

LEMMA AllNamed == \A t \in Types : DefsNamed(t)
<1> DEFINE P == {t \in Types : DefsNamed(t)}
<1>1. ASSUME NEW t \in Types, \A i \in DOMAIN t.sub : TypeOf(t.sub[i]) \in P PROVE t \in P
  <2>1. ASSUME NEW path \in Name
        PROVE  DefsIn[t][path] \subseteq Defs /\ Names(DefsIn[t][path]) = StructNames[t][path]
    <3>1. DefsIn[t][path] = DefsOf(DefsIn, t, path) /\ StructNames[t][path] = StructNamesOf(StructNames, t, path)
      BY DefsInIs, StructNamesIs
    <3>2. t.k \in Lists \union {"Dictionary"} => DefsNamed(Item(t))
      BY <1>1, TypeParts DEF Item
    <3>3. PICK i \in Name : i = Under(path, <<"i">>) /\ i = Joined(path, <<"i">>)
      BY PathsInside DEF Under, Joined
    <3>4. PICK d \in Name : d = Under(path, <<"d">>) /\ d = Joined(path, <<"d">>)
      BY PathsInside DEF Under, Joined
    <3>5. CASE t.k \in Lists
      <4>1. DefsIn[t][path] = DefsIn[Item(t)][i] /\ StructNames[t][path] = StructNames[Item(t)][i]
        BY <3>1, <3>3, <3>5 DEF DefsOf, StructNamesOf, Lists
      <4> QED
        BY <3>2, <3>5, <4>1 DEF DefsNamed
    <3>6. CASE t.k = "Dictionary"
      <4>1. DefsIn[t][path] = DefsIn[Item(t)][d] /\ StructNames[t][path] = StructNames[Item(t)][d]
        BY <3>1, <3>4, <3>6 DEF DefsOf, StructNamesOf, Lists
      <4> QED
        BY <3>2, <3>6, <4>1 DEF DefsNamed
    <3>7. CASE t.k = "Struct"
      <4>1. PICK D : D = InFields(DefsIn, t.sub, path)
        OBVIOUS
      <4>2. PICK W : W = InFields(StructNames, t.sub, path)
        OBVIOUS
      <4>3. D \subseteq Defs /\ Names(D) = W
        <5>1. FieldsKnown(t.sub) /\ \A j \in DOMAIN t.sub : DefsNamed(TypeOf(t.sub[j]))
          BY <1>1, TypeParts DEF FieldsKnown
        <5> QED
          BY <4>1, <4>2, <5>1, FieldsNamed
      <4>4. DefsIn[t][path] = {SelfDef(t, path)} \union D
        BY <3>1, <3>7, <4>1 DEF DefsOf, Lists
      <4>5. StructNames[t][path] = {CompositeTypeName(TableName, path)} \union W
        <5>1. UNION Range(Fieldwise(StructNames, t.sub, path)) = W
          BY <4>2, FieldwiseIs
        <5> QED
          BY <3>1, <3>7, <5>1 DEF StructNamesOf, Lists
      <4>6. SelfDef(t, path) \in Defs /\ SelfDef(t, path)[1] = CompositeTypeName(TableName, path)
        BY <3>7, SelfDefTyped
      <4> QED
        BY <4>3, <4>4, <4>5, <4>6 DEF Names
    <3>8. CASE t.k \notin Lists \union {"Dictionary", "Struct"}
      BY <3>1, <3>8 DEF DefsOf, StructNamesOf, Names
    <3> QED
      BY <3>5, <3>6, <3>7, <3>8
  <2> QED
    BY <2>1 DEF DefsNamed
<1>2. Types \subseteq P
  <2> HIDE DEF P
  <2> QED
    BY <1>1, TypeInduction
<1> QED
  BY <1>2

\* A composite type that a type is declared as is among those it defines.
CompositeKnown(t) ==
    \A path \in Name :
      TextIn(TableName)[t][path].base = "composite" =>
        TextIn(TableName)[t][path].name \in Names(DefsIn[t][path])

LEMMA AllKnown == \A t \in Types : CompositeKnown(t)
<1> DEFINE P == {t \in Types : CompositeKnown(t)}
<1>1. ASSUME NEW t \in Types, \A i \in DOMAIN t.sub : TypeOf(t.sub[i]) \in P PROVE t \in P
  <2>1. ASSUME NEW path \in Name, TextIn(TableName)[t][path].base = "composite"
        PROVE  TextIn(TableName)[t][path].name \in Names(DefsIn[t][path])
    <3>1. DefsIn[t][path] = DefsOf(DefsIn, t, path)
          /\ TextIn(TableName)[t][path] = TextOf(TextIn(TableName), TableName, t, path)
      BY DefsInIs, TextInIs
    <3>2. t.k \in Lists \union {"Dictionary"} => CompositeKnown(Item(t))
      BY <1>1, TypeParts DEF Item
    <3>3. PICK i \in Name : i = Under(path, <<"i">>)
      BY PathsInside
    <3>4. PICK d \in Name : d = Under(path, <<"d">>)
      BY PathsInside
    <3>5. CASE t.k \in Lists
      <4>1. PICK text : text = TextIn(TableName)[Item(t)][i]
        OBVIOUS
      <4>2. DefsIn[t][path] = DefsIn[Item(t)][i]
            /\ TextIn(TableName)[t][path] = PgText(text.base, text.name, text.dims + 1)
        BY <3>1, <3>3, <3>5, <4>1 DEF DefsOf, TextOf
      <4>3. text.base = "composite"
        BY <2>1, <4>2 DEF PgText
      <4>4. text.name \in Names(DefsIn[Item(t)][i])
        BY <3>2, <3>5, <4>1, <4>3 DEF CompositeKnown
      <4> QED
        BY <4>2, <4>4 DEF PgText
    <3>6. CASE t.k = "Dictionary"
      <4>1. DefsIn[t][path] = DefsIn[Item(t)][d]
            /\ TextIn(TableName)[t][path] = TextIn(TableName)[Item(t)][d]
        BY <3>1, <3>4, <3>6 DEF DefsOf, TextOf, Lists
      <4> QED
        BY <2>1, <3>2, <3>6, <4>1 DEF CompositeKnown
    <3>7. CASE t.k = "Struct"
      <4>1. TextIn(TableName)[t][path] = PgText("composite", CompositeTypeName(TableName, path), 0)
        BY <3>1, <3>7 DEF TextOf, Lists
      <4>2. SelfDef(t, path) \in DefsIn[t][path]
        BY <3>1, <3>7 DEF DefsOf, Lists
      <4>3. SelfDef(t, path)[1] = CompositeTypeName(TableName, path)
        BY <3>7, SelfDefTyped
      <4> QED
        BY <4>1, <4>2, <4>3 DEF PgText, Names
    <3>8. CASE t.k \notin Lists \union {"Dictionary", "Struct"}
      <4>1. TextIn(TableName)[t][path] = PgText(MappedTo(t), <<>>, 0)
        BY <3>1, <3>8 DEF TextOf
      <4>2. MappedTo(t) # "composite"
        BY MappedTyped
      <4> QED
        BY <2>1, <4>1, <4>2 DEF PgText
    <3> QED
      BY <3>5, <3>6, <3>7, <3>8
  <2> QED
    BY <2>1 DEF CompositeKnown
<1>2. Types \subseteq P
  <2> HIDE DEF P
  <2> QED
    BY <1>1, TypeInduction
<1> QED
  BY <1>2

LEMMA SelfDeps ==
    ASSUME NEW t \in Types, t.k = "Struct", NEW path \in Name
    PROVE  Deps(SelfDef(t, path)) \subseteq Names(InFields(DefsIn, t.sub, path))
<1> SUFFICES ASSUME NEW n \in Deps(SelfDef(t, path)) PROVE n \in Names(InFields(DefsIn, t.sub, path))
  OBVIOUS
<1>1. PICK cols : cols = [i \in DOMAIN t.sub |-> <<NameOf(t.sub[i]), TextAt(TableName, t.sub, path, i)>>]
  OBVIOUS
<1>2. SelfDef(t, path)[2] = cols
  BY <1>1 DEF SelfDef
<1>3. PICK i \in DOMAIN cols : cols[i][2].base = "composite" /\ n = cols[i][2].name
  BY <1>2 DEF Deps
<1>4. i \in DOMAIN t.sub /\ cols[i][2] = TextAt(TableName, t.sub, path, i)
  BY <1>1, <1>3
<1>5. TypeOf(t.sub[i]) \in Types /\ Under(path, NameOf(t.sub[i])) \in Name
  BY <1>4, TypeParts, PathsInside
<1>6. n \in Names(DefsIn[TypeOf(t.sub[i])][Under(path, NameOf(t.sub[i]))])
  BY <1>3, <1>4, <1>5, AllKnown DEF CompositeKnown, TextAt
<1>7. DefsIn[TypeOf(t.sub[i])][Under(path, NameOf(t.sub[i]))] \subseteq InFields(DefsIn, t.sub, path)
  BY <1>4 DEF InFields
<1> QED
  BY <1>6, <1>7 DEF Names

-----------------------------------------------------------------------------
(* They can be ordered: what is inside comes first.                        *)

LEMMA UnionOrderable ==
    ASSUME NEW F, \A D \in F : Orderable(D)
    PROVE  Orderable(UNION F)
<1> SUFFICES ASSUME NEW L \in SUBSET UNION F, L # {}
             PROVE  \E d \in L : Deps(d) \subseteq Names((UNION F) \ L)
  BY DEF Orderable
<1>1. PICK D \in F : D \cap L # {}
  OBVIOUS
<1>2. PICK M : M = D \cap L
  OBVIOUS
<1>3. PICK d \in M : Deps(d) \subseteq Names(D \ M)
  BY <1>1, <1>2 DEF Orderable
<1>4. D \ M \subseteq (UNION F) \ L
  BY <1>2
<1>5. Names(D \ M) \subseteq Names((UNION F) \ L)
  BY <1>4 DEF Names
<1> QED
  BY <1>2, <1>3, <1>5

LEMMA LastOrderable ==
    ASSUME NEW D, Orderable(D), NEW d, Deps(d) \subseteq Names(D)
    PROVE  Orderable({d} \union D)
<1> SUFFICES ASSUME NEW L \in SUBSET ({d} \union D), L # {}
             PROVE  \E e \in L : Deps(e) \subseteq Names(({d} \union D) \ L)
  BY DEF Orderable
<1>1. CASE D \cap L # {}
  <2>1. PICK M : M = D \cap L
    OBVIOUS
  <2>2. PICK e \in M : Deps(e) \subseteq Names(D \ M)
    BY <1>1, <2>1 DEF Orderable
  <2>3. D \ M \subseteq ({d} \union D) \ L
    BY <2>1
  <2>4. Names(D \ M) \subseteq Names(({d} \union D) \ L)
    BY <2>3 DEF Names
  <2> QED
    BY <2>1, <2>2, <2>4
<1>2. CASE D \cap L = {}
  <2>1. d \in L /\ D \subseteq ({d} \union D) \ L
    BY <1>2
  <2>2. Names(D) \subseteq Names(({d} \union D) \ L)
    BY <2>1 DEF Names
  <2> QED
    BY <2>1, <2>2
<1> QED
  BY <1>1, <1>2

Ordered(t) == \A path \in Name : Orderable(DefsIn[t][path])

LEMMA FieldsOrdered ==
    ASSUME NEW fields, FieldsKnown(fields), \A i \in DOMAIN fields : Ordered(TypeOf(fields[i])),
           NEW path \in Name
    PROVE  Orderable(InFields(DefsIn, fields, path))
<1>1. PICK F : F = {DefsIn[TypeOf(fields[i])][Under(path, NameOf(fields[i]))] : i \in DOMAIN fields}
  OBVIOUS
<1>2. ASSUME NEW D \in F PROVE Orderable(D)
  <2>1. PICK i \in DOMAIN fields : D = DefsIn[TypeOf(fields[i])][Under(path, NameOf(fields[i]))]
    BY <1>1
  <2>2. Under(path, NameOf(fields[i])) \in Name
    BY PathsInside DEF FieldsKnown
  <2> QED
    BY <2>1, <2>2 DEF Ordered
<1>3. Orderable(UNION F)
  BY <1>2, UnionOrderable
<1> QED
  BY <1>1, <1>3 DEF InFields

LEMMA AllOrdered == \A t \in Types : Ordered(t)
<1> DEFINE P == {t \in Types : Ordered(t)}
<1>1. ASSUME NEW t \in Types, \A i \in DOMAIN t.sub : TypeOf(t.sub[i]) \in P PROVE t \in P
  <2>1. ASSUME NEW path \in Name PROVE Orderable(DefsIn[t][path])
    <3>1. DefsIn[t][path] = DefsOf(DefsIn, t, path)
      BY DefsInIs
    <3>2. t.k \in Lists \union {"Dictionary"} => Ordered(Item(t))
      BY <1>1, TypeParts DEF Item
    <3>3. Under(path, <<"i">>) \in Name /\ Under(path, <<"d">>) \in Name
      BY PathsInside
    <3>4. CASE t.k \in Lists \union {"Dictionary"}
      <4>1. DefsIn[t][path] \in {DefsIn[Item(t)][Under(path, <<"i">>)], DefsIn[Item(t)][Under(path, <<"d">>)]}
        BY <3>1, <3>4 DEF DefsOf
      <4> QED
        BY <3>2, <3>3, <3>4, <4>1 DEF Ordered
    <3>5. CASE t.k = "Struct"
      <4>1. DefsIn[t][path] = {SelfDef(t, path)} \union InFields(DefsIn, t.sub, path)
        BY <3>1, <3>5 DEF DefsOf, Lists
      <4>2. Orderable(InFields(DefsIn, t.sub, path))
        <5>1. FieldsKnown(t.sub) /\ \A j \in DOMAIN t.sub : Ordered(TypeOf(t.sub[j]))
          BY <1>1, TypeParts DEF FieldsKnown
        <5> QED
          BY <5>1, FieldsOrdered
      <4>3. Deps(SelfDef(t, path)) \subseteq Names(InFields(DefsIn, t.sub, path))
        BY <3>5, SelfDeps
      <4> QED
        BY <4>1, <4>2, <4>3, LastOrderable
    <3>6. CASE t.k \notin Lists \union {"Dictionary", "Struct"}
      BY <3>1, <3>6 DEF DefsOf, Orderable
    <3> QED
      BY <3>4, <3>5, <3>6
  <2> QED
    BY <2>1 DEF Ordered
<1>2. Types \subseteq P
  <2> HIDE DEF P
  <2> QED
    BY <1>1, TypeInduction
<1> QED
  BY <1>2

-----------------------------------------------------------------------------
(* Their names differ.                                                     *)

OneEach(t) == \A path \in Name : DistinctIn[t][path] => Unique(DefsIn[t][path])

LEMMA UnionUnique ==
    ASSUME NEW D, NEW W, DOMAIN W = DOMAIN D, Apart(W),
           \A i \in DOMAIN D : Unique(D[i]) /\ Names(D[i]) = W[i]
    PROVE  Unique(UNION {D[i] : i \in DOMAIN D})
<1> SUFFICES ASSUME NEW i \in DOMAIN D, NEW j \in DOMAIN D, NEW d \in D[i], NEW e \in D[j], d[1] = e[1]
             PROVE  d = e
  BY DEF Unique
<1>1. d[1] \in W[i] /\ e[1] \in W[j]
  BY DEF Names
<1>2. i = j
  BY <1>1 DEF Apart
<1> QED
  BY <1>2 DEF Unique

LEMMA FieldsUnique ==
    ASSUME NEW fields, FieldsKnown(fields), \A i \in DOMAIN fields : OneEach(TypeOf(fields[i])),
           NEW path \in Name, Apart(Fieldwise(StructNames, fields, path)),
           \A i \in DOMAIN fields : Fieldwise(DistinctIn, fields, path)[i]
    PROVE  Unique(InFields(DefsIn, fields, path))
<1>1. PICK D : D = [i \in DOMAIN fields |-> DefsIn[TypeOf(fields[i])][Under(path, NameOf(fields[i]))]]
  OBVIOUS
<1>2. PICK W : W = Fieldwise(StructNames, fields, path)
  OBVIOUS
<1>3. DOMAIN W = DOMAIN D /\ DOMAIN D = DOMAIN fields
  BY <1>1, <1>2, FieldwiseIs
<1>4. ASSUME NEW i \in DOMAIN fields PROVE Unique(D[i]) /\ Names(D[i]) = W[i]
  <2>1. PICK p \in Name : p = Under(path, NameOf(fields[i]))
    BY PathsInside DEF FieldsKnown
  <2>2. PICK t \in Types : t = TypeOf(fields[i])
    BY DEF FieldsKnown
  <2>3. D[i] = DefsIn[t][p] /\ W[i] = StructNames[t][p] /\ Fieldwise(DistinctIn, fields, path)[i] = DistinctIn[t][p]
    BY <1>1, <1>2, <2>1, <2>2, FieldwiseIs
  <2>4. DistinctIn[t][p] /\ OneEach(t)
    BY <2>2, <2>3
  <2> QED
    BY <2>3, <2>4, AllNamed DEF OneEach, DefsNamed
<1>5. Unique(UNION {D[i] : i \in DOMAIN D})
  BY <1>2, <1>3, <1>4, UnionUnique
<1>6. InFields(DefsIn, fields, path) = UNION {D[i] : i \in DOMAIN D}
  BY <1>1 DEF InFields
<1> QED
  BY <1>5, <1>6

LEMMA AllUnique == \A t \in Types : OneEach(t)
<1> DEFINE P == {t \in Types : OneEach(t)}
<1>1. ASSUME NEW t \in Types, \A i \in DOMAIN t.sub : TypeOf(t.sub[i]) \in P PROVE t \in P
  <2>1. ASSUME NEW path \in Name, DistinctIn[t][path] PROVE Unique(DefsIn[t][path])
    <3>1. DefsIn[t][path] = DefsOf(DefsIn, t, path) /\ DistinctIn[t][path] = DistinctOf(DistinctIn, t, path)
      BY DefsInIs, DistinctInIs
    <3>2. t.k \in Lists \union {"Dictionary"} => OneEach(Item(t))
      BY <1>1, TypeParts DEF Item
    <3>3. PICK i \in Name : i = Under(path, <<"i">>) /\ i = Joined(path, <<"i">>)
      BY PathsInside DEF Under, Joined
    <3>4. PICK d \in Name : d = Under(path, <<"d">>) /\ d = Joined(path, <<"d">>)
      BY PathsInside DEF Under, Joined
    <3>5. CASE t.k \in Lists
      <4>1. DefsIn[t][path] = DefsIn[Item(t)][i] /\ DistinctIn[t][path] = DistinctIn[Item(t)][i]
        BY <3>1, <3>3, <3>5 DEF DefsOf, DistinctOf, Lists
      <4> QED
        BY <2>1, <3>2, <3>5, <4>1 DEF OneEach
    <3>6. CASE t.k = "Dictionary"
      <4>1. DefsIn[t][path] = DefsIn[Item(t)][d] /\ DistinctIn[t][path] = DistinctIn[Item(t)][d]
        BY <3>1, <3>4, <3>6 DEF DefsOf, DistinctOf, Lists
      <4> QED
        BY <2>1, <3>2, <3>6, <4>1 DEF OneEach
    <3>7. CASE t.k = "Struct"
      <4>1. PICK W : W = Fieldwise(StructNames, t.sub, path)
        OBVIOUS
      <4>2. /\ CompositeTypeName(TableName, path) \notin UNION Range(W)
            /\ Apart(W)
            /\ \A j \in DOMAIN t.sub : Fieldwise(DistinctIn, t.sub, path)[j]
        BY <2>1, <3>1, <3>7, <4>1 DEF DistinctOf, Lists
      <4>3. PICK D : D = InFields(DefsIn, t.sub, path)
        OBVIOUS
      <4>4. FieldsKnown(t.sub) /\ \A j \in DOMAIN t.sub : OneEach(TypeOf(t.sub[j]))
        BY <1>1, TypeParts DEF FieldsKnown
      <4>5. Unique(D)
        BY <4>1, <4>2, <4>3, <4>4, FieldsUnique
      <4>6. Names(D) = UNION Range(W)
        BY <4>1, <4>3, <4>4, AllNamed, FieldsNamed, FieldwiseIs DEF FieldsKnown
      <4>7. DefsIn[t][path] = {SelfDef(t, path)} \union D
        BY <3>1, <3>7, <4>3 DEF DefsOf, Lists
      <4>8. SelfDef(t, path)[1] \notin Names(D)
        BY <3>7, <4>2, <4>6, SelfDefTyped
      <4> QED
        BY <4>5, <4>7, <4>8 DEF Unique, Names
    <3>8. CASE t.k \notin Lists \union {"Dictionary", "Struct"}
      BY <3>1, <3>8 DEF DefsOf, Unique
    <3> QED
      BY <3>5, <3>6, <3>7, <3>8
  <2> QED
    BY <2>1 DEF OneEach
<1>2. Types \subseteq P
  <2> HIDE DEF P
  <2> QED
    BY <1>1, TypeInduction
<1> QED
  BY <1>2

-----------------------------------------------------------------------------
(* With names that differ, an import defines all of them.                  *)

FindsAll(t) ==
    \A path \in Name : \A acc \in Accs :
      Sane(acc) /\ DistinctIn[t][path] /\ StructNames[t][path] \cap acc.seen = {} =>
        /\ PgTypeIn(TableName)[t][path][acc].defs = acc.defs \union DefsIn[t][path]
        /\ PgTypeIn(TableName)[t][path][acc].seen = acc.seen \union StructNames[t][path]

LEMMA UnionNext ==
    ASSUME NEW f, NEW i \in Nat
    PROVE  UNION {f[j] : j \in 1 .. i + 1} = (UNION {f[j] : j \in 1 .. i}) \union f[i + 1]
<1>1. PICK k : k = i + 1
  OBVIOUS
<1>2. PICK I : I = 1 .. i
  OBVIOUS
<1>3. 1 .. i + 1 = I \union {k}
  BY <1>1, <1>2
<1>4. {f[j] : j \in I \union {k}} = {f[j] : j \in I} \union {f[k]}
  OBVIOUS
<1>5. UNION ({f[j] : j \in I} \union {f[k]}) = (UNION {f[j] : j \in I}) \union f[k]
  OBVIOUS
<1> QED
  BY <1>1, <1>2, <1>3, <1>4, <1>5

LEMMA FieldsFindAll ==
    ASSUME NEW fields, FieldsKnown(fields), NEW l \in Nat, l = Len(fields), DOMAIN fields = 1 .. l,
           \A i \in DOMAIN fields : FindsAll(TypeOf(fields[i])),
           NEW path \in Name, Apart(Fieldwise(StructNames, fields, path)),
           \A i \in DOMAIN fields : Fieldwise(DistinctIn, fields, path)[i],
           NEW acc, Sane(acc), InFields(StructNames, fields, path) \cap acc.seen = {},
           NEW r, r = PgTypesFor(PgTypeIn(TableName), fields, path, acc)
    PROVE  /\ r.defs = acc.defs \union InFields(DefsIn, fields, path)
           /\ r.seen = acc.seen \union InFields(StructNames, fields, path)
<1>1. PICK D : D = [i \in 1 .. l |-> DefsIn[TypeOf(fields[i])][Under(path, NameOf(fields[i]))]]
  OBVIOUS
<1>2. PICK W : W = Fieldwise(StructNames, fields, path)
  OBVIOUS
<1>3. DOMAIN W = 1 .. l /\ Apart(W) /\ \A i \in 1 .. l : W[i] \cap acc.seen = {}
  <2>1. DOMAIN W = 1 .. l /\ \A i \in 1 .. l : W[i] = StructNames[TypeOf(fields[i])][Under(path, NameOf(fields[i]))]
    BY <1>2, FieldwiseIs
  <2>2. \A i \in 1 .. l : W[i] \subseteq InFields(StructNames, fields, path)
    BY <2>1 DEF InFields
  <2> QED
    BY <1>2, <2>1, <2>2
<1> DEFINE Good(a, i) == /\ Sane(a)
                         /\ a.defs = acc.defs \union UNION {D[j] : j \in 1 .. i}
                         /\ a.seen = acc.seen \union UNION {W[j] : j \in 1 .. i}
<1>4. PICK f : Afters(f, PgTypeIn(TableName), fields, path, acc)
               /\ PgTypesFor(PgTypeIn(TableName), fields, path, acc) = f[l]
  BY FieldsAre
<1> DEFINE S == {i \in 0 .. l : Good(f[i], i)}
<1>5. 0 \in S
  <2>1. f[0] = acc
    BY <1>4 DEF Afters
  <2>2. {D[j] : j \in 1 .. 0} = {} /\ {W[j] : j \in 1 .. 0} = {}
    OBVIOUS
  <2> QED
    BY <2>1, <2>2
<1>6. ASSUME NEW i \in 0 .. l - 1, i \in S PROVE i + 1 \in S
  <2>1. i + 1 \in 0 .. l /\ i + 1 \in 1 .. l /\ i + 1 - 1 = i
    OBVIOUS
  <2>2. PICK t \in Types : t = TypeOf(fields[i + 1])
    BY <2>1 DEF FieldsKnown
  <2>3. PICK p \in Name : p = Under(path, NameOf(fields[i + 1]))
    BY <2>1, PathsInside DEF FieldsKnown
  <2>4. PICK a : a = f[i]
    OBVIOUS
  <2>5. PICK b : b = f[i + 1]
    OBVIOUS
  <2>6. b = PgTypeIn(TableName)[t][p][a]
    BY <1>4, <2>1, <2>2, <2>3, <2>4, <2>5 DEF Afters
  <2>7. Good(a, i)
    BY <1>6, <2>4
  <2>8. D[i + 1] = DefsIn[t][p] /\ W[i + 1] = StructNames[t][p] /\ DistinctIn[t][p]
    BY <1>1, <1>2, <2>1, <2>2, <2>3, FieldwiseIs
  <2>9. W[i + 1] \cap a.seen = {}
    <3>1. \A j \in 1 .. i : W[i + 1] \cap W[j] = {}
      <4>1. \A j \in 1 .. i : j \in 1 .. l /\ j # i + 1
        OBVIOUS
      <4> QED
        BY <1>3, <2>1, <4>1 DEF Apart
    <3>2. W[i + 1] \cap acc.seen = {}
      BY <1>3, <2>1
    <3> QED
      BY <2>7, <3>1, <3>2
  <2>10. FindsAll(t) /\ Mapped(TableName, t)
    BY <2>1, <2>2, PathsInside, AllMapped
  <2>11. a \in Accs /\ Sane(a)
    BY <2>7 DEF Sane
  <2>12. b.defs = a.defs \union D[i + 1] /\ b.seen = a.seen \union W[i + 1]
    BY <2>6, <2>8, <2>9, <2>10, <2>11 DEF FindsAll
  <2>13. Sane(b)
    BY <2>6, <2>10, <2>11 DEF Mapped, Finds
  <2>14. i \in Nat
    OBVIOUS
  <2>15. UNION {D[j] : j \in 1 .. i + 1} = (UNION {D[j] : j \in 1 .. i}) \union D[i + 1]
    BY <2>14, UnionNext
  <2>16. UNION {W[j] : j \in 1 .. i + 1} = (UNION {W[j] : j \in 1 .. i}) \union W[i + 1]
    BY <2>14, UnionNext
  <2>17. Good(b, i + 1)
    BY <2>7, <2>12, <2>13, <2>15, <2>16
  <2> HIDE DEF Good
  <2> QED
    BY <2>1, <2>5, <2>17
<1>7. 0 .. l \subseteq S
  <2> HIDE DEF S
  <2> QED
    BY <1>5, <1>6, Induct
<1>8. l \in S
  BY <1>7
<1>9. InFields(DefsIn, fields, path) = UNION {D[j] : j \in 1 .. l}
  BY <1>1 DEF InFields
<1>10. InFields(StructNames, fields, path) = UNION {W[j] : j \in 1 .. l}
  <2>1. \A i \in 1 .. l : W[i] = StructNames[TypeOf(fields[i])][Under(path, NameOf(fields[i]))]
    BY <1>2, FieldwiseIs
  <2> QED
    BY <2>1 DEF InFields
<1> QED
  BY <1>4, <1>8, <1>9, <1>10

LEMMA StructFindsAll ==
    ASSUME NEW t \in Types, t.k = "Struct", \A i \in DOMAIN t.sub : FindsAll(TypeOf(t.sub[i])),
           NEW path \in Name, NEW acc, Sane(acc), DistinctIn[t][path],
           StructNames[t][path] \cap acc.seen = {},
           NEW r, r = PgTypeFor(PgTypeIn(TableName), TableName, t, path, acc)
    PROVE  r.defs = acc.defs \union DefsIn[t][path] /\ r.seen = acc.seen \union StructNames[t][path]
<1>1. PICK name \in Name : name = CompositeTypeName(TableName, path)
  BY PathsInside
<1>2. PICK inner : inner = [acc EXCEPT !.seen = @ \union {name}, !.types = <<>>]
  OBVIOUS
<1>3. Sane(inner) /\ inner.types = <<>> /\ inner.seen = acc.seen \union {name} /\ inner.defs = acc.defs
  <2>1. <<>> \in Seq(PgTexts)
    OBVIOUS
  <2> QED
    BY <1>2, <2>1 DEF Sane, Accs
<1>4. PICK sub : sub = PgTypesFor(PgTypeIn(TableName), t.sub, path, inner)
  OBVIOUS
<1>5. PICK l \in Nat : l = Len(t.sub) /\ DOMAIN t.sub = 1 .. l
  BY TypeParts
<1>6. PICK D : D = InFields(DefsIn, t.sub, path)
  OBVIOUS
<1>7. PICK W : W = InFields(StructNames, t.sub, path)
  OBVIOUS
<1>8. FieldsKnown(t.sub)
  BY TypeParts DEF FieldsKnown
<1>9. UNION Range(Fieldwise(StructNames, t.sub, path)) = W
  BY <1>7, FieldwiseIs
<1>10. /\ name \notin W
       /\ Apart(Fieldwise(StructNames, t.sub, path))
       /\ \A i \in DOMAIN t.sub : Fieldwise(DistinctIn, t.sub, path)[i]
  <2>1. DistinctOf(DistinctIn, t, path)
    BY DistinctInIs
  <2> QED
    BY <1>1, <1>9, <2>1 DEF DistinctOf, Lists
<1>11. StructNames[t][path] = {name} \union W
  <2>1. StructNames[t][path] = StructNamesOf(StructNames, t, path)
    BY StructNamesIs
  <2> QED
    BY <1>1, <1>9, <2>1 DEF StructNamesOf, Lists
<1>12. name \notin acc.seen /\ W \cap inner.seen = {}
  BY <1>3, <1>10, <1>11
<1>13. sub.defs = acc.defs \union D /\ sub.seen = acc.seen \union {name} \union W
  <2>1. sub.defs = inner.defs \union D /\ sub.seen = inner.seen \union W
    BY <1>3, <1>4, <1>5, <1>6, <1>7, <1>8, <1>10, <1>12, FieldsFindAll
  <2> QED
    BY <1>3, <2>1
<1>14. PICK cols : cols = [i \in DOMAIN t.sub |-> <<NameOf(t.sub[i]), sub.types[i]>>]
  OBVIOUS
<1>15. r = [types |-> Append(acc.types, PgText("composite", name, 0)), seen |-> sub.seen,
            defs |-> {d \in sub.defs : d[1] # name} \union {<<name, cols>>}]
  BY <1>1, <1>2, <1>4, <1>12, <1>14 DEF PgTypeFor, Lists
<1>16. <<name, cols>> = SelfDef(t, path)
  <2>1. TableName \in Name
    BY PathsInside
  <2>2. \A i \in 1 .. l : TypeOf(t.sub[i]) \in Types /\ NameOf(t.sub[i]) \in Name /\ Mapped(TableName, TypeOf(t.sub[i]))
    BY <1>5, <2>1, TypeParts, AllMapped
  <2>3. FieldsMapped(TableName, t.sub, path, inner, sub)
    BY <1>3, <1>4, <1>5, <2>1, <2>2, FieldsFind
  <2>4. \A i \in DOMAIN t.sub : sub.types[i] = TextAt(TableName, t.sub, path, i)
    BY <1>5, <2>3 DEF FieldsMapped
  <2> QED
    BY <1>1, <1>14, <2>4 DEF SelfDef
<1>17. {d \in sub.defs : d[1] # name} = acc.defs \union D
  <2>1. Names(D) = W
    BY <1>6, <1>7, <1>8, AllNamed, FieldsNamed DEF FieldsKnown
  <2>2. \A d \in acc.defs : d[1] \in acc.seen
    BY DEF Sane, Names
  <2>3. \A d \in D : d[1] \in W
    BY <2>1 DEF Names
  <2> QED
    BY <1>10, <1>12, <1>13, <2>2, <2>3
<1>18. DefsIn[t][path] = {SelfDef(t, path)} \union D
  <2>1. DefsIn[t][path] = DefsOf(DefsIn, t, path)
    BY DefsInIs
  <2> QED
    BY <1>6, <2>1 DEF DefsOf, Lists
<1>19. r.defs = acc.defs \union DefsIn[t][path]
  BY <1>15, <1>16, <1>17, <1>18
<1>20. r.seen = acc.seen \union StructNames[t][path]
  BY <1>11, <1>13, <1>15
<1> QED
  BY <1>19, <1>20

LEMMA AllFound == \A t \in Types : FindsAll(t)
<1> DEFINE P == {t \in Types : FindsAll(t)}
<1>1. ASSUME NEW t \in Types, \A i \in DOMAIN t.sub : TypeOf(t.sub[i]) \in P PROVE t \in P
  <2>1. ASSUME NEW path \in Name, NEW acc \in Accs, Sane(acc), DistinctIn[t][path],
               StructNames[t][path] \cap acc.seen = {},
               NEW r, r = PgTypeIn(TableName)[t][path][acc]
        PROVE  r.defs = acc.defs \union DefsIn[t][path] /\ r.seen = acc.seen \union StructNames[t][path]
    <3>1. r = PgTypeFor(PgTypeIn(TableName), TableName, t, path, acc)
      BY <2>1, PgTypeInIs
    <3>2. /\ DefsIn[t][path] = DefsOf(DefsIn, t, path)
          /\ StructNames[t][path] = StructNamesOf(StructNames, t, path)
          /\ DistinctIn[t][path] = DistinctOf(DistinctIn, t, path)
      BY DefsInIs, StructNamesIs, DistinctInIs
    <3>3. t.k \in Lists \union {"Dictionary"} => FindsAll(Item(t)) /\ Item(t) \in Types
      BY <1>1, TypeParts DEF Item
    <3>4. PICK i \in Name : i = Under(path, <<"i">>) /\ i = Joined(path, <<"i">>)
      BY PathsInside DEF Under, Joined
    <3>5. PICK d \in Name : d = Under(path, <<"d">>) /\ d = Joined(path, <<"d">>)
      BY PathsInside DEF Under, Joined
    <3>6. CASE t.k \in Lists
      <4>1. /\ DefsIn[t][path] = DefsIn[Item(t)][i]
            /\ StructNames[t][path] = StructNames[Item(t)][i]
            /\ DistinctIn[t][path] = DistinctIn[Item(t)][i]
        BY <3>2, <3>4, <3>6 DEF DefsOf, StructNamesOf, DistinctOf, Lists
      <4>2. PICK q : q = PgTypeIn(TableName)[Item(t)][i][acc]
        OBVIOUS
      <4>3. r = [q EXCEPT !.types[Len(q.types)].dims = @ + 1]
        BY <3>1, <3>4, <3>6, <4>2 DEF PgTypeFor
      <4>4. q \in Accs
        BY <2>1, <3>3, <3>6, <4>2, PathsInside, AllMapped DEF Mapped, Finds, Sane
      <4>5. r.defs = q.defs /\ r.seen = q.seen
        BY <4>3, <4>4 DEF Accs
      <4>6. q.defs = acc.defs \union DefsIn[t][path] /\ q.seen = acc.seen \union StructNames[t][path]
        BY <2>1, <3>3, <3>6, <4>1, <4>2 DEF FindsAll
      <4> QED
        BY <4>5, <4>6
    <3>7. CASE t.k = "Dictionary"
      <4>1. /\ DefsIn[t][path] = DefsIn[Item(t)][d]
            /\ StructNames[t][path] = StructNames[Item(t)][d]
            /\ DistinctIn[t][path] = DistinctIn[Item(t)][d]
        BY <3>2, <3>5, <3>7 DEF DefsOf, StructNamesOf, DistinctOf, Lists
      <4>2. r = PgTypeIn(TableName)[Item(t)][d][acc]
        BY <3>1, <3>5, <3>7 DEF PgTypeFor, Lists
      <4> QED
        BY <2>1, <3>3, <3>7, <4>1, <4>2 DEF FindsAll
    <3>8. CASE t.k = "Struct"
      BY <1>1, <2>1, <3>1, <3>8, StructFindsAll
    <3>9. CASE t.k \notin Lists \union {"Dictionary", "Struct"}
      <4>1. DefsIn[t][path] = {} /\ StructNames[t][path] = {}
        BY <3>2, <3>9 DEF DefsOf, StructNamesOf
      <4>2. r = Found(acc, PgText(MappedTo(t), <<>>, 0))
        BY <3>1, <3>9 DEF PgTypeFor
      <4>3. r.defs = acc.defs /\ r.seen = acc.seen
        BY <2>1, <4>2 DEF Found, Accs
      <4> QED
        BY <4>1, <4>3
    <3> QED
      BY <3>6, <3>7, <3>8, <3>9
  <2> QED
    BY <2>1 DEF FindsAll
<1>2. Types \subseteq P
  <2> HIDE DEF P
  <2> QED
    BY <1>1, TypeInduction
<1> QED
  BY <1>2


-----------------------------------------------------------------------------
(* What an import creates.                                                 *)

LEMMA NothingSane == Sane(Nothing) /\ Nothing.seen = {} /\ Nothing.defs = {}
<1>1. Nothing \in Accs
  BY DEF Nothing, Accs
<1>2. IsFiniteSet({})
  BY FS_EmptySet
<1> QED
  BY <1>1, <1>2 DEF Sane, Nothing, Names

LEMMA SchemaKnown ==
    ASSUME NEW fields \in Seq(Name \X Types)
    PROVE  FieldsKnown(fields) /\ Len(fields) \in Nat /\ DOMAIN fields = 1 .. Len(fields)
<1>1. ASSUME NEW i \in DOMAIN fields PROVE TypeOf(fields[i]) \in Types /\ NameOf(fields[i]) \in Name
  <2>1. fields[i] \in Name \X Types
    OBVIOUS
  <2> QED
    BY <2>1 DEF TypeOf, NameOf
<1> QED
  BY <1>1 DEF FieldsKnown

\* Where the names of the structs differ every type can be created, and what
\* was not there before is what the import defines.
LEMMA ImportCreates ==
    ASSUME IsDataset(data), Cataloged, Distinct(data.schema)
    PROVE  /\ Created.ok
           /\ Fresh => \A d \in InFields(DefsIn, data.schema, <<>>) : Resolved(d) \in Created.catalog
<1>1. PICK fields \in Seq(Name \X Types) : fields = data.schema
  BY DEF IsDataset
<1>2. PICK l \in Nat : l = Len(fields) /\ DOMAIN fields = 1 .. l
  BY SchemaKnown
<1>3. FieldsKnown(fields)
  BY SchemaKnown
<1>4. PICK D : D = InFields(DefsIn, fields, <<>>)
  OBVIOUS
<1>5. /\ Apart(Fieldwise(StructNames, fields, <<>>))
      /\ \A i \in DOMAIN fields : Fieldwise(DistinctIn, fields, <<>>)[i]
  BY <1>1 DEF Distinct
<1>6. PICK m : m = Mapping
  OBVIOUS
<1>7. m.defs = D
  <2>0. <<>> \in Name
    BY DEF Name
  <2>1. PICK path \in Name : path = <<>>
    BY <2>0
  <2>2. PICK acc : acc = Nothing
    OBVIOUS
  <2>3. Sane(acc) /\ acc.seen = {} /\ acc.defs = {}
    BY <2>2, NothingSane
  <2>4. m = PgTypesFor(PgTypeIn(TableName), fields, path, acc)
    BY <1>1, <1>6, <2>1, <2>2 DEF Mapping, SchemaMapping
  <2>5. \A i \in DOMAIN fields : FindsAll(TypeOf(fields[i]))
    BY <1>3, AllFound DEF FieldsKnown
  <2>6. Apart(Fieldwise(StructNames, fields, path)) /\ \A i \in DOMAIN fields : Fieldwise(DistinctIn, fields, path)[i]
    BY <1>5, <2>1
  <2>7. InFields(StructNames, fields, path) \cap acc.seen = {}
    BY <2>3
  <2>8. m.defs = acc.defs \union InFields(DefsIn, fields, path)
    BY <1>2, <1>3, <2>3, <2>4, <2>5, <2>6, <2>7, FieldsFindAll
  <2> QED
    BY <1>4, <2>1, <2>3, <2>8
<1>8. D \in SUBSET Defs /\ IsFiniteSet(D)
  BY <1>6, <1>7, ImportFinds
<1>9. Orderable(D)
  <2>1. \A i \in DOMAIN fields : Ordered(TypeOf(fields[i]))
    BY <1>3, AllOrdered DEF FieldsKnown
  <2>2. <<>> \in Name
    BY DEF Name
  <2> QED
    BY <1>3, <1>4, <2>1, <2>2, FieldsOrdered
<1>10. Unique(D)
  <2>1. \A i \in DOMAIN fields : OneEach(TypeOf(fields[i]))
    BY <1>3, AllUnique DEF FieldsKnown
  <2>2. <<>> \in Name
    BY DEF Name
  <2> QED
    BY <1>3, <1>4, <1>5, <2>1, <2>2, FieldsUnique
<1>11. PICK order : order = OrderTypes(D)
  OBVIOUS
<1>12. /\ order \in Seq(D) /\ Topological(order)
       /\ \A d \in D : \E i \in 1 .. Len(order) : order[i] = d
  BY <1>8, <1>9, <1>11, OrderSound
<1>13. order \in Seq(Defs)
  <2>1. \A S \in SUBSET Defs : Seq(S) \subseteq Seq(Defs)
    OBVIOUS
  <2> QED
    BY <1>8, <1>12, <2>1
<1>14. PICK r : r = CreateTypes(order, catalog)
  OBVIOUS
<1>15. Created = r
  BY <1>6, <1>7, <1>11, <1>14 DEF Created
<1>16. /\ r.catalog \subseteq catalog \union {Resolved(order[i]) : i \in 1 .. Len(order)}
       /\ r.ok
       /\ \A i \in 1 .. Len(order) : order[i][1] \in Names(r.catalog)
  BY <1>12, <1>13, <1>14, CreateAll DEF Cataloged
<1>17. ASSUME Fresh, NEW d \in D PROVE Resolved(d) \in r.catalog
  <2>1. PICK i \in 1 .. Len(order) : order[i] = d
    BY <1>12
  <2>2. PICK e \in r.catalog : e[1] = d[1]
    <3>1. d[1] \in Names(r.catalog)
      BY <1>16, <2>1
    <3> QED
      BY <3>1 DEF Names
  <2>3. e \notin catalog
    <3>1. d[1] \in Names(D) /\ Names(D) \cap Names(catalog) = {}
      BY <1>6, <1>7, <1>17 DEF Fresh, Names
    <3>2. d[1] \notin Names(catalog)
      BY <3>1
    <3> QED
      BY <2>2, <3>2 DEF Names
  <2>4. PICK k \in 1 .. Len(order) : e = Resolved(order[k])
    BY <1>16, <2>3
  <2>5. order[k] \in D /\ order[k] \in Defs
    BY <1>8, <1>12
  <2>6. order[k][1] = d[1]
    BY <2>2, <2>4, <2>5, ResolvedTyped
  <2>7. order[k] = d
    BY <1>10, <2>5, <2>6 DEF Unique
  <2> QED
    BY <2>4, <2>7
<1> QED
  BY <1>1, <1>4, <1>15, <1>16, <1>17

\* What an import promised still holds of the catalog, which only grows.
ImportMade ==
    /\ table.st = "failed" => ~Distinct(table.from)
    /\ table.st = "imported" /\ table.fresh /\ Distinct(table.from) =>
         \A d \in InFields(DefsIn, table.from, <<>>) : Resolved(d) \in catalog

LEMMA StillMade ==
    ASSUME ImportMade, UNCHANGED table, catalog \subseteq catalog'
    PROVE  ImportMade'
<1>1. ASSUME table'.st = "failed" PROVE ~Distinct(table'.from)
  BY <1>1 DEF ImportMade
<1>2. ASSUME table'.st = "imported", table'.fresh, Distinct(table'.from),
             NEW d \in InFields(DefsIn, table'.from, <<>>)
      PROVE  Resolved(d) \in catalog'
  BY <1>2 DEF ImportMade
<1> QED
  BY <1>1, <1>2 DEF ImportMade

LEMMA ImportMakes ==
    ASSUME IInv, ImportMade, Import
    PROVE  ImportMade'
<1>1. IsDataset(data) /\ Cataloged
  BY DEF IInv, Stored
<1>2. Created.ok \in BOOLEAN /\ catalog \subseteq Created.catalog
  BY <1>1, ImportFinds
<1>3. catalog \subseteq catalog'
  BY <1>2 DEF Import
<1>4. CASE table.st \in {"imported", "declared"}
  <2>1. UNCHANGED table
    BY <1>4 DEF Import
  <2> QED
    BY <1>3, <2>1, StillMade
<1>5. CASE table.st \notin {"imported", "declared"} /\ ~Created.ok
  <2>1. table'.st = "failed" /\ table'.from = data.schema
    BY <1>5 DEF Import
  <2>2. ~Distinct(data.schema)
    BY <1>1, <1>5, ImportCreates
  <2> QED
    BY <2>1, <2>2 DEF ImportMade
<1>6. CASE table.st \notin {"imported", "declared"} /\ Created.ok
  <2>1. table'.st = "imported" /\ table'.from = data.schema /\ table'.fresh = Fresh
        /\ catalog' = Created.catalog
    BY <1>6 DEF Import
  <2>2. Distinct(data.schema) /\ Fresh =>
          \A d \in InFields(DefsIn, data.schema, <<>>) : Resolved(d) \in Created.catalog
    BY <1>1, ImportCreates
  <2> QED
    BY <2>1, <2>2 DEF ImportMade
<1> QED
  BY <1>2, <1>4, <1>5, <1>6

LEMMA MadeHolds == IInv /\ ImportMade /\ [Next]_vars => ImportMade'
<1> SUFFICES ASSUME IInv, ImportMade, [Next]_vars PROVE ImportMade'
  OBVIOUS
<1>1. CASE Import
  BY <1>1, ImportMakes
<1>2. ASSUME NEW cols \in Declarations, Declare(cols) PROVE ImportMade'
  BY <1>2 DEF Declare, NoTable, ImportMade
<1>3. CASE DropTable
  BY <1>3 DEF DropTable, NoTable, ImportMade
<1>4. ASSUME UNCHANGED <<table, catalog>> PROVE ImportMade'
  BY <1>4, StillMade
<1>5. ASSUME NEW d \in Datasets, Replace(d) PROVE UNCHANGED <<table, catalog>>
  BY <1>5 DEF Replace
<1>6. ASSUME NEW q \in Queries, Write(q) \/ Merge(q) PROVE UNCHANGED <<table, catalog>>
  BY <1>6 DEF Write, Merge
<1>7. Begin \/ Iterate \/ EndScan \/ UNCHANGED vars => UNCHANGED <<table, catalog>>
  BY DEF Begin, Iterate, EndScan, vars
<1>8. ASSUME NEW op \in Extrema, NEW col \in DOMAIN data.schema, Ask(op, col)
      PROVE  UNCHANGED <<table, catalog>>
  BY <1>8 DEF Ask
<1> QED
  BY <1>1, <1>2, <1>3, <1>4, <1>5, <1>6, <1>7, <1>8 DEF Next

(***************************************************************************)
(* An import fails only where two structs share a name                     *)
(* (composite_type_name cuts it and replaces characters); the composite    *)
(* types of a table imported where there was none of them stay as the      *)
(* import defined them, whatever is imported, declared and dropped later.  *)
(***************************************************************************)
THEOREM ImportsLast == Spec => []ImportMade
<1>1. Init => ImportMade
  BY DEF Init, NoTable, ImportMade
<1> QED
  BY <1>1, MadeHolds, InductiveInvariant, PTL DEF Spec

-----------------------------------------------------------------------------
(* A scan accepts what an import declares.                                 *)

LEMMA ResolveIs ==
    ASSUME NEW base, NEW name, NEW n \in Nat
    PROVE  /\ n = 0 => Resolve(PgText(base, name, n)) = [name |-> name, base |-> base, array |-> FALSE]
           /\ n # 0 => Resolve(PgText(base, name, n)) = [name |-> name, base |-> base, array |-> TRUE]
<1>1. PICK text : text = PgText(base, name, n)
  OBVIOUS
<1>2. text.name = name /\ text.base = base /\ text.dims = n
  BY <1>1 DEF PgText
<1>3. PICK many : many = (n > 0)
  OBVIOUS
<1>4. (n = 0 => (n > 0) = FALSE) /\ (n # 0 => (n > 0) = TRUE)
  OBVIOUS
<1>5. (n = 0 => many = FALSE) /\ (n # 0 => many = TRUE)
  BY <1>3, <1>4, Zenon
<1>6. Resolve(text) = [name |-> name, base |-> base, array |-> many]
  BY <1>2, <1>3, Zenon DEF Resolve
<1> QED
  BY <1>1, <1>5, <1>6, Zenon

LEMMA ElementIs ==
    ASSUME NEW pg \in PgTypes
    PROVE  Element(pg) = [name |-> pg.name, base |-> pg.base, array |-> FALSE]
<1>1. PICK no : no = FALSE
  OBVIOUS
<1>2. Element(pg) = [pg EXCEPT !.array = no]
  BY <1>1, Zenon DEF Element
<1>3. [pg EXCEPT !.array = no] = [name |-> pg.name, base |-> pg.base, array |-> no]
  BY DEF PgTypes
<1> QED
  BY <1>1, <1>2, <1>3, Zenon

LEMMA DeclaredTyped ==
    ASSUME NEW t \in Types, NEW path \in Name
    PROVE  TextIn(TableName)[t][path] \in PgTexts /\ Resolve(TextIn(TableName)[t][path]) \in PgTypes
<1>1. TextIn(TableName)[t][path] \in PgTexts
  BY PathsInside, TextTyped
<1> QED
  BY <1>1 DEF Resolve, PgTexts, PgTypes

\* What a list can hold, where no list holds lists.
PlainItem(t) ==
    ~ListsInLists[t][TRUE] =>
      ~ListsInLists[t][FALSE] /\ \A path \in Name : TextIn(TableName)[t][path].dims = 0

LEMMA AllPlain == \A t \in Types : PlainItem(t)
<1> DEFINE P == {t \in Types : PlainItem(t)}
<1>1. ASSUME NEW t \in Types, \A i \in DOMAIN t.sub : TypeOf(t.sub[i]) \in P PROVE t \in P
  <2>1. ASSUME ~ListsInLists[t][TRUE] PROVE ~ListsInLists[t][FALSE]
                                            /\ \A path \in Name : TextIn(TableName)[t][path].dims = 0
    <3>1. ~NestsLists(ListsInLists, t, TRUE) /\ (ListsInLists[t][FALSE] <=> NestsLists(ListsInLists, t, FALSE))
      <4>1. TRUE \in BOOLEAN /\ FALSE \in BOOLEAN
        OBVIOUS
      <4>2. ListsInLists[t][TRUE] = NestsLists(ListsInLists, t, TRUE)
            /\ ListsInLists[t][FALSE] = NestsLists(ListsInLists, t, FALSE)
        BY <4>1, ListsInListsIs
      <4> QED
        BY <2>1, <4>2
    <3>2. t.k = "Dictionary" => PlainItem(Item(t))
      BY <1>1, TypeParts DEF Item
    <3>3. t.k \notin Lists
      BY <3>1 DEF NestsLists, Lists
    <3>4. CASE t.k = "Dictionary"
      <4>1. ~ListsInLists[Item(t)][TRUE] /\ (ListsInLists[t][FALSE] <=> ListsInLists[Item(t)][FALSE])
        BY <3>1, <3>3, <3>4 DEF NestsLists, Lists
      <4>2. ASSUME NEW path \in Name PROVE TextIn(TableName)[t][path].dims = 0
        <5>1. PICK q \in Name : q = Under(path, <<"d">>)
          BY PathsInside
        <5>2. TextIn(TableName)[t][path] = TextIn(TableName)[Item(t)][q]
          BY <3>3, <3>4, <5>1, TextInIs DEF TextOf
        <5> QED
          BY <3>2, <3>4, <4>1, <5>2 DEF PlainItem
      <4> QED
        BY <3>2, <3>4, <4>1, <4>2 DEF PlainItem
    <3>5. CASE t.k # "Dictionary"
      <4>1. ~ListsInLists[t][FALSE]
        BY <3>1, <3>3, <3>5 DEF NestsLists
      <4>2. ASSUME NEW path \in Name PROVE TextIn(TableName)[t][path].dims = 0
        <5>1. PICK base, name : TextIn(TableName)[t][path] = PgText(base, name, 0)
          BY <3>3, <3>5, TextInIs DEF TextOf
        <5> QED
          BY <5>1 DEF PgText
      <4> QED
        BY <4>1, <4>2
    <3> QED
      BY <3>4, <3>5
  <2> QED
    BY <2>1 DEF PlainItem
<1>2. Types \subseteq P
  <2> HIDE DEF P
  <2> QED
    BY <1>1, TypeInduction
<1> QED
  BY <1>2

\* A composite type made as the import defined it has the fields of the
\* struct, in their order.
LEMMA StructResolved ==
    ASSUME NEW types \in Catalogs, Unique(types), NEW t \in Types, t.k = "Struct", NEW path \in Name,
           Resolved(SelfDef(t, path)) \in types,
           NEW pg, pg = Resolve(TextIn(TableName)[t][path])
    PROVE  /\ Composites(types, pg) # {} /\ DOMAIN Attributes(types, pg) = DOMAIN t.sub
           /\ \A i \in DOMAIN t.sub :
                /\ NameOf(Attributes(types, pg)[i]) = NameOf(t.sub[i])
                /\ TypeOf(Attributes(types, pg)[i]) = Resolve(TextAt(TableName, t.sub, path, i))
                /\ Position(t.sub, NameOf(t.sub[i])) = i /\ i # 0
<1>1. PICK name : name = CompositeTypeName(TableName, path)
  OBVIOUS
<1>2. pg = [name |-> name, base |-> "composite", array |-> FALSE]
  <2>1. TextIn(TableName)[t][path] = PgText("composite", name, 0)
    BY <1>1, TextInIs DEF TextOf, Lists
  <2>2. 0 \in Nat
    OBVIOUS
  <2> QED
    BY <2>1, <2>2, ResolveIs
<1>3. PICK cols : cols = [i \in DOMAIN t.sub |-> <<NameOf(t.sub[i]), TextAt(TableName, t.sub, path, i)>>]
  OBVIOUS
<1>4. PICK atts : atts = [i \in DOMAIN cols |-> <<cols[i][1], Resolve(cols[i][2])>>]
  OBVIOUS
<1>5. PICK e : e = Resolved(SelfDef(t, path))
  OBVIOUS
<1>6. e = <<name, atts>>
  <2>1. SelfDef(t, path) = <<name, cols>>
    BY <1>1, <1>3 DEF SelfDef
  <2>2. PICK d : d = <<name, cols>>
    OBVIOUS
  <2>3. d[1] = name /\ d[2] = cols
    BY <2>2
  <2>4. Resolved(d) = <<name, atts>>
    BY <1>4, <2>3 DEF Resolved
  <2> QED
    BY <1>5, <2>1, <2>2, <2>4
<1>7. Composites(types, pg) = {e}
  <2>1. Composites(types, pg) = {d \in types : d[1] = name}
    BY <1>2 DEF Composites
  <2>2. e \in types /\ e[1] = name
    BY <1>5, <1>6
  <2>3. \A d \in types : d[1] = name => d = e
    BY <2>2 DEF Unique
  <2> QED
    BY <2>1, <2>2, <2>3
<1>8. Attributes(types, pg) = atts
  <2>1. (CHOOSE d \in Composites(types, pg) : TRUE) = e
    BY <1>7
  <2>2. Attributes(types, pg) = e[2]
    BY <2>1, Zenon DEF Attributes
  <2> QED
    BY <1>6, <2>2
<1>9. DOMAIN atts = DOMAIN t.sub
  BY <1>3, <1>4
<1>10. PICK l \in Nat : l = Len(t.sub) /\ DOMAIN t.sub = 1 .. l
  BY TypeParts
<1>11. ASSUME NEW i \in 1 .. l
       PROVE  /\ NameOf(atts[i]) = NameOf(t.sub[i])
              /\ TypeOf(atts[i]) = Resolve(TextAt(TableName, t.sub, path, i))
              /\ Position(t.sub, NameOf(t.sub[i])) = i /\ i # 0
  <2>1. PICK a, b : a = NameOf(t.sub[i]) /\ b = TextAt(TableName, t.sub, path, i)
    OBVIOUS
  <2>2. cols[i] = <<a, b>>
    BY <1>3, <1>10, <2>1
  <2>3. cols[i][1] = a /\ cols[i][2] = b
    BY <2>2
  <2>4. atts[i] = <<a, Resolve(b)>>
    BY <1>3, <1>4, <1>10, <2>3
  <2>5. NameOf(atts[i]) = a /\ TypeOf(atts[i]) = Resolve(b)
    BY <2>4 DEF NameOf, TypeOf
  <2>6. i # 0
    BY NotZero
  <2>7. PICK p : p = Position(t.sub, a)
    OBVIOUS
  <2>8. p \in 0 .. l /\ p # 0 /\ NameOf(t.sub[p]) = a
    <3>1. p \in 0 .. l /\ (p # 0 => NameOf(t.sub[p]) = a) /\ 0 < p
      BY <1>10, <2>1, <2>7, PositionIs
    <3> QED
      BY <3>1
  <2>9. p \in 1 .. l
    BY <2>8
  <2>10. p = i
    BY <1>10, <2>1, <2>8, <2>9, TypeParts DEF Shaped, Named
  <2> QED
    BY <2>1, <2>5, <2>6, <2>7, <2>10
<1> QED
  BY <1>7, <1>8, <1>9, <1>10, <1>11

Made(t, path, types) == \A d \in DefsIn[t][path] : Resolved(d) \in types

\* What is made of a type is made of what is inside it.
LEMMA MadeInside ==
    ASSUME NEW t \in Types, NEW path \in Name, NEW types, Made(t, path, types)
    PROVE  /\ t.k \in Lists => Made(Item(t), Under(path, <<"i">>), types)
           /\ t.k = "Dictionary" => Made(Item(t), Under(path, <<"d">>), types)
           /\ t.k = "Struct" =>
                /\ Resolved(SelfDef(t, path)) \in types
                /\ \A i \in DOMAIN t.sub : Made(TypeOf(t.sub[i]), Under(path, NameOf(t.sub[i])), types)
<1>1. DefsIn[t][path] = DefsOf(DefsIn, t, path)
  BY DefsInIs
<1>2. t.k \in Lists => DefsIn[t][path] = DefsIn[Item(t)][Under(path, <<"i">>)]
  BY <1>1 DEF DefsOf
<1>3. t.k = "Dictionary" => DefsIn[t][path] = DefsIn[Item(t)][Under(path, <<"d">>)]
  BY <1>1 DEF DefsOf, Lists
<1>4. t.k = "Struct" => DefsIn[t][path] = {SelfDef(t, path)} \union InFields(DefsIn, t.sub, path)
  BY <1>1 DEF DefsOf, Lists
<1>5. \A i \in DOMAIN t.sub :
        DefsIn[TypeOf(t.sub[i])][Under(path, NameOf(t.sub[i]))] \subseteq InFields(DefsIn, t.sub, path)
  BY DEF InFields
<1> QED
  BY <1>2, <1>3, <1>4, <1>5 DEF Made

\* A type whose composite types were made as the import defined them fits
\* what the import declares for it.
LEMMA DeclaredFits ==
    ASSUME Cataloged
    PROVE  \A t \in Types : \A path \in Name :
             Made(t, path, catalog) /\ ~ListsInLists[t][FALSE] =>
               Validates(catalog)[t][Resolve(TextIn(TableName)[t][path])]
<1> DEFINE P == {t \in Types : \A path \in Name :
                   Made(t, path, catalog) /\ ~ListsInLists[t][FALSE] =>
                     Validates(catalog)[t][Resolve(TextIn(TableName)[t][path])]}
<1>0. catalog \in Catalogs /\ Unique(catalog)
  BY DEF Cataloged
<1>1. ASSUME NEW t \in Types, \A i \in DOMAIN t.sub : TypeOf(t.sub[i]) \in P PROVE t \in P
  <2>1. ASSUME NEW path \in Name, Made(t, path, catalog), ~ListsInLists[t][FALSE]
        PROVE  Validates(catalog)[t][Resolve(TextIn(TableName)[t][path])]
    <3>1. PICK pg \in PgTypes : pg = Resolve(TextIn(TableName)[t][path])
      BY DeclaredTyped
    <3>2. Validates(catalog)[t][pg] = Fits(Validates(catalog), t, pg, catalog)
      BY ValidatesIs
    <3>3. ~NestsLists(ListsInLists, t, FALSE)
      <4>1. FALSE \in BOOLEAN
        OBVIOUS
      <4>2. ListsInLists[t][FALSE] = NestsLists(ListsInLists, t, FALSE)
        BY <4>1, ListsInListsIs
      <4> QED
        BY <2>1, <4>2
    <3>4. TextIn(TableName)[t][path] = TextOf(TextIn(TableName), TableName, t, path)
      BY TextInIs
    <3>5. t.k \in Lists \union {"Dictionary"} => Item(t) \in P /\ Item(t) \in Types
      BY <1>1, TypeParts DEF Item
    <3>6. CASE t.k \in Lists
      <4>1. PICK q \in Name : q = Under(path, <<"i">>)
        BY PathsInside
      <4>2. ~ListsInLists[Item(t)][TRUE]
        BY <3>3, <3>6 DEF NestsLists, Lists
      <4>3. PICK text \in PgTexts : text = TextIn(TableName)[Item(t)][q]
        BY <3>5, <3>6, DeclaredTyped
      <4>4. ~ListsInLists[Item(t)][FALSE] /\ text.dims = 0
        BY <3>5, <3>6, <4>2, <4>3, AllPlain DEF PlainItem
      <4>5. Validates(catalog)[Item(t)][Resolve(text)]
        BY <2>1, <3>5, <3>6, <4>1, <4>3, <4>4, MadeInside
      <4>6. pg.array /\ Element(pg) = Resolve(text)
        <5>1. TextIn(TableName)[t][path] = PgText(text.base, text.name, 1)
          BY <3>4, <3>6, <4>1, <4>3, <4>4 DEF TextOf
        <5>2. pg = [name |-> text.name, base |-> text.base, array |-> TRUE]
          <6>1. 1 \in Nat /\ 1 # 0
            OBVIOUS
          <6> QED
            BY <3>1, <5>1, <6>1, ResolveIs
        <5>3. text = PgText(text.base, text.name, 0)
          BY <4>4 DEF PgTexts, PgText
        <5>4. Resolve(text) = [name |-> text.name, base |-> text.base, array |-> FALSE]
          <6>1. 0 \in Nat
            OBVIOUS
          <6>2. PICK base, name : base = text.base /\ name = text.name
            OBVIOUS
          <6>3. Resolve(PgText(base, name, 0)) = [name |-> name, base |-> base, array |-> FALSE]
            BY <6>1, ResolveIs
          <6> QED
            BY <5>3, <6>2, <6>3
        <5>5. pg.array /\ pg.name = text.name /\ pg.base = text.base
          BY <5>2
        <5> QED
          BY <5>2, <5>4, <5>5, ElementIs
      <4> HIDE DEF P
      <4>7. Fits(Validates(catalog), t, pg, catalog)
        BY <3>6, <4>5, <4>6 DEF Fits, Lists
      <4> QED
        BY <3>1, <3>2, <4>7
    <3>7. CASE t.k = "Dictionary"
      <4>1. PICK q \in Name : q = Under(path, <<"d">>)
        BY PathsInside
      <4>2. TextIn(TableName)[t][path] = TextIn(TableName)[Item(t)][q]
        BY <3>4, <3>7, <4>1 DEF TextOf, Lists
      <4>3. ~ListsInLists[Item(t)][FALSE]
        BY <3>3, <3>7 DEF NestsLists, Lists
      <4>4. Validates(catalog)[Item(t)][pg]
        BY <2>1, <3>1, <3>5, <3>7, <4>1, <4>2, <4>3, MadeInside
      <4> HIDE DEF P
      <4>5. Fits(Validates(catalog), t, pg, catalog)
        BY <3>7, <4>4 DEF Fits, Lists
      <4> QED
        BY <3>1, <3>2, <4>5
    <3>8. CASE t.k = "Struct"
      <4>1. Resolved(SelfDef(t, path)) \in catalog
        BY <2>1, <3>8, MadeInside
      <4>2. PICK atts : atts = Attributes(catalog, pg)
        OBVIOUS
      <4>3. /\ Composites(catalog, pg) # {} /\ DOMAIN atts = DOMAIN t.sub
            /\ \A i \in DOMAIN t.sub :
                 /\ NameOf(atts[i]) = NameOf(t.sub[i])
                 /\ TypeOf(atts[i]) = Resolve(TextAt(TableName, t.sub, path, i))
                 /\ Position(t.sub, NameOf(t.sub[i])) = i /\ i # 0
        BY <1>0, <3>1, <3>8, <4>1, <4>2, StructResolved
      <4>4. ASSUME NEW i \in DOMAIN t.sub
            PROVE  Validates(catalog)[TypeOf(t.sub[i])][TypeOf(atts[i])]
        <5>1. PICK s \in Types : s = TypeOf(t.sub[i]) /\ s \in P
          BY <1>1, TypeParts
        <5>2. PICK q \in Name : q = Under(path, NameOf(t.sub[i]))
          BY TypeParts, PathsInside
        <5>3. ~ListsInLists[s][FALSE]
          BY <3>3, <3>8, <5>1 DEF NestsLists, Lists
        <5>4. Made(s, q, catalog)
          BY <2>1, <3>8, <5>1, <5>2, MadeInside
        <5>5. TypeOf(atts[i]) = Resolve(TextIn(TableName)[s][q])
          BY <4>3, <5>1, <5>2 DEF TextAt
        <5> QED
          BY <5>1, <5>2, <5>3, <5>4, <5>5
      <4> HIDE DEF P
      <4>5. Fits(Validates(catalog), t, pg, catalog)
        <5>1. \A i \in DOMAIN atts :
                Position(t.sub, NameOf(atts[i])) = i /\ i # 0 /\ Validates(catalog)[TypeOf(t.sub[i])][TypeOf(atts[i])]
          BY <4>3, <4>4
        <5> QED
          BY <3>8, <4>2, <4>3, <5>1 DEF Fits, Lists
      <4> QED
        BY <3>1, <3>2, <4>5
    <3>9. CASE t.k \notin Lists \union {"Dictionary", "Struct"}
      <4> HIDE DEF P
      <4> QED
        BY <3>9, PathsInside, ScalarText, ScalarFits
    <3> QED
      BY <3>6, <3>7, <3>8, <3>9
  <2> QED
    BY <2>1
<1>2. Types \subseteq P
  <2> HIDE DEF P
  <2> QED
    BY <1>1, TypeInduction
<1> QED
  BY <1>2

\* The columns of a table that was imported are the fields it reads.
LEMMA ImportedColumns ==
    ASSUME IsDataset(data), Tabled, Imported
    PROVE  /\ DOMAIN table.cols = 1 .. Len(data.schema) /\ Len(table.cols) = Len(data.schema)
           /\ \A j \in 1 .. Len(data.schema) :
                /\ NameOf(table.cols[j]) = NameOf(data.schema[j])
                /\ TypeOf(table.cols[j])
                     = Resolve(TextIn(TableName)[TypeOf(data.schema[j])][NameOf(data.schema[j])])
                /\ Column(NameOf(table.cols[j])) = j
<1>1. PICK l \in Nat : l = Len(data.schema) /\ DOMAIN data.schema = 1 .. l
  BY DatasetParts
<1>2. DOMAIN table.cols = 1 .. l /\ Len(table.cols) = l
  <2>1. DOMAIN table.cols = 1 .. l
    BY <1>1 DEF Tabled, Imported
  <2>2. table.cols \in Seq(Name \X PgTypes)
    BY DEF Tabled
  <2> QED
    BY <2>1, <2>2
<1>3. ASSUME NEW j \in 1 .. l
      PROVE  /\ NameOf(table.cols[j]) = NameOf(data.schema[j])
             /\ TypeOf(table.cols[j]) = Resolve(TextIn(TableName)[TypeOf(data.schema[j])][NameOf(data.schema[j])])
             /\ Column(NameOf(table.cols[j])) = j
  <2>1. table.cols[j] = <<NameOf(data.schema[j]), Resolve(TextAt(TableName, data.schema, <<>>, j))>>
    BY <1>1 DEF Tabled, Imported
  <2>2. NameOf(table.cols[j]) = NameOf(data.schema[j])
        /\ TypeOf(table.cols[j]) = Resolve(TextAt(TableName, data.schema, <<>>, j))
    BY <2>1 DEF NameOf, TypeOf
  <2>3. TextAt(TableName, data.schema, <<>>, j)
          = TextIn(TableName)[TypeOf(data.schema[j])][NameOf(data.schema[j])]
    BY DEF TextAt, Under
  <2>4. Column(NameOf(table.cols[j])) = j
    BY <1>1, <2>2, ColumnIs
  <2> QED
    BY <2>2, <2>3, <2>4
<1> QED
  BY <1>1, <1>2, <1>3

\* Of what an import defined every column has what it needs.
LEMMA ColumnMade ==
    ASSUME IsDataset(data), ImportMade, Imported, table.fresh, Distinct(data.schema),
           NEW j \in 1 .. Len(data.schema)
    PROVE  Made(TypeOf(data.schema[j]), NameOf(data.schema[j]), catalog)
<1>1. \A d \in InFields(DefsIn, data.schema, <<>>) : Resolved(d) \in catalog
  BY DEF ImportMade, Imported
<1>2. j \in DOMAIN data.schema
  BY DatasetParts
<1>3. DefsIn[TypeOf(data.schema[j])][Under(<<>>, NameOf(data.schema[j]))] \subseteq InFields(DefsIn, data.schema, <<>>)
  BY <1>2 DEF InFields
<1>4. Under(<<>>, NameOf(data.schema[j])) = NameOf(data.schema[j])
  BY DEF Under
<1> QED
  BY <1>1, <1>3, <1>4 DEF Made

(***************************************************************************)
(* lance_import declares what begin_foreign_scan accepts, however deep the *)
(* types and whatever is in the catalog: an import fails only where two    *)
(* structs share a name, and a scan of the schema just imported is refused *)
(* only there, where a type of that name was there before, or where a list *)
(* holds lists.                                                            *)
(***************************************************************************)
THEOREM ImportedScans == Spec => []ImportsScan
<1>1. ASSUME IInv, ImportMade PROVE ImportsScan
  <2>1. table.st = "failed" => ~Distinct(table.from)
    BY <1>1 DEF ImportMade
  <2>2. ASSUME scan.st = "refused", Imported, Distinct(data.schema), table.fresh,
               ~(\E j \in DOMAIN data.schema : ListsInLists[TypeOf(data.schema[j])][FALSE])
        PROVE  FALSE
    <3>1. Tabled /\ Scanned /\ IsDataset(data) /\ Cataloged
      BY <1>1 DEF IInv, Stored
    <3>2. PICK l \in Nat : l = Len(data.schema) /\ DOMAIN data.schema = 1 .. l
      BY <3>1, DatasetParts
    <3>3. PICK j \in DOMAIN table.cols : ~ColumnFits(table.cols[j])
      BY <2>2, <3>1 DEF Scanned
    <3>4. /\ j \in 1 .. l
          /\ TypeOf(table.cols[j]) = Resolve(TextIn(TableName)[TypeOf(data.schema[j])][NameOf(data.schema[j])])
          /\ Column(NameOf(table.cols[j])) = j
      BY <2>2, <3>1, <3>2, <3>3, ImportedColumns
    <3>5. PICK t \in Types : t = TypeOf(data.schema[j])
      BY <3>1, <3>2, <3>4, DatasetParts
    <3>6. PICK path \in Name : path = NameOf(data.schema[j])
      BY <3>1, <3>2, <3>4, DatasetParts
    <3>7. Made(t, path, catalog)
      BY <1>1, <2>2, <3>1, <3>2, <3>4, <3>5, <3>6, ColumnMade
    <3>8. ~ListsInLists[t][FALSE]
      BY <2>2, <3>2, <3>4, <3>5
    <3>9. Validates(catalog)[t][Resolve(TextIn(TableName)[t][path])]
      BY <3>1, <3>7, <3>8, DeclaredFits
    <3>10. j # 0
      BY <3>4, NotZero
    <3>11. ColumnFits(table.cols[j])
      BY <3>4, <3>5, <3>6, <3>9, <3>10 DEF ColumnFits
    <3> QED
      BY <3>3, <3>11
  <2> QED
    BY <2>1, <2>2 DEF ImportsScan
<1> QED
  BY <1>1, InductiveInvariant, ImportsLast, PTL

-----------------------------------------------------------------------------
(* Nothing is hidden.                                                      *)

LEMMA CellShown ==
    ASSUME NEW env, env.types \in Catalogs, env.checked \in BOOLEAN,
           NEW t \in Types, NEW v \in Cells, Holds[t][v], NEW pg \in PgTypes
    PROVE  ToDatum(env)[t][v][pg].d \in Datums
<1>1. MaxDepth \in 0 .. MaxDepth /\ v \in CellsTo[MaxDepth]
  BY DepthAssumption DEF Cells
<1>2. Sound(env, t, v, pg, MaxDepth)
  BY <1>1, ConversionSound
<1> QED
  BY <1>2 DEF Sound, Converts, Datums

\* The JSON value made of a cell has every item and field of it.
LEMMA JsonShowsAll ==
    ASSUME NEW t \in Types, NEW v \in Cells, Holds[t][v]
    PROVE  AllShown[t][v][ToJson[t][v]]
<1> DEFINE P == {s \in Types : \A c \in Cells : Holds[s][c] => AllShown[s][c][ToJson[s][c]]}
<1>1. ASSUME NEW s \in Types, \A i \in DOMAIN s.sub : TypeOf(s.sub[i]) \in P
      PROVE  s \in P
  <2> SUFFICES ASSUME NEW c \in Cells, Holds[s][c] PROVE AllShown[s][c][ToJson[s][c]]
    OBVIOUS
  <2>0. MaxDepth \in 0 .. MaxDepth /\ c \in CellsTo[MaxDepth]
    BY DepthAssumption DEF Cells
  <2>1. PICK d : d = ToJson[s][c]
    OBVIOUS
  <2>2. d = JsonOf(ToJson, s, c)
    BY <2>1, ToJsonIs
  <2>3. d \in Datums
    BY <2>0, <2>1, ToJsonTyped DEF Datums
  <2>4. AllShown[s][c][d] = Complete(AllShown, s, c, d)
    BY <2>3, AllShownIs
  <2>5. Complete(AllShown, s, c, d)
    <3>1. CASE c.null
      BY <3>1 DEF Complete
    <3>2. CASE ~c.null /\ s.k \in Lists
      <4>1. d.sub = [i \in DOMAIN c.sub |-> ToJson[Item(s)][c.sub[i]]]
        BY <2>2, <3>2 DEF JsonOf, Lists, Compound, Datum
      <4>2. Item(s) \in P
        BY <1>1, <3>2, TypeParts DEF Item
      <4>3. \A i \in DOMAIN c.sub : c.sub[i] \in Cells /\ Holds[Item(s)][c.sub[i]]
        BY <2>0, <3>2, HeldInside, CellFacts
      <4>4. \A i \in DOMAIN c.sub : AllShown[Item(s)][c.sub[i]][d.sub[i]]
        BY <4>1, <4>2, <4>3
      <4> HIDE DEF P
      <4> QED
        BY <3>2, <4>4 DEF Complete, Lists
    <3>3. CASE ~c.null /\ s.k = "Dictionary"
      <4>1. d = ToJson[Item(s)][Entry(c)]
        BY <2>2, <3>3 DEF JsonOf, Lists
      <4>2. Item(s) \in P
        BY <1>1, <3>3, TypeParts DEF Item
      <4>3. Entry(c) \in Cells /\ Holds[Item(s)][Entry(c)]
        BY <2>0, <3>3, HeldInside
      <4>4. AllShown[Item(s)][Entry(c)][d]
        BY <4>1, <4>2, <4>3
      <4> HIDE DEF P
      <4> QED
        BY <3>3, <4>4 DEF Complete, Lists
    <3>4. CASE ~c.null /\ s.k = "Struct"
      <4>1. d.k = "jsonb object"
        BY <2>2, <3>4 DEF JsonOf, Lists, Compound, Datum
      <4> HIDE DEF P
      <4> QED
        BY <3>4, <4>1 DEF Complete, Lists
    <3>5. CASE ~c.null /\ s.k \notin Lists \union {"Dictionary", "Struct"}
      <4> HIDE DEF P
      <4> QED
        BY <3>5 DEF Complete
    <3> QED
      BY <3>1, <3>2, <3>3, <3>4, <3>5
  <2> QED
    BY <2>1, <2>4, <2>5
<1> HIDE DEF P
<1>2. t \in P
  BY <1>1, TypeInduction
<1> QED
  BY <1>2 DEF P

\* What a list is declared as is an array, and its element what one item is
\* declared as, or an element of that: PostgreSQL does not tell T[][] from
\* T[].
LEMMA ListDeclared ==
    ASSUME NEW t \in Types, t.k \in Lists, NEW path \in Name,
           NEW pg \in PgTypes, pg = Resolve(TextIn(TableName)[t][path]),
           NEW item \in PgTypes, item = Resolve(TextIn(TableName)[Item(t)][Under(path, <<"i">>)])
    PROVE  pg.array /\ Element(pg) = Element(item)
<1>1. PICK q \in Name : q = Under(path, <<"i">>)
  BY PathsInside
<1>2. PICK text \in PgTexts : text = TextIn(TableName)[Item(t)][q]
  BY TypeParts, DeclaredTyped
<1>3. PICK base, name, n : base = text.base /\ name = text.name /\ n = text.dims
  OBVIOUS
<1>4. n \in Nat /\ text = PgText(base, name, n)
  BY <1>3 DEF PgTexts, PgText
<1>5. TextIn(TableName)[t][path] = PgText(base, name, n + 1)
  <2>1. TextIn(TableName)[t][path] = TextOf(TextIn(TableName), TableName, t, path)
    BY TextInIs
  <2> QED
    BY <1>1, <1>2, <1>3, <2>1 DEF TextOf
<1>6. pg = [name |-> name, base |-> base, array |-> TRUE]
  <2>1. n + 1 \in Nat /\ n + 1 # 0
    BY <1>4
  <2> QED
    BY <1>5, <2>1, ResolveIs
<1>7. item.name = name /\ item.base = base
  <2>1. item = Resolve(PgText(base, name, n))
    BY <1>1, <1>2, <1>4
  <2>2. \/ item = [name |-> name, base |-> base, array |-> FALSE]
        \/ item = [name |-> name, base |-> base, array |-> TRUE]
    BY <1>4, <2>1, ResolveIs
  <2> QED
    BY <2>2
<1>8. pg.array /\ pg.name = name /\ pg.base = base
  BY <1>6
<1>9. Element(pg) = [name |-> pg.name, base |-> pg.base, array |-> FALSE]
      /\ Element(item) = [name |-> item.name, base |-> item.base, array |-> FALSE]
  BY ElementIs
<1> QED
  BY <1>7, <1>8, <1>9

\* What is not a list is declared as no array.
LEMMA StructDeclared ==
    ASSUME NEW t \in Types, t.k = "Struct", NEW path \in Name,
           NEW pg \in PgTypes, pg = Resolve(TextIn(TableName)[t][path])
    PROVE  Element(pg) = pg
<1>1. PICK name : name = CompositeTypeName(TableName, path)
  OBVIOUS
<1>2. TextIn(TableName)[t][path] = PgText("composite", name, 0)
  BY <1>1, TextInIs DEF TextOf, Lists
<1>3. 0 \in Nat
  OBVIOUS
<1>4. pg = [name |-> name, base |-> "composite", array |-> FALSE]
  BY <1>2, <1>3, ResolveIs
<1>5. pg.name = name /\ pg.base = "composite"
  BY <1>4
<1> QED
  BY <1>4, <1>5, ElementIs

\* A cell that is shown is shown with every field of every struct.
Shows(env, t, v, pg) ==
    ToDatum(env)[t][v][pg].err = "none" => AllShown[t][v][ToDatum(env)[t][v][pg].d]

\* So it is as what the import declares for it, and as an element of that.
ShowsDeclared(env, t, v) ==
    \A path \in Name : \A pg \in PgTypes :
      Made(t, path, env.types) /\ pg = Resolve(TextIn(TableName)[t][path]) =>
        Shows(env, t, v, pg) /\ Shows(env, t, v, Element(pg))

LEMMA ListShowsAll ==
    ASSUME NEW env, env.types \in Catalogs, env.checked \in BOOLEAN,
           NEW t \in Types, t.k \in Lists, NEW v \in Cells, Holds[t][v], ~v.null,
           NEW path \in Name, Made(t, path, env.types),
           NEW pg \in PgTypes, pg = Resolve(TextIn(TableName)[t][path]),
           \A i \in DOMAIN v.sub : ShowsDeclared(env, Item(t), v.sub[i])
    PROVE  Shows(env, t, v, pg) /\ Shows(env, t, v, Element(pg))
<1>1. PICK q \in Name : q = Under(path, <<"i">>)
  BY PathsInside
<1>2. PICK item \in PgTypes : item = Resolve(TextIn(TableName)[Item(t)][q])
  BY <1>1, TypeParts, DeclaredTyped
<1>3. pg.array /\ Element(pg) = Element(item)
  BY <1>1, <1>2, ListDeclared
<1>4. Made(Item(t), q, env.types)
  BY <1>1, MadeInside
<1>5. \A i \in DOMAIN v.sub : Shows(env, Item(t), v.sub[i], Element(pg))
  BY <1>2, <1>3, <1>4 DEF ShowsDeclared
<1>6. ASSUME ToDatum(env)[t][v][pg].err = "none"
      PROVE  AllShown[t][v][ToDatum(env)[t][v][pg].d]
  <2>1. PICK d \in Datums : d = ToDatum(env)[t][v][pg].d
    BY CellShown
  <2>2. \A i \in DOMAIN v.sub :
          /\ ToDatum(env)[Item(t)][v.sub[i]][Element(pg)].err = "none"
          /\ ToDatum(env)[t][v][pg].d.sub[i] = ToDatum(env)[Item(t)][v.sub[i]][Element(pg)].d
    BY <1>3, <1>6, ArrayParts
  <2>3. \A i \in DOMAIN v.sub : AllShown[Item(t)][v.sub[i]][d.sub[i]]
    BY <1>5, <2>1, <2>2 DEF Shows
  <2>4. Complete(AllShown, t, v, d)
    BY <2>3 DEF Complete, Lists
  <2> QED
    BY <2>1, <2>4, AllShownIs
<1>7. ASSUME NEW e \in PgTypes, e = Element(pg), ToDatum(env)[t][v][e].err = "none"
      PROVE  AllShown[t][v][ToDatum(env)[t][v][e].d]
  <2>1. ~e.array
    <3>1. e = [name |-> pg.name, base |-> pg.base, array |-> FALSE]
      BY <1>7, ElementIs
    <3> QED
      BY <3>1
  <2>2. ToDatum(env)[t][v][e].d = ToJson[t][v]
    BY <1>7, <2>1, JsonParts
  <2> QED
    BY <2>2, JsonShowsAll
<1> QED
  BY <1>6, <1>7, PgTypeParts DEF Shows

LEMMA StructShowsAll ==
    ASSUME NEW env, env.types \in Catalogs, Unique(env.types), env.checked \in BOOLEAN,
           NEW t \in Types, t.k = "Struct", NEW v \in Cells, Holds[t][v], ~v.null,
           NEW path \in Name, Made(t, path, env.types),
           NEW pg \in PgTypes, pg = Resolve(TextIn(TableName)[t][path]),
           \A i \in DOMAIN t.sub : ShowsDeclared(env, TypeOf(t.sub[i]), v.sub[i])
    PROVE  Shows(env, t, v, pg)
<1>1. SUFFICES ASSUME ToDatum(env)[t][v][pg].err = "none"
               PROVE  AllShown[t][v][ToDatum(env)[t][v][pg].d]
  BY DEF Shows
<1>2. PICK d \in Datums : d = ToDatum(env)[t][v][pg].d
  BY CellShown
<1>3. PICK atts : atts = Attributes(env.types, pg)
  OBVIOUS
<1>4. RowOf(env, t, v, atts, d)
  BY <1>1, <1>2, <1>3, RowParts
<1>5. /\ DOMAIN atts = DOMAIN t.sub
      /\ \A i \in DOMAIN t.sub :
           /\ NameOf(atts[i]) = NameOf(t.sub[i])
           /\ TypeOf(atts[i]) = Resolve(TextAt(TableName, t.sub, path, i))
           /\ Position(t.sub, NameOf(t.sub[i])) = i /\ i # 0
  <2>1. Resolved(SelfDef(t, path)) \in env.types
    BY MadeInside
  <2>2. PICK types \in Catalogs : types = env.types
    OBVIOUS
  <2> QED
    BY <1>3, <2>1, <2>2, StructResolved
<1>6. ASSUME NEW i \in DOMAIN t.sub
      PROVE  AllShown[TypeOf(t.sub[i])][v.sub[i]][d.sub[i]]
  <2>1. PICK q \in Name : q = Under(path, NameOf(t.sub[i]))
    BY TypeParts, PathsInside
  <2>2. PICK e \in PgTypes : e = TypeOf(atts[i])
    BY <1>4, <1>5 DEF RowOf
  <2>3. e = Resolve(TextIn(TableName)[TypeOf(t.sub[i])][q])
    BY <1>5, <2>1, <2>2 DEF TextAt
  <2>4. Made(TypeOf(t.sub[i]), q, env.types)
    BY <2>1, MadeInside
  <2>5. Shows(env, TypeOf(t.sub[i]), v.sub[i], e)
    BY <2>1, <2>3, <2>4 DEF ShowsDeclared
  <2>6. PICK x \in DOMAIN t.sub :
          /\ x = Position(t.sub, NameOf(atts[i]))
          /\ ToDatum(env)[TypeOf(t.sub[x])][v.sub[x]][TypeOf(atts[i])].err = "none"
          /\ d.sub[i] = ToDatum(env)[TypeOf(t.sub[x])][v.sub[x]][TypeOf(atts[i])].d
    BY <1>4, <1>5 DEF RowOf
  <2>7. x = i
    BY <1>5, <2>6
  <2>8. ToDatum(env)[TypeOf(t.sub[i])][v.sub[i]][e].err = "none"
        /\ d.sub[i] = ToDatum(env)[TypeOf(t.sub[i])][v.sub[i]][e].d
    BY <2>2, <2>6, <2>7
  <2> QED
    BY <2>5, <2>8 DEF Shows
<1>7. d.names = [i \in DOMAIN t.sub |-> NameOf(t.sub[i])]
  <2>1. d.names = [i \in DOMAIN atts |-> NameOf(atts[i])]
    BY <1>4 DEF RowOf
  <2> QED
    BY <1>5, <2>1
<1>8. Complete(AllShown, t, v, d)
  BY <1>6, <1>7 DEF Complete, Lists
<1> QED
  BY <1>2, <1>8, AllShownIs

\* Of a cell that is shown as what an import declares nothing is hidden.
LEMMA DeclaredShowsAll ==
    ASSUME NEW env, env.types \in Catalogs, Unique(env.types), env.checked \in BOOLEAN,
           NEW t \in Types, NEW v \in Cells, Holds[t][v]
    PROVE  ShowsDeclared(env, t, v)
<1> DEFINE P == {s \in Types : \A c \in Cells : Holds[s][c] => ShowsDeclared(env, s, c)}
<1>1. ASSUME NEW s \in Types, \A i \in DOMAIN s.sub : TypeOf(s.sub[i]) \in P
      PROVE  s \in P
  <2>1. ASSUME NEW c \in Cells, Holds[s][c], NEW path \in Name, Made(s, path, env.types),
               NEW pg \in PgTypes, pg = Resolve(TextIn(TableName)[s][path])
        PROVE  Shows(env, s, c, pg) /\ Shows(env, s, c, Element(pg))
    <3>0. MaxDepth \in 0 .. MaxDepth /\ c \in CellsTo[MaxDepth]
      BY DepthAssumption DEF Cells
    <3>1. CASE c.null
      <4>1. ASSUME NEW p \in PgTypes PROVE Shows(env, s, c, p)
        <5>1. PICK d \in Datums : d = ToDatum(env)[s][c][p].d
          BY <2>1, CellShown
        <5>2. Complete(AllShown, s, c, d)
          BY <3>1 DEF Complete
        <5> QED
          BY <5>1, <5>2, AllShownIs DEF Shows
      <4> QED
        BY <4>1, PgTypeParts
    <3>2. CASE ~c.null /\ s.k \in Lists
      <4>1. Item(s) \in P
        BY <1>1, <3>2, TypeParts DEF Item
      <4>2. \A i \in DOMAIN c.sub : c.sub[i] \in Cells /\ Holds[Item(s)][c.sub[i]]
        BY <2>1, <3>0, <3>2, HeldInside, CellFacts
      <4>3. \A i \in DOMAIN c.sub : ShowsDeclared(env, Item(s), c.sub[i])
        BY <4>1, <4>2
      <4> HIDE DEF P
      <4> QED
        BY <2>1, <3>2, <4>3, ListShowsAll
    <3>3. CASE ~c.null /\ s.k = "Dictionary"
      <4>1. Item(s) \in P /\ Item(s) \in Types
        BY <1>1, <3>3, TypeParts DEF Item
      <4>2. Entry(c) \in Cells /\ Holds[Item(s)][Entry(c)]
        BY <2>1, <3>0, <3>3, HeldInside
      <4>3. ShowsDeclared(env, Item(s), Entry(c))
        BY <4>1, <4>2
      <4> HIDE DEF P
      <4>4. PICK q \in Name : q = Under(path, <<"d">>)
        BY PathsInside
      <4>5. TextIn(TableName)[s][path] = TextIn(TableName)[Item(s)][q]
        <5>1. TextIn(TableName)[s][path] = TextOf(TextIn(TableName), TableName, s, path)
          BY TextInIs
        <5> QED
          BY <3>3, <4>4, <5>1 DEF TextOf, Lists
      <4>6. Made(Item(s), q, env.types)
        BY <2>1, <3>3, <4>4, MadeInside
      <4>7. Shows(env, Item(s), Entry(c), pg) /\ Shows(env, Item(s), Entry(c), Element(pg))
        BY <2>1, <4>3, <4>5, <4>6 DEF ShowsDeclared
      <4>8. ASSUME NEW p \in PgTypes, Shows(env, Item(s), Entry(c), p) PROVE Shows(env, s, c, p)
        <5>1. ToDatum(env)[s][c][p] = ToDatum(env)[Item(s)][Entry(c)][p]
          <6>1. ToDatum(env)[s][c][p] = DatumOf(ToDatum(env), s, c, p, env)
            BY ToDatumIs
          <6> QED
            BY <3>3, <6>1 DEF DatumOf, Lists
        <5>2. ASSUME ToDatum(env)[s][c][p].err = "none"
              PROVE  AllShown[s][c][ToDatum(env)[s][c][p].d]
          <6>1. PICK d \in Datums : d = ToDatum(env)[s][c][p].d
            BY <2>1, CellShown
          <6>2. AllShown[Item(s)][Entry(c)][d]
            BY <4>8, <5>1, <5>2, <6>1 DEF Shows
          <6>3. Complete(AllShown, s, c, d)
            BY <3>3, <6>2 DEF Complete, Lists
          <6> QED
            BY <6>1, <6>3, AllShownIs
        <5> QED
          BY <5>2 DEF Shows
      <4> QED
        BY <4>7, <4>8, PgTypeParts
    <3>4. CASE ~c.null /\ s.k = "Struct"
      <4>1. ASSUME NEW i \in DOMAIN s.sub PROVE ShowsDeclared(env, TypeOf(s.sub[i]), c.sub[i])
        <5>1. i \in DOMAIN c.sub /\ Holds[TypeOf(s.sub[i])][c.sub[i]]
          BY <2>1, <3>0, <3>4, HeldInside
        <5>2. c.sub[i] \in Cells
          BY <5>1, CellFacts
        <5>3. TypeOf(s.sub[i]) \in P
          BY <1>1
        <5> QED
          BY <5>1, <5>2, <5>3
      <4> HIDE DEF P
      <4>2. Shows(env, s, c, pg)
        BY <2>1, <3>4, <4>1, StructShowsAll
      <4>3. Element(pg) = pg
        BY <2>1, <3>4, StructDeclared
      <4> QED
        BY <4>2, <4>3
    <3>5. CASE ~c.null /\ s.k \notin Lists \union {"Dictionary", "Struct"}
      <4> HIDE DEF P
      <4>1. ASSUME NEW p \in PgTypes PROVE Shows(env, s, c, p)
        <5>1. PICK d \in Datums : d = ToDatum(env)[s][c][p].d
          BY <2>1, CellShown
        <5>2. Complete(AllShown, s, c, d)
          BY <3>5 DEF Complete
        <5> QED
          BY <5>1, <5>2, AllShownIs DEF Shows
      <4> QED
        BY <4>1, PgTypeParts
    <3> QED
      BY <3>1, <3>2, <3>3, <3>4, <3>5
  <2> QED
    BY <2>1 DEF ShowsDeclared
<1> HIDE DEF P
<1>2. t \in P
  BY <1>1, TypeInduction
<1> QED
  BY <1>2 DEF P

(***************************************************************************)
(* A table imported into a schema that has none of its types shows every   *)
(* column and every field of every struct, however deep, and to the end of *)
(* the session, unless two structs share a name (composite_type_name cuts  *)
(* it and replaces characters).                                            *)
(***************************************************************************)
THEOREM ImportedHidesNothing == Spec => []NothingHidden
<1>1. ASSUME IInv, ImportMade PROVE NothingHidden
  <2>1. SUFFICES ASSUME Imported, table.fresh, Distinct(data.schema)
                 PROVE  /\ [j \in DOMAIN table.cols |-> NameOf(table.cols[j])]
                             = [j \in DOMAIN data.schema |-> NameOf(data.schema[j])]
                        /\ \A i \in DOMAIN scan.out : \A j \in DOMAIN table.cols :
                             AllShown[TypeOf(data.schema[j])][data.rows[i][j]][scan.out[i][j]]
    BY DEF NothingHidden
  <2>2. /\ Tabled /\ Scanned /\ IsDataset(data) /\ Cataloged
        /\ catalog \in Catalogs /\ Unique(catalog) /\ checked \in BOOLEAN
    BY <1>1 DEF IInv, Stored, Cataloged
  <2>3. PICK l \in Nat : l = Len(data.schema) /\ DOMAIN data.schema = 1 .. l
    BY <2>2, DatasetParts
  <2>4. /\ DOMAIN table.cols = 1 .. l /\ Len(table.cols) = l
        /\ \A j \in 1 .. l :
             /\ NameOf(table.cols[j]) = NameOf(data.schema[j])
             /\ TypeOf(table.cols[j]) = Resolve(TextIn(TableName)[TypeOf(data.schema[j])][NameOf(data.schema[j])])
             /\ Column(NameOf(table.cols[j])) = j
    BY <2>1, <2>2, <2>3, ImportedColumns
  <2>5. [j \in DOMAIN table.cols |-> NameOf(table.cols[j])]
          = [j \in DOMAIN data.schema |-> NameOf(data.schema[j])]
    BY <2>3, <2>4
  <2>6. DOMAIN scan.out = 1 .. Len(scan.out)
    BY <2>2 DEF Scanned
  <2>7. ASSUME NEW i \in 1 .. Len(scan.out), NEW j \in 1 .. l
        PROVE  AllShown[TypeOf(data.schema[j])][data.rows[i][j]][scan.out[i][j]]
    <3>1. /\ i \in 1 .. Len(data.rows)
          /\ ShownIn(data.rows[i], j).err = "none"
          /\ scan.out[i][j] = ShownIn(data.rows[i], j).d
      BY <1>1, <2>4, Shown
    <3>2. PICK t \in Types : t = TypeOf(data.schema[j])
      BY <2>2, <2>3, DatasetParts
    <3>3. PICK v \in Cells : v = data.rows[i][j] /\ Holds[t][v]
      BY <2>2, <2>3, <3>1, <3>2, DatasetParts
    <3>4. PICK path \in Name : path = NameOf(data.schema[j])
      BY <2>2, <2>3, DatasetParts
    <3>5. PICK pg \in PgTypes : pg = TypeOf(table.cols[j])
      BY <2>2, <2>4, TableParts
    <3>6. pg = Resolve(TextIn(TableName)[t][path])
      BY <2>4, <3>2, <3>4, <3>5
    <3>7. PICK env : env = Env
      OBVIOUS
    <3>8. env.types = catalog /\ env.checked = checked
      BY <3>7 DEF Env
    <3>9. ShownIn(data.rows[i], j) = ToDatum(env)[t][v][pg]
      BY <2>4, <3>2, <3>3, <3>5, <3>7 DEF ShownIn
    <3>10. Made(t, path, env.types)
      BY <1>1, <2>1, <2>2, <2>3, <3>2, <3>4, <3>8, ColumnMade
    <3>11. ShowsDeclared(env, t, v)
      BY <2>2, <3>3, <3>8, DeclaredShowsAll
    <3>12. Shows(env, t, v, pg)
      BY <3>6, <3>10, <3>11 DEF ShowsDeclared
    <3> QED
      BY <3>1, <3>2, <3>3, <3>9, <3>12 DEF Shows
  <2> QED
    BY <2>3, <2>4, <2>5, <2>6, <2>7
<1> QED
  BY <1>1, InductiveInvariant, ImportsLast, PTL

-----------------------------------------------------------------------------
(* Folds over a sequence, and recursion over numbers.                      *)

LEMMA GreatestIs ==
    ASSUME NEW n \in Nat, NEW s \in SUBSET (1 .. n), s # {}
    PROVE  Max(s) \in s /\ \A y \in s : y <= Max(s)
<1> DEFINE S == {m \in 0 .. n : \A u \in SUBSET (1 .. m) : u # {} => \E x \in u : \A y \in u : x >= y}
<1>1. 0 \in S
  <2>1. (\A u \in SUBSET (1 .. 0) : u = {}) /\ 0 \in 0 .. n
    OBVIOUS
  <2> QED
    BY <2>1, Zenon
<1>2. ASSUME NEW m \in 0 .. n - 1, m \in S PROVE m + 1 \in S
  <2>1. ASSUME NEW u \in SUBSET (1 .. m + 1), u # {} PROVE \E x \in u : \A y \in u : x >= y
    <3>1. CASE m + 1 \in u
      BY <3>1
    <3>2. CASE m + 1 \notin u
      <4>1. u \in SUBSET (1 .. m)
        BY <3>2
      <4> QED
        BY <1>2, <2>1, <4>1
    <3> QED
      BY <3>1, <3>2
  <2> QED
    BY <2>1
<1> HIDE DEF S
<1>3. n \in S
  BY <1>1, <1>2, Induct
<1>4. \E x \in s : \A y \in s : x >= y
  BY <1>3 DEF S
<1>5. PICK x : x = Max(s)
  OBVIOUS
<1>6. x \in s /\ \A y \in s : x >= y
  BY <1>4, <1>5 DEF Max
<1>7. \A y \in s : y <= x
  BY <1>6
<1> QED
  BY <1>5, <1>6, <1>7

\* What FoldLeft is defined by: the value of each set of places.
FoldOf(f, n, base, step) ==
    f = [s \in SUBSET (1 .. n) |-> IF s = {} THEN base ELSE step[Max(s)][f[s \ {Max(s)}]]]

\* It exists.
LEMMA FoldExists ==
    ASSUME NEW n \in Nat, NEW V, NEW base \in V, NEW step \in [1 .. n -> [V -> V]]
    PROVE  \E f : FoldOf(f, n, base, step) /\ \A s \in SUBSET (1 .. n) : f[s] \in V
<1> DEFINE Row(f, s) == IF s = {} THEN base ELSE step[Max(s)][f[s \ {Max(s)}]]
<1> DEFINE Good(f, m) == \A s \in SUBSET (1 .. m) : f[s] = Row(f, s) /\ f[s] \in V
<1> DEFINE S == {m \in 0 .. n : \E f : f = [s \in SUBSET (1 .. n) |-> f[s]] /\ Good(f, m)}
<1>1. 0 \in S
  <2>1. PICK f : f = [s \in SUBSET (1 .. n) |-> base]
    OBVIOUS
  <2>2. \A s \in SUBSET (1 .. 0) : s = {} /\ f[s] = base
    BY <2>1
  <2>3. f = [s \in SUBSET (1 .. n) |-> f[s]]
    BY <2>1
  <2>4. Good(f, 0)
    BY <2>2
  <2> HIDE DEF Good
  <2> QED
    BY <2>3, <2>4
<1>2. ASSUME NEW m \in 0 .. n - 1, m \in S PROVE m + 1 \in S
  <2>1. PICK f : f = [s \in SUBSET (1 .. n) |-> f[s]] /\ Good(f, m)
    BY <1>2
  <2>2. PICK g : g = [s \in SUBSET (1 .. n) |-> Row(f, s)]
    OBVIOUS
  <2>3. g = [s \in SUBSET (1 .. n) |-> g[s]]
    BY <2>2
  <2>4. ASSUME NEW s \in SUBSET (1 .. m + 1) PROVE g[s] = Row(g, s) /\ g[s] \in V
    <3>1. s \in SUBSET (1 .. n) /\ g[s] = Row(f, s)
      BY <2>2
    <3>2. CASE s = {}
      BY <3>1, <3>2
    <3>3. CASE s # {}
      <4>1. PICK x \in s : x = Max(s) /\ \A y \in s : y <= x
        BY <3>1, <3>3, GreatestIs
      <4>2. PICK u \in SUBSET (1 .. m) : u = s \ {x}
        <5>1. ASSUME NEW y \in s \ {x} PROVE y \in 1 .. m
          <6>1. x \in 1 .. m + 1 /\ y \in 1 .. m + 1 /\ y <= x /\ y # x
            BY <4>1
          <6> QED
            BY <6>1
        <5> QED
          BY <5>1
      <4>3. u \in SUBSET (1 .. n) /\ f[u] = Row(f, u) /\ f[u] \in V
        <5>1. u \in SUBSET (1 .. n)
          OBVIOUS
        <5> HIDE DEF Row
        <5> QED
          BY <2>1, <5>1
      <4>4. g[u] = f[u]
        BY <2>2, <4>3
      <4>5. x \in 1 .. n /\ Row(f, s) = step[x][f[u]] /\ Row(g, s) = step[x][g[u]]
        BY <3>3, <4>1, <4>2
      <4> QED
        BY <3>1, <4>3, <4>4, <4>5
    <3> QED
      BY <3>2, <3>3
  <2>5. Good(g, m + 1)
    <3> HIDE DEF Row
    <3> QED
      BY <2>4
  <2> HIDE DEF Good
  <2> QED
    BY <2>3, <2>5
<1>3. n \in S
  <2> HIDE DEF S
  <2>1. 0 .. n \subseteq S
    BY <1>1, <1>2, Induct, Zenon
  <2> QED
    BY <2>1
<1>4. PICK f : f = [s \in SUBSET (1 .. n) |-> f[s]] /\ Good(f, n)
  BY <1>3
<1>5. FoldOf(f, n, base, step)
  BY <1>4 DEF FoldOf
<1>6. \A s \in SUBSET (1 .. n) : f[s] \in V
  BY <1>4
<1> QED
  BY <1>5, <1>6

\* A fold goes from one element to the next.
LEMMA FoldGoesOn ==
    ASSUME NEW n \in Nat, NEW i \in 1 .. n
    PROVE  /\ 1 .. i \in SUBSET (1 .. n) /\ 1 .. i # {} /\ Max(1 .. i) = i
           /\ (1 .. i) \ {i} = 1 .. i - 1
<1>1. 1 .. i \in SUBSET (1 .. n) /\ 1 .. i # {} /\ i \in 1 .. i
  OBVIOUS
<1>2. PICK x : x = Max(1 .. i)
  OBVIOUS
<1>3. x \in 1 .. i /\ \A y \in 1 .. i : y <= x
  BY <1>1, <1>2, GreatestIs
<1>4. i <= x
  BY <1>1, <1>3
<1>5. x = i
  BY <1>3, <1>4
<1> QED
  BY <1>1, <1>2, <1>5

\* A recursive function over the numbers: what defines it.
RecursionOf(f, small, first, step, prev) ==
    f = [k \in Nat |-> IF k \in small THEN first[k] ELSE step[k][f[prev[k]]]]

\* It exists, if each number has the one it looks at before it.
LEMMA RecursionExists ==
    ASSUME NEW V, NEW small, NEW first \in [Nat -> V], NEW step \in [Nat -> [V -> V]],
           NEW prev \in [Nat -> Nat], \A k \in Nat : k \notin small => prev[k] < k
    PROVE  \E f : RecursionOf(f, small, first, step, prev) /\ \A k \in Nat : f[k] \in V
<1> DEFINE Row(f, k) == IF k \in small THEN first[k] ELSE step[k][f[prev[k]]]
<1> DEFINE Good(f, m) == \A k \in 0 .. m : f[k] = Row(f, k) /\ f[k] \in V
<1>1. \A k \in Nat : prev[k] \in Nat
  OBVIOUS
<1>2. ASSUME NEW n \in Nat PROVE \E f : Good(f, n)
  <2> DEFINE S == {m \in 0 .. n : \E f : f = [k \in 0 .. n |-> f[k]] /\ Good(f, m)}
  <2>1. 0 \in S
    <3>1. PICK f : f = [k \in 0 .. n |-> first[k]]
      OBVIOUS
    <3>2. 0 \in small
      BY <1>1
    <3>3. \A k \in 0 .. 0 : k = 0
      OBVIOUS
    <3>4. f[0] = first[0] /\ first[0] \in V
      BY <3>1
    <3>5. f = [k \in 0 .. n |-> f[k]]
      BY <3>1
    <3>6. Good(f, 0)
      BY <3>2, <3>3, <3>4
    <3> HIDE DEF Good
    <3> QED
      BY <3>5, <3>6
  <2>2. ASSUME NEW m \in 0 .. n - 1, m \in S PROVE m + 1 \in S
    <3>1. PICK f : f = [k \in 0 .. n |-> f[k]] /\ Good(f, m)
      BY <2>2
    <3>2. PICK g : g = [k \in 0 .. n |-> Row(f, k)]
      OBVIOUS
    <3>3. g = [k \in 0 .. n |-> g[k]]
      BY <3>2
    <3>4. ASSUME NEW k \in 0 .. m + 1 PROVE g[k] = Row(g, k) /\ g[k] \in V
      <4>1. g[k] = Row(f, k)
        BY <3>2
      <4>2. CASE k \in small
        BY <4>1, <4>2
      <4>3. CASE k \notin small
        <5>1. PICK p \in 0 .. m : p = prev[k]
          BY <1>1, <4>3
        <5>2. p \in 0 .. n /\ f[p] = Row(f, p) /\ f[p] \in V
          <6>1. p \in 0 .. n
            OBVIOUS
          <6> HIDE DEF Row
          <6> QED
            BY <3>1, <6>1
        <5>3. g[p] = f[p]
          BY <3>2, <5>2
        <5>4. Row(f, k) = step[k][f[p]] /\ Row(g, k) = step[k][g[p]]
          BY <4>3, <5>1
        <5> QED
          BY <4>1, <5>2, <5>3, <5>4
      <4> QED
        BY <4>2, <4>3
    <3>5. Good(g, m + 1)
      <4> HIDE DEF Row
      <4> QED
        BY <3>4
    <3>6. m + 1 \in 0 .. n
      OBVIOUS
    <3> HIDE DEF Good
    <3> QED
      BY <3>3, <3>5, <3>6, Zenon
  <2>3. n \in S
    <3> HIDE DEF S
    <3>1. 0 .. n \subseteq S
      BY <2>1, <2>2, Induct, Zenon
    <3> QED
      BY <3>1
  <2> QED
    BY <2>3
<1>3. ASSUME NEW m \in Nat, NEW n \in Nat, NEW f, Good(f, m), NEW g, Good(g, n),
             NEW j \in 0 .. m, j <= n
      PROVE  f[j] = g[j]
  <2> DEFINE S == {i \in 0 .. j : \A k \in 0 .. i : f[k] = g[k]}
  <2>1. 0 \in S
    <3>1. 0 \in small /\ 0 \in 0 .. m /\ 0 \in 0 .. n
      BY <1>1
    <3>2. f[0] = first[0] /\ g[0] = first[0]
      BY <1>3, <3>1
    <3> QED
      BY <3>2
  <2>2. ASSUME NEW i \in 0 .. j - 1, i \in S PROVE i + 1 \in S
    <3>1. PICK k \in Nat : k = i + 1
      OBVIOUS
    <3>2. k \in 0 .. m /\ k \in 0 .. n
      BY <1>3, <3>1
    <3>3. f[k] = Row(f, k) /\ g[k] = Row(g, k)
      BY <1>3, <3>2
    <3>4. k \notin small => f[prev[k]] = g[prev[k]]
      BY <1>1, <2>2, <3>1
    <3>5. f[k] = g[k]
      BY <3>3, <3>4
    <3>6. k \in 0 .. j /\ \A p \in 0 .. k : p \in 0 .. i \/ p = k
      BY <3>1
    <3> HIDE DEF Good
    <3> QED
      BY <2>2, <3>1, <3>5, <3>6
  <2>3. j \in S
    <3>1. j \in Nat /\ j \in 0 .. j
      OBVIOUS
    <3> HIDE DEF S
    <3> QED
      BY <2>1, <2>2, <3>1, Induct
  <2> QED
    BY <2>3
<1> HIDE DEF Good
<1>4. PICK near : near = [n \in Nat |-> CHOOSE f : Good(f, n)]
  OBVIOUS
<1>5. \A n \in Nat : Good(near[n], n)
  BY <1>2, <1>4
<1>6. PICK f : f = [n \in Nat |-> near[n][n]]
  OBVIOUS
<1>7. ASSUME NEW n \in Nat PROVE f[n] = Row(f, n) /\ f[n] \in V
  <2>1. near[n][n] = Row(near[n], n) /\ near[n][n] \in V /\ f[n] = near[n][n]
    BY <1>5, <1>6 DEF Good
  <2>2. n \notin small => near[n][prev[n]] = f[prev[n]]
    <3>1. ASSUME n \notin small PROVE near[n][prev[n]] = near[prev[n]][prev[n]]
      <4>1. PICK p \in Nat : p = prev[n] /\ p < n
        BY <1>1, <3>1
      <4>2. p \in 0 .. p /\ p <= n /\ Good(near[p], p) /\ Good(near[n], n)
        BY <1>5, <4>1
      <4>3. near[p][p] = near[n][p]
        BY <1>3, <4>2
      <4> QED
        BY <4>1, <4>3
    <3> QED
      BY <1>1, <1>6, <3>1
  <2> QED
    BY <2>1, <2>2
<1>8. f = [n \in Nat |-> f[n]]
  BY <1>6
<1>9. f = [n \in Nat |-> Row(f, n)]
  <2> HIDE DEF Row
  <2> QED
    BY <1>7, <1>8
<1>10. RecursionOf(f, small, first, step, prev)
  BY <1>9 DEF RecursionOf
<1>11. \A k \in Nat : f[k] \in V
  BY <1>7
<1> QED
  BY <1>10, <1>11

-----------------------------------------------------------------------------
(* The extremum.                                                           *)

\* The value so far, from cell to cell.
ExtremumRun(r, cells, op, n) ==
    r[0] = <<>> /\ \A i \in 1 .. n : r[i] = Update(r[i - 1], cells[i], op)

LEMMA ExtremumRuns ==
    ASSUME NEW n \in Nat, NEW cells, DOMAIN cells = 1 .. n, \A i \in 1 .. n : cells[i] \in Cells, NEW op
    PROVE  \E r : ExtremumRun(r, cells, op, n) /\ Extremum(cells, op) = r[n]
<1> DEFINE Row(f, s) == IF s = {} THEN <<>> ELSE Update(f[s \ {Max(s)}], cells[Max(s)], op)
<1>1. PICK V : V = {<<>>} \union {<<k>> : k \in Int}
  OBVIOUS
<1>2. PICK step : step = [i \in 1 .. n |-> [x \in V |-> Update(x, cells[i], op)]]
  OBVIOUS
<1>3. step \in [1 .. n -> [V -> V]]
  <2>1. ASSUME NEW i \in 1 .. n, NEW x \in V PROVE Update(x, cells[i], op) \in V
    <3>1. cells[i].n \in {NaN} \union Int
      BY CellFacts DEF Numbers
    <3>2. Skipped(cells[i]) \/ cells[i].n \in Int
      BY <3>1 DEF Skipped
    <3> QED
      BY <1>1, <3>2 DEF Update
  <2> QED
    BY <1>2, <2>1
<1>4. \E f : f = [s \in SUBSET (DOMAIN cells) |-> Row(f, s)]
  <2>1. <<>> \in V
    BY <1>1
  <2>2. PICK f : FoldOf(f, n, <<>>, step) /\ \A s \in SUBSET (1 .. n) : f[s] \in V
    BY <1>3, <2>1, FoldExists
  <2>3. ASSUME NEW s \in SUBSET (1 .. n) PROVE f[s] = Row(f, s)
    <3>1. f[s] = IF s = {} THEN <<>> ELSE step[Max(s)][f[s \ {Max(s)}]]
      BY <2>2 DEF FoldOf
    <3>2. ASSUME s # {} PROVE step[Max(s)][f[s \ {Max(s)}]] = Update(f[s \ {Max(s)}], cells[Max(s)], op)
      <4>1. PICK x \in 1 .. n : x = Max(s)
        BY <3>2, GreatestIs
      <4>2. PICK u \in SUBSET (1 .. n) : u = s \ {x}
        OBVIOUS
      <4>3. f[u] \in V
        BY <2>2
      <4>4. step[x][f[u]] = Update(f[u], cells[x], op)
        BY <1>2, <4>3
      <4> QED
        BY <4>1, <4>2, <4>4
    <3> QED
      BY <3>1, <3>2
  <2>4. f = [s \in SUBSET (1 .. n) |-> f[s]]
    BY <2>2 DEF FoldOf
  <2> HIDE DEF Row
  <2>5. f = [s \in SUBSET (1 .. n) |-> Row(f, s)]
    BY <2>3, <2>4
  <2> QED
    BY <2>5
<1>5. PICK h : h = CHOOSE f : f = [s \in SUBSET (DOMAIN cells) |-> Row(f, s)]
  OBVIOUS
<1>6. h = [s \in SUBSET (DOMAIN cells) |-> Row(h, s)]
  <2> HIDE DEF Row
  <2> QED
    BY <1>4, <1>5
<1>7. Extremum(cells, op) = h[DOMAIN cells]
  BY <1>5 DEF Extremum, FoldLeft, MapThenFoldSet
<1>8. PICK r : r = [i \in 0 .. n |-> h[1 .. i]]
  OBVIOUS
<1>9. r[0] = <<>>
  <2>1. 1 .. 0 = {} /\ {} \in SUBSET (1 .. n) /\ 0 \in 0 .. n
    OBVIOUS
  <2>2. h[{}] = <<>>
    BY <1>6, <2>1
  <2>3. r[0] = h[1 .. 0]
    BY <1>8, <2>1
  <2> QED
    BY <2>1, <2>2, <2>3
<1>10. ASSUME NEW i \in 1 .. n PROVE r[i] = Update(r[i - 1], cells[i], op)
  <2>1. 1 .. i \in SUBSET (1 .. n) /\ 1 .. i # {} /\ Max(1 .. i) = i /\ (1 .. i) \ {i} = 1 .. i - 1
    BY FoldGoesOn
  <2>2. h[1 .. i] = Update(h[1 .. i - 1], cells[i], op)
    BY <1>6, <2>1
  <2>3. r[i] = h[1 .. i] /\ r[i - 1] = h[1 .. i - 1]
    BY <1>8
  <2> QED
    BY <2>2, <2>3
<1>11. r[n] = h[1 .. n]
  BY <1>8
<1> QED
  BY <1>7, <1>9, <1>10, <1>11 DEF ExtremumRun

Before(op, a, b) == IF op = "min" THEN a <= b ELSE a >= b

\* The extremum of cells is none, where each is null or no number, or the
\* number of one of them that no other is before.
Extreme(found, cells, op, n) ==
    \/ found = <<>> /\ \A i \in 1 .. n : Skipped(cells[i])
    \/ \E k \in 1 .. n : /\ ~Skipped(cells[k]) /\ found = <<cells[k].n>>
                         /\ \A i \in 1 .. n : Skipped(cells[i]) \/ Before(op, cells[k].n, cells[i].n)

LEMMA UpdateKeeps ==
    ASSUME NEW op \in Extrema, NEW n \in Nat, NEW cells, \A i \in 1 .. n + 1 : cells[i] \in Cells,
           NEW current, Extreme(current, cells, op, n)
    PROVE  Extreme(Update(current, cells[n + 1], op), cells, op, n + 1)
<1>1. PICK m \in Nat : m = n + 1 /\ m \in 1 .. m
  OBVIOUS
<1>2. PICK found : found = Update(current, cells[m], op)
  OBVIOUS
<1>3. \A i \in 1 .. m : i \in 1 .. n \/ i = m
  BY <1>1
<1>4. \A i \in 1 .. m : Skipped(cells[i]) \/ cells[i].n \in Int
  <2>1. ASSUME NEW i \in 1 .. m PROVE cells[i].n \in {NaN} \union Int
    BY <1>1, CellFacts DEF Numbers
  <2> QED
    BY <2>1 DEF Skipped
<1>5. \A i \in 1 .. n : i \in 1 .. m
  BY <1>1
<1>6. CASE Skipped(cells[m])
  <2>1. found = current
    BY <1>2, <1>6 DEF Update
  <2> QED
    BY <1>1, <1>2, <1>3, <1>5, <1>6, <2>1 DEF Extreme
<1>7. CASE ~Skipped(cells[m]) /\ current = <<>>
  <2>1. found = <<cells[m].n>>
    BY <1>2, <1>7 DEF Update, ShouldReplace
  <2>2. \A i \in 1 .. n : Skipped(cells[i])
    BY <1>7 DEF Extreme
  <2>3. Before(op, cells[m].n, cells[m].n)
    BY <1>1, <1>4, <1>7 DEF Before
  <2>4. \A i \in 1 .. m : Skipped(cells[i]) \/ Before(op, cells[m].n, cells[i].n)
    BY <1>3, <2>2, <2>3
  <2> QED
    BY <1>1, <1>2, <1>7, <2>1, <2>4 DEF Extreme
<1>8. CASE ~Skipped(cells[m]) /\ current # <<>>
  <2>1. PICK k \in 1 .. n : /\ ~Skipped(cells[k]) /\ current = <<cells[k].n>>
                            /\ \A i \in 1 .. n : Skipped(cells[i]) \/ Before(op, cells[k].n, cells[i].n)
    BY <1>8 DEF Extreme
  <2>2. PICK a \in Int : a = cells[k].n
    BY <1>4, <1>5, <2>1
  <2>3. PICK b \in Int : b = cells[m].n
    BY <1>1, <1>4, <1>8
  <2>4. current[1] = a
    BY <2>1, <2>2
  <2>5. CASE ShouldReplace(current, b, op)
    <3>1. found = <<b>>
      BY <1>2, <1>8, <2>3, <2>5 DEF Update
    <3>2. Before(op, b, a)
      BY <1>8, <2>4, <2>5 DEF ShouldReplace, Before, Extrema
    <3>3. ASSUME NEW i \in 1 .. m PROVE Skipped(cells[i]) \/ Before(op, b, cells[i].n)
      <4>1. CASE i = m
        BY <2>3, <4>1 DEF Before
      <4>2. CASE i \in 1 .. n /\ ~Skipped(cells[i])
        <5>1. PICK c \in Int : c = cells[i].n
          BY <1>4, <4>2
        <5>2. Before(op, a, c)
          BY <2>1, <2>2, <4>2, <5>1
        <5> QED
          BY <3>2, <5>1, <5>2 DEF Before
      <4> QED
        BY <1>3, <4>1, <4>2
    <3> QED
      BY <1>1, <1>2, <1>8, <2>3, <3>1, <3>3 DEF Extreme
  <2>6. CASE ~ShouldReplace(current, b, op)
    <3>1. found = current
      BY <1>2, <2>3, <2>6 DEF Update
    <3>2. Before(op, a, b)
      BY <1>8, <2>4, <2>6 DEF ShouldReplace, Before, Extrema
    <3>3. \A i \in 1 .. m : Skipped(cells[i]) \/ Before(op, a, cells[i].n)
      BY <1>3, <2>1, <2>2, <2>3, <3>2
    <3> QED
      BY <1>1, <1>2, <1>5, <2>1, <2>2, <3>1, <3>3 DEF Extreme
  <2> QED
    BY <2>5, <2>6
<1> QED
  BY <1>6, <1>7, <1>8

LEMMA ExtremumIs ==
    ASSUME NEW op \in Extrema, NEW n \in Nat, NEW cells, DOMAIN cells = 1 .. n,
           \A i \in 1 .. n : cells[i] \in Cells
    PROVE  Extreme(Extremum(cells, op), cells, op, n)
<1>1. PICK r : ExtremumRun(r, cells, op, n) /\ Extremum(cells, op) = r[n]
  BY ExtremumRuns
<1> DEFINE S == {m \in 0 .. n : Extreme(r[m], cells, op, m)}
<1>2. 0 \in S
  BY <1>1 DEF ExtremumRun, Extreme
<1>3. ASSUME NEW m \in 0 .. n - 1, m \in S PROVE m + 1 \in S
  <2>1. PICK k \in 1 .. n : k = m + 1 /\ k - 1 = m
    OBVIOUS
  <2>2. r[k] = Update(r[m], cells[k], op)
    BY <1>1, <2>1 DEF ExtremumRun
  <2>3. m \in Nat /\ Extreme(r[m], cells, op, m) /\ \A i \in 1 .. m + 1 : cells[i] \in Cells
    BY <1>3
  <2>4. Extreme(Update(r[m], cells[m + 1], op), cells, op, m + 1)
    BY <2>3, UpdateKeeps
  <2> QED
    BY <2>1, <2>2, <2>4
<1>4. n \in S
  <2> HIDE DEF S
  <2>1. 0 .. n \subseteq S
    BY <1>2, <1>3, Induct, Zenon
  <2> QED
    BY <2>1
<1> QED
  BY <1>1, <1>4

-----------------------------------------------------------------------------
(* The text of a number.                                                   *)

\* The number the digits so far stand for.
UnsignedRun(r, s, n) ==
    r[0] = 0 /\ \A i \in 1 .. n : r[i] = 10 * r[i - 1] + s[i]

LEMMA UnsignedRuns ==
    ASSUME NEW s \in Seq(Int)
    PROVE  \E r \in [0 .. Len(s) -> Int] : UnsignedRun(r, s, Len(s)) /\ Unsigned(s) = r[Len(s)]
<1> DEFINE Row(f, u) == IF u = {} THEN 0 ELSE 10 * f[u \ {Max(u)}] + s[Max(u)]
<1>1. PICK n \in Nat : n = Len(s) /\ DOMAIN s = 1 .. n
  OBVIOUS
<1>2. PICK step : step = [i \in 1 .. n |-> [x \in Int |-> 10 * x + s[i]]]
  OBVIOUS
<1>3. step \in [1 .. n -> [Int -> Int]]
  BY <1>1, <1>2
<1>4. \E f : f = [u \in SUBSET (DOMAIN s) |-> Row(f, u)] /\ \A u \in SUBSET (1 .. n) : f[u] \in Int
  <2>1. 0 \in Int
    OBVIOUS
  <2>2. PICK f : FoldOf(f, n, 0, step) /\ \A u \in SUBSET (1 .. n) : f[u] \in Int
    BY <1>3, <2>1, FoldExists, Zenon
  <2>3. ASSUME NEW u \in SUBSET (1 .. n) PROVE f[u] = Row(f, u)
    <3>1. f[u] = IF u = {} THEN 0 ELSE step[Max(u)][f[u \ {Max(u)}]]
      BY <2>2 DEF FoldOf
    <3>2. ASSUME u # {} PROVE step[Max(u)][f[u \ {Max(u)}]] = 10 * f[u \ {Max(u)}] + s[Max(u)]
      <4>1. PICK x \in 1 .. n : x = Max(u)
        BY <3>2, GreatestIs
      <4>2. PICK w \in SUBSET (1 .. n) : w = u \ {x}
        OBVIOUS
      <4>3. f[w] \in Int
        BY <2>2
      <4>4. step[x][f[w]] = 10 * f[w] + s[x]
        BY <1>2, <4>3
      <4> QED
        BY <4>1, <4>2, <4>4
    <3> QED
      BY <3>1, <3>2
  <2>4. f = [u \in SUBSET (1 .. n) |-> f[u]]
    BY <2>2 DEF FoldOf
  <2> HIDE DEF Row
  <2>5. f = [u \in SUBSET (1 .. n) |-> Row(f, u)]
    BY <2>3, <2>4
  <2> QED
    BY <1>1, <2>2, <2>5
<1>5. PICK h : h = CHOOSE f : f = [u \in SUBSET (DOMAIN s) |-> Row(f, u)]
  OBVIOUS
<1>6. h = [u \in SUBSET (DOMAIN s) |-> Row(h, u)]
  <2> HIDE DEF Row
  <2> QED
    BY <1>4, <1>5
<1>7. Unsigned(s) = h[DOMAIN s]
  BY <1>5 DEF Unsigned, FoldLeft, MapThenFoldSet
<1>8. PICK r : r = [i \in 0 .. n |-> h[1 .. i]]
  OBVIOUS
<1>9. r[0] = 0
  <2>1. 1 .. 0 = {} /\ {} \in SUBSET (1 .. n) /\ 0 \in 0 .. n
    OBVIOUS
  <2>2. h[{}] = 0
    BY <1>1, <1>6, <2>1
  <2>3. r[0] = h[1 .. 0]
    BY <1>8, <2>1
  <2> QED
    BY <2>1, <2>2, <2>3
<1>10. ASSUME NEW i \in 1 .. n PROVE r[i] = 10 * r[i - 1] + s[i]
  <2>1. 1 .. i \in SUBSET (1 .. n) /\ 1 .. i # {} /\ Max(1 .. i) = i /\ (1 .. i) \ {i} = 1 .. i - 1
    BY FoldGoesOn
  <2>2. h[1 .. i] = 10 * h[1 .. i - 1] + s[i]
    BY <1>1, <1>6, <2>1
  <2>3. r[i] = h[1 .. i] /\ r[i - 1] = h[1 .. i - 1]
    BY <1>8
  <2> QED
    BY <2>2, <2>3
<1>11. UnsignedRun(r, s, n)
  BY <1>9, <1>10 DEF UnsignedRun
<1>12. r[n] = h[1 .. n]
  BY <1>8
<1> DEFINE S == {m \in 0 .. n : r[m] \in Int}
<1>13. 0 \in S
  BY <1>9
<1>14. ASSUME NEW m \in 0 .. n - 1, m \in S PROVE m + 1 \in S
  <2>1. PICK k \in 1 .. n : k = m + 1 /\ k - 1 = m
    OBVIOUS
  <2>2. r[k] = 10 * r[m] + s[k] /\ s[k] \in Int
    BY <1>1, <1>10, <2>1
  <2> QED
    BY <1>14, <2>1, <2>2
<1>15. 0 .. n \subseteq S
  <2> HIDE DEF S
  <2> QED
    BY <1>13, <1>14, Induct, Zenon
<1>16. r \in [0 .. n -> Int]
  BY <1>8, <1>15
<1> QED
  BY <1>1, <1>7, <1>11, <1>12, <1>16

\* There is one such run.
LEMMA UnsignedIs ==
    ASSUME NEW s \in Seq(Int), NEW r, UnsignedRun(r, s, Len(s))
    PROVE  Unsigned(s) = r[Len(s)] /\ Unsigned(s) \in Int
<1>1. PICK n \in Nat : n = Len(s)
  OBVIOUS
<1>2. PICK q \in [0 .. n -> Int] : UnsignedRun(q, s, n) /\ Unsigned(s) = q[n]
  BY <1>1, UnsignedRuns
<1> DEFINE S == {m \in 0 .. n : r[m] = q[m]}
<1>3. 0 \in S
  BY <1>1, <1>2 DEF UnsignedRun
<1>4. ASSUME NEW m \in 0 .. n - 1, m \in S PROVE m + 1 \in S
  <2>1. PICK k \in 1 .. n : k = m + 1 /\ k - 1 = m
    OBVIOUS
  <2>2. r[k] = 10 * r[m] + s[k] /\ q[k] = 10 * q[m] + s[k]
    BY <1>1, <1>2, <2>1 DEF UnsignedRun
  <2> QED
    BY <1>4, <2>1, <2>2
<1>5. 0 .. n \subseteq S
  <2> HIDE DEF S
  <2> QED
    BY <1>3, <1>4, Induct, Zenon
<1> QED
  BY <1>1, <1>2, <1>5

LEMMA UnsignedTyped == \A s \in Seq(Int) : Unsigned(s) \in Int
  BY UnsignedRuns

LEMMA UnsignedOne == ASSUME NEW d \in Int PROVE Unsigned(<<d>>) = d
<1>1. PICK s : s = <<d>>
  OBVIOUS
<1>2. s \in Seq(Int) /\ Len(s) = 1 /\ s[1] = d
  BY <1>1
<1>3. PICK r : r = [i \in 0 .. 1 |-> IF i = 0 THEN 0 ELSE d]
  OBVIOUS
<1>4. UnsignedRun(r, s, 1)
  BY <1>2, <1>3 DEF UnsignedRun
<1>5. Unsigned(s) = r[1]
  BY <1>2, <1>4, UnsignedIs
<1> QED
  BY <1>1, <1>3, <1>5

LEMMA UnsignedAppend ==
    ASSUME NEW s \in Seq(Int), NEW d \in Int
    PROVE  Unsigned(Append(s, d)) = 10 * Unsigned(s) + d
<1>1. PICK n \in Nat : n = Len(s)
  OBVIOUS
<1>2. PICK q \in [0 .. n -> Int] : UnsignedRun(q, s, n) /\ Unsigned(s) = q[n]
  BY <1>1, UnsignedRuns
<1>3. PICK u \in Seq(Int) : u = Append(s, d) /\ Len(u) = n + 1
  BY <1>1
<1>4. PICK r : r = [i \in 0 .. n + 1 |-> IF i = n + 1 THEN 10 * q[n] + d ELSE q[i]]
  OBVIOUS
<1>5. ASSUME NEW i \in 1 .. n + 1 PROVE r[i] = 10 * r[i - 1] + u[i]
  <2>1. CASE i = n + 1
    <3>1. r[i] = 10 * q[n] + d /\ r[i - 1] = q[n] /\ u[i] = d
      BY <1>1, <1>3, <1>4, <2>1
    <3> QED
      BY <3>1
  <2>2. CASE i # n + 1
    <3>1. i \in 1 .. n
      BY <2>2
    <3>2. r[i] = q[i] /\ r[i - 1] = q[i - 1] /\ u[i] = s[i]
      BY <1>1, <1>3, <1>4, <3>1
    <3> QED
      BY <1>2, <3>1, <3>2 DEF UnsignedRun
  <2> QED
    BY <2>1, <2>2
<1>6. UnsignedRun(r, u, n + 1)
  <2>1. r[0] = 0
    BY <1>2, <1>4 DEF UnsignedRun
  <2> QED
    BY <1>5, <2>1 DEF UnsignedRun
<1>7. Unsigned(u) = r[n + 1]
  BY <1>3, <1>6, UnsignedIs
<1> QED
  BY <1>2, <1>3, <1>4, <1>7

\* Zeros in front change nothing.
LEMMA ZerosInFront ==
    ASSUME NEW s \in Seq(Int), NEW k \in Nat
    PROVE  Zeros(k) \o s \in Seq(Int) /\ Len(Zeros(k) \o s) = k + Len(s) /\ Unsigned(Zeros(k) \o s) = Unsigned(s)
<1>1. PICK n \in Nat : n = Len(s)
  OBVIOUS
<1>2. PICK q \in [0 .. n -> Int] : UnsignedRun(q, s, n) /\ Unsigned(s) = q[n]
  BY <1>1, UnsignedRuns
<1>3. PICK z \in Seq(Int) : z = Zeros(k) /\ Len(z) = k /\ \A i \in 1 .. k : z[i] = 0
  BY DEF Zeros
<1>4. PICK u \in Seq(Int) : u = z \o s /\ Len(u) = k + n
  <2>1. z \o s \in Seq(Int) /\ Len(z \o s) = k + n
    BY <1>1, <1>3
  <2> QED
    BY <2>1, Zenon
<1>5. PICK r : r = [i \in 0 .. k + n |-> IF i <= k THEN 0 ELSE q[i - k]]
  OBVIOUS
<1>6. ASSUME NEW i \in 1 .. k + n PROVE r[i] = 10 * r[i - 1] + u[i]
  <2>1. CASE i <= k
    <3>1. r[i] = 0 /\ r[i - 1] = 0 /\ u[i] = 0
      BY <1>3, <1>4, <1>5, <2>1
    <3> QED
      BY <3>1
  <2>2. CASE i > k
    <3>1. PICK j \in 1 .. n : j = i - k
      BY <2>2
    <3>2. u[i] = s[j]
      BY <1>1, <1>3, <1>4, <2>2, <3>1
    <3>3. r[i] = q[j]
      BY <1>5, <2>2, <3>1
    <3>4. r[i - 1] = q[j - 1]
      <4>1. q[0] = 0
        BY <1>2 DEF UnsignedRun
      <4>2. CASE j = 1
        <5>1. i - 1 = k /\ j - 1 = 0 /\ k \in 0 .. k + n
          BY <3>1, <4>2
        <5>2. r[k] = 0
          BY <1>5, <5>1
        <5> QED
          BY <4>1, <5>1, <5>2
      <4>3. CASE j # 1
        <5>1. i - 1 \in 0 .. k + n /\ ~(i - 1 <= k) /\ i - 1 - k = j - 1
          BY <3>1, <4>3
        <5> QED
          BY <1>5, <5>1
      <4> QED
        BY <4>2, <4>3
    <3> QED
      BY <1>2, <3>2, <3>3, <3>4 DEF UnsignedRun
  <2> QED
    BY <2>1, <2>2
<1>7. r[0] = 0
  BY <1>5
<1>8. UnsignedRun(r, u, k + n)
  BY <1>6, <1>7 DEF UnsignedRun
<1>9. Unsigned(u) = r[k + n]
  BY <1>4, <1>8, UnsignedIs
<1>10. r[k + n] = q[n]
  <2>1. q[0] = 0
    BY <1>2 DEF UnsignedRun
  <2> QED
    BY <1>5, <2>1
<1> QED
  BY <1>1, <1>2, <1>3, <1>4, <1>9, <1>10

LEMMA PowerOfTenIs ==
    /\ PowerOfTen[0] = 1
    /\ \A k \in Nat : PowerOfTen[k] \in Int /\ (k # 0 => PowerOfTen[k] = 10 * PowerOfTen[k - 1])
<1> DEFINE Row(f, k) == IF k = 0 THEN 1 ELSE 10 * f[k - 1]
<1>1. PICK first : first = [k \in Nat |-> 1]
  OBVIOUS
<1>2. PICK step : step = [k \in Nat |-> [x \in Int |-> 10 * x]]
  OBVIOUS
<1>3. PICK prev : prev = [k \in Nat |-> IF k = 0 THEN 0 ELSE k - 1]
  OBVIOUS
<1>4. first \in [Nat -> Int] /\ step \in [Nat -> [Int -> Int]] /\ prev \in [Nat -> Nat]
  BY <1>1, <1>2, <1>3
<1>5. \A k \in Nat : k \notin {0} => prev[k] < k
  BY <1>3
<1>6. PICK f : RecursionOf(f, {0}, first, step, prev) /\ \A k \in Nat : f[k] \in Int
  BY <1>4, <1>5, RecursionExists
<1>7. ASSUME NEW k \in Nat PROVE f[k] = Row(f, k)
  <2>1. f[k] = IF k \in {0} THEN first[k] ELSE step[k][f[prev[k]]]
    BY <1>6 DEF RecursionOf
  <2>2. ASSUME k # 0 PROVE f[k] = 10 * f[k - 1]
    <3>1. prev[k] = k - 1 /\ k - 1 \in Nat
      BY <1>3, <2>2
    <3>2. f[k - 1] \in Int
      BY <1>6, <3>1
    <3> QED
      BY <1>2, <2>1, <2>2, <3>1, <3>2
  <2> QED
    BY <1>1, <2>1, <2>2
<1>8. f = [k \in Nat |-> f[k]]
  BY <1>6 DEF RecursionOf
<1>9. f = [k \in Nat |-> Row(f, k)]
  <2> HIDE DEF Row
  <2> QED
    BY <1>7, <1>8
<1>10. PICK h : h = CHOOSE g : g = [k \in Nat |-> Row(g, k)]
  OBVIOUS
<1>11. h = [k \in Nat |-> Row(h, k)]
  <2> HIDE DEF Row
  <2> QED
    BY <1>9, <1>10
<1>12. PowerOfTen = h
  BY <1>10 DEF PowerOfTen
<1>13. h[0] = 1
  BY <1>11
<1>14. \A k \in Nat : k # 0 => h[k] = 10 * h[k - 1]
  BY <1>11
<1>15. ASSUME NEW n \in Nat PROVE h[n] \in Int
  <2> DEFINE S == {m \in 0 .. n : h[m] \in Int}
  <2>1. 0 \in S
    BY <1>13
  <2>2. ASSUME NEW m \in 0 .. n - 1, m \in S PROVE m + 1 \in S
    <3>1. PICK k \in Nat : k = m + 1 /\ k # 0 /\ k - 1 = m /\ k \in 0 .. n
      OBVIOUS
    <3>2. h[k] = 10 * h[m]
      BY <1>14, <3>1
    <3> QED
      BY <2>2, <3>1, <3>2
  <2>3. 0 .. n \subseteq S
    <3> HIDE DEF S
    <3> QED
      BY <2>1, <2>2, Induct, Zenon
  <2> QED
    BY <2>3
<1> QED
  BY <1>12, <1>13, <1>14, <1>15

\* Zeros behind multiply by powers of ten.
LEMMA ZerosBehind ==
    ASSUME NEW s \in Seq(Int), NEW k \in Nat
    PROVE  s \o Zeros(k) \in Seq(Int) /\ Unsigned(s \o Zeros(k)) = Unsigned(s) * PowerOfTen[k]
<1>1. PICK n \in Nat : n = Len(s)
  OBVIOUS
<1>2. PICK q \in [0 .. n -> Int] : UnsignedRun(q, s, n) /\ Unsigned(s) = q[n]
  BY <1>1, UnsignedRuns
<1>3. PICK z \in Seq(Int) : z = Zeros(k) /\ Len(z) = k /\ \A i \in 1 .. k : z[i] = 0
  BY DEF Zeros
<1>4. PICK u \in Seq(Int) : u = s \o z /\ Len(u) = n + k
  <2>1. s \o z \in Seq(Int) /\ Len(s \o z) = n + k
    BY <1>1, <1>3
  <2> QED
    BY <2>1, Zenon
<1>5. PICK r : r = [i \in 0 .. n + k |-> IF i <= n THEN q[i] ELSE q[n] * PowerOfTen[i - n]]
  OBVIOUS
<1>6. ASSUME NEW i \in 1 .. n + k PROVE r[i] = 10 * r[i - 1] + u[i]
  <2>1. CASE i <= n
    <3>1. r[i] = q[i] /\ r[i - 1] = q[i - 1] /\ u[i] = s[i]
      BY <1>1, <1>3, <1>4, <1>5, <2>1
    <3> QED
      BY <1>2, <2>1, <3>1 DEF UnsignedRun
  <2>2. CASE i > n
    <3>1. PICK j \in 1 .. k : j = i - n
      BY <2>2
    <3>2. u[i] = 0
      BY <1>1, <1>3, <1>4, <2>2, <3>1
    <3>3. r[i] = q[n] * PowerOfTen[j]
      BY <1>5, <2>2, <3>1
    <3>4. r[i - 1] = q[n] * PowerOfTen[j - 1]
      <4>1. CASE j = 1
        <5>1. i - 1 = n /\ r[i - 1] = q[n]
          BY <1>5, <3>1, <4>1
        <5>2. PowerOfTen[j - 1] = 1
          BY <4>1, PowerOfTenIs
        <5>3. q[n] * 1 = q[n]
          OBVIOUS
        <5> QED
          BY <5>1, <5>2, <5>3
      <4>2. CASE j # 1
        BY <1>5, <3>1, <4>2
      <4> QED
        BY <4>1, <4>2
    <3>5. j \in Nat /\ j # 0 /\ j - 1 \in Nat
      OBVIOUS
    <3>6. PowerOfTen[j - 1] \in Int /\ PowerOfTen[j] = 10 * PowerOfTen[j - 1]
      BY <3>5, PowerOfTenIs
    <3>7. PICK a \in Int : a = q[n]
      OBVIOUS
    <3>8. PICK p \in Int : p = PowerOfTen[j - 1] /\ PowerOfTen[j] = 10 * p
      BY <3>6
    <3>9. a * (10 * p) = 10 * (a * p) + 0
      OBVIOUS
    <3> QED
      BY <3>2, <3>3, <3>4, <3>7, <3>8, <3>9
  <2> QED
    BY <2>1, <2>2
<1>7. r[0] = 0
  BY <1>2, <1>5 DEF UnsignedRun
<1>8. UnsignedRun(r, u, n + k)
  BY <1>6, <1>7 DEF UnsignedRun
<1>9. Unsigned(u) = r[n + k]
  BY <1>4, <1>8, UnsignedIs
<1>10. r[n + k] = q[n] * PowerOfTen[k]
  <2>1. CASE k = 0
    <3>1. r[n + k] = q[n] /\ PowerOfTen[k] = 1
      BY <1>5, <2>1, PowerOfTenIs
    <3>2. q[n] * 1 = q[n]
      OBVIOUS
    <3> QED
      BY <3>1, <3>2
  <2>2. CASE k # 0
    BY <1>5, <2>2
  <2> QED
    BY <2>1, <2>2
<1> QED
  BY <1>2, <1>3, <1>4, <1>9, <1>10

\* The digits of a number are a sequence, and each is put behind the others.
LEMMA DigitsIs ==
    \A n \in Nat : /\ Digits[n] \in Seq(Int)
                   /\ Digits[n] = IF n < 10 THEN <<n>> ELSE Append(Digits[n \div 10], n % 10)
<1> DEFINE Row(f, n) == IF n < 10 THEN <<n>> ELSE Append(f[n \div 10], n % 10)
<1> DEFINE V == Seq(Int)
<1>1. PICK first : first = [n \in Nat |-> <<n>>]
  OBVIOUS
<1>2. PICK step : step = [n \in Nat |-> [x \in V |-> Append(x, n % 10)]]
  OBVIOUS
<1>3. PICK prev : prev = [n \in Nat |-> n \div 10]
  OBVIOUS
<1>4. ASSUME NEW n \in Nat PROVE n \div 10 \in Nat /\ n % 10 \in Int /\ (n >= 10 => n \div 10 < n)
  OBVIOUS
<1>5. first \in [Nat -> V]
  BY <1>1
<1>6. step \in [Nat -> [V -> V]]
  <2>1. \A n \in Nat, x \in V : Append(x, n % 10) \in V
    BY <1>4
  <2> HIDE DEF V
  <2> QED
    BY <1>2, <2>1
<1>7. prev \in [Nat -> Nat]
  BY <1>3, <1>4
<1>8. \A n \in Nat : n \notin 0 .. 9 => prev[n] < n
  BY <1>3, <1>4
<1>9. PICK f : RecursionOf(f, 0 .. 9, first, step, prev) /\ \A n \in Nat : f[n] \in V
  <2> HIDE DEF V
  <2> QED
    BY <1>5, <1>6, <1>7, <1>8, RecursionExists
<1>10. ASSUME NEW n \in Nat PROVE f[n] = Row(f, n)
  <2>1. f[n] = IF n \in 0 .. 9 THEN first[n] ELSE step[n][f[prev[n]]]
    BY <1>9 DEF RecursionOf
  <2>2. CASE n < 10
    <3>1. n \in 0 .. 9
      BY <2>2
    <3> QED
      BY <1>1, <2>1, <2>2, <3>1
  <2>3. CASE n >= 10
    <3>1. n \notin 0 .. 9 /\ ~(n < 10)
      BY <2>3
    <3>2. PICK p \in Nat : p = n \div 10 /\ prev[n] = p
      BY <1>3, <1>4
    <3>3. f[p] \in V
      BY <1>9
    <3>4. step[n][f[p]] = Append(f[p], n % 10)
      <4> HIDE DEF V
      <4> QED
        BY <1>2, <3>3
    <3> QED
      BY <2>1, <3>1, <3>2, <3>4
  <2> QED
    BY <2>2, <2>3
<1>11. f = [n \in Nat |-> f[n]]
  BY <1>9 DEF RecursionOf
<1>12. f = [n \in Nat |-> Row(f, n)]
  <2> HIDE DEF Row
  <2> QED
    BY <1>10, <1>11
<1>13. PICK h : h = CHOOSE g : g = [n \in Nat |-> Row(g, n)]
  OBVIOUS
<1>14. h = [n \in Nat |-> Row(h, n)]
  <2> HIDE DEF Row
  <2> QED
    BY <1>12, <1>13
<1>15. Digits = h
  BY <1>13 DEF Digits
<1>16. \A n \in Nat : h[n] = Row(h, n)
  <2> HIDE DEF Row
  <2> QED
    BY <1>14
<1>17. ASSUME NEW n \in Nat PROVE h[n] \in V
  <2> DEFINE S == {m \in 0 .. n : \A k \in 0 .. m : h[k] \in V}
  <2>1. 0 \in S
    <3>1. PICK k \in Nat : k = 0
      OBVIOUS
    <3>2. k < 10
      BY <3>1
    <3>3. h[k] = <<k>>
      BY <1>16, <3>2
    <3>4. h[k] \in V
      BY <3>3
    <3>5. \A i \in 0 .. k : i = k
      BY <3>1
    <3> HIDE DEF V
    <3>6. k \in 0 .. n
      BY <3>1
    <3> QED
      BY <3>1, <3>4, <3>5, <3>6
  <2>2. ASSUME NEW m \in 0 .. n - 1, m \in S PROVE m + 1 \in S
    <3>1. PICK k \in Nat : k = m + 1 /\ k \in 0 .. n
      OBVIOUS
    <3>2. h[k] \in V
      <4>1. CASE k < 10
        <5>1. h[k] = <<k>>
          BY <1>16, <4>1
        <5> QED
          BY <5>1
      <4>2. CASE k >= 10
        <5>1. PICK p \in 0 .. m : p = k \div 10
          BY <1>4, <3>1, <4>2
        <5>2. h[p] \in V /\ k % 10 \in Int
          BY <1>4, <2>2
        <5>3. h[k] = Append(h[p], k % 10)
          <6>1. ~(k < 10)
            BY <4>2
          <6>2. h[k] = Append(h[k \div 10], k % 10)
            BY <1>16, <6>1, Zenon
          <6> QED
            BY <5>1, <6>2
        <5> QED
          BY <5>2, <5>3
      <4> QED
        BY <4>1, <4>2
    <3>3. \A i \in 0 .. k : i \in 0 .. m \/ i = k
      BY <3>1
    <3> HIDE DEF V
    <3> QED
      BY <2>2, <3>1, <3>2, <3>3
  <2>3. n \in S
    <3> HIDE DEF S
    <3>1. 0 .. n \subseteq S
      BY <2>1, <2>2, Induct, Zenon
    <3> QED
      BY <3>1
  <2> QED
    BY <2>3
<1>18. ASSUME NEW n \in Nat PROVE h[n] \in Seq(Int) /\ h[n] = Row(h, n)
  BY <1>16, <1>17
<1> HIDE DEF Row
<1>19. \A n \in Nat : Digits[n] \in Seq(Int) /\ Digits[n] = Row(Digits, n)
  BY <1>15, <1>18
<1> QED
  BY <1>19 DEF Row

\* They stand for it.
LEMMA DigitsNumber ==
    ASSUME NEW n \in Nat
    PROVE  Digits[n] \in Seq(Int) /\ Len(Digits[n]) >= 1 /\ Unsigned(Digits[n]) = n
<1> DEFINE Good(k) == Digits[k] \in Seq(Int) /\ Len(Digits[k]) >= 1 /\ Unsigned(Digits[k]) = k
<1>1. ASSUME NEW k \in Nat, k < 10 PROVE Good(k)
  <2>1. Digits[k] = <<k>>
    BY <1>1, DigitsIs
  <2>2. Unsigned(<<k>>) = k
    BY UnsignedOne
  <2>3. <<k>> \in Seq(Int) /\ Len(<<k>>) >= 1
    OBVIOUS
  <2> QED
    BY <2>1, <2>2, <2>3
<1>2. ASSUME NEW k \in Nat, k >= 10, NEW p \in Nat, p = k \div 10, Good(p) PROVE Good(k)
  <2>1. PICK d \in Int : d = k % 10
    OBVIOUS
  <2>2. PICK s \in Seq(Int) : s = Digits[p] /\ Len(s) >= 1 /\ Unsigned(s) = p
    BY <1>2
  <2>3. Digits[k] = Append(s, d)
    <3>1. ~(k < 10)
      BY <1>2
    <3>2. Digits[k] = Append(Digits[k \div 10], k % 10)
      BY <3>1, DigitsIs, Zenon
    <3> QED
      BY <1>2, <2>1, <2>2, <3>2
  <2>4. Unsigned(Append(s, d)) = 10 * p + d
    BY <2>2, UnsignedAppend
  <2>5. 10 * p + d = k
    BY <1>2, <2>1
  <2>6. Append(s, d) \in Seq(Int) /\ Len(Append(s, d)) >= 1
    BY <2>2
  <2> QED
    BY <2>3, <2>4, <2>5, <2>6
<1> DEFINE S == {m \in 0 .. n : \A k \in 0 .. m : Good(k)}
<1>3. 0 \in S
  <2>1. Good(0)
    BY <1>1
  <2>2. \A k \in 0 .. 0 : k = 0
    OBVIOUS
  <2> HIDE DEF Good
  <2> QED
    BY <2>1, <2>2
<1>4. ASSUME NEW m \in 0 .. n - 1, m \in S PROVE m + 1 \in S
  <2> HIDE DEF Good
  <2>1. PICK k \in Nat : k = m + 1 /\ k \in 0 .. n
    OBVIOUS
  <2>2. Good(k)
    <3>1. CASE k < 10
      BY <1>1, <3>1
    <3>2. CASE k >= 10
      <4>1. PICK p \in 0 .. m : p = k \div 10
        BY <2>1, <3>2
      <4>2. p \in Nat /\ Good(p)
        BY <1>4
      <4> QED
        BY <1>2, <3>2, <4>1, <4>2
    <3> QED
      BY <3>1, <3>2
  <2>3. \A i \in 0 .. k : i \in 0 .. m \/ i = k
    BY <2>1
  <2> QED
    BY <1>4, <2>1, <2>2, <2>3
<1>5. n \in S
  <2> HIDE DEF S
  <2>1. 0 .. n \subseteq S
    BY <1>3, <1>4, Induct, Zenon
  <2> QED
    BY <2>1
<1> QED
  BY <1>5

\* A text stands for a number with so many digits after its point.
StandsFor(text, n, scale) ==
    /\ Number(text) = n
    /\ text.whole # <<>>
    /\ Len(text.frac) = IF scale > 0 THEN scale ELSE 0

LEMMA MagnitudeIs ==
    ASSUME NEW n \in Int
    PROVE  Magnitude(n) \in Nat /\ n = IF n < 0 THEN -Magnitude(n) ELSE Magnitude(n)
  BY DEF Magnitude

LEMMA NumberOfText == ASSUME NEW n \in Int PROVE StandsFor(Text(n), n, 0)
<1>1. PICK m \in Nat : m = Magnitude(n) /\ n = IF n < 0 THEN -m ELSE m
  BY MagnitudeIs
<1>2. PICK s \in Seq(Int) : s = Digits[m] /\ Len(s) >= 1 /\ Unsigned(s) = m
  BY DigitsNumber
<1>3. PICK text : text = Text(n)
  OBVIOUS
<1>4. text.whole = s /\ text.frac = <<>> /\ text.neg = (n < 0)
  BY <1>1, <1>2, <1>3 DEF Text
<1>5. s \o <<>> = s /\ s # <<>> /\ Len(<<>>) = 0
  BY <1>2
<1>6. Number(text) = IF n < 0 THEN -m ELSE m
  BY <1>2, <1>4, <1>5 DEF Number
<1>7. StandsFor(text, n, 0)
  BY <1>1, <1>4, <1>5, <1>6 DEF StandsFor
<1> QED
  BY <1>3, <1>7

LEMMA Halves ==
    ASSUME NEW s \in Seq(Int), NEW p \in 1 .. Len(s)
    PROVE  /\ SubSeq(s, 1, p) # <<>> /\ Len(SubSeq(s, p + 1, Len(s))) = Len(s) - p
           /\ SubSeq(s, 1, p) \o SubSeq(s, p + 1, Len(s)) = s
<1>1. \A i \in 1 .. p : s[i] \in Int
  OBVIOUS
<1>2. Len(SubSeq(s, 1, p)) = p /\ SubSeq(s, 1, p) \in Seq(Int)
  <2>1. p \in Int /\ 1 \in Int /\ 1 <= p /\ p - 1 + 1 = p
    OBVIOUS
  <2> QED
    BY <1>1, <2>1, SubSeqProperties
<1>3. SubSeq(s, 1, p) # <<>>
  BY <1>2
<1>4. PICK m \in Int, n \in Int : m = p + 1 /\ n = Len(s) /\ \A i \in m .. n : s[i] \in Int
  OBVIOUS
<1>5. Len(SubSeq(s, m, n)) = IF m <= n THEN n - m + 1 ELSE 0
  BY <1>4, SubSeqProperties
<1>6. Len(SubSeq(s, m, n)) = n - p
  BY <1>4, <1>5
<1>7. SubSeq(s, 1, p) \o SubSeq(s, p + 1, Len(s)) = SubSeq(s, 1, Len(s))
  <2>1. 1 \in 1 .. Len(s) + 1 /\ p \in 1 - 1 .. Len(s) /\ Len(s) \in p .. Len(s)
    OBVIOUS
  <2> QED
    BY <2>1, ConcatAdjacentSubSeq
<1>8. SubSeq(s, 1, Len(s)) = s
  BY SubSeqFull
<1> QED
  BY <1>3, <1>4, <1>6, <1>7, <1>8

LEMMA NumberOfDecimal ==
    ASSUME NEW n \in Int, NEW scale \in Int
    PROVE  StandsFor(FormatDecimal(n, scale),
                     IF scale < 0 THEN n * PowerOfTen[-scale] ELSE n, scale)
<1>1. PICK m \in Nat : m = Magnitude(n) /\ n = IF n < 0 THEN -m ELSE m
  BY MagnitudeIs
<1>2. PICK s \in Seq(Int) : s = Digits[m] /\ Len(s) >= 1 /\ Unsigned(s) = m
  BY DigitsNumber
<1>3. PICK text : text = FormatDecimal(n, scale)
  OBVIOUS
<1>4. CASE scale <= 0
  <2>1. PICK k \in Nat : k = -scale
    BY <1>4
  <2>2. PICK z \in Seq(Int) : z = s \o Zeros(k) /\ Unsigned(z) = m * PowerOfTen[k]
    <3>1. s \o Zeros(k) \in Seq(Int) /\ Unsigned(s \o Zeros(k)) = m * PowerOfTen[k]
      BY <1>2, ZerosBehind
    <3> QED
      BY <3>1, Zenon
  <2>3. text.whole = z /\ text.frac = <<>> /\ text.neg = (n < 0)
    BY <1>1, <1>2, <1>3, <1>4, <2>1, <2>2 DEF FormatDecimal, Text
  <2>4. z \o <<>> = z /\ Len(<<>>) = 0
    OBVIOUS
  <2>5. z # <<>>
    <3>1. Zeros(k) \in Seq(Int)
      BY DEF Zeros
    <3> QED
      BY <1>2, <2>2, <3>1
  <2>6. PICK p \in Int : p = PowerOfTen[k] /\ (k = 0 => p = 1)
    <3>1. PowerOfTen[k] \in Int /\ (k = 0 => PowerOfTen[k] = 1)
      BY PowerOfTenIs
    <3> QED
      BY <3>1
  <2>7. Number(text) = IF n < 0 THEN -(m * p) ELSE m * p
    BY <2>2, <2>3, <2>4, <2>6 DEF Number
  <2>8. Number(text) = n * p
    <3>1. CASE n < 0
      <4>1. (-m) * p = -(m * p)
        OBVIOUS
      <4> QED
        BY <1>1, <2>7, <3>1, <4>1
    <3>2. CASE n >= 0
      BY <1>1, <2>7, <3>2
    <3> QED
      BY <3>1, <3>2
  <2>9. n * p = IF scale < 0 THEN n * PowerOfTen[-scale] ELSE n
    <3>1. CASE scale < 0
      BY <2>1, <2>6, <3>1
    <3>2. CASE scale >= 0
      <4>1. p = 1
        <5>1. k = 0
          BY <2>1, <3>2
        <5> QED
          BY <2>6, <5>1
      <4>2. n * 1 = n
        OBVIOUS
      <4> QED
        BY <3>2, <4>1, <4>2
    <3> QED
      BY <1>4, <3>1, <3>2
  <2> QED
    BY <1>3, <1>4, <2>3, <2>4, <2>5, <2>8, <2>9 DEF StandsFor
<1>5. CASE scale > 0
  <2>1. PICK padded \in Seq(Int) :
           /\ padded = IF Len(s) <= scale THEN Zeros(scale + 1 - Len(s)) \o s ELSE s
           /\ Len(padded) > scale
           /\ Unsigned(padded) = m
    <3>1. CASE Len(s) <= scale
      <4>1. PICK k \in Nat : k = scale + 1 - Len(s)
        <5>1. PICK l \in Nat : l = Len(s)
          OBVIOUS
        <5>2. scale + 1 - l \in Nat
          BY <3>1, <5>1
        <5> QED
          BY <5>1, <5>2
      <4>2. Zeros(k) \o s \in Seq(Int) /\ Len(Zeros(k) \o s) = k + Len(s) /\ Unsigned(Zeros(k) \o s) = m
        BY <1>2, ZerosInFront
      <4>3. k + Len(s) > scale
        BY <4>1
      <4>4. PICK u \in Seq(Int) : u = Zeros(k) \o s /\ Len(u) > scale /\ Unsigned(u) = m
        BY <4>2, <4>3
      <4>5. u = IF Len(s) <= scale THEN Zeros(scale + 1 - Len(s)) \o s ELSE s
        BY <3>1, <4>1, <4>4
      <4> QED
        BY <4>4, <4>5
    <3>2. CASE ~(Len(s) <= scale)
      <4>1. Len(s) > scale
        BY <3>2
      <4>2. s = IF Len(s) <= scale THEN Zeros(scale + 1 - Len(s)) \o s ELSE s
        BY <3>2
      <4> QED
        BY <1>2, <4>1, <4>2
    <3> QED
      BY <3>1, <3>2
  <2>2. PICK point \in 1 .. Len(padded) : point = Len(padded) - scale /\ Len(padded) - point = scale
    <3>1. PICK l \in Nat : l = Len(padded) /\ l > scale
      BY <2>1
    <3>2. l - scale \in 1 .. l /\ l - (l - scale) = scale
      BY <1>5, <3>1
    <3> QED
      BY <3>1, <3>2
  <2>3. /\ text.whole = SubSeq(padded, 1, point)
        /\ text.frac = SubSeq(padded, point + 1, Len(padded))
        /\ text.neg = (n < 0)
    <3>1. ~(scale <= 0)
      BY <1>5
    <3>2. padded = IF Len(Digits[Magnitude(n)]) <= scale
                   THEN Zeros(scale + 1 - Len(Digits[Magnitude(n)])) \o Digits[Magnitude(n)]
                   ELSE Digits[Magnitude(n)]
      BY <1>1, <1>2, <2>1
    <3> QED
      BY <1>3, <2>2, <3>1, <3>2 DEF FormatDecimal
  <2>4. text.whole # <<>> /\ Len(text.frac) = scale /\ text.whole \o text.frac = padded
    BY <2>2, <2>3, Halves
  <2>5. Number(text) = IF n < 0 THEN -m ELSE m
    BY <2>1, <2>3, <2>4 DEF Number
  <2>6. Number(text) = n /\ ~(scale < 0)
    BY <1>1, <1>5, <2>5
  <2> QED
    BY <1>3, <1>5, <2>4, <2>6 DEF StandsFor
<1> QED
  BY <1>4, <1>5

-----------------------------------------------------------------------------
(* The number a scan shows for a cell that has an extremum.                *)

LEMMA TimesKeeps ==
    ASSUME NEW a \in Int, NEW b \in Int, a <= b, NEW k \in Nat
    PROVE  a * k <= b * k
<1>1. PICK c \in Nat : c = b - a
  OBVIOUS
<1>2. c * k >= 0 /\ b = a + c
  BY <1>1
<1>3. (a + c) * k = a * k + c * k
  OBVIOUS
<1> QED
  BY <1>2, <1>3

LEMMA DivKeeps ==
    ASSUME NEW a \in Int, NEW b \in Int, a <= b, NEW k \in Nat \ {0}
    PROVE  a \div k \in Int /\ b \div k \in Int /\ a \div k <= b \div k
<1>1. PICK p \in Int : p = a \div k /\ p * k <= a /\ a < (p + 1) * k
  OBVIOUS
<1>2. PICK q \in Int : q = b \div k /\ q * k <= b /\ b < (q + 1) * k
  OBVIOUS
<1>3. ASSUME q < p PROVE FALSE
  <2>1. q + 1 \in Int /\ q + 1 <= p
    BY <1>3
  <2>2. (q + 1) * k <= p * k
    BY <2>1, TimesKeeps
  <2> QED
    BY <1>1, <1>2, <2>2
<1> QED
  BY <1>1, <1>2, <1>3

LEMMA MicrosKeep ==
    ASSUME NEW unit \in {"s", "ms", "us", "ns"}, NEW a \in Int, NEW b \in Int, a <= b
    PROVE  TrueMicros(unit, a) <= TrueMicros(unit, b)
<1>1. Second \in Nat /\ Milli \in Nat /\ Micro \in Nat \ {0}
  BY TimeAssumption
<1>2. CASE unit = "s"
  BY <1>1, <1>2, TimesKeeps DEF TrueMicros
<1>3. CASE unit = "ms"
  BY <1>1, <1>3, TimesKeeps DEF TrueMicros
<1>4. CASE unit = "us"
  BY <1>4 DEF TrueMicros
<1>5. CASE unit = "ns"
  <2>1. TrueMicros(unit, a) = Quotient(a, Micro) /\ TrueMicros(unit, b) = Quotient(b, Micro)
    BY <1>5 DEF TrueMicros
  <2>2. \A n \in Nat : n \div Micro \in Nat
    BY <1>1
  <2>3. CASE a >= 0
    <3>1. a \div Micro <= b \div Micro
      BY <1>1, DivKeeps
    <3> QED
      BY <2>1, <2>3, <3>1 DEF Quotient
  <2>4. CASE a < 0 /\ b >= 0
    <3>1. PICK n \in Nat : n = -a
      BY <2>4
    <3>2. n \div Micro \in Nat /\ b \div Micro \in Nat
      BY <2>2, <2>4
    <3>3. Quotient(a, Micro) = -(n \div Micro) /\ Quotient(b, Micro) = b \div Micro
      BY <2>4, <3>1 DEF Quotient
    <3> QED
      BY <2>1, <3>2, <3>3
  <2>5. CASE a < 0 /\ b < 0
    <3>1. PICK n \in Int, m \in Int : n = -a /\ m = -b /\ m <= n
      BY <2>5
    <3>2. m \div Micro \in Int /\ n \div Micro \in Int /\ m \div Micro <= n \div Micro
      BY <1>1, <3>1, DivKeeps
    <3>3. Quotient(a, Micro) = -(n \div Micro) /\ Quotient(b, Micro) = -(m \div Micro)
      BY <2>5, <3>1 DEF Quotient
    <3> QED
      BY <2>1, <3>2, <3>3
  <2> QED
    BY <2>3, <2>4, <2>5
<1> QED
  BY <1>2, <1>3, <1>4, <1>5

LEMMA InRangeUnix ==
    ASSUME NEW unit \in {"s", "ms", "us", "ns"}, NEW n \in Int, InRange(unit, n)
    PROVE  UnixMicros(unit, n) = TrueMicros(unit, n) /\ UnixMicros(unit, n) \in Int
<1>1. Max64 \in Nat /\ Epoch \in 0 .. Max64
  BY TimeAssumption
<1>2. PICK m \in Int : m = TrueMicros(unit, n) /\ Min64 <= m /\ m <= Max64
  BY <1>1 DEF InRange, Min64
<1>3. Saturated(m) = m
  BY <1>1, <1>2 DEF Saturated, Min64
<1>4. UnixMicros(unit, n) = m
  BY <1>2, <1>3 DEF UnixMicros, TrueMicros
<1> QED
  BY <1>2, <1>4

\* The number read for the number of a cell.
Reading(t, n) ==
    CASE t.k = "Timestamp" -> UnixMicros(t.unit, n) - Epoch
      [] t.k = "Date64" -> n \div Day
      [] OTHER -> n

\* Where the helper promises something: a number, a timestamp in range, and
\* a date from the year 1 on.
Plain(t, n) ==
    /\ n \in NumbersOf(t) /\ n # NaN
    /\ t.k = "Timestamp" => InRange(t.unit, n)
    /\ t.k = "Date32" => n >= YearOne
    /\ t.k = "Date64" => n \div Day >= YearOne

LEMMA PlainNumber ==
    ASSUME NEW t \in Types, NEW n, Plain(t, n)
    PROVE  n \in Int /\ n \in NumbersOf(t)
<1>1. n \in {NaN} \union Int
  BY WholeNumbers DEF Plain, Numbers
<1> QED
  BY <1>1 DEF Plain

LEMMA TimestampUnit ==
    ASSUME NEW t \in Types, t.k = "Timestamp"
    PROVE  t.unit \in {"s", "ms", "us", "ns"}
  BY TypeParts DEF Shaped

LEMMA ReadingKeeps ==
    ASSUME NEW t \in Types, NEW a, NEW b, Plain(t, a), Plain(t, b), a <= b
    PROVE  Reading(t, a) \in Int /\ Reading(t, b) \in Int /\ Reading(t, a) <= Reading(t, b)
<1>1. a \in Int /\ b \in Int
  BY PlainNumber
<1>2. CASE t.k = "Timestamp"
  <2>1. PICK unit \in {"s", "ms", "us", "ns"} : unit = t.unit
    BY <1>2, TimestampUnit
  <2>2. InRange(unit, a) /\ InRange(unit, b)
    BY <1>2, <2>1 DEF Plain
  <2>3. UnixMicros(unit, a) = TrueMicros(unit, a) /\ UnixMicros(unit, a) \in Int
    BY <1>1, <2>2, InRangeUnix
  <2>4. UnixMicros(unit, b) = TrueMicros(unit, b) /\ UnixMicros(unit, b) \in Int
    BY <1>1, <2>2, InRangeUnix
  <2>5. TrueMicros(unit, a) <= TrueMicros(unit, b)
    BY <1>1, MicrosKeep
  <2>6. Reading(t, a) = UnixMicros(unit, a) - Epoch /\ Reading(t, b) = UnixMicros(unit, b) - Epoch
    BY <1>2, <2>1 DEF Reading
  <2>7. Epoch \in Int
    BY TimeAssumption
  <2> QED
    BY <2>3, <2>4, <2>5, <2>6, <2>7
<1>3. CASE t.k = "Date64"
  <2>1. Reading(t, a) = a \div Day /\ Reading(t, b) = b \div Day
    BY <1>3 DEF Reading
  <2>2. Day \in Nat \ {0}
    BY DayAssumption
  <2> QED
    BY <1>1, <2>1, <2>2, DivKeeps
<1>4. CASE t.k \notin {"Timestamp", "Date64"}
  <2>1. Reading(t, a) = a /\ Reading(t, b) = b
    BY <1>4 DEF Reading
  <2> QED
    BY <1>1, <2>1
<1> QED
  BY <1>2, <1>3, <1>4

\* A datum that shows it.
ShowsNumber(t, n, d) == d # NullDatum /\ d.n = Reading(t, n)

LEMMA OkNumber ==
    ASSUME NEW k \in PgBases, NEW n, NEW s, NEW r, r = Ok(Scaled(k, n, s))
    PROVE  r.d # NullDatum /\ r.d.n = n
<1>1. PICK d : d = Scaled(k, n, s)
  OBVIOUS
<1>2. d.k = k /\ d.n = n
  BY <1>1, ScaledDatum
<1>3. NullDatum.k = "null"
  BY DEF NullDatum, Datum
<1>4. "null" \notin PgBases
  BY DEF PgBases
<1>5. r.d = d
  BY <1>1, ResultParts
<1> QED
  BY <1>2, <1>3, <1>4, <1>5

LEMMA NumberShown ==
    ASSUME NEW t \in Types, HasExtremum(t), NEW n, Plain(t, n), NEW checked_ \in BOOLEAN,
           ToScalar(t, n, checked_).err = "none"
    PROVE  ShowsNumber(t, n, ToScalar(t, n, checked_).d)
<1>1. PICK r : r = ToScalar(t, n, checked_) /\ r.err = "none"
  OBVIOUS
<1>2. \A e : Fails(e).err = e
  BY ResultParts
<1>3. \A k, m : Datum(k, m) = Scaled(k, m, 0)
  BY ScaledDatum
<1>4. Required(t) \in PgBases
  BY RequiredTyped
<1>5. ASSUME NEW k \in PgBases, NEW m, r = Ok(Datum(k, m)), m = Reading(t, n)
      PROVE  ShowsNumber(t, n, r.d)
  <2>1. r = Ok(Scaled(k, m, 0))
    BY <1>3, <1>5
  <2>2. r.d # NullDatum /\ r.d.n = m
    BY <2>1, OkNumber
  <2> QED
    BY <1>5, <2>2 DEF ShowsNumber
<1>6. CASE t.k \in Integer
  <2>1. r = Fails("range") \/ r = Ok(Datum(Required(t), n))
    BY <1>1, <1>6 DEF ToScalar, ToInteger, Integer, Required
  <2>2. n = Reading(t, n)
    BY <1>6 DEF Reading, Integer
  <2> QED
    BY <1>1, <1>2, <1>4, <1>5, <2>1, <2>2
<1>7. "date" \in PgBases /\ "numeric" \in PgBases
  BY DEF PgBases
<1>8. ASSUME NEW m \in Int, m >= YearOne, r = ToDate(m) PROVE r = Ok(Datum("date", m))
  <2>1. \/ r = Fails("range") \/ r = Fails("internal")
        \/ \E e \in Int : r = Ok(Datum("date", e)) /\ SameDate(m, e)
    BY <1>8, ToDateIs
  <2>2. ASSUME NEW e, SameDate(m, e) PROVE e = m
    BY <1>8, <2>2 DEF SameDate
  <2> QED
    BY <1>1, <1>2, <2>1, <2>2
<1>9. CASE t.k = "Date32"
  <2>1. r = ToDate(n)
    BY <1>1, <1>9 DEF ToScalar, Integer, Required
  <2>2. n = Reading(t, n)
    BY <1>9 DEF Reading
  <2>3. n \in Int /\ n >= YearOne
    BY <1>9, PlainNumber DEF Plain
  <2>4. r = Ok(Datum("date", n))
    BY <1>8, <2>1, <2>3
  <2> QED
    BY <1>1, <1>5, <1>7, <2>2, <2>4
<1>10. CASE t.k = "Date64"
  <2>1. PICK m : m = n \div Day
    OBVIOUS
  <2>2. r = ToDate(m)
    BY <1>1, <1>10, <2>1 DEF ToScalar, Integer, Required
  <2>3. m = Reading(t, n)
    BY <1>10, <2>1 DEF Reading
  <2>4. m \in Int
    BY <2>1, PlainNumber, WholeDays
  <2>5. m >= YearOne
    BY <1>10, <2>1 DEF Plain
  <2>6. r = Ok(Datum("date", m))
    BY <1>8, <2>2, <2>4, <2>5
  <2> QED
    BY <1>1, <1>5, <1>7, <2>3, <2>6
<1>11. CASE t.k = "Decimal128"
  <2>1. r = Ok(Scaled("numeric", n, t.scale))
    BY <1>1, <1>11 DEF ToScalar, ToDecimal, Integer, Required, Scaled
  <2>2. r.d # NullDatum /\ r.d.n = n
    BY <1>7, <2>1, OkNumber
  <2>3. n = Reading(t, n)
    BY <1>11 DEF Reading
  <2> QED
    BY <1>1, <2>2, <2>3 DEF ShowsNumber
<1>12. CASE t.k = "Timestamp"
  <2>1. PICK unit \in {"s", "ms", "us", "ns"} : unit = t.unit
    BY <1>12, TimestampUnit
  <2>2. n \in I64 /\ InRange(unit, n)
    BY <1>12, <2>1 DEF Plain, NumbersOf, Integer, Float
  <2>3. n \in Int
    BY PlainNumber
  <2>4. PICK m : m = PgMicros(UnixMicros(unit, n))
    OBVIOUS
  <2>5. r = ToTimestamp(t, n, checked_)
    BY <1>1, <1>12 DEF ToScalar, Integer, Required
  <2>6. r = Fails("panic") \/ r = Fails("range") \/ r = Ok(Datum(Required(t), m))
    BY <2>1, <2>4, <2>5 DEF ToTimestamp
  <2>7. m = TrueMicros(unit, n) - Epoch
    BY <2>2, <2>4, InRangeIsExact
  <2>8. UnixMicros(unit, n) = TrueMicros(unit, n)
    BY <2>2, <2>3, InRangeUnix
  <2>9. m = Reading(t, n)
    BY <1>12, <2>1, <2>7, <2>8 DEF Reading
  <2> QED
    BY <1>1, <1>2, <1>4, <1>5, <2>6, <2>9
<1>13. CASE t.k \in {"Float32", "Float64"}
  <2>1. r = ToPlain(t, n)
    BY <1>1, <1>13 DEF ToScalar, Integer, Required
  <2>2. r = Ok(Datum(Required(t), n))
    BY <2>1 DEF ToPlain
  <2>3. n = Reading(t, n)
    BY <1>13 DEF Reading
  <2> QED
    BY <1>1, <1>4, <1>5, <2>2, <2>3
<1> QED
  BY <1>1, <1>6, <1>9, <1>10, <1>11, <1>12, <1>13 DEF HasExtremum

\* The text the helper makes of a number stands for the number shown.
LEMMA FormatStands ==
    ASSUME NEW t \in Types, HasExtremum(t), NEW n, Plain(t, n), NEW d, ShowsNumber(t, n, d)
    PROVE  StandsFor(Format(t, n), Compared(t, d), t.scale)
<1>1. n \in Int /\ t.scale \in Int
  BY PlainNumber, TypeParts
<1>2. t.k # "Decimal128" => t.scale = 0
  BY TypeParts DEF HasExtremum, Shaped, Integer
<1>3. d.n = Reading(t, n)
  BY DEF ShowsNumber
<1>4. CASE t.k = "Decimal128"
  <2>1. d.n = n /\ Format(t, n) = FormatDecimal(n, t.scale)
    BY <1>3, <1>4 DEF Reading, Format
  <2>2. Compared(t, d) = IF t.scale < 0 THEN n * PowerOfTen[-t.scale] ELSE n
    BY <1>4, <2>1 DEF Compared
  <2> QED
    BY <1>1, <2>1, <2>2, NumberOfDecimal
<1>5. ASSUME NEW m \in Int, Format(t, n) = Text(m), Compared(t, d) = m, t.k # "Decimal128"
      PROVE  StandsFor(Format(t, n), Compared(t, d), t.scale)
  BY <1>2, <1>5, NumberOfText
<1>6. CASE t.k = "Timestamp"
  <2>1. PICK unit \in {"s", "ms", "us", "ns"} : unit = t.unit
    BY <1>6, TimestampUnit
  <2>2. PICK m \in Int : m = UnixMicros(unit, n)
    BY <1>1, MicrosTyped
  <2>3. Format(t, n) = Text(m)
    BY <1>6, <2>1, <2>2 DEF Format, Instant
  <2>4. d.n = m - Epoch /\ Epoch \in Int
    BY <1>3, <1>6, <2>1, <2>2, TimeAssumption DEF Reading
  <2>5. Compared(t, d) = m
    BY <1>6, <2>4 DEF Compared
  <2> QED
    BY <1>5, <1>6, <2>3, <2>5
<1>7. CASE t.k = "Date64"
  <2>1. PICK m \in Int : m = n \div Day
    BY <1>1, WholeDays
  <2>2. Format(t, n) = Text(m) /\ Compared(t, d) = m
    BY <1>3, <1>7, <2>1 DEF Format, Instant, Compared, Reading
  <2> QED
    BY <1>5, <1>7, <2>2
<1>8. CASE t.k \notin {"Decimal128", "Timestamp", "Date64"}
  <2>1. Compared(t, d) = n
    BY <1>3, <1>8 DEF Compared, Reading
  <2>2. Format(t, n) = Text(n)
    BY <1>8 DEF Format, Instant
  <2> QED
    BY <1>1, <1>5, <1>8, <2>1, <2>2
<1> QED
  BY <1>4, <1>6, <1>7, <1>8

-----------------------------------------------------------------------------
(* The answer, beside the scan.                                            *)

Asking == Answer(TypeOf(data.schema[answer.col]),
                 [i \in DOMAIN data.rows |-> data.rows[i][answer.col]], answer.op)

\* An answer is the dataset's that is there, and a scan that is done has
\* shown every row.
Answered ==
    /\ answer.st = "given" =>
         /\ answer.op \in Extrema /\ answer.col \in DOMAIN data.schema
         /\ answer.ok = Asking.ok /\ answer.text = Asking.text
    /\ scan.st = "done" => Len(scan.out) = Len(data.rows)

LEMMA AnsweredInit == Init => Answered
<1> SUFFICES ASSUME Init PROVE Answered
  OBVIOUS
<1>1. answer.st = "none" /\ scan.st = "idle"
  BY DEF Init, NoAnswer, NoScan
<1> QED
  BY <1>1 DEF Answered

LEMMA AnsweredHolds == IInv /\ Answered /\ [Next]_vars => Answered'
<1> SUFFICES ASSUME IInv, Answered, [Next]_vars PROVE Answered'
  OBVIOUS
<1>1. NoAnswer.st # "given" /\ NoScan.st # "done"
  BY DEF NoAnswer, NoScan
<1>2. ASSUME answer' = NoAnswer, scan'.st # "done" PROVE Answered'
  BY <1>1, <1>2 DEF Answered
<1>3. ASSUME NEW d \in Datasets, Replace(d) PROVE Answered'
  BY <1>2, <1>3 DEF Replace, Idle
<1>4. ASSUME NEW q \in Queries, Write(q) \/ Merge(q) PROVE Answered'
  BY <1>2, <1>4 DEF Write, Merge, Idle
<1>5. CASE Import
  BY <1>2, <1>5 DEF Import, Idle
<1>6. ASSUME NEW cols \in Declarations, Declare(cols) PROVE Answered'
  BY <1>2, <1>6 DEF Declare, Idle
<1>7. CASE DropTable
  BY <1>2, <1>7 DEF DropTable, Idle
<1>8. CASE Begin
  <2>1. scan'.st \in {"open", "refused"}
    BY <1>8 DEF Begin, NoScan
  <2> QED
    BY <1>2, <1>8, <2>1 DEF Begin
<1>9. CASE Iterate
  <2>1. answer' = NoAnswer /\ data' = data
    BY <1>9 DEF Iterate
  <2>2. CASE Len(scan.out) = Len(data.rows)
    <3>1. scan'.out = scan.out
      <4>1. scan' = [scan EXCEPT !.st = "done"]
        BY <1>9, <2>2 DEF Iterate
      <4> QED
        BY <4>1
    <3> QED
      BY <1>1, <2>1, <2>2, <3>1 DEF Answered
  <2>3. CASE Len(scan.out) # Len(data.rows)
    <3>1. scan.st = "open"
      BY <1>9 DEF Iterate
    <3>2. scan'.st # "done"
      <4>1. PICK r : r = Converted(data.rows[Len(scan.out) + 1])
        OBVIOUS
      <4>2. \/ scan' = [scan EXCEPT !.out = Append(@, r.d.sub)]
            \/ scan' = [scan EXCEPT !.st = "failed", !.err = r.err]
        BY <1>9, <2>3, <4>1 DEF Iterate
      <4>3. CASE scan' = [scan EXCEPT !.out = Append(@, r.d.sub)]
        <5>1. scan'.st = scan.st
          BY <4>3
        <5> QED
          BY <3>1, <5>1
      <4>4. CASE scan' = [scan EXCEPT !.st = "failed", !.err = r.err]
        <5>1. scan'.st = "failed"
          BY <3>1, <4>4
        <5> QED
          BY <5>1
      <4> QED
        BY <4>2, <4>3, <4>4
    <3> QED
      BY <1>2, <2>1, <3>2
  <2> QED
    BY <2>2, <2>3
<1>10. CASE EndScan
  BY <1>1, <1>2, <1>10 DEF EndScan
<1>11. ASSUME NEW op \in Extrema, NEW col \in DOMAIN data.schema, Ask(op, col) PROVE Answered'
  <2>1. UNCHANGED <<data, scan>>
    BY <1>11 DEF Ask
  <2>2. PICK a : a = Answer(TypeOf(data.schema[col]), [i \in DOMAIN data.rows |-> data.rows[i][col]], op)
    OBVIOUS
  <2>3. answer' = [st |-> "given", op |-> op, col |-> col, ok |-> a.ok, text |-> a.text]
    BY <1>11, <2>2 DEF Ask
  <2>4. answer'.op = op /\ answer'.col = col /\ answer'.ok = a.ok /\ answer'.text = a.text
    BY <2>3
  <2>5. Asking' = a
    BY <2>1, <2>2, <2>4 DEF Asking
  <2> QED
    BY <1>11, <2>1, <2>4, <2>5 DEF Answered
<1>12. CASE UNCHANGED vars
  BY <1>12 DEF vars, Answered, Asking
<1> QED
  BY <1>3, <1>4, <1>5, <1>6, <1>7, <1>8, <1>9, <1>10, <1>11, <1>12 DEF Next

\* What the helper answers about the cells of a column.
AnswerOf(t, cells, op, n, a) ==
    \/ ~HasExtremum(t) /\ a.ok = FALSE /\ a.text = <<>>
    \/ /\ HasExtremum(t) /\ a.ok = TRUE /\ a.text = <<>>
       /\ \A i \in 1 .. n : Skipped(cells[i])
    \/ \E k \in 1 .. n :
         /\ HasExtremum(t) /\ ~Skipped(cells[k])
         /\ \A i \in 1 .. n : Skipped(cells[i]) \/ Before(op, cells[k].n, cells[i].n)
         /\ \/ ~Formattable(t, cells[k].n) /\ a.ok = FALSE
            \/ a.ok = TRUE /\ a.text = <<Format(t, cells[k].n)>>

LEMMA AnswerIs ==
    ASSUME NEW op \in Extrema, NEW n \in Nat, NEW cells, DOMAIN cells = 1 .. n,
           \A i \in 1 .. n : cells[i] \in Cells, NEW t, NEW a, a = Answer(t, cells, op)
    PROVE  AnswerOf(t, cells, op, n, a)
<1>1. PICK found : found = Extremum(cells, op)
  OBVIOUS
<1>2. Extreme(found, cells, op, n)
  BY <1>1, ExtremumIs
<1>3. a = IF ~HasExtremum(t) THEN [ok |-> FALSE, text |-> <<>>]
          ELSE IF found = <<>> THEN [ok |-> TRUE, text |-> <<>>]
          ELSE IF ~Formattable(t, found[1]) THEN [ok |-> FALSE, text |-> <<>>]
          ELSE [ok |-> TRUE, text |-> <<Format(t, found[1])>>]
  BY <1>1 DEF Answer
<1>4. CASE ~HasExtremum(t)
  <2>1. a = [ok |-> FALSE, text |-> <<>>]
    BY <1>3, <1>4
  <2> QED
    BY <1>4, <2>1 DEF AnswerOf
<1>5. CASE HasExtremum(t) /\ found = <<>>
  <2>1. a = [ok |-> TRUE, text |-> <<>>]
    BY <1>3, <1>5
  <2>2. \A i \in 1 .. n : Skipped(cells[i])
    BY <1>2, <1>5 DEF Extreme
  <2> QED
    BY <1>5, <2>1, <2>2 DEF AnswerOf
<1>6. CASE HasExtremum(t) /\ found # <<>>
  <2>1. PICK k \in 1 .. n : /\ ~Skipped(cells[k]) /\ found = <<cells[k].n>>
                            /\ \A i \in 1 .. n : Skipped(cells[i]) \/ Before(op, cells[k].n, cells[i].n)
    BY <1>2, <1>6 DEF Extreme
  <2>2. PICK m : m = cells[k].n
    OBVIOUS
  <2>3. found[1] = m
    BY <2>1, <2>2
  <2>4. CASE ~Formattable(t, m)
    <3>1. a = [ok |-> FALSE, text |-> <<>>]
      BY <1>3, <1>6, <2>3, <2>4
    <3>2. a.ok = FALSE
      BY <3>1
    <3> QED
      BY <1>6, <2>1, <2>2, <2>4, <3>2 DEF AnswerOf
  <2>5. CASE Formattable(t, m)
    <3>1. a = [ok |-> TRUE, text |-> <<Format(t, m)>>]
      BY <1>3, <1>6, <2>3, <2>5
    <3>2. a.ok = TRUE /\ a.text = <<Format(t, m)>>
      BY <3>1
    <3> QED
      BY <1>6, <2>1, <2>2, <3>2 DEF AnswerOf
  <2> QED
    BY <2>4, <2>5
<1> QED
  BY <1>4, <1>5, <1>6

\* What a scan has shown of a cell of a column that has an extremum.
ShowsCell(t, v, d) ==
    /\ v.null => d = NullDatum
    /\ ~v.null => v.n \in NumbersOf(t) /\ (Plain(t, v.n) => ShowsNumber(t, v.n, d))

LEMMA ColumnShown ==
    ASSUME IInv, NEW i \in 1 .. Len(scan.out), NEW j \in 1 .. Len(table.cols),
           NEW c \in 1 .. Len(data.schema), Column(NameOf(table.cols[j])) = c,
           HasExtremum(TypeOf(data.schema[c]))
    PROVE  ShowsCell(TypeOf(data.schema[c]), data.rows[i][c], scan.out[i][j])
<1>1. PICK t : t = TypeOf(data.schema[c]) /\ HasExtremum(t)
  OBVIOUS
<1>2. PICK v : v = data.rows[i][c]
  OBVIOUS
<1>3. PICK d : d = scan.out[i][j]
  OBVIOUS
<1>4. Tabled /\ Scanned /\ IsDataset(data) /\ catalog \in Catalogs /\ checked \in BOOLEAN
  BY DEF IInv, Stored, Cataloged
<1>5. /\ i \in 1 .. Len(data.rows)
      /\ ShownIn(data.rows[i], j).err = "none"
      /\ d = ShownIn(data.rows[i], j).d
  BY <1>3, Shown
<1>6. t \in Types /\ v \in Cells /\ Holds[t][v]
  BY <1>1, <1>2, <1>4, <1>5, DatasetParts
<1>7. PICK pg \in PgTypes : pg = TypeOf(table.cols[j])
  BY <1>4, TableParts
<1>8. PICK env : env = Env
  OBVIOUS
<1>9. env.checked = checked
  BY <1>8 DEF Env
<1>10. PICK r : r = ToDatum(env)[t][v][pg]
  OBVIOUS
<1>11. r.err = "none" /\ d = r.d
  <2>1. ShownIn(data.rows[i], j) = r
    BY <1>1, <1>2, <1>7, <1>8, <1>10 DEF ShownIn
  <2> QED
    BY <1>5, <2>1
<1>12. r = DatumOf(ToDatum(env), t, v, pg, env)
  BY <1>6, <1>10, ToDatumIs
<1>13. t.k \notin Lists \union {"Dictionary", "Struct"}
  BY <1>1 DEF HasExtremum, Lists, Integer
<1>14. ASSUME v.null PROVE d = NullDatum
  <2>1. r = Ok(NullDatum)
    BY <1>12, <1>14 DEF DatumOf
  <2> QED
    BY <1>11, <2>1, ResultParts
<1>15. ASSUME ~v.null PROVE v.n \in NumbersOf(t) /\ (Plain(t, v.n) => ShowsNumber(t, v.n, d))
  <2>1. MaxDepth \in 0 .. MaxDepth /\ v \in CellsTo[MaxDepth]
    BY <1>6, DepthAssumption DEF Cells
  <2>2. v.n \in NumbersOf(t)
    BY <1>6, <1>13, <1>15, <2>1, HeldInside
  <2>3. Fails("mismatch").err # "none"
    BY ResultParts
  <2>4. r = ToScalar(t, v.n, checked)
    BY <1>9, <1>11, <1>12, <1>13, <1>15, <2>3 DEF DatumOf
  <2>5. ASSUME Plain(t, v.n) PROVE ShowsNumber(t, v.n, d)
    <3>1. PICK n : n = v.n
      OBVIOUS
    <3>2. Plain(t, n) /\ ToScalar(t, n, checked).err = "none"
      BY <1>11, <2>4, <2>5, <3>1
    <3>3. ShowsNumber(t, n, ToScalar(t, n, checked).d)
      BY <1>1, <1>4, <1>6, <3>2, NumberShown
    <3> QED
      BY <1>11, <2>4, <3>1, <3>3
  <2> QED
    BY <2>2, <2>5
<1>16. ShowsCell(t, v, d)
  BY <1>14, <1>15 DEF ShowsCell
<1> QED
  BY <1>1, <1>2, <1>3, <1>16

(***************************************************************************)
(* lance_min and lance_max, which read the Arrow values themselves and     *)
(* write their own text, answer what min and max answer over the foreign   *)
(* table: the number of the text is that of the least or greatest datum a  *)
(* scan shows, with as many digits after the point as the decimal has, and *)
(* there is no text only where every datum is NULL.                        *)
(***************************************************************************)
THEOREM HelperAgrees == Spec => []HelperAgreesWithSelect
<1>1. ASSUME IInv, Answered, answer.st = "given" PROVE HelperAgreesWithSelect
  <2> DEFINE t == AskedType
  <2>1. Tabled /\ Scanned /\ IsDataset(data)
    BY <1>1 DEF IInv, Stored
  <2>2. PICK n \in Nat : n = Len(data.rows) /\ DOMAIN data.rows = 1 .. n
    BY <2>1, DatasetParts
  <2>3. PICK c \in 1 .. Len(data.schema) : c = answer.col
    BY <1>1, <2>1, DatasetParts DEF Answered
  <2>4. PICK op \in Extrema : op = answer.op
    BY <1>1 DEF Answered
  <2>5. t \in Types /\ t = TypeOf(data.schema[c])
    BY <2>1, <2>3, DatasetParts DEF AskedType
  <2> HIDE DEF t
  <2>6. PICK cells : cells = [i \in DOMAIN data.rows |-> data.rows[i][c]]
    OBVIOUS
  <2>7. DOMAIN cells = 1 .. n /\ \A i \in 1 .. n : cells[i] = data.rows[i][c] /\ cells[i] \in Cells
    BY <2>1, <2>2, <2>6, DatasetParts
  <2>8. PICK a : a = Answer(t, cells, op)
    OBVIOUS
  <2>9. answer.ok = a.ok /\ answer.text = a.text
    <3>1. Asking = a
      BY <2>3, <2>4, <2>5, <2>6, <2>8 DEF Asking
    <3> QED
      BY <1>1, <3>1 DEF Answered
  <2>10. AnswerOf(t, cells, op, n, a)
    BY <2>7, <2>8, AnswerIs
  <2>11. \A i \in 1 .. n : cells[i] \in AskedCells
    BY <2>2, <2>3, <2>7 DEF AskedCells
  <2>12. ASSUME ~answer.ok PROVE ~HasExtremum(t) \/ \E v \in AskedCells : ~v.null /\ ~Formattable(t, v.n)
    <3>1. SUFFICES ASSUME HasExtremum(t) PROVE \E v \in AskedCells : ~v.null /\ ~Formattable(t, v.n)
      OBVIOUS
    <3>2. PICK k \in 1 .. n : ~Skipped(cells[k]) /\ ~Formattable(t, cells[k].n)
      BY <2>9, <2>10, <2>12, <3>1 DEF AnswerOf
    <3> QED
      BY <2>11, <3>2 DEF Skipped
  <2>13. ASSUME answer.ok, scan.st = "done", AskedColumns # {}, Promised(t, AskedCells)
         PROVE  TextOfExtremum(answer.text, t, AskedDatums, answer.op)
    <3>1. PICK m \in Nat : m = Len(table.cols) /\ DOMAIN table.cols = 1 .. m
      BY <2>1, TableParts
    <3>2. DOMAIN scan.out = 1 .. n /\ Len(scan.out) = n
      BY <1>1, <2>1, <2>2, <2>13 DEF Answered, Scanned
    <3>3. HasExtremum(t)
      BY <2>9, <2>10, <2>13 DEF AnswerOf
    <3>4. ASSUME NEW i \in 1 .. n
          PROVE  Skipped(cells[i]) <=> cells[i].null
      <4>1. cells[i].n # NaN
        BY <2>11, <2>13 DEF Promised
      <4> QED
        BY <4>1 DEF Skipped
    <3>5. ASSUME NEW i \in 1 .. n, NEW j \in AskedColumns
          PROVE  /\ cells[i].null => scan.out[i][j] = NullDatum
                 /\ ~cells[i].null => /\ Plain(t, cells[i].n)
                                      /\ ShowsNumber(t, cells[i].n, scan.out[i][j])
      <4>1. j \in 1 .. m /\ Column(NameOf(table.cols[j])) = c
        BY <2>3, <3>1 DEF AskedColumns
      <4>2. PICK v : v = cells[i]
        OBVIOUS
      <4>3. PICK d : d = scan.out[i][j]
        OBVIOUS
      <4>4. i \in 1 .. Len(scan.out) /\ j \in 1 .. Len(table.cols) /\ v = data.rows[i][c]
        BY <2>7, <3>1, <3>2, <4>1, <4>2
      <4>5. /\ v.null => d = NullDatum
            /\ ~v.null => v.n \in NumbersOf(t) /\ (Plain(t, v.n) => ShowsNumber(t, v.n, d))
        <5>1. ShowsCell(TypeOf(data.schema[c]), data.rows[i][c], scan.out[i][j])
          BY <1>1, <2>5, <3>3, <4>1, <4>4, ColumnShown
        <5>2. ShowsCell(t, v, d)
          BY <2>5, <4>3, <4>4, <5>1
        <5> QED
          BY <5>2 DEF ShowsCell
      <4>6. /\ v.n # NaN
            /\ t.k = "Timestamp" => v.null \/ InRange(t.unit, v.n)
            /\ t.k = "Date32" => v.null \/ v.n >= YearOne
            /\ t.k = "Date64" => v.null \/ v.n \div Day >= YearOne
        BY <2>11, <2>13, <4>2 DEF Promised
      <4>7. ~v.null => Plain(t, v.n)
        BY <4>5, <4>6 DEF Plain
      <4> QED
        BY <4>2, <4>3, <4>5, <4>7
    <3>6. \A e \in AskedDatums : \E i \in 1 .. n, j \in AskedColumns : e = scan.out[i][j] /\ e # NullDatum
      BY <3>2 DEF AskedDatums
    <3>7. \A i \in 1 .. n, j \in AskedColumns : scan.out[i][j] # NullDatum => scan.out[i][j] \in AskedDatums
      BY <3>2 DEF AskedDatums
    <3>8. CASE answer.text = <<>>
      <4>1. \A i \in 1 .. n : Skipped(cells[i])
        BY <2>9, <2>10, <2>13, <3>8 DEF AnswerOf
      <4>2. AskedDatums = {}
        BY <3>4, <3>5, <3>6, <4>1
      <4> QED
        BY <3>8, <4>2 DEF TextOfExtremum
    <3>9. CASE answer.text # <<>>
      <4>1. PICK k \in 1 .. n :
              /\ ~Skipped(cells[k])
              /\ \A i \in 1 .. n : Skipped(cells[i]) \/ Before(op, cells[k].n, cells[i].n)
              /\ answer.text = <<Format(t, cells[k].n)>>
        BY <2>9, <2>10, <2>13, <3>9 DEF AnswerOf
      <4>2. PICK j \in AskedColumns : TRUE
        BY <2>13
      <4>3. PICK x : x = cells[k].n
        OBVIOUS
      <4>4. PICK d : d = scan.out[k][j]
        OBVIOUS
      <4>5. Plain(t, x) /\ ShowsNumber(t, x, d)
        BY <3>4, <3>5, <4>1, <4>3, <4>4
      <4>6. d \in AskedDatums
        BY <3>7, <4>4, <4>5 DEF ShowsNumber
      <4>7. ASSUME NEW e \in AskedDatums PROVE IF answer.op = "min" THEN d.n <= e.n ELSE d.n >= e.n
        <5>1. PICK i \in 1 .. n : \E l \in AskedColumns : e = scan.out[i][l] /\ e # NullDatum
          BY <3>6
        <5>2. PICK l \in AskedColumns : e = scan.out[i][l] /\ e # NullDatum
          BY <5>1
        <5>3. PICK y : y = cells[i].n
          OBVIOUS
        <5>4. ~cells[i].null /\ Plain(t, y) /\ ShowsNumber(t, y, e)
          BY <3>5, <5>2, <5>3
        <5>5. Before(op, x, y)
          BY <3>4, <4>1, <4>3, <5>3, <5>4
        <5>6. d.n = Reading(t, x) /\ e.n = Reading(t, y)
          BY <4>5, <5>4 DEF ShowsNumber
        <5>7. CASE op = "min"
          <6>1. x <= y
            BY <5>5, <5>7 DEF Before
          <6>2. Reading(t, x) <= Reading(t, y)
            BY <2>5, <4>5, <5>4, <6>1, ReadingKeeps
          <6> QED
            BY <2>4, <5>6, <5>7, <6>2
        <5>8. CASE op # "min"
          <6>1. x \in Int /\ y \in Int /\ x >= y
            BY <2>5, <4>5, <5>4, <5>5, <5>8, PlainNumber DEF Before
          <6>2. y <= x
            BY <6>1
          <6>3. Reading(t, x) \in Int /\ Reading(t, y) \in Int /\ Reading(t, y) <= Reading(t, x)
            BY <2>5, <4>5, <5>4, <6>2, ReadingKeeps
          <6> QED
            BY <2>4, <5>6, <5>8, <6>3
        <5> QED
          BY <5>7, <5>8
      <4>8. StandsFor(Format(t, x), Compared(t, d), t.scale)
        BY <2>5, <3>3, <4>5, FormatStands
      <4>9. answer.text[1] = Format(t, x)
        BY <4>1, <4>3
      <4>10. /\ Number(answer.text[1]) = Compared(t, d)
             /\ answer.text[1].whole # <<>>
             /\ Len(answer.text[1].frac) = IF t.scale > 0 THEN t.scale ELSE 0
        BY <4>8, <4>9 DEF StandsFor
      <4> QED
        BY <3>9, <4>6, <4>7, <4>10 DEF TextOfExtremum
    <3> QED
      BY <3>8, <3>9
  <2> QED
    BY <1>1, <2>12, <2>13 DEF HelperAgreesWithSelect, t
<1>2. IInv /\ Answered => HelperAgreesWithSelect
  <2>1. answer.st # "given" => HelperAgreesWithSelect
    BY DEF HelperAgreesWithSelect
  <2> QED
    BY <1>1, <2>1
<1> QED
  BY <1>2, InductiveInvariant, AnsweredInit, AnsweredHolds, PTL DEF Spec
=============================================================================
