------------------------------ MODULE ReadBack ------------------------------
(***************************************************************************)
(* What a session sees of the values in a dataset: a foreign table is      *)
(* imported or declared over it, its composite types created, its columns  *)
(* checked when a scan begins and its cells converted row by row; beside   *)
(* the scan lance_min and lance_max read the Arrow values themselves.  A   *)
(* dataset comes from elsewhere or is written from a query.                *)
(*                                                                         *)
(* The statements run one after another; the versions a dataset goes       *)
(* through while a scan is open are the subject of ForeignScan.            *)
(***************************************************************************)
EXTENDS ColumnExtremum, QueryColumns

CONSTANTS
    TableName,      \* of the one foreign table, a sequence of characters
    Datasets,       \* [schema, rows]: what others write
    Declarations,   \* the columns a user declares, <<name, type>>
    Queries,        \* [cols, rows]: source queries of appends and merges
    MaxTables       \* bound: imports and declarations

\* Rows of cells that their columns hold.
IsDataset(d) ==
    /\ d.schema \in Seq(Name \X Types) /\ Named(d.schema)
    /\ d.rows \in Seq(Seq(Cells))
    /\ \A i \in DOMAIN d.rows :
         /\ DOMAIN d.rows[i] = DOMAIN d.schema
         /\ \A j \in DOMAIN d.schema : Holds[TypeOf(d.schema[j])][d.rows[i][j]]

ASSUME SessionAssumption ==
    /\ TableName \in Name
    /\ \A d \in Datasets : IsDataset(d)
    /\ Declarations \subseteq Seq(Name \X PgTypes)
    /\ \A q \in Queries : IsQuery(q)
    /\ MaxTables \in Nat

VARIABLES
    checked,        \* whether the build checks for overflow
    data,           \* the dataset, and what each of its rows was written from
    catalog,        \* the composite types of the schema
    table,          \* the foreign table
    tables,         \* imports and declarations so far
    scan,           \* the open or last scan of it
    answer          \* of the last lance_min or lance_max

vars == <<checked, data, catalog, table, tables, scan, answer>>

Env == [types |-> catalog, checked |-> checked]

NoTable  == [st |-> "none", cols |-> <<>>, from |-> <<>>, fresh |-> FALSE]
NoScan   == [st |-> "idle", data |-> <<>>, out |-> <<>>, err |-> "none"]
NoAnswer == [st |-> "none", op |-> "", col |-> 0, ok |-> FALSE, text |-> <<>>]

Of(dataset) ==
    [rows |-> dataset.rows, schema |-> dataset.schema, from |-> [i \in DOMAIN dataset.rows |-> <<>>]]

Init ==
    /\ checked \in BOOLEAN
    /\ data \in {Of(d) : d \in Datasets}
    /\ catalog = {}
    /\ table = NoTable
    /\ tables = 0
    /\ scan = NoScan
    /\ answer = NoAnswer

Idle == scan.st = "idle"

-----------------------------------------------------------------------------
(* The dataset.                                                            *)

\* Another writer replaces it.
Replace(d) ==
    /\ Idle
    /\ data' = Of(d)
    /\ answer' = NoAnswer
    /\ UNCHANGED <<checked, catalog, table, tables, scan>>

\* A source with rows, of which none panics: a panic ends the call before
\* the commit, and without rows there is none.
Sourced(q) ==
    /\ q.rows # <<>>
    /\ \A i \in DOMAIN q.rows : \A j \in DOMAIN q.cols : ~Panics(q.cols[j], q.rows[i][j], checked)

\* The columns and the datums of each row.
Origins(q) == [i \in DOMAIN q.rows |-> <<[cols |-> q.cols, row |-> q.rows[i]]>>]

\* lance_append in overwrite mode, which takes no column_types.
Write(q) ==
    /\ Idle
    /\ Sourced(q)
    /\ \A j \in DOMAIN q.cols : q.cols[j].override = <<>>
    /\ data' = [schema |-> QuerySchema(q), rows |-> QueryRows(q), from |-> Origins(q)]
    /\ answer' = NoAnswer
    /\ UNCHANGED <<checked, catalog, table, tables, scan>>

\* No row has the key of another, nor a null for one: as a bound the key is
\* the first column, and what a merge matches is the subject of WritePath.
Keyed(rows) ==
    /\ \A i \in DOMAIN rows : ~rows[i][1].null
    /\ \A i, j \in DOMAIN rows : rows[i][1] = rows[j][1] => i = j

\* lance_merge_insert, or lance_merge_insert_with_schema: rows of the schema
\* the dataset has come in.
Merge(q) ==
    /\ Idle
    /\ Sourced(q)
    /\ QuerySchema(q) = data.schema
    /\ Keyed(data.rows \o QueryRows(q))
    /\ data' = [data EXCEPT !.rows = @ \o QueryRows(q), !.from = @ \o Origins(q)]
    /\ answer' = NoAnswer
    /\ UNCHANGED <<checked, catalog, table, tables, scan>>

-----------------------------------------------------------------------------
(* The foreign table.                                                      *)

Mapping == SchemaMapping(TableName, data.schema)
Created == CreateTypes(OrderTypes(Mapping.defs), catalog)

\* No composite type of the mapping is there already.
Fresh == Names(Mapping.defs) \cap Names(catalog) = {}

\* import_lance_table: the types, then the table.  What exists stays as it
\* is; a statement that fails takes the others with it.
Import ==
    /\ Idle
    /\ tables < MaxTables
    /\ tables' = tables + 1
    /\ catalog' = IF Created.ok THEN Created.catalog ELSE catalog
    /\ table' =
         IF table.st \in {"imported", "declared"} THEN table
         ELSE [st    |-> IF Created.ok THEN "imported" ELSE "failed",
               cols  |-> IF ~Created.ok THEN <<>>
                         ELSE [j \in DOMAIN data.schema |->
                                 <<NameOf(data.schema[j]), Resolve(Mapping.types[j])>>],
               from  |-> data.schema,
               fresh |-> Fresh]
    /\ answer' = NoAnswer
    /\ UNCHANGED <<checked, data, scan>>

\* CREATE FOREIGN TABLE by hand.
Declare(cols) ==
    /\ Idle
    /\ tables < MaxTables
    /\ tables' = tables + 1
    /\ table.st \in {"none", "failed"}
    /\ table' = [NoTable EXCEPT !.st = "declared", !.cols = cols]
    /\ answer' = NoAnswer
    /\ UNCHANGED <<checked, data, catalog, scan>>

\* DROP FOREIGN TABLE: the composite types stay.
DropTable ==
    /\ Idle
    /\ table.st # "none"
    /\ table' = NoTable
    /\ answer' = NoAnswer
    /\ UNCHANGED <<checked, data, catalog, tables, scan>>

-----------------------------------------------------------------------------
(* The scan.                                                               *)

Column(name) == Position(data.schema, name)

ColumnFits(c) ==
    /\ Column(NameOf(c)) # 0
    /\ Validates(catalog)[TypeOf(data.schema[Column(NameOf(c))])][TypeOf(c)]

\* begin_foreign_scan checks every column against the schema.
Begin ==
    /\ Idle
    /\ table.st \in {"imported", "declared"}
    /\ scan' = [NoScan EXCEPT
                  !.st = IF \A j \in DOMAIN table.cols : ColumnFits(table.cols[j])
                         THEN "open" ELSE "refused",
                  !.data = data]
    /\ answer' = NoAnswer
    /\ UNCHANGED <<checked, data, catalog, table, tables>>

Converted(row) ==
    Assembled("row",
              [j \in DOMAIN table.cols |->
                 LET c == Column(NameOf(table.cols[j]))
                 IN  ToDatum(Env)[TypeOf(data.schema[c])][row[c]][TypeOf(table.cols[j])]],
              <<>>)

\* iterate_foreign_scan: the next row, an error, or the end.
Iterate ==
    /\ scan.st = "open"
    /\ IF Len(scan.out) = Len(data.rows) THEN scan' = [scan EXCEPT !.st = "done"]
       ELSE LET r == Converted(data.rows[Len(scan.out) + 1])
            IN  scan' = IF r.err = "none" THEN [scan EXCEPT !.out = Append(@, r.d.sub)]
                        ELSE [scan EXCEPT !.st = "failed", !.err = r.err]
    /\ answer' = NoAnswer
    /\ UNCHANGED <<checked, data, catalog, table, tables>>

\* Mutant of EndScan: the rows of the scan stay.
EndKeepsRows ==
    /\ scan.st \in {"refused", "failed", "done"}
    /\ scan' = [scan EXCEPT !.st = "idle"]
    /\ answer' = NoAnswer
    /\ UNCHANGED <<checked, data, catalog, table, tables>>

\* The statement is over.
EndScan ==
    /\ scan.st \in {"refused", "failed", "done"}
    /\ scan' = NoScan
    /\ answer' = NoAnswer
    /\ UNCHANGED <<checked, data, catalog, table, tables>>

\* lance_min, lance_max of a column.  They depend on the dataset alone: as
\* a bound they are asked before there is a table and after a scan.
Ask(op, col) ==
    /\ tables = 0 \/ scan.st = "done"
    /\ col \in DOMAIN data.schema
    /\ LET a == Answer(TypeOf(data.schema[col]), [i \in DOMAIN data.rows |-> data.rows[i][col]], op)
       IN  answer' = [st |-> "given", op |-> op, col |-> col, ok |-> a.ok, text |-> a.text]
    /\ UNCHANGED <<checked, data, catalog, table, tables, scan>>

Next ==
    \/ \E d \in Datasets : Replace(d)
    \/ \E q \in Queries : Write(q) \/ Merge(q)
    \/ Import
    \/ \E cols \in Declarations : Declare(cols)
    \/ DropTable
    \/ Begin
    \/ Iterate
    \/ EndScan
    \/ \E op \in Extrema, col \in DOMAIN data.schema : Ask(op, col)

Spec == Init /\ [][Next]_vars

-----------------------------------------------------------------------------
(* What a schema holds.                                                    *)

\* The path of a field, and the composite types of fields by name.
Joined(path, name) == IF path = <<>> THEN name ELSE path \o <<"_">> \o name

Fieldwise(names, fields, path) ==
    [i \in DOMAIN fields |-> names[TypeOf(fields[i])][Joined(path, NameOf(fields[i]))]]

StructNamesOf(names, t, path) ==
    CASE t.k \in Lists -> names[Item(t)][Joined(path, <<"i">>)]
      [] t.k = "Dictionary" -> names[Item(t)][Joined(path, <<"d">>)]
      [] t.k = "Struct" ->
           {CompositeTypeName(TableName, path)} \union UNION Range(Fieldwise(names, t.sub, path))
      [] OTHER -> {}

StructNames[t \in Types] == [path \in Name |-> StructNamesOf(StructNames, t, path)]

\* No two structs of the fields share the name of a composite type.
Apart(sets) == \A i, j \in DOMAIN sets : i # j => sets[i] \cap sets[j] = {}

DistinctOf(distinct, t, path) ==
    CASE t.k \in Lists -> distinct[Item(t)][Joined(path, <<"i">>)]
      [] t.k = "Dictionary" -> distinct[Item(t)][Joined(path, <<"d">>)]
      [] t.k = "Struct" ->
           LET names == Fieldwise(StructNames, t.sub, path)
           IN  /\ CompositeTypeName(TableName, path) \notin UNION Range(names)
               /\ Apart(names)
               /\ \A i \in DOMAIN t.sub : Fieldwise(distinct, t.sub, path)[i]
      [] OTHER -> TRUE

DistinctIn[t \in Types] == [path \in Name |-> DistinctOf(DistinctIn, t, path)]

Distinct(schema) ==
    /\ Apart(Fieldwise(StructNames, schema, <<>>))
    /\ \A j \in DOMAIN schema : Fieldwise(DistinctIn, schema, <<>>)[j]

\* Whether a type is or has a list whose items are lists, seen through
\* dictionaries; item: whether it is what a list holds.
NestsLists(nests, t, item) ==
    CASE t.k \in Lists -> item \/ nests[Item(t)][TRUE]
      [] t.k = "Dictionary" -> nests[Item(t)][item]
      [] OTHER -> \E i \in DOMAIN t.sub : nests[TypeOf(t.sub[i])][FALSE]

ListsInLists[t \in Types] == [item \in BOOLEAN |-> NestsLists(ListsInLists, t, item)]

\* The table was imported from the schema it reads.
Imported == table.st = "imported" /\ table.from = data.schema

-----------------------------------------------------------------------------
(* Properties.                                                             *)

\* Every value shown is of a kind of PostgreSQL, and what the scan knows of
\* the dataset is what the dataset holds.
TypeOK ==
    /\ checked \in BOOLEAN
    /\ tables \in 0 .. MaxTables
    /\ table.st \in {"none", "failed", "imported", "declared"}
    /\ scan.st \in {"idle", "open", "refused", "failed", "done"}
    /\ scan.st # "idle" => scan.data = data
    /\ Len(scan.out) <= Len(data.rows)
    /\ \A i \in DOMAIN scan.out :
         /\ DOMAIN scan.out[i] = DOMAIN table.cols
         /\ \A j \in DOMAIN scan.out[i] : scan.out[i][j] \in Datums
    /\ scan.err \in {"none", "mismatch", "range", "internal", "panic"}
    /\ answer.st = "given" => answer.col \in DOMAIN data.schema

\* lance_import declares what a scan accepts (type_mapping.rs and the check
\* of convert.rs are written apart): an import fails, and a scan of the
\* schema just imported is refused, only where two structs share a name, or
\* a type is there from before, or a list holds lists.  Names are within the 63
\* bytes PostgreSQL keeps of one: a longer one is not found by the scan.
ImportsScan ==
    /\ table.st = "failed" => ~Distinct(table.from)
    /\ scan.st = "refused" /\ Imported =>
         \/ ~Distinct(data.schema)
         \/ ~table.fresh
         \/ \E j \in DOMAIN data.schema : ListsInLists[TypeOf(data.schema[j])][FALSE]

\* What the check lets through the conversion accepts: after a scan has
\* begun no row ends it because a type does not fit.
ValidatedNeverMismatches == scan.err # "mismatch"

\* A JSON value holds what a cell does: the kinds JSON has no form for are
\* null or a placeholder, and an unsigned number past i64 is another.
JsonAgrees(agrees, t, v, d) ==
    CASE v.null -> d.k = "jsonb null"
      [] ~v.null /\ t.k = "Dictionary" -> agrees[Item(t)][Entry(v)][d]
      [] ~v.null /\ t.k \in Lists ->
           /\ d.k = "jsonb array" /\ DOMAIN d.sub = DOMAIN v.sub
           /\ \A i \in DOMAIN v.sub : agrees[Item(t)][v.sub[i]][d.sub[i]]
      [] ~v.null /\ t.k = "Struct" ->
           /\ d.k = "jsonb object" /\ Len(d.sub) = Len(t.sub)
           /\ \A i \in DOMAIN t.sub :
                d.names[i] = NameOf(t.sub[i]) /\ agrees[TypeOf(t.sub[i])][v.sub[i]][d.sub[i]]
      [] OTHER ->
           \/ d.k \in {"jsonb number", "jsonb string", "jsonb bool"} /\ d.n = v.n /\ d.scale = t.scale
           \/ t.k = "UInt64" /\ v.n > Max64
           \/ v.n = NaN /\ d.k = "jsonb null"
           \/ d.k = "jsonb placeholder" /\ MappedTo(t) \in {"jsonb", "date", "timestamp", "timestamptz"}

JsonTrue[t \in Types] == [v \in Cells |-> [d \in Datums |-> JsonAgrees(JsonTrue, t, v, d)]]

\* The number shown for a cell that is not nested, where the code promises
\* it: a timestamp that neither saturates nor wraps, a date from the year 1
\* on.  A date before Christ is shown a year late.
ScalarTrue(t, v, d) ==
    CASE t.k = "Timestamp" -> InRange(t.unit, v.n) => d.n + Epoch = TrueMicros(t.unit, v.n)
      [] t.k = "Date32" -> SameDate(v.n, d.n)
      [] t.k = "Date64" -> SameDate(v.n \div Day, d.n)
      [] d.k = "jsonb placeholder" -> MappedTo(t) = "jsonb"
      [] OTHER -> d.n = v.n /\ d.scale = t.scale

Agrees(agrees, t, v, pg, d, types) ==
    CASE v.null -> d = NullDatum
      [] ~v.null /\ t.k = "Dictionary" -> agrees[Item(t)][Entry(v)][pg][d]
      [] ~v.null /\ t.k \in Lists /\ ~pg.array -> JsonTrue[t][v][d]
      [] ~v.null /\ t.k \in Lists /\ pg.array ->
           /\ d.k = "array" /\ DOMAIN d.sub = DOMAIN v.sub
           /\ \A i \in DOMAIN v.sub : agrees[Item(t)][v.sub[i]][Element(pg)][d.sub[i]]
      [] ~v.null /\ t.k = "Struct" ->
           \A i \in DOMAIN d.sub : \E f \in DOMAIN t.sub :
             /\ NameOf(t.sub[f]) = d.names[i]
             /\ agrees[TypeOf(t.sub[f])][v.sub[f]][TypeOf(Attributes(types, pg)[i])][d.sub[i]]
      [] OTHER -> ScalarTrue(t, v, d)

ShownTrue(types) ==
    LET shown[t \in Types] ==
            [v \in Cells |-> [pg \in PgTypes |-> [d \in Datums |-> Agrees(shown, t, v, pg, d, types)]]]
    IN  shown

\* Whatever table is declared and whatever types are left from before, what
\* a scan shows is what the dataset holds under that name
\* (arrow_value_to_datum), to the last item and attribute.
ShownIsTrue ==
    \A i \in DOMAIN scan.out : \A j \in DOMAIN table.cols :
      LET c == Column(NameOf(table.cols[j]))
      IN  ShownTrue(catalog)[TypeOf(data.schema[c])][data.rows[i][c]][TypeOf(table.cols[j])][scan.out[i][j]]

Complete(complete, t, v, d) ==
    CASE v.null -> TRUE
      [] ~v.null /\ t.k = "Dictionary" -> complete[Item(t)][Entry(v)][d]
      [] ~v.null /\ t.k \in Lists ->
           \A i \in DOMAIN v.sub : complete[Item(t)][v.sub[i]][d.sub[i]]
      [] ~v.null /\ t.k = "Struct" /\ d.k = "row" ->
           /\ d.names = [i \in DOMAIN t.sub |-> NameOf(t.sub[i])]
           /\ \A i \in DOMAIN t.sub : complete[TypeOf(t.sub[i])][v.sub[i]][d.sub[i]]
      [] OTHER -> TRUE

AllShown[t \in Types] == [v \in Cells |-> [d \in Datums |-> Complete(AllShown, t, v, d)]]

\* A table imported into a schema that has none of its types shows every
\* column and every field of every struct, unless two structs share a name
\* (composite_type_name cuts it and replaces characters).  Names are within 63
\* bytes here too.
NothingHidden ==
    Imported /\ table.fresh /\ Distinct(data.schema) =>
      /\ [j \in DOMAIN table.cols |-> NameOf(table.cols[j])]
           = [j \in DOMAIN data.schema |-> NameOf(data.schema[j])]
      /\ \A i \in DOMAIN scan.out : \A j \in DOMAIN table.cols :
           AllShown[TypeOf(data.schema[j])][data.rows[i][j]][scan.out[i][j]]

\* An int8 that column_types makes a timestamp is one since 1970, a date is
\* the same date, and a JSON text is what serde_json makes of it.
Returned(c, cell, d) ==
    CASE c.base = "int8" /\ ColumnType(c).k = "Timestamp" ->
           InRange("us", cell.n) => d.n + Epoch = cell.n
      [] ColumnType(c).k = "Date32" -> SameDate(cell.n, d.n)
      [] c.base \in JsonTexts -> d.n = Reprinted[cell.n]
      [] OTHER -> d.n = cell.n

\* A cell that no date or timestamp of the reader stands for.
Unreadable(c, cell) ==
    /\ ~cell.null
    /\ \/ ColumnType(c).k = "Date32" /\ NoDate(cell.n)
       \/ c.base = "int8" /\ ColumnType(c).k = "Timestamp" /\ PgMicros(cell.n) \notin PgTimestamp
       \/ c.base = "int8" /\ ColumnType(c).k = "Timestamp" /\ checked /\ ~InRange("us", cell.n)

ComesBack(from, shown) ==
    \A j \in DOMAIN from.cols :
      LET c == from.cols[j]  cell == from.row[j] IN
      IF cell.null \/ c.base \notin Reads(ColumnType(c)) THEN shown[j] = NullDatum
      ELSE shown[j].k # "null" /\ Returned(c, cell, shown[j])

\* What a query wrote comes back, by an append or a merge into what others
\* wrote: NULL where it was NULL, or where the column was given a type its
\* datums are not read as, and otherwise the value, the infinite timestamps
\* included; a scan fails at such a row only for a value the reader has no
\* date for.  A date before Christ comes back a year late, and JSON as
\* serde_json prints it.
RoundTrip ==
    Imported =>
      /\ \A i \in DOMAIN scan.out : \A from \in Range(data.from[i]) : ComesBack(from, scan.out[i])
      /\ scan.st = "refused" => \A i \in DOMAIN data.from : data.from[i] = <<>>
      /\ scan.st = "failed" =>
           \A from \in Range(data.from[Len(scan.out) + 1]) :
             \E j \in DOMAIN from.cols : Unreadable(from.cols[j], from.row[j])

PowerOfTen[k \in Nat] == IF k = 0 THEN 1 ELSE 10 * PowerOfTen[k - 1]

\* The number a text of the helper is compared with.
Compared(t, d) ==
    CASE t.k = "Timestamp" -> d.n + Epoch
      [] t.k = "Decimal128" -> IF t.scale < 0 THEN d.n * PowerOfTen[-t.scale] ELSE d.n
      [] OTHER -> d.n

\* The type and the cells of the column asked about, the columns of the
\* table that show it, and the datums they show.
AskedType == TypeOf(data.schema[answer.col])
AskedCells == {data.rows[i][answer.col] : i \in DOMAIN data.rows}
AskedColumns == {j \in DOMAIN table.cols : Column(NameOf(table.cols[j])) = answer.col}
AskedDatums == {scan.out[i][j] : i \in DOMAIN scan.out, j \in AskedColumns} \ {NullDatum}

\* No NaN is among the values, every timestamp is in range and no date is
\* before Christ.
Promised(t, cells) ==
    \A v \in cells :
      /\ v.n # NaN
      /\ t.k = "Timestamp" => v.null \/ InRange(t.unit, v.n)
      /\ t.k = "Date32" => v.null \/ v.n >= YearOne
      /\ t.k = "Date64" => v.null \/ v.n \div Day >= YearOne

\* The text of the least or greatest of the datums, or none of none.
TextOfExtremum(text, t, datums, op) ==
    IF text = <<>> THEN datums = {}
    ELSE \E d \in datums :
           /\ \A e \in datums : IF op = "min" THEN d.n <= e.n ELSE d.n >= e.n
           /\ Number(text[1]) = Compared(t, d)
           /\ text[1].whole # <<>>
           /\ Len(text[1].frac) = IF t.scale > 0 THEN t.scale ELSE 0

\* lance_min and lance_max answer what min and max answer over the foreign
\* table, where no NaN is among the values, every timestamp is in range and no
\* date is before Christ: of such a date the scan shows another year.  They
\* refuse only a kind they do not know or a date chrono has no form for.
HelperAgreesWithSelect ==
    answer.st = "given" =>
      /\ ~answer.ok => \/ ~HasExtremum(AskedType)
                       \/ \E v \in AskedCells : ~v.null /\ ~Formattable(AskedType, v.n)
      /\ answer.ok /\ scan.st = "done" /\ AskedColumns # {} /\ Promised(AskedType, AskedCells) =>
           TextOfExtremum(answer.text, AskedType, AskedDatums, answer.op)
=============================================================================
