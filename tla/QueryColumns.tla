---------------------------- MODULE QueryColumns ----------------------------
(***************************************************************************)
(* The columns of a source query become Arrow columns: the type each one   *)
(* gets, and the cell each datum is appended as.                           *)
(***************************************************************************)
EXTENDS ArrowValues

CONSTANTS
    ReadAsBytes,    \* the types pgrx gives the bytes of
    Reprinted       \* what serde_json prints of each JSON text it reads

ASSUME ReadingAssumption ==
    /\ {"bytea"} \subseteq ReadAsBytes /\ ReadAsBytes \subseteq {"bytea", "text", "varchar"}
    /\ Reprinted \in [DOMAIN Reprinted -> Int]

\* The types whose text goes into a text column.
Texts == {"text", "varchar", "numeric", "uuid", "json", "jsonb"}
JsonTexts == {"json", "jsonb"}

\* pg_oid_to_arrow_type.
ArrowType(base) ==
    CASE base = "bool" -> Scalar("Boolean")
      [] base = "int2" -> Scalar("Int16")
      [] base = "int4" -> Scalar("Int32")
      [] base = "int8" -> Scalar("Int64")
      [] base = "float4" -> Scalar("Float32")
      [] base = "float8" -> Scalar("Float64")
      [] base \in Texts -> Scalar("Utf8")
      [] base = "bytea" -> Scalar("Binary")
      [] base = "date" -> Scalar("Date32")
      [] base = "timestamp" -> Timestamp("us", FALSE)
      [] base = "timestamptz" -> Timestamp("us", TRUE)

Written == {"bool", "int2", "int4", "int8", "float4", "float8", "bytea", "date",
            "timestamp", "timestamptz"} \union Texts

\* parse_arrow_type_name: every name it knows gives the Arrow type of some
\* type of PostgreSQL, which stands for the name here.
TypeNames       == Written \ {"varchar", "numeric", "uuid", "json", "jsonb"}
NamedType(name) == CASE name \in TypeNames -> ArrowType(name)

\* The columns of a query: their names and types, and the name column_types
\* gives them, <<>> without one.
ColumnType(c) == IF c.override = <<>> THEN ArrowType(c.base) ELSE NamedType(c.override[1])

\* The numbers that datums of a type have.
DatumsOf(base) ==
    CASE base \in {"float4", "float8"} -> Numbers
      [] base \in {"timestamp", "timestamptz"} -> PgTimestamp
      [] OTHER -> I64

IsDatum(c, cell) == cell.null \/ cell.n \in DatumsOf(c.base)

\* A query: its columns, and rows of datums.
IsQuery(q) ==
    /\ q.cols # <<>>
    /\ q.cols \in Seq([name : Name, base : Written, override : {<<>>} \union {<<n>> : n \in TypeNames}])
    /\ \A i, j \in DOMAIN q.cols : q.cols[i].name = q.cols[j].name => i = j
    /\ q.rows \in Seq(Seq([n : Numbers, sub : {<<>>}, null : BOOLEAN]))
    /\ \A i \in DOMAIN q.rows :
         /\ DOMAIN q.rows[i] = DOMAIN q.cols
         /\ \A j \in DOMAIN q.cols : IsDatum(q.cols[j], q.rows[i][j])

\* The types whose datums a builder reads: of any other it gets an error,
\* and appends a null.
Reads(t) ==
    CASE t.k = "Boolean" -> {"bool"}
      [] t.k = "Int16" -> {"int2"}
      [] t.k = "Int32" -> {"int2", "int4"}
      [] t.k = "Int64" -> {"int2", "int4", "int8"}
      [] t.k = "Float32" -> {"float4"}
      [] t.k = "Float64" -> {"float8"}
      [] t.k = "Utf8" -> Texts
      [] t.k = "Binary" -> ReadAsBytes
      [] t.k = "Date32" -> {"date", "int4"}
      [] t.k = "Timestamp" -> {Required(t), "int8"}

\* append_datum: the timestamps of PostgreSQL are shifted, JSON is read and
\* printed again; an int8 is taken for microseconds since 1970 and an int4
\* for days.
AppendDatum(c, cell) ==
    IF cell.null \/ c.base \notin Reads(ColumnType(c)) THEN Null
    ELSE IF c.base \in {"timestamp", "timestamptz"} THEN Cell(ToUnix(cell.n))
    ELSE IF c.base \in JsonTexts THEN Cell(Reprinted[cell.n])
    ELSE cell

\* A build that checks for overflow panics at infinity, and any at a JSON
\* text that serde_json does not read.
Panics(c, cell, checked) ==
    /\ ~cell.null
    /\ c.base \in Reads(ColumnType(c))
    /\ \/ checked /\ c.base \in {"timestamp", "timestamptz"} /\ cell.n + Epoch > Max64
       \/ c.base \in JsonTexts /\ cell.n \notin DOMAIN Reprinted

QuerySchema(q) == [j \in DOMAIN q.cols |-> <<q.cols[j].name, ColumnType(q.cols[j])>>]
QueryRows(q) ==
    [i \in DOMAIN q.rows |-> [j \in DOMAIN q.cols |-> AppendDatum(q.cols[j], q.rows[i][j])]]
=============================================================================
