----------------------------- MODULE ArrowTypes -----------------------------
(***************************************************************************)
(* Arrow types, the PostgreSQL types an import declares for them, the      *)
(* composite types it creates, and the check a scan makes of them.         *)
(*                                                                         *)
(* An Arrow type is a kind and, inside lists, structs and dictionaries,    *)
(* named types.  A name is a sequence of characters, because the name of a *)
(* composite type is made from the characters of a path.                   *)
(***************************************************************************)
EXTENDS Integers, Sequences, FiniteSets, SequencesExt

CONSTANTS
    Clean,      \* what composite_type_name makes of each character
    NameMax,    \* how long the name is at most, without "lance_"
    MaxDepth    \* bound: how deep types nest, as deep as anyone likes

ASSUME NameAssumption ==
    /\ Clean \in [DOMAIN Clean -> DOMAIN Clean] /\ {"_", "i", "d"} \subseteq DOMAIN Clean
    /\ NameMax \in Nat

ASSUME DepthAssumption == MaxDepth \in Nat

Name == Seq(DOMAIN Clean)

Type(k, sub)    == [k |-> k, sub |-> sub, scale |-> 0, unit |-> "", tz |-> FALSE]
Scalar(k)       == Type(k, <<>>)
Timestamp(u, z) == [Scalar("Timestamp") EXCEPT !.unit = u, !.tz = z]
Decimal(s)      == [Scalar("Decimal128") EXCEPT !.scale = s]
Lists           == {"List", "LargeList", "FixedSizeList"}
Integer         == {"Int8", "Int16", "Int32", "Int64", "UInt8", "UInt16", "UInt32", "UInt64"}

Kinds           ==
    Lists \union Integer \union
    {"Null", "Boolean", "Float16", "Float32", "Float64", "Decimal32", "Decimal64", "Decimal128",
     "Decimal256", "Utf8", "LargeUtf8", "Utf8View", "Binary", "LargeBinary", "FixedSizeBinary",
     "BinaryView", "Date32", "Date64", "Time32", "Time64", "Timestamp", "Duration", "Interval",
     "Struct", "Dictionary", "ListView", "LargeListView", "Union", "Map", "RunEndEncoded"}

NameOf(field) == field[1]
TypeOf(field) == field[2]
Item(t)       == TypeOf(t.sub[1])     \* of a list or a dictionary

\* No two fields share a name.
Named(fields) == \A i, j \in DOMAIN fields : NameOf(fields[i]) = NameOf(fields[j]) => i = j

Shaped(t) ==
    /\ t.k \in Lists \union {"Dictionary"} => Len(t.sub) = 1
    /\ t.k \notin Lists \union {"Dictionary", "Struct"} => t.sub = <<>>
    /\ t.k = "Timestamp" => t.unit # ""
    /\ t.k \notin {"Decimal128", "Decimal256"} => t.scale = 0
    /\ Named(t.sub)

\* The types with one of below in each field, and those nested up to n deep.
TypesOver(below) ==
    {t \in [k : Kinds, sub : Seq(Name \X below), scale : Int,
            unit : {"", "s", "ms", "us", "ns"}, tz : BOOLEAN] : Shaped(t)}
TypesTo[n \in 0 .. MaxDepth] == TypesOver(IF n = 0 THEN {} ELSE TypesTo[n - 1])
Types == TypesTo[MaxDepth]

\* A type as DDL spells it: a base type or a composite, and its dimensions.
PgBases ==
    {"bool", "int2", "int4", "int8", "float4", "float8", "numeric", "text", "varchar", "bytea",
     "date", "timestamp", "timestamptz", "uuid", "json", "jsonb", "composite"}

PgText(base, name, dims) == [name |-> name, base |-> base, dims |-> dims]
PgTexts == [name : Name, base : PgBases, dims : Nat]

\* PostgreSQL does not tell T[][] from T[].
Resolve(text) == [name |-> text.name, base |-> text.base, array |-> text.dims > 0]

PgTypes     == [name : Name, base : PgBases, array : BOOLEAN]
Pg(base)    == [name |-> <<>>, base |-> base, array |-> FALSE]
Element(pg) == [pg EXCEPT !.array = FALSE]
Jsonb       == Pg("jsonb")

-----------------------------------------------------------------------------
(* Import: build_schema_mapping.                                           *)

\* Mutant of MappedInteger: an unsigned kind goes where the signed one goes.
MappedAsSigned(k) ==
    CASE k \in {"Int8", "UInt8", "Int16", "UInt16"} -> "int2"
      [] k \in {"Int32", "UInt32"} -> "int4"
      [] k \in {"Int64", "UInt64"} -> "int8"

\* An unsigned kind goes to the next wider type, where there is one.
MappedInteger(k) ==
    CASE k \in {"Int8", "UInt8", "Int16"} -> "int2"
      [] k \in {"UInt16", "Int32"} -> "int4"
      [] k \in {"UInt32", "Int64", "UInt64"} -> "int8"

MappedTo(t) ==
    CASE t.k \in Integer -> MappedInteger(t.k)
      [] t.k = "Boolean" -> "bool"
      [] t.k \in {"Float16", "Float32"} -> "float4"
      [] t.k = "Float64" -> "float8"
      [] t.k \in {"Utf8", "LargeUtf8"} -> "text"
      [] t.k \in {"Binary", "LargeBinary", "FixedSizeBinary"} -> "bytea"
      [] t.k \in {"Date32", "Date64"} -> "date"
      [] t.k = "Timestamp" -> IF t.tz THEN "timestamptz" ELSE "timestamp"
      [] t.k \in {"Decimal128", "Decimal256"} -> "numeric"
      [] OTHER -> "jsonb"

\* Lowercase, underscores for what is not alphanumeric, and cut.
CompositeTypeName(table, path) ==
    LET name == table \o <<"_">> \o path
    IN  [i \in 1 .. (IF Len(name) > NameMax THEN NameMax ELSE Len(name)) |-> Clean[name[i]]]

\* Mutant of Under: a field is named without the struct it is in.
NameOnly(path, name) == name

\* The path of a field.
Under(path, name) == IF path = <<>> THEN name ELSE path \o <<"_">> \o name

\* acc: the types found so far, the names seen, the composites defined.
Nothing == [types |-> <<>>, seen |-> {}, defs |-> {}]
Found(acc, text) == [acc EXCEPT !.types = Append(@, text)]
Accs == [types : Seq(PgTexts), seen : SUBSET Name, defs : SUBSET (Name \X Seq(Name \X PgTexts))]

\* The types of fields, one after the other; pgType gives what is inside.
PgTypesFor(pgType, fields, path, acc) ==
    LET after[i \in 0 .. Len(fields)] ==
            IF i = 0 THEN acc
            ELSE pgType[TypeOf(fields[i])][Under(path, NameOf(fields[i]))][after[i - 1]]
    IN  after[Len(fields)]

\* pg_type_for_arrow: a name seen before stands for whatever it was first
\* given to.
PgTypeFor(pgType, table, t, path, acc) ==
    IF t.k \in Lists THEN
        LET r == pgType[Item(t)][Under(path, <<"i">>)][acc]
        IN  [r EXCEPT !.types[Len(r.types)].dims = @ + 1]
    ELSE IF t.k = "Dictionary" THEN pgType[Item(t)][Under(path, <<"d">>)][acc]
    ELSE IF t.k # "Struct" THEN Found(acc, PgText(MappedTo(t), <<>>, 0))
    ELSE LET name == CompositeTypeName(table, path)
             sub  == PgTypesFor(pgType, t.sub, path,
                                [acc EXCEPT !.seen = @ \union {name}, !.types = <<>>])
             cols == [i \in DOMAIN t.sub |-> <<NameOf(t.sub[i]), sub.types[i]>>]
             self == PgText("composite", name, 0)
         IN  IF name \in acc.seen THEN Found(acc, self)
             ELSE [types |-> Append(acc.types, self), seen |-> sub.seen,
                   defs  |-> {d \in sub.defs : d[1] # name} \union {<<name, cols>>}]

PgTypeIn(table) ==
    LET pgType[t \in Types] ==
            [path \in Name |-> [acc \in Accs |-> PgTypeFor(pgType, table, t, path, acc)]]
    IN  pgType

SchemaMapping(table, fields) == PgTypesFor(PgTypeIn(table), fields, <<>>, Nothing)

-----------------------------------------------------------------------------
(* DDL.  catalog: the composite types that exist, <<name, columns>>.       *)

Names(types) == {d[1] : d \in types}

\* base_type_name of the columns that are composites.
Deps(def) == {def[2][i][2].name : i \in {j \in DOMAIN def[2] : def[2][j][2].base = "composite"}}

\* order_composite_types: those whose dependencies are out come first; what
\* depends on itself comes last, in any order.
Emit(s) ==
    LET ready == {d \in s.left : Deps(d) \subseteq Names(Range(s.out))}
        d == CHOOSE d \in ready : TRUE
    IN  IF ready = {} THEN s ELSE [left |-> s.left \ {d}, out |-> Append(s.out, d)]

OrderTypes(defs) ==
    LET emitted[i \in 0 .. Cardinality(defs)] ==
            IF i = 0 THEN [left |-> defs, out |-> <<>>] ELSE Emit(emitted[i - 1])
        end == emitted[Cardinality(defs)]
    IN  end.out \o SetToSeq(end.left)

\* CREATE TYPE: a type of that name that exists stays as it is; the first
\* failure ends the statement.
Create(d, s) ==
    IF ~s.ok \/ d[1] \in Names(s.catalog) THEN s
    ELSE IF Deps(d) \subseteq Names(s.catalog)
         THEN [s EXCEPT !.catalog = @ \union
                 {<<d[1], [i \in DOMAIN d[2] |-> <<d[2][i][1], Resolve(d[2][i][2])>>]>>}]
         ELSE [s EXCEPT !.ok = FALSE]

CreateTypes(order, catalog) ==
    LET created[i \in 0 .. Len(order)] ==
            IF i = 0 THEN [ok |-> TRUE, catalog |-> catalog] ELSE Create(order[i], created[i - 1])
    IN  created[Len(order)]

Composites(catalog, pg) ==
    IF pg.base = "composite" /\ ~pg.array THEN {d \in catalog : d[1] = pg.name} ELSE {}
Attributes(catalog, pg) == (CHOOSE d \in Composites(catalog, pg) : TRUE)[2]

-----------------------------------------------------------------------------
(* Scan: validate_arrow_type_for_pg_oid.                                   *)

Required(t) ==
    CASE t.k = "Boolean" -> "bool"
      [] t.k \in {"Int8", "UInt8", "Int16"} -> "int2"
      [] t.k \in {"UInt16", "Int32"} -> "int4"
      [] t.k \in {"UInt32", "Int64", "UInt64"} -> "int8"
      [] t.k \in {"Float16", "Float32"} -> "float4"
      [] t.k = "Float64" -> "float8"
      [] t.k \in {"Utf8", "LargeUtf8"} -> "text"
      [] t.k \in {"Binary", "LargeBinary", "FixedSizeBinary"} -> "bytea"
      [] t.k \in {"Date32", "Date64"} -> "date"
      [] t.k = "Timestamp" -> IF t.tz THEN "timestamptz" ELSE "timestamp"
      [] t.k \in {"Decimal128", "Decimal256"} -> "numeric"
      [] OTHER -> "jsonb"

\* The field a name stands for: the first of that name, 0 if there is none.
Position(fields, name) ==
    SelectInSeq(fields, LAMBDA f : NameOf(f) = name)

\* Mutant of ListTarget: any target that is not an array is left to the
\* conversion.
ListUnchecked(pg) == ~pg.array

\* A list need not be an array: jsonb takes it.
ListTarget(pg) == pg = Jsonb

\* validates is the check of what is inside.
Fits(validates, t, pg, catalog) ==
    CASE t.k = "Dictionary" -> validates[Item(t)][pg]
      [] t.k \in Lists ->
           \/ ListTarget(pg)
           \/ pg.array /\ validates[Item(t)][Element(pg)]
      [] t.k = "Struct" ->
           /\ Composites(catalog, pg) # {}
           /\ \A i \in DOMAIN Attributes(catalog, pg) :
                LET a == Attributes(catalog, pg)[i]
                    f == Position(t.sub, NameOf(a))
                IN  f # 0 /\ validates[TypeOf(t.sub[f])][TypeOf(a)]
      [] OTHER -> pg = Pg(Required(t))

Validates(catalog) ==
    LET validates[t \in Types] == [pg \in PgTypes |-> Fits(validates, t, pg, catalog)]
    IN  validates
=============================================================================
