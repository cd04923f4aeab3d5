---------------------------- MODULE ArrowValues ----------------------------
(***************************************************************************)
(* A cell of an Arrow array becomes a value of PostgreSQL: what            *)
(* arrow_value_to_datum does with a value, a target type and the composite *)
(* types of the catalog.                                                   *)
(*                                                                         *)
(* A cell is a number (a key, in a dictionary) and the cells inside it:    *)
(* the items of a list, the fields of a struct, the values of a            *)
(* dictionary.  What a text or a binary holds is a number too.             *)
(***************************************************************************)
EXTENDS ArrowTypes, Timestamps, Dates

CONSTANTS
    NaN         \* the float that is not a number

ASSUME NumberAssumption == NaN \notin Int

Coded(n, sub) == [n |-> n, sub |-> sub, null |-> FALSE]
Cell(n)       == Coded(n, <<>>)
Nested(sub)   == Coded(0, sub)
Null          == [n |-> 0, sub |-> <<>>, null |-> TRUE]

Numbers == {NaN} \union Int

CellsOver(below) == [n : Numbers, sub : Seq(below), null : BOOLEAN]
CellsTo[n \in 0 .. MaxDepth] == CellsOver(IF n = 0 THEN {} ELSE CellsTo[n - 1])
Cells == CellsTo[MaxDepth]

\* The value a key of a dictionary stands for.
Entry(v) == v.sub[v.n + 1]

\* The numbers of a cell that is not nested.
Float == {"Float16", "Float32", "Float64"}
NumbersOf(t) ==
    CASE t.k = "UInt64" -> 0 .. Size - 1
      [] t.k \in (Integer \ {"UInt64"}) \union {"Date32", "Date64", "Timestamp"} -> I64
      [] t.k \in Float -> Numbers
      [] OTHER -> Int

\* The arrays with no mask of nulls: is_null is false of all their cells.
Maskless == {"Null", "Union", "RunEndEncoded"}

\* What an array of a type may hold.
Held(holds, t, v) ==
    /\ v.null => t.k \notin Maskless
    /\ \/ v.null
       \/ CASE t.k = "Dictionary" ->
                 v.n + 1 \in DOMAIN v.sub /\ \A i \in DOMAIN v.sub : holds[Item(t)][v.sub[i]]
            [] t.k \in Lists -> \A i \in DOMAIN v.sub : holds[Item(t)][v.sub[i]]
            [] t.k = "Struct" ->
                 /\ DOMAIN v.sub = DOMAIN t.sub
                 /\ \A i \in DOMAIN t.sub : holds[TypeOf(t.sub[i])][v.sub[i]]
            [] OTHER -> v.n \in NumbersOf(t)

Holds[t \in Types] == [v \in Cells |-> Held(Holds, t, v)]

\* A value of PostgreSQL: its kind, a number and its scale, and the values
\* inside an array, a row or a JSON value, with the names of an object.
Datum(k, n)          == [k |-> k, n |-> n, scale |-> 0, sub |-> <<>>, names |-> <<>>]
Compound(k, sub, names) == [Datum(k, 0) EXCEPT !.sub = sub, !.names = names]
NullDatum            == Datum("null", 0)

JsonKinds ==
    {"jsonb number", "jsonb null", "jsonb bool", "jsonb string", "jsonb placeholder",
     "jsonb array", "jsonb object"}
DatumKinds == (PgBases \ {"composite"}) \union {"null", "array", "row"} \union JsonKinds

DatumsOver(below) ==
    [k : DatumKinds, n : Numbers, scale : Int, sub : Seq(below), names : Seq(Name)]
DatumsTo[n \in 0 .. MaxDepth] == DatumsOver(IF n = 0 THEN {} ELSE DatumsTo[n - 1])
Datums == DatumsTo[MaxDepth]

Ok(d)    == [err |-> "none", d |-> d]
Fails(e) == [err |-> e, d |-> NullDatum]

\* What the results of the parts make, or the first error among them.
Assembled(k, results, names) ==
    LET bad == SelectInSeq(results, LAMBDA r : r.err # "none")
    IN  IF bad # 0 THEN results[bad]
        ELSE Ok(Compound(k, [i \in DOMAIN results |-> results[i].d], names))

-----------------------------------------------------------------------------
(* JSON, for the lists that go to jsonb and for the kinds with no type.    *)

\* arrow_value_to_json of what is not nested: a cast to i64, null for what
\* JSON has no number for, and a placeholder for the rest.
JsonScalar(t, n) ==
    CASE t.k \in Integer -> Datum("jsonb number", Wrapped(n))
      [] t.k \in Float -> IF n = NaN THEN Datum("jsonb null", 0) ELSE Datum("jsonb number", n)
      [] t.k = "Boolean" -> Datum("jsonb bool", n)
      [] t.k \in {"Utf8", "LargeUtf8", "Binary", "LargeBinary", "FixedSizeBinary"} ->
           Datum("jsonb string", n)
      [] t.k \in {"Decimal128", "Decimal256"} ->
           [Datum("jsonb string", n) EXCEPT !.scale = t.scale]
      [] OTHER -> Datum("jsonb placeholder", 0)

JsonOf(toJson, t, v) ==
    CASE v.null -> Datum("jsonb null", 0)
      [] ~v.null /\ t.k \in Lists ->
           Compound("jsonb array", [i \in DOMAIN v.sub |-> toJson[Item(t)][v.sub[i]]], <<>>)
      [] ~v.null /\ t.k = "Struct" ->
           Compound("jsonb object",
                    [i \in DOMAIN t.sub |-> toJson[TypeOf(t.sub[i])][v.sub[i]]],
                    [i \in DOMAIN t.sub |-> NameOf(t.sub[i])])
      [] ~v.null /\ t.k = "Dictionary" -> toJson[Item(t)][Entry(v)]
      [] OTHER -> JsonScalar(t, v.n)

ToJson[t \in Types] == [v \in Cells |-> JsonOf(ToJson, t, v)]

-----------------------------------------------------------------------------
(* Datums.  env: the composite types, and whether the build checks that    *)
(* integers do not overflow; toDatum converts what is inside.              *)

\* The year, month and day that chrono finds go to make_date.
ToDate(n) ==
    IF n \notin DayFirst .. DayLast THEN Fails("range")
    ELSE LET y == YearOf(n)  md == MonthDay(n)
         IN  IF y = 0 \/ ~Exists(PgYear(y), md) \/ DayIn(PgYear(y), md) < PgDayFirst
             THEN Fails("internal")
             ELSE Ok(Datum("date", DayIn(PgYear(y), md)))

ToTimestamp(t, n, checked) ==
    LET unix == UnixMicros(t.unit, n)
    IN  IF checked /\ unix - Epoch < Min64 THEN Fails("panic")
        ELSE IF PgMicros(unix) \notin PgTimestamp THEN Fails("range")
        ELSE Ok(Datum(Required(t), PgMicros(unix)))

\* Booleans and integers: u64 is the only one with no wider type to go to.
ToInteger(t, n) ==
    IF t.k = "UInt64" /\ n > Max64 THEN Fails("range") ELSE Ok(Datum(Required(t), n))

\* Floats, text and binary, as they are.
ToPlain(t, n) == Ok(Datum(Required(t), n))

\* All digits, through the text arrow makes of a decimal.
ToDecimal(t, n) == Ok([Datum("numeric", n) EXCEPT !.scale = t.scale])

ToScalar(t, n, checked) ==
    CASE t.k \in Integer \union {"Boolean"} -> ToInteger(t, n)
      [] t.k = "Date32" -> ToDate(n)
      [] t.k = "Date64" -> ToDate(n \div Day)
      [] t.k = "Timestamp" -> ToTimestamp(t, n, checked)
      [] t.k \in {"Decimal128", "Decimal256"} -> ToDecimal(t, n)
      [] Required(t) = "jsonb" -> Ok(JsonScalar(t, n))
      [] OTHER -> ToPlain(t, n)

\* Mutant of FieldFor: the fields are taken in the order of the attributes.
InOrder(fields, i, name) == i

\* The field an attribute is filled from: by name.
FieldFor(fields, i, name) == Position(fields, name)

ToArray(toDatum, t, v, pg, env) ==
    IF pg.array THEN
        Assembled("array", [i \in DOMAIN v.sub |-> toDatum[Item(t)][v.sub[i]][Element(pg)]], <<>>)
    ELSE IF pg = Jsonb THEN Ok(ToJson[t][v])
    ELSE Fails("mismatch")

ToRow(toDatum, t, v, pg, env) ==
    IF Composites(env.types, pg) = {} THEN Fails("mismatch")
    ELSE LET atts == Attributes(env.types, pg)
             Filled(i) ==
                 LET f == FieldFor(t.sub, i, NameOf(atts[i]))
                 IN  IF f \notin DOMAIN t.sub THEN Fails("mismatch")
                     ELSE toDatum[TypeOf(t.sub[f])][v.sub[f]][TypeOf(atts[i])]
         IN  Assembled("row", [i \in DOMAIN atts |-> Filled(i)],
                       [i \in DOMAIN atts |-> NameOf(atts[i])])

\* arrow_value_to_datum: a cell the mask calls null is NULL whatever the
\* target.
DatumOf(toDatum, t, v, pg, env) ==
    IF v.null THEN Ok(NullDatum)
    ELSE IF t.k = "Dictionary" THEN toDatum[Item(t)][Entry(v)][pg]
    ELSE IF t.k \in Lists THEN ToArray(toDatum, t, v, pg, env)
    ELSE IF t.k = "Struct" THEN ToRow(toDatum, t, v, pg, env)
    ELSE IF pg # Pg(Required(t)) THEN Fails("mismatch")
    ELSE ToScalar(t, v.n, env.checked)

ToDatum(env) ==
    LET toDatum[t \in Types] ==
            [v \in Cells |-> [pg \in PgTypes |-> DatumOf(toDatum, t, v, pg, env)]]
    IN  toDatum
=============================================================================
