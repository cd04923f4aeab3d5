---------------------------- MODULE ReadBack_MC ----------------------------
(***************************************************************************)
(* Small widths: 64 bits are 8, the calendars end before the integers do,  *)
(* as the real ones, and names of composite types are cut at 6 characters. *)
(***************************************************************************)
EXTENDS ReadBack

MCClean == [c \in {"t", "a", "b", "c", "x", "y", "i", "d", "_", "-"} |-> IF c = "-" THEN "_" ELSE c]

Field(n, t)   == <<n, t>>
MCPgFirst == -40
MCDayFirst == -30
MCPgDayFirst == -22
MCChronoFirst == -115
MCFirstYear == -5
\* Three days in a year, four in the even ones; the year 1 begins at -10.
MCYearFirst ==
    [y \in -5 .. 14 |-> 7 * ((y - 1) \div 2) - (IF y % 2 = 1 THEN 10 ELSE 7)]
\* A text that is printed otherwise, and one that is not read.
MCReprinted == [n \in -128 .. 127 \ {9} |-> IF n = 3 THEN 4 ELSE n]
MCTableName == <<"t">>
A == <<"a">>  B == <<"b">>  C == <<"c">>  X == <<"x">>  Y == <<"y">>
One(t)        == <<Field(A, t)>>
Rows(cells)   == FoldLeft(LAMBDA rows, c : Append(rows, <<c>>), <<>>, cells)
CellsOf(ns)   == FoldLeft(LAMBDA cells, n : Append(cells, Cell(n)), <<>>, ns)

Data(s, r)    == [rows |-> r, schema |-> s]
Column1(t, cells) == Data(One(t), Rows(cells))

Int4   == Scalar("Int32")
Utf8   == Scalar("Utf8")
Struct(fields) == Type("Struct", fields)
ListOf(t) == Type("List", <<Field(<<"i">>, t)>>)
DictOf(t) == Type("Dictionary", <<Field(<<"d">>, t)>>)
XY     == Struct(<<Field(X, Int4), Field(Y, Utf8)>>)
YX     == Struct(<<Field(Y, Int4), Field(X, Int4)>>)
X4Y4   == Struct(<<Field(X, Int4), Field(Y, Int4)>>)
OnlyX  == Struct(<<Field(X, Int4)>>)
Pair   == Nested(<<Cell(1), Cell(2)>>)
Long   == <<"a", "b", "c", "x", "y">>

\* Columns of one kind each: extremes, nulls, NaN.
ScalarData ==
    { Data(<<Field(A, Scalar("UInt8")), Field(B, Scalar("UInt16")), Field(C, Scalar("UInt32")),
             Field(X, Scalar("UInt64"))>>,
           <<CellsOf(<<127, 3, 4, 100>>), <<Null, Null, Null, Null>>, CellsOf(<<0, 9, 7, 130>>)>>),
      Data(<<Field(A, Scalar("Int8")), Field(B, Scalar("Int16")), Field(C, Int4),
             Field(X, Scalar("Int64"))>>,
           <<CellsOf(<<-3, 5, 6, -128>>), <<Null, Cell(4), Null, Cell(127)>>>>),
      Data(<<Field(A, Scalar("Float32")), Field(B, Scalar("Float64")), Field(C, Scalar("Float16"))>>,
           <<CellsOf(<<NaN, 2, NaN>>), CellsOf(<<1, 5, 1>>)>>),
      Data(<<Field(A, Scalar("Boolean")), Field(B, Utf8), Field(C, Scalar("FixedSizeBinary")),
             Field(X, Scalar("Map"))>>,
           <<CellsOf(<<1, 2, 3, 4>>), <<Null, Null, Null, Null>>>>),
      Data(<<Field(A, Decimal(2)), Field(B, Decimal(-1)), Field(C, Decimal(0))>>,
           <<CellsOf(<<5, 7, 10>>), CellsOf(<<-125, -3, 0>>), <<Cell(12), Null, Null>>>>),
      Column1(Scalar("Null"), CellsOf(<<1>>)),
      Column1(Scalar("Date32"), CellsOf(<<5, -10>>)),
      Column1(Scalar("Date32"), CellsOf(<<5, -19, -20>>)),
      Column1(Scalar("Date32"), CellsOf(<<1, -25, -26>>)),
      Column1(Scalar("Date32"), CellsOf(<<-11, -12>>)),
      Column1(Scalar("Date32"), CellsOf(<<31>>)),
      Column1(Scalar("Date64"), <<Cell(-1), Cell(19), Null>>),
      Column1(Scalar("Date64"), CellsOf(<<-1, -128>>)),
      Column1(Scalar("Date64"), CellsOf(<<-70>>)) }

TimeData ==
    { Column1(Timestamp("s", FALSE), CellsOf(<<3, 12>>)),
      Column1(Timestamp("s", FALSE), CellsOf(<<100>>)),
      Column1(Timestamp("ms", TRUE), CellsOf(<<2, -3>>)),
      Column1(Timestamp("ms", TRUE), CellsOf(<<-60>>)),
      Column1(Timestamp("us", FALSE), CellsOf(<<25, 115, -20>>)),
      Column1(Timestamp("us", FALSE), CellsOf(<<0, -108>>)),
      Column1(Timestamp("us", FALSE), CellsOf(<<0, -112>>)),
      Column1(Timestamp("us", FALSE), CellsOf(<<-110>>)),
      Column1(Timestamp("ns", FALSE), CellsOf(<<-7, 126, 127>>)) }

NestedData ==
    { Column1(ListOf(Int4), <<Nested(<<Cell(1), Null>>), Null, Nested(<<>>)>>),
      Column1(ListOf(Scalar("UInt64")), <<Nested(<<Cell(200), Cell(1)>>)>>),
      Column1(ListOf(Scalar("Float64")), <<Nested(<<Cell(NaN), Cell(2)>>)>>),
      Column1(ListOf(XY), <<Nested(<<Pair, Null>>)>>),
      Column1(ListOf(ListOf(Int4)), <<Nested(<<Nested(CellsOf(<<1>>))>>)>>),
      Column1(ListOf(ListOf(Scalar("Map"))), <<Nested(<<Nested(CellsOf(<<1>>))>>)>>),
      Column1(DictOf(Utf8), <<Coded(1, CellsOf(<<7, 8>>)), Coded(0, <<Null>>), Null>>),
      Column1(DictOf(XY), <<Coded(0, <<Pair>>)>>),
      Column1(XY, <<Pair, Null, Nested(<<Null, Cell(3)>>)>>),
      Column1(YX, <<Pair>>),
      Column1(X4Y4, <<Pair>>),
      Column1(OnlyX, <<Nested(CellsOf(<<4>>))>>),
      Column1(Struct(<<Field(B, XY), Field(C, ListOf(OnlyX))>>),
              <<Nested(<<Pair, Nested(<<Nested(CellsOf(<<5>>))>>)>>)>>) }

\* Paths that meet: through the underscore, a replaced character, the cut,
\* and a struct cut to the name of the one it is in.
SharedData ==
    { Data(<<Field(A, Struct(<<Field(C, OnlyX)>>)), Field(B, Struct(<<Field(C, XY)>>))>>,
           <<<<Nested(<<Nested(CellsOf(<<1>>))>>), Nested(<<Pair>>)>>>>),
      Data(<<Field(<<"a", "_", "b">>, OnlyX), Field(A, Struct(<<Field(B, XY)>>))>>,
           <<<<Nested(CellsOf(<<1>>)), Nested(<<Pair>>)>>>>),
      Data(<<Field(<<"a", "-", "b">>, XY), Field(<<"a", "_", "b">>, OnlyX)>>,
           <<<<Pair, Nested(CellsOf(<<1>>))>>>>),
      Data(<<Field(Long, Struct(<<Field(X, OnlyX)>>))>>, <<<<Nested(<<Nested(CellsOf(<<1>>))>>)>>>>) }

\* What queries below may be merged into, beside the timestamps.
MergeData ==
    { Data(<<Field(A, Scalar("Int64")), Field(B, Scalar("Date32")), Field(C, Utf8)>>,
           <<CellsOf(<<1, 5, 2>>)>>) }

MCDatasets == ScalarData \union TimeData \union NestedData \union SharedData \union MergeData

Composite(name) == [name |-> name, base |-> "composite", array |-> FALSE]
MCDeclarations ==
    { <<<<A, Jsonb>>>>,
      <<<<A, [Pg("int4") EXCEPT !.array = TRUE]>>>>,
      <<<<A, Composite(<<"t", "_", "a">>)>>>>,
      <<<<A, [Composite(<<"t", "_", "a">>) EXCEPT !.array = TRUE]>>>>,
      <<<<B, Pg("text")>>, <<A, Pg("bool")>>>> }

Asked(name, base, override) == [name |-> name, base |-> base, override |-> override]
MCQueries ==
    { [rows |-> <<CellsOf(<<-15, 122>>), CellsOf(<<-128, 30>>), <<Null, Cell(0)>>>>,
       cols |-> <<Asked(A, "timestamp", <<>>), Asked(B, "timestamptz", <<>>)>>],
      [rows |-> <<<<Cell(127)>>>>, cols |-> <<Asked(A, "timestamp", <<>>)>>],
      [rows |-> <<<<Cell(2), Cell(1), Cell(NaN)>>, CellsOf(<<35, 0, 1>>)>>,
       cols |-> <<Asked(A, "date", <<>>), Asked(B, "bool", <<>>), Asked(C, "float8", <<>>)>>],
      [rows |-> <<CellsOf(<<3, 4, 5>>), <<Null, Null, Cell(1)>>>>,
       cols |-> <<Asked(A, "int4", <<>>), Asked(B, "numeric", <<>>), Asked(C, "bytea", <<>>)>>],
      [rows |-> <<>>, cols |-> <<Asked(A, "int4", <<>>)>>],
      [rows |-> <<<<Cell(9)>>>>, cols |-> <<Asked(A, "jsonb", <<>>)>>],
      [rows |-> <<CellsOf(<<7, -19, 3>>), <<Cell(8), Null, Null>>>>,
       cols |-> <<Asked(A, "int8", <<>>), Asked(B, "date", <<>>), Asked(C, "json", <<>>)>>],
      [rows |-> <<CellsOf(<<3, 6, 1>>), <<Cell(4), Null, Cell(2)>>, CellsOf(<<5, -112, 3>>)>>,
       cols |-> <<Asked(A, "int4", <<"int8">>), Asked(B, "int4", <<"date">>),
                  Asked(C, "int2", <<"text">>)>>],
      [rows |-> <<CellsOf(<<40>>), CellsOf(<<-112>>)>>,
       cols |-> <<Asked(A, "int8", <<"timestamp">>)>>] }
=============================================================================
