--------------------------- MODULE ColumnExtremum ---------------------------
(***************************************************************************)
(* lance_min and lance_max: the extremum of one column, found in the Arrow *)
(* values without the conversion of rows, and answered as text.            *)
(***************************************************************************)
EXTENDS ArrowValues

CONSTANTS
    ChronoFirst, ChronoLast     \* the microseconds chrono has a date for

Extrema == {"min", "max"}

\* ExtremumState::new: the kinds with a state.
HasExtremum(t) ==
    t.k \in Integer \union {"Float32", "Float64", "Date32", "Date64", "Timestamp", "Decimal128"}

\* current: the value so far, <<>> before the first.
ShouldReplace(current, candidate, op) ==
    \/ current = <<>>
    \/ op = "min" /\ candidate < current[1]
    \/ op = "max" /\ candidate > current[1]

\* Mutant of Skipped: a null slot counts with the number it holds.
SkipsNaN(v) == v.n = NaN

Skipped(v) == v.null \/ v.n = NaN

Update(current, v, op) ==
    IF Skipped(v) \/ ~ShouldReplace(current, v.n, op) THEN current ELSE <<v.n>>

Extremum(cells, op) == FoldLeft(LAMBDA current, v : Update(current, v, op), <<>>, cells)

-----------------------------------------------------------------------------
(* The text of the answer.                                                 *)

Digits[n \in Nat] == IF n < 10 THEN <<n>> ELSE Append(Digits[n \div 10], n % 10)
Zeros(n) == [i \in 1 .. n |-> 0]
Magnitude(n) == IF n < 0 THEN -n ELSE n

Text(n) == [neg |-> n < 0, whole |-> Digits[Magnitude(n)], frac |-> <<>>]

\* format_decimal128: zeros behind the digits, or in front of them so that
\* one is left before the point.
FormatDecimal(n, scale) ==
    LET digits == Digits[Magnitude(n)]
        padded == IF Len(digits) <= scale THEN Zeros(scale + 1 - Len(digits)) \o digits
                  ELSE digits
        point  == Len(padded) - scale
    IN  IF scale <= 0 THEN [Text(n) EXCEPT !.whole = @ \o Zeros(-scale)]
        ELSE [neg |-> n < 0, whole |-> SubSeq(padded, 1, point),
              frac |-> SubSeq(padded, point + 1, Len(padded))]

\* The days or microseconds a date or timestamp is written from.
Instant(t, n) ==
    CASE t.k = "Date32" -> n
      [] t.k = "Date64" -> n \div Day
      [] t.k = "Timestamp" -> UnixMicros(t.unit, n)

Formattable(t, n) ==
    CASE t.k \in {"Date32", "Date64"} -> Instant(t, n) \in DayFirst .. DayLast
      [] t.k = "Timestamp" -> Instant(t, n) \in ChronoFirst .. ChronoLast
      [] OTHER -> TRUE

Format(t, n) ==
    CASE t.k \in {"Date32", "Date64", "Timestamp"} -> Text(Instant(t, n))
      [] t.k = "Decimal128" -> FormatDecimal(n, t.scale)
      [] OTHER -> Text(n)

\* What the call returns: an error, or the text of the value there is.
Answer(t, cells, op) ==
    LET found == Extremum(cells, op)
    IN  IF ~HasExtremum(t) THEN [ok |-> FALSE, text |-> <<>>]
        ELSE IF found = <<>> THEN [ok |-> TRUE, text |-> <<>>]
        ELSE IF ~Formattable(t, found[1]) THEN [ok |-> FALSE, text |-> <<>>]
        ELSE [ok |-> TRUE, text |-> <<Format(t, found[1])>>]

\* The number a text stands for, times ten to the digits after its point.
Unsigned(digits) == FoldLeft(LAMBDA n, d : 10 * n + d, 0, digits)
Number(text) == LET n == Unsigned(text.whole \o text.frac) IN IF text.neg THEN -n ELSE n
=============================================================================
