----------------------------- MODULE Timestamps -----------------------------
(***************************************************************************)
(* The arithmetic of timestamps between Arrow (Unix time, in a unit) and   *)
(* PostgreSQL (microseconds since 2000), in integers of 64 bits.           *)
(***************************************************************************)
EXTENDS Integers

CONSTANTS
    Max64,              \* the largest i64
    Second, Milli,      \* microseconds in each
    Micro,              \* nanoseconds in it
    Epoch,              \* microseconds from 1970 to 2000
    PgFirst, PgLast     \* the finite timestamps of PostgreSQL

ASSUME TimeAssumption ==
    /\ Max64 \in Nat /\ Epoch \in 0 .. Max64
    /\ Second \in Nat \ {0} /\ Milli \in Nat \ {0} /\ Micro \in Nat \ {0}
    /\ PgFirst \in Int /\ PgLast \in Int
    /\ -Max64 <= PgFirst /\ PgFirst <= PgLast /\ PgLast <= Max64 - 1

Min64 == -Max64 - 1
I64   == Min64 .. Max64
Size  == 2 * (Max64 + 1)

\* Arithmetic that saturates, that wraps around (a release build), and
\* division that truncates towards zero.
Saturated(n) == IF n > Max64 THEN Max64 ELSE IF n < Min64 THEN Min64 ELSE n
Wrapped(n)   == IF n > Max64 THEN n - Size ELSE IF n < Min64 THEN n + Size ELSE n
Quotient(n, d) == IF n >= 0 THEN n \div d ELSE -((-n) \div d)

\* Microseconds of an Arrow timestamp.
UnixMicros(unit, v) ==
    CASE unit = "s"  -> Saturated(v * Second)
      [] unit = "ms" -> Saturated(v * Milli)
      [] unit = "us" -> v
      [] unit = "ns" -> Quotient(v, Micro)

\* Mutant of PgMicros: the subtraction saturates like the multiplication.
SaturatedMicros(u) == Saturated(u - Epoch)

\* Reading shifts to the epoch of PostgreSQL, writing shifts back.
PgMicros(u) == Wrapped(u - Epoch)
ToUnix(p)   == Wrapped(p + Epoch)

\* What PostgreSQL takes for a timestamp: the finite ones and the infinities.
PgTimestamp == (PgFirst .. PgLast) \union {Min64, Max64}

\* The microseconds of an Arrow timestamp, however large.
TrueMicros(unit, v) ==
    CASE unit = "s"  -> v * Second
      [] unit = "ms" -> v * Milli
      [] unit = "us" -> v
      [] unit = "ns" -> Quotient(v, Micro)

\* Neither the multiplication saturates nor the subtraction wraps.
InRange(unit, v) == TrueMicros(unit, v) \in Min64 + Epoch .. Max64
=============================================================================
