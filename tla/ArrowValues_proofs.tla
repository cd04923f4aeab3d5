-------------------------- MODULE ArrowValues_proofs --------------------------
(***************************************************************************)
(* What holds of every Arrow type, cell and target.                        *)
(*                                                                         *)
(* The functions over types are recursive: that one with the equation of   *)
(* its definition exists is proved first, level by level, and a fact about *)
(* every type by induction on its structure (TypeInduction).               *)
(***************************************************************************)
EXTENDS ArrowValues, TLAPS, FiniteSetTheorems, SequenceTheorems, WellFoundedInduction

-----------------------------------------------------------------------------
(* Timestamps, for every value of 64 bits.                                 *)

(***************************************************************************)
(* A timestamp written by append_datum and read by arrow_value_to_datum in *)
(* a release build is the one that was written: where the addition wraps,  *)
(* at infinity, the subtraction wraps back.                                *)
(***************************************************************************)
THEOREM WrittenTimestampReturns ==
    ASSUME NEW p \in I64
    PROVE  PgMicros(ToUnix(p)) = p
<1>1. Max64 \in Nat /\ Epoch \in 0 .. Max64
  BY TimeAssumption
<1>2. p \in Int /\ -Max64 - 1 <= p /\ p <= Max64
  BY <1>1 DEF I64, Min64
<1>3. CASE p + Epoch > Max64
  <2>1. ToUnix(p) = p + Epoch - 2 * (Max64 + 1)
    BY <1>1, <1>2, <1>3 DEF ToUnix, Wrapped, Size
  <2>2. p + Epoch - 2 * (Max64 + 1) - Epoch < Min64
    BY <1>1, <1>2 DEF Min64
  <2> QED
    BY <1>1, <1>2, <2>1, <2>2 DEF PgMicros, Wrapped, Size, Min64
<1>4. CASE ~(p + Epoch > Max64)
  <2>1. ToUnix(p) = p + Epoch
    BY <1>1, <1>2, <1>4 DEF ToUnix, Wrapped, Min64
  <2> QED
    BY <1>1, <1>2, <2>1 DEF PgMicros, Wrapped, Min64
<1> QED
  BY <1>3, <1>4

(***************************************************************************)
(* A timestamp in microseconds is shown exactly where the subtraction does *)
(* not overflow.  Where it does, a release build makes of a time before    *)
(* PostgreSQL's first one in the last stretch of the integers, as long as  *)
(* the epoch: convert.rs does not refuse it, only the range of a timestamp *)
(* does.                                                                   *)
(***************************************************************************)
THEOREM ReadTimestampIsExactOrWraps ==
    ASSUME NEW u \in I64
    PROVE  /\ u >= Min64 + Epoch => PgMicros(u) = u - Epoch
           /\ u < Min64 + Epoch => /\ PgMicros(u) = u - Epoch + Size
                                   /\ PgMicros(u) > Max64 - Epoch
                                   /\ PgMicros(u) \in I64
<1>1. Max64 \in Nat /\ Epoch \in 0 .. Max64
  BY TimeAssumption
<1>2. u \in Int /\ -Max64 - 1 <= u /\ u <= Max64
  BY <1>1 DEF I64, Min64
<1>3. ASSUME u >= Min64 + Epoch PROVE PgMicros(u) = u - Epoch
  BY <1>1, <1>2, <1>3 DEF PgMicros, Wrapped, Min64
<1>4. ASSUME u < Min64 + Epoch
      PROVE  PgMicros(u) = u - Epoch + Size /\ PgMicros(u) > Max64 - Epoch /\ PgMicros(u) \in I64
  <2>1. u - Epoch < Min64 /\ ~(u - Epoch > Max64)
    BY <1>1, <1>2, <1>4 DEF Min64
  <2>2. PgMicros(u) = u - Epoch + Size
    BY <2>1 DEF PgMicros, Wrapped
  <2> QED
    BY <1>1, <1>2, <2>1, <2>2 DEF Size, I64, Min64
<1> QED
  BY <1>3, <1>4

(***************************************************************************)
(* Reading keeps the order of the timestamps that do not overflow, so that *)
(* a comparison in SQL decides as one of the Arrow values.                 *)
(***************************************************************************)
THEOREM ReadingKeepsOrder ==
    ASSUME NEW u \in Min64 + Epoch .. Max64, NEW v \in Min64 + Epoch .. Max64
    PROVE  PgMicros(u) < PgMicros(v) <=> u < v
<1>1. Max64 \in Nat /\ Epoch \in 0 .. Max64
  BY TimeAssumption
<1>2. u \in I64 /\ v \in I64 /\ u >= Min64 + Epoch /\ v >= Min64 + Epoch
  BY <1>1 DEF I64, Min64
<1>3. PgMicros(u) = u - Epoch /\ PgMicros(v) = v - Epoch
  BY <1>2, ReadTimestampIsExactOrWraps
<1> QED
  BY <1>1, <1>2, <1>3 DEF I64, Min64

(***************************************************************************)
(* An Arrow timestamp of any unit in range is converted with nothing lost  *)
(* but the digits below a microsecond.                                     *)
(***************************************************************************)
THEOREM InRangeIsExact ==
    ASSUME NEW unit \in {"s", "ms", "us", "ns"}, NEW v \in I64, InRange(unit, v)
    PROVE  PgMicros(UnixMicros(unit, v)) = TrueMicros(unit, v) - Epoch
<1> DEFINE T == TrueMicros(unit, v)
<1>1. Max64 \in Nat /\ Epoch \in 0 .. Max64
  BY TimeAssumption
<1>2. T \in Int /\ Min64 + Epoch <= T /\ T <= Max64
  BY <1>1 DEF InRange, Min64
<1>3. T \in I64 /\ Min64 <= T
  <2> HIDE DEF T
  <2> QED BY <1>1, <1>2 DEF I64, Min64
<1>4. UnixMicros(unit, v) = T
  <2>1. Saturated(T) = T
    <3> HIDE DEF T
    <3> QED BY <1>1, <1>2, <1>3 DEF Saturated, Min64
  <2>2. CASE unit = "s"
    BY <2>1, <2>2 DEF UnixMicros, TrueMicros
  <2>3. CASE unit = "ms"
    BY <2>1, <2>3 DEF UnixMicros, TrueMicros
  <2>4. CASE unit = "us"
    BY <2>4 DEF UnixMicros, TrueMicros
  <2>5. CASE unit = "ns"
    BY <2>5 DEF UnixMicros, TrueMicros
  <2> QED
    BY <2>2, <2>3, <2>4, <2>5
<1> HIDE DEF T
<1>5. PgMicros(T) = T - Epoch
  BY <1>2, <1>3, ReadTimestampIsExactOrWraps
<1> QED
  BY <1>4, <1>5 DEF T

\* What a level is made over.
Below(f, n) == IF n = 0 THEN {} ELSE f[n - 1]

-----------------------------------------------------------------------------
(* Induction.                                                              *)

\* A set of numbers that has one has a least one.
LEMMA Least == ASSUME NEW S \in SUBSET Nat, S # {} PROVE \E m \in S : \A n \in S : m <= n
<1>1. PICK T : T = { 0 .. m : m \in S }
  OBVIOUS
<1>2. T # {}
  BY <1>1
<1>3. T \subseteq FiniteSubsetsOf(Nat)
  <2>1. \A m \in S : 0 .. m \subseteq Nat /\ IsFiniteSet(0 .. m)
    BY FS_Interval
  <2> QED
    BY <1>1, <2>1 DEF FiniteSubsetsOf
<1>4. PICK I \in T : \A J \in T : <<J, I>> \notin StrictSubsetOrdering(Nat)
  BY <1>2, <1>3, FS_StrictSubsetOrderingWellFounded, WFMin
<1>5. PICK m \in S : I = 0 .. m
  BY <1>1
<1>6. ASSUME NEW x \in S, x < m PROVE FALSE
  <2>1. 0 .. x \in T /\ 0 .. x \subseteq 0 .. m /\ 0 .. x \subseteq Nat /\ 0 .. m \subseteq Nat
    BY <1>1, <1>6
  <2>2. m \in 0 .. m /\ m \notin 0 .. x
    BY <1>6
  <2> QED
    BY <1>4, <1>5, <2>1, <2>2 DEF StrictSubsetOrdering
<1> QED
  BY <1>6

\* What holds of 0 and of n + 1 where it holds of n, holds up to N.
LEMMA Induct ==
    ASSUME NEW N \in Nat, NEW S, 0 \in S, \A n \in 0 .. N - 1 : n \in S => n + 1 \in S
    PROVE  0 .. N \subseteq S
<1> SUFFICES ASSUME NEW x \in 0 .. N, x \notin S PROVE FALSE
  OBVIOUS
<1>1. PICK T : T = (0 .. N) \ S
  OBVIOUS
<1>2. T \in SUBSET Nat /\ T # {}
  BY <1>1
<1>3. PICK m \in T : \A n \in T : m <= n
  BY <1>2, Least
<1>4. m \in 0 .. N /\ m \notin S /\ m # 0
  BY <1>1
<1>5. m - 1 \in 0 .. N - 1 /\ m - 1 \notin T /\ m - 1 \in 0 .. N
  BY <1>2, <1>3, <1>4
<1>6. m - 1 \in S
  BY <1>1, <1>5
<1>7. m - 1 + 1 \in S
  BY <1>5, <1>6
<1> QED
  BY <1>4, <1>7

\* TypesTo is what its definition says.
LEMMA TypesToIs ==
    ASSUME NEW n \in 0 .. MaxDepth
    PROVE  TypesTo[n] = TypesOver(Below(TypesTo, n))
<1> DEFINE Good(f, m) == \A i \in 0 .. m : f[i] = TypesOver(Below(f, i))
<1> DEFINE S == {m \in 0 .. MaxDepth : \E f : f = [i \in 0 .. MaxDepth |-> f[i]] /\ Good(f, m)}
<1>0. MaxDepth \in Nat
  BY DepthAssumption
<1>1. 0 \in S
  <2>1. PICK f : f = [i \in 0 .. MaxDepth |-> TypesOver({})]
    OBVIOUS
  <2> QED
    BY <1>0, <2>1 DEF Below
<1>2. ASSUME NEW m \in 0 .. MaxDepth - 1, m \in S PROVE m + 1 \in S
  <2>1. PICK f : f = [i \in 0 .. MaxDepth |-> f[i]] /\ Good(f, m)
    BY <1>2
  <2>2. PICK g : g = [i \in 0 .. MaxDepth |-> TypesOver(Below(f, i))]
    OBVIOUS
  <2>3. \A i \in 0 .. m : g[i] = f[i]
    BY <1>0, <2>1, <2>2
  <2>4. \A i \in 0 .. m + 1 : Below(g, i) = Below(f, i)
    BY <1>0, <2>3 DEF Below
  <2>5. Good(g, m + 1)
    BY <1>0, <2>2, <2>4
  <2>6. g = [i \in 0 .. MaxDepth |-> g[i]]
    BY <2>2
  <2>7. m + 1 \in 0 .. MaxDepth
    BY <1>0
  <2> QED
    BY <2>5, <2>6, <2>7
<1>3. MaxDepth \in S
  <2> HIDE DEF S
  <2> QED
    BY <1>0, <1>1, <1>2, Induct
<1>4. \E f : f = [i \in 0 .. MaxDepth |-> TypesOver(Below(f, i))]
  <2>1. PICK f : f = [i \in 0 .. MaxDepth |-> f[i]] /\ Good(f, MaxDepth)
    BY <1>3
  <2>2. f = [i \in 0 .. MaxDepth |-> TypesOver(Below(f, i))]
    BY <2>1
  <2> QED
    BY <2>2
<1>5. TypesTo = [i \in 0 .. MaxDepth |-> TypesOver(Below(TypesTo, i))]
  BY <1>4 DEF TypesTo, Below
<1> QED
  BY <1>5

\* CellsTo is what its definition says.
LEMMA CellsToIs ==
    ASSUME NEW n \in 0 .. MaxDepth
    PROVE  CellsTo[n] = CellsOver(Below(CellsTo, n))
<1> DEFINE Good(f, m) == \A i \in 0 .. m : f[i] = CellsOver(Below(f, i))
<1> DEFINE S == {m \in 0 .. MaxDepth : \E f : f = [i \in 0 .. MaxDepth |-> f[i]] /\ Good(f, m)}
<1>0. MaxDepth \in Nat
  BY DepthAssumption
<1>1. 0 \in S
  <2>1. PICK f : f = [i \in 0 .. MaxDepth |-> CellsOver({})]
    OBVIOUS
  <2> QED
    BY <1>0, <2>1 DEF Below
<1>2. ASSUME NEW m \in 0 .. MaxDepth - 1, m \in S PROVE m + 1 \in S
  <2>1. PICK f : f = [i \in 0 .. MaxDepth |-> f[i]] /\ Good(f, m)
    BY <1>2
  <2>2. PICK g : g = [i \in 0 .. MaxDepth |-> CellsOver(Below(f, i))]
    OBVIOUS
  <2>3. \A i \in 0 .. m : g[i] = f[i]
    BY <1>0, <2>1, <2>2
  <2>4. \A i \in 0 .. m + 1 : Below(g, i) = Below(f, i)
    BY <1>0, <2>3 DEF Below
  <2>5. Good(g, m + 1)
    BY <1>0, <2>2, <2>4
  <2>6. g = [i \in 0 .. MaxDepth |-> g[i]]
    BY <2>2
  <2>7. m + 1 \in 0 .. MaxDepth
    BY <1>0
  <2> QED
    BY <2>5, <2>6, <2>7
<1>3. MaxDepth \in S
  <2> HIDE DEF S
  <2> QED
    BY <1>0, <1>1, <1>2, Induct
<1>4. \E f : f = [i \in 0 .. MaxDepth |-> CellsOver(Below(f, i))]
  <2>1. PICK f : f = [i \in 0 .. MaxDepth |-> f[i]] /\ Good(f, MaxDepth)
    BY <1>3
  <2>2. f = [i \in 0 .. MaxDepth |-> CellsOver(Below(f, i))]
    BY <2>1
  <2> QED
    BY <2>2
<1>5. CellsTo = [i \in 0 .. MaxDepth |-> CellsOver(Below(CellsTo, i))]
  BY <1>4 DEF CellsTo, Below
<1> QED
  BY <1>5

\* DatumsTo is what its definition says.
LEMMA DatumsToIs ==
    ASSUME NEW n \in 0 .. MaxDepth
    PROVE  DatumsTo[n] = DatumsOver(Below(DatumsTo, n))
<1> DEFINE Good(f, m) == \A i \in 0 .. m : f[i] = DatumsOver(Below(f, i))
<1> DEFINE S == {m \in 0 .. MaxDepth : \E f : f = [i \in 0 .. MaxDepth |-> f[i]] /\ Good(f, m)}
<1>0. MaxDepth \in Nat
  BY DepthAssumption
<1>1. 0 \in S
  <2>1. PICK f : f = [i \in 0 .. MaxDepth |-> DatumsOver({})]
    OBVIOUS
  <2> QED
    BY <1>0, <2>1 DEF Below
<1>2. ASSUME NEW m \in 0 .. MaxDepth - 1, m \in S PROVE m + 1 \in S
  <2>1. PICK f : f = [i \in 0 .. MaxDepth |-> f[i]] /\ Good(f, m)
    BY <1>2
  <2>2. PICK g : g = [i \in 0 .. MaxDepth |-> DatumsOver(Below(f, i))]
    OBVIOUS
  <2>3. \A i \in 0 .. m : g[i] = f[i]
    BY <1>0, <2>1, <2>2
  <2>4. \A i \in 0 .. m + 1 : Below(g, i) = Below(f, i)
    BY <1>0, <2>3 DEF Below
  <2>5. Good(g, m + 1)
    BY <1>0, <2>2, <2>4
  <2>6. g = [i \in 0 .. MaxDepth |-> g[i]]
    BY <2>2
  <2>7. m + 1 \in 0 .. MaxDepth
    BY <1>0
  <2> QED
    BY <2>5, <2>6, <2>7
<1>3. MaxDepth \in S
  <2> HIDE DEF S
  <2> QED
    BY <1>0, <1>1, <1>2, Induct
<1>4. \E f : f = [i \in 0 .. MaxDepth |-> DatumsOver(Below(f, i))]
  <2>1. PICK f : f = [i \in 0 .. MaxDepth |-> f[i]] /\ Good(f, MaxDepth)
    BY <1>3
  <2>2. f = [i \in 0 .. MaxDepth |-> DatumsOver(Below(f, i))]
    BY <2>1
  <2> QED
    BY <2>2
<1>5. DatumsTo = [i \in 0 .. MaxDepth |-> DatumsOver(Below(DatumsTo, i))]
  BY <1>4 DEF DatumsTo, Below
<1> QED
  BY <1>5

\* A type that nests less deep is one that may nest deeper.
LEMMA TypesToGrow ==
    ASSUME NEW n \in 0 .. MaxDepth
    PROVE  /\ TypesTo[n] \subseteq TypesTo[MaxDepth]
           /\ n > 0 => TypesTo[n - 1] \subseteq TypesTo[n]
<1> DEFINE S == {m \in 0 .. MaxDepth : m < MaxDepth => TypesTo[m] \subseteq TypesTo[m + 1]}
<1> DEFINE T == {m \in 0 .. MaxDepth : TypesTo[MaxDepth - m] \subseteq TypesTo[MaxDepth]}
<1>0. MaxDepth \in Nat
  BY DepthAssumption
<1>1. ASSUME NEW a, NEW b, a \subseteq b PROVE TypesOver(a) \subseteq TypesOver(b)
  <2>1. Seq(Name \X a) \subseteq Seq(Name \X b)
    BY <1>1
  <2> QED
    BY <2>1 DEF TypesOver
<1>2. 0 \in S
  <2>1. ASSUME 0 < MaxDepth PROVE TypesTo[0] \subseteq TypesTo[1]
    <3>1. 0 \in 0 .. MaxDepth /\ 1 \in 0 .. MaxDepth
      BY <1>0, <2>1
    <3>2. TypesTo[0] = TypesOver({}) /\ TypesTo[1] = TypesOver(TypesTo[0])
      BY <3>1, TypesToIs DEF Below
    <3> QED
      BY <1>1, <3>2
  <2> QED
    BY <1>0, <2>1
<1>3. ASSUME NEW m \in 0 .. MaxDepth - 1, m \in S PROVE m + 1 \in S
  <2>1. m + 1 \in 0 .. MaxDepth /\ m \in 0 .. MaxDepth /\ m + 1 # 0 /\ m + 1 + 1 # 0 /\ m + 1 - 1 = m
        /\ m < MaxDepth
    BY <1>0
  <2>2. TypesTo[m] \subseteq TypesTo[m + 1] /\ TypesTo[m + 1] = TypesOver(TypesTo[m])
    BY <1>3, <2>1, TypesToIs DEF Below
  <2>3. ASSUME m + 1 < MaxDepth PROVE TypesTo[m + 1] \subseteq TypesTo[m + 1 + 1]
    <3>1. m + 1 + 1 \in 0 .. MaxDepth /\ m + 1 + 1 - 1 = m + 1
      BY <1>0, <2>3
    <3>2. TypesTo[m + 1 + 1] = TypesOver(TypesTo[m + 1])
      BY <2>1, <3>1, TypesToIs DEF Below
    <3> QED
      BY <1>1, <2>2, <3>2
  <2> QED
    BY <2>1, <2>3
<1>4. 0 .. MaxDepth \subseteq S
  <2> HIDE DEF S
  <2> QED
    BY <1>0, <1>2, <1>3, Induct
<1>5. 0 \in T
  BY <1>0
<1>6. ASSUME NEW m \in 0 .. MaxDepth - 1, m \in T PROVE m + 1 \in T
  <2>1. MaxDepth - (m + 1) \in 0 .. MaxDepth /\ MaxDepth - (m + 1) < MaxDepth
        /\ MaxDepth - (m + 1) + 1 = MaxDepth - m /\ m + 1 \in 0 .. MaxDepth
    BY <1>0
  <2>2. TypesTo[MaxDepth - (m + 1)] \subseteq TypesTo[MaxDepth - m]
    BY <1>4, <2>1
  <2> QED
    BY <1>6, <2>1, <2>2
<1>7. 0 .. MaxDepth \subseteq T
  <2> HIDE DEF T
  <2> QED
    BY <1>0, <1>5, <1>6, Induct
<1>8. MaxDepth - n \in 0 .. MaxDepth /\ MaxDepth - (MaxDepth - n) = n
  BY <1>0
<1>9. TypesTo[n] \subseteq TypesTo[MaxDepth]
  BY <1>7, <1>8
<1>10. ASSUME n > 0 PROVE TypesTo[n - 1] \subseteq TypesTo[n]
  <2>1. n - 1 \in 0 .. MaxDepth /\ n - 1 < MaxDepth /\ n - 1 + 1 = n
    BY <1>0, <1>10
  <2> QED
    BY <1>4, <2>1
<1> QED
  BY <1>9, <1>10

\* The same of cells.
LEMMA CellsToGrow ==
    ASSUME NEW n \in 0 .. MaxDepth
    PROVE  /\ CellsTo[n] \subseteq CellsTo[MaxDepth]
           /\ n > 0 => CellsTo[n - 1] \subseteq CellsTo[n]
<1> DEFINE S == {m \in 0 .. MaxDepth : m < MaxDepth => CellsTo[m] \subseteq CellsTo[m + 1]}
<1> DEFINE T == {m \in 0 .. MaxDepth : CellsTo[MaxDepth - m] \subseteq CellsTo[MaxDepth]}
<1>0. MaxDepth \in Nat
  BY DepthAssumption
<1>1. ASSUME NEW a, NEW b, a \subseteq b PROVE CellsOver(a) \subseteq CellsOver(b)
  BY <1>1 DEF CellsOver
<1>2. 0 \in S
  <2>1. ASSUME 0 < MaxDepth PROVE CellsTo[0] \subseteq CellsTo[1]
    <3>1. 0 \in 0 .. MaxDepth /\ 1 \in 0 .. MaxDepth
      BY <1>0, <2>1
    <3>2. CellsTo[0] = CellsOver({}) /\ CellsTo[1] = CellsOver(CellsTo[0])
      BY <3>1, CellsToIs DEF Below
    <3> QED
      BY <1>1, <3>2
  <2> QED
    BY <1>0, <2>1
<1>3. ASSUME NEW m \in 0 .. MaxDepth - 1, m \in S PROVE m + 1 \in S
  <2>1. m + 1 \in 0 .. MaxDepth /\ m \in 0 .. MaxDepth /\ m + 1 # 0 /\ m + 1 + 1 # 0 /\ m + 1 - 1 = m
        /\ m < MaxDepth
    BY <1>0
  <2>2. CellsTo[m] \subseteq CellsTo[m + 1] /\ CellsTo[m + 1] = CellsOver(CellsTo[m])
    BY <1>3, <2>1, CellsToIs DEF Below
  <2>3. ASSUME m + 1 < MaxDepth PROVE CellsTo[m + 1] \subseteq CellsTo[m + 1 + 1]
    <3>1. m + 1 + 1 \in 0 .. MaxDepth /\ m + 1 + 1 - 1 = m + 1
      BY <1>0, <2>3
    <3>2. CellsTo[m + 1 + 1] = CellsOver(CellsTo[m + 1])
      BY <2>1, <3>1, CellsToIs DEF Below
    <3> QED
      BY <1>1, <2>2, <3>2
  <2> QED
    BY <2>1, <2>3
<1>4. 0 .. MaxDepth \subseteq S
  <2> HIDE DEF S
  <2> QED
    BY <1>0, <1>2, <1>3, Induct
<1>5. 0 \in T
  BY <1>0
<1>6. ASSUME NEW m \in 0 .. MaxDepth - 1, m \in T PROVE m + 1 \in T
  <2>1. MaxDepth - (m + 1) \in 0 .. MaxDepth /\ MaxDepth - (m + 1) < MaxDepth
        /\ MaxDepth - (m + 1) + 1 = MaxDepth - m /\ m + 1 \in 0 .. MaxDepth
    BY <1>0
  <2>2. CellsTo[MaxDepth - (m + 1)] \subseteq CellsTo[MaxDepth - m]
    BY <1>4, <2>1
  <2> QED
    BY <1>6, <2>1, <2>2
<1>7. 0 .. MaxDepth \subseteq T
  <2> HIDE DEF T
  <2> QED
    BY <1>0, <1>5, <1>6, Induct
<1>8. MaxDepth - n \in 0 .. MaxDepth /\ MaxDepth - (MaxDepth - n) = n
  BY <1>0
<1>9. CellsTo[n] \subseteq CellsTo[MaxDepth]
  BY <1>7, <1>8
<1>10. ASSUME n > 0 PROVE CellsTo[n - 1] \subseteq CellsTo[n]
  <2>1. n - 1 \in 0 .. MaxDepth /\ n - 1 < MaxDepth /\ n - 1 + 1 = n
    BY <1>0, <1>10
  <2> QED
    BY <1>4, <2>1
<1> QED
  BY <1>9, <1>10

\* The same of datums.
LEMMA DatumsToGrow ==
    ASSUME NEW n \in 0 .. MaxDepth
    PROVE  /\ DatumsTo[n] \subseteq DatumsTo[MaxDepth]
           /\ n > 0 => DatumsTo[n - 1] \subseteq DatumsTo[n]
<1> DEFINE S == {m \in 0 .. MaxDepth : m < MaxDepth => DatumsTo[m] \subseteq DatumsTo[m + 1]}
<1> DEFINE T == {m \in 0 .. MaxDepth : DatumsTo[MaxDepth - m] \subseteq DatumsTo[MaxDepth]}
<1>0. MaxDepth \in Nat
  BY DepthAssumption
<1>1. ASSUME NEW a, NEW b, a \subseteq b PROVE DatumsOver(a) \subseteq DatumsOver(b)
  BY <1>1 DEF DatumsOver
<1>2. 0 \in S
  <2>1. ASSUME 0 < MaxDepth PROVE DatumsTo[0] \subseteq DatumsTo[1]
    <3>1. 0 \in 0 .. MaxDepth /\ 1 \in 0 .. MaxDepth
      BY <1>0, <2>1
    <3>2. DatumsTo[0] = DatumsOver({}) /\ DatumsTo[1] = DatumsOver(DatumsTo[0])
      BY <3>1, DatumsToIs DEF Below
    <3> QED
      BY <1>1, <3>2
  <2> QED
    BY <1>0, <2>1
<1>3. ASSUME NEW m \in 0 .. MaxDepth - 1, m \in S PROVE m + 1 \in S
  <2>1. m + 1 \in 0 .. MaxDepth /\ m \in 0 .. MaxDepth /\ m + 1 # 0 /\ m + 1 + 1 # 0 /\ m + 1 - 1 = m
        /\ m < MaxDepth
    BY <1>0
  <2>2. DatumsTo[m] \subseteq DatumsTo[m + 1] /\ DatumsTo[m + 1] = DatumsOver(DatumsTo[m])
    BY <1>3, <2>1, DatumsToIs DEF Below
  <2>3. ASSUME m + 1 < MaxDepth PROVE DatumsTo[m + 1] \subseteq DatumsTo[m + 1 + 1]
    <3>1. m + 1 + 1 \in 0 .. MaxDepth /\ m + 1 + 1 - 1 = m + 1
      BY <1>0, <2>3
    <3>2. DatumsTo[m + 1 + 1] = DatumsOver(DatumsTo[m + 1])
      BY <2>1, <3>1, DatumsToIs DEF Below
    <3> QED
      BY <1>1, <2>2, <3>2
  <2> QED
    BY <2>1, <2>3
<1>4. 0 .. MaxDepth \subseteq S
  <2> HIDE DEF S
  <2> QED
    BY <1>0, <1>2, <1>3, Induct
<1>5. 0 \in T
  BY <1>0
<1>6. ASSUME NEW m \in 0 .. MaxDepth - 1, m \in T PROVE m + 1 \in T
  <2>1. MaxDepth - (m + 1) \in 0 .. MaxDepth /\ MaxDepth - (m + 1) < MaxDepth
        /\ MaxDepth - (m + 1) + 1 = MaxDepth - m /\ m + 1 \in 0 .. MaxDepth
    BY <1>0
  <2>2. DatumsTo[MaxDepth - (m + 1)] \subseteq DatumsTo[MaxDepth - m]
    BY <1>4, <2>1
  <2> QED
    BY <1>6, <2>1, <2>2
<1>7. 0 .. MaxDepth \subseteq T
  <2> HIDE DEF T
  <2> QED
    BY <1>0, <1>5, <1>6, Induct
<1>8. MaxDepth - n \in 0 .. MaxDepth /\ MaxDepth - (MaxDepth - n) = n
  BY <1>0
<1>9. DatumsTo[n] \subseteq DatumsTo[MaxDepth]
  BY <1>7, <1>8
<1>10. ASSUME n > 0 PROVE DatumsTo[n - 1] \subseteq DatumsTo[n]
  <2>1. n - 1 \in 0 .. MaxDepth /\ n - 1 < MaxDepth /\ n - 1 + 1 = n
    BY <1>0, <1>10
  <2> QED
    BY <1>4, <2>1
<1> QED
  BY <1>9, <1>10

-----------------------------------------------------------------------------
(* The parts of types, cells and datums.                                   *)

\* What a type has inside nests less deep than itself.
LEMMA Inside ==
    ASSUME NEW n \in 0 .. MaxDepth, NEW t \in TypesTo[n], NEW i \in DOMAIN t.sub
    PROVE  n > 0 /\ n - 1 \in 0 .. MaxDepth /\ TypeOf(t.sub[i]) \in TypesTo[n - 1]
           /\ NameOf(t.sub[i]) \in Name
<1>1. t \in TypesOver(Below(TypesTo, n))
  BY TypesToIs
<1>2. t.sub \in Seq(Name \X Below(TypesTo, n))
  BY <1>1 DEF TypesOver
<1>3. t.sub[i] \in Name \X Below(TypesTo, n)
  BY <1>2
<1>4. TypeOf(t.sub[i]) \in Below(TypesTo, n) /\ NameOf(t.sub[i]) \in Name
  BY <1>3 DEF TypeOf, NameOf
<1>5. n # 0 /\ TypeOf(t.sub[i]) \in TypesTo[n - 1]
  BY <1>4 DEF Below
<1> QED
  BY <1>4, <1>5, DepthAssumption

\* A type, its fields and theirs.
LEMMA TypeParts ==
    ASSUME NEW t \in Types
    PROVE  /\ t.k \in Kinds /\ t.scale \in Int /\ t.unit \in {"", "s", "ms", "us", "ns"}
           /\ t.tz \in BOOLEAN /\ Shaped(t)
           /\ t.sub \in Seq(Name \X Types) /\ DOMAIN t.sub = 1 .. Len(t.sub) /\ Len(t.sub) \in Nat
           /\ \A i \in DOMAIN t.sub : TypeOf(t.sub[i]) \in Types /\ NameOf(t.sub[i]) \in Name
           /\ t.k \in Lists \union {"Dictionary"} => 1 \in DOMAIN t.sub /\ Item(t) \in Types
<1>0. MaxDepth \in 0 .. MaxDepth /\ t \in TypesTo[MaxDepth]
  BY DepthAssumption DEF Types
<1>1. t \in TypesOver(Below(TypesTo, MaxDepth))
  BY <1>0, TypesToIs
<1>2. Below(TypesTo, MaxDepth) \subseteq Types
  BY <1>0, TypesToGrow DEF Below, Types
<1>3. /\ t.k \in Kinds /\ t.scale \in Int /\ t.unit \in {"", "s", "ms", "us", "ns"}
      /\ t.tz \in BOOLEAN /\ Shaped(t) /\ t.sub \in Seq(Name \X Below(TypesTo, MaxDepth))
  BY <1>1 DEF TypesOver
<1>4. t.sub \in Seq(Name \X Types)
  <2>1. Seq(Name \X Below(TypesTo, MaxDepth)) \subseteq Seq(Name \X Types)
    BY <1>2
  <2> QED
    BY <1>3, <2>1
<1>5. DOMAIN t.sub = 1 .. Len(t.sub) /\ Len(t.sub) \in Nat
  BY <1>4
<1>6. ASSUME NEW i \in DOMAIN t.sub PROVE TypeOf(t.sub[i]) \in Types /\ NameOf(t.sub[i]) \in Name
  <2>1. t.sub[i] \in Name \X Types
    BY <1>4
  <2> QED
    BY <2>1 DEF TypeOf, NameOf
<1>7. ASSUME t.k \in Lists \union {"Dictionary"} PROVE 1 \in DOMAIN t.sub /\ Item(t) \in Types
  <2>1. Len(t.sub) = 1
    BY <1>3, <1>7 DEF Shaped
  <2> QED
    BY <1>5, <1>6, <2>1 DEF Item
<1> QED
  BY <1>3, <1>4, <1>5, <1>6, <1>7

\* What holds of a type where it holds of the types inside, holds of all.
LEMMA TypeInduction ==
    ASSUME NEW P, \A t \in Types : (\A i \in DOMAIN t.sub : TypeOf(t.sub[i]) \in P) => t \in P
    PROVE  Types \subseteq P
<1> DEFINE S == {n \in 0 .. MaxDepth : TypesTo[n] \subseteq P}
<1>0. MaxDepth \in Nat
  BY DepthAssumption
<1>1. 0 \in S
  <2>1. 0 \in 0 .. MaxDepth
    BY <1>0
  <2>2. ASSUME NEW t \in TypesTo[0] PROVE t \in P
    <3>1. t \in Types
      BY <2>1, TypesToGrow DEF Types
    <3>2. \A i \in DOMAIN t.sub : FALSE
      BY <2>1, Inside
    <3> QED
      BY <3>1, <3>2
  <2> QED
    BY <2>1, <2>2
<1>2. ASSUME NEW n \in 0 .. MaxDepth - 1, n \in S PROVE n + 1 \in S
  <2>1. n + 1 \in 0 .. MaxDepth /\ n + 1 - 1 = n
    BY <1>0
  <2>2. ASSUME NEW t \in TypesTo[n + 1] PROVE t \in P
    <3>1. t \in Types
      BY <2>1, TypesToGrow DEF Types
    <3>2. \A i \in DOMAIN t.sub : TypeOf(t.sub[i]) \in TypesTo[n]
      BY <2>1, Inside
    <3> QED
      BY <1>2, <3>1, <3>2
  <2> QED
    BY <2>1, <2>2
<1>3. 0 .. MaxDepth \subseteq S
  <2> HIDE DEF S
  <2> QED
    BY <1>0, <1>1, <1>2, Induct
<1>4. MaxDepth \in 0 .. MaxDepth
  BY <1>0
<1> QED
  BY <1>3, <1>4 DEF Types

\* A cell, and the cells inside it.
LEMMA CellParts ==
    ASSUME NEW n \in 0 .. MaxDepth, NEW v \in CellsTo[n]
    PROVE  /\ v.n \in Numbers /\ v.null \in BOOLEAN
           /\ v.sub \in Seq(Below(CellsTo, n))
           /\ DOMAIN v.sub = 1 .. Len(v.sub) /\ Len(v.sub) \in Nat
           /\ \A i \in DOMAIN v.sub :
                n > 0 /\ n - 1 \in 0 .. MaxDepth /\ v.sub[i] \in CellsTo[n - 1] /\ v.sub[i] \in Cells
<1>1. v \in CellsOver(Below(CellsTo, n))
  BY CellsToIs
<1>2. v.n \in Numbers /\ v.null \in BOOLEAN /\ v.sub \in Seq(Below(CellsTo, n))
  BY <1>1 DEF CellsOver
<1>3. ASSUME NEW i \in DOMAIN v.sub
      PROVE  n > 0 /\ n - 1 \in 0 .. MaxDepth /\ v.sub[i] \in CellsTo[n - 1] /\ v.sub[i] \in Cells
  <2>1. v.sub[i] \in Below(CellsTo, n)
    BY <1>2
  <2>2. n # 0 /\ v.sub[i] \in CellsTo[n - 1]
    BY <2>1 DEF Below
  <2>3. n > 0 /\ n - 1 \in 0 .. MaxDepth
    BY <2>2, DepthAssumption
  <2> QED
    BY <2>2, <2>3, CellsToGrow DEF Cells
<1> QED
  BY <1>2, <1>3

LEMMA CellFacts ==
    ASSUME NEW v \in Cells
    PROVE  /\ v.n \in Numbers /\ v.null \in BOOLEAN
           /\ DOMAIN v.sub = 1 .. Len(v.sub) /\ Len(v.sub) \in Nat
           /\ \A i \in DOMAIN v.sub : v.sub[i] \in Cells
<1>1. MaxDepth \in 0 .. MaxDepth /\ v \in CellsTo[MaxDepth]
  BY DepthAssumption DEF Cells
<1> QED
  BY <1>1, CellParts

\* What a datum is made of.
LEMMA DatumParts ==
    ASSUME NEW n \in 0 .. MaxDepth, NEW d \in DatumsTo[n]
    PROVE  /\ d.k \in DatumKinds /\ d.n \in Numbers /\ d.scale \in Int /\ d.names \in Seq(Name)
           /\ d.sub \in Seq(Below(DatumsTo, n))
           /\ \A i \in DOMAIN d.sub :
                n > 0 /\ n - 1 \in 0 .. MaxDepth /\ d.sub[i] \in DatumsTo[n - 1] /\ d.sub[i] \in Datums
<1>1. d \in DatumsOver(Below(DatumsTo, n))
  BY DatumsToIs
<1>2. /\ d.k \in DatumKinds /\ d.n \in Numbers /\ d.scale \in Int /\ d.names \in Seq(Name)
      /\ d.sub \in Seq(Below(DatumsTo, n))
  BY <1>1 DEF DatumsOver
<1>3. ASSUME NEW i \in DOMAIN d.sub
      PROVE  n > 0 /\ n - 1 \in 0 .. MaxDepth /\ d.sub[i] \in DatumsTo[n - 1] /\ d.sub[i] \in Datums
  <2>1. d.sub[i] \in Below(DatumsTo, n)
    BY <1>2
  <2>2. n # 0 /\ d.sub[i] \in DatumsTo[n - 1]
    BY <2>1 DEF Below
  <2>3. n > 0 /\ n - 1 \in 0 .. MaxDepth
    BY <2>2, DepthAssumption
  <2> QED
    BY <2>2, <2>3, DatumsToGrow DEF Datums
<1> QED
  BY <1>2, <1>3

\* Datums that hold nothing are of every level, and a compound is one level
\* above its parts.
LEMMA PlainDatum ==
    ASSUME NEW n \in 0 .. MaxDepth, NEW k \in DatumKinds, NEW x \in Numbers, NEW s \in Int
    PROVE  /\ [Datum(k, x) EXCEPT !.scale = s] \in DatumsTo[n]
           /\ Datum(k, x) \in DatumsTo[n]
<1>1. DatumsTo[n] = DatumsOver(Below(DatumsTo, n))
  BY DatumsToIs
<1>2. <<>> \in Seq(Below(DatumsTo, n)) /\ <<>> \in Seq(Name) /\ 0 \in Int
  OBVIOUS
<1> QED
  BY <1>1, <1>2 DEF Datum, DatumsOver

LEMMA CompoundDatum ==
    ASSUME NEW n \in 0 .. MaxDepth, NEW k \in DatumKinds, NEW names \in Seq(Name),
           NEW sub, NEW l \in Nat, DOMAIN sub = 1 .. l, sub = [i \in DOMAIN sub |-> sub[i]],
           \A i \in DOMAIN sub : n > 0 /\ sub[i] \in DatumsTo[n - 1]
    PROVE  Compound(k, sub, names) \in DatumsTo[n]
<1>1. DatumsTo[n] = DatumsOver(Below(DatumsTo, n))
  BY DatumsToIs
<1>2. sub \in [1 .. l -> Below(DatumsTo, n)]
  BY DEF Below
<1>3. sub \in Seq(Below(DatumsTo, n)) /\ 0 \in Int /\ 0 \in Numbers
  BY <1>2 DEF Numbers
<1> QED
  BY <1>1, <1>3 DEF Datum, Compound, DatumsOver

-----------------------------------------------------------------------------
(* The functions over types are what their definitions say.                *)

\* Position is 0 or the first field of the name.
LEMMA PositionIs ==
    ASSUME NEW fields, NEW l \in Nat, Len(fields) = l, NEW name
    PROVE  /\ Position(fields, name) \in 0 .. l
           /\ Position(fields, name) # 0 => NameOf(fields[Position(fields, name)]) = name
           /\ \A i \in 1 .. l : NameOf(fields[i]) = name => 0 < Position(fields, name) /\ Position(fields, name) <= i
<1> DEFINE I == {i \in 1 .. l : NameOf(fields[i]) = name}
<1>1. Position(fields, name) = IF I # {} THEN Min(I) ELSE 0
  BY DEF Position, SelectInSeq
<1>2. ASSUME I # {} PROVE Min(I) \in I /\ \A i \in I : Min(I) <= i
  <2>1. I \in SUBSET Nat
    OBVIOUS
  <2>2. \E m \in I : \A i \in I : m <= i
    BY <1>2, <2>1, Least
  <2> HIDE DEF I
  <2> QED
    BY <2>2 DEF Min
<1>3. CASE I = {}
  BY <1>1, <1>3
<1>4. CASE I # {}
  <2>1. PICK p : p = Min(I)
    OBVIOUS
  <2>2. p \in I /\ \A i \in I : p <= i
    BY <1>2, <1>4, <2>1
  <2>3. Position(fields, name) = p
    BY <1>1, <1>4, <2>1
  <2>4. p \in 1 .. l /\ NameOf(fields[p]) = name /\ \A i \in 1 .. l : NameOf(fields[i]) = name => p <= i
    BY <2>2
  <2> HIDE DEF I
  <2>5. p \in 0 .. l /\ p # 0 /\ 0 < p
    BY <2>4
  <2> QED
    BY <2>3, <2>4, <2>5
<1> QED
  BY <1>3, <1>4

LEMMA JsonOfLocal ==
    ASSUME NEW f, NEW g, NEW t \in Types, NEW v \in Cells,
           \A i \in DOMAIN t.sub : f[TypeOf(t.sub[i])] = g[TypeOf(t.sub[i])]
    PROVE  JsonOf(f, t, v) = JsonOf(g, t, v)
<1>1. t.k \in Lists \union {"Dictionary"} => f[Item(t)] = g[Item(t)]
  BY TypeParts DEF Item
<1>2. [i \in DOMAIN t.sub |-> f[TypeOf(t.sub[i])][v.sub[i]]] = [i \in DOMAIN t.sub |-> g[TypeOf(t.sub[i])][v.sub[i]]]
  OBVIOUS
<1>3. CASE t.k \in Lists
  <2>1. [i \in DOMAIN v.sub |-> f[Item(t)][v.sub[i]]] = [i \in DOMAIN v.sub |-> g[Item(t)][v.sub[i]]]
    BY <1>1, <1>3
  <2> QED
    BY <1>3, <2>1 DEF JsonOf, Lists
<1>4. CASE t.k = "Dictionary"
  BY <1>1, <1>4 DEF JsonOf, Lists
<1>5. CASE t.k = "Struct"
  BY <1>2, <1>5 DEF JsonOf, Lists
<1>6. CASE t.k \notin Lists \union {"Dictionary", "Struct"}
  BY <1>6 DEF JsonOf
<1> QED
  BY <1>3, <1>4, <1>5, <1>6

LEMMA HeldLocal ==
    ASSUME NEW f, NEW g, NEW t \in Types, NEW v \in Cells,
           \A i \in DOMAIN t.sub : f[TypeOf(t.sub[i])] = g[TypeOf(t.sub[i])]
    PROVE  Held(f, t, v) = Held(g, t, v)
<1>1. t.k \in Lists \union {"Dictionary"} => f[Item(t)] = g[Item(t)]
  BY TypeParts DEF Item
<1>2. CASE v.null
  BY <1>2 DEF Held
<1>3. CASE ~v.null /\ t.k \in Lists
  BY <1>1, <1>3 DEF Held, Lists
<1>4. CASE ~v.null /\ t.k = "Dictionary"
  BY <1>1, <1>4 DEF Held, Lists
<1>5. CASE ~v.null /\ t.k = "Struct"
  BY <1>5 DEF Held, Lists
<1>6. CASE ~v.null /\ t.k \notin Lists \union {"Dictionary", "Struct"}
  BY <1>6 DEF Held
<1> QED
  BY <1>2, <1>3, <1>4, <1>5, <1>6

LEMMA FitsLocal ==
    ASSUME NEW catalog, NEW f, NEW g, NEW t \in Types, NEW pg \in PgTypes,
           \A i \in DOMAIN t.sub : f[TypeOf(t.sub[i])] = g[TypeOf(t.sub[i])]
    PROVE  Fits(f, t, pg, catalog) = Fits(g, t, pg, catalog)
<1>1. t.k \in Lists \union {"Dictionary"} => f[Item(t)] = g[Item(t)]
  BY TypeParts DEF Item
<1>2. \A a : Position(t.sub, NameOf(a)) # 0 =>
             f[TypeOf(t.sub[Position(t.sub, NameOf(a))])] = g[TypeOf(t.sub[Position(t.sub, NameOf(a))])]
  <2> SUFFICES ASSUME NEW a, Position(t.sub, NameOf(a)) # 0
               PROVE  f[TypeOf(t.sub[Position(t.sub, NameOf(a))])] = g[TypeOf(t.sub[Position(t.sub, NameOf(a))])]
    OBVIOUS
  <2>1. DOMAIN t.sub = 1 .. Len(t.sub) /\ Len(t.sub) \in Nat
    BY TypeParts
  <2>2. Position(t.sub, NameOf(a)) \in 0 .. Len(t.sub)
    BY <2>1, PositionIs
  <2>3. Position(t.sub, NameOf(a)) \in DOMAIN t.sub
    BY <2>1, <2>2
  <2> QED
    BY <2>3
<1>3. CASE t.k \in Lists
  BY <1>1, <1>3 DEF Fits, Lists
<1>4. CASE t.k = "Dictionary"
  BY <1>1, <1>4 DEF Fits, Lists
<1>5. CASE t.k = "Struct"
  BY <1>2, <1>5 DEF Fits, Lists
<1>6. CASE t.k \notin Lists \union {"Dictionary", "Struct"}
  BY <1>6 DEF Fits
<1> QED
  BY <1>3, <1>4, <1>5, <1>6

LEMMA DatumOfLocal ==
    ASSUME NEW env, NEW f, NEW g, NEW t \in Types, NEW v \in Cells, NEW pg \in PgTypes,
           \A i \in DOMAIN t.sub : f[TypeOf(t.sub[i])] = g[TypeOf(t.sub[i])]
    PROVE  DatumOf(f, t, v, pg, env) = DatumOf(g, t, v, pg, env)
<1>1. t.k \in Lists \union {"Dictionary"} => f[Item(t)] = g[Item(t)]
  BY TypeParts DEF Item
<1>2. t.k \in Lists => ToArray(f, t, v, pg, env) = ToArray(g, t, v, pg, env)
  BY <1>1 DEF ToArray
<1>3. ToRow(f, t, v, pg, env) = ToRow(g, t, v, pg, env)
  <2> DEFINE atts == Attributes(env.types, pg)
  <2> DEFINE Filled(h, i) ==
               LET x == FieldFor(t.sub, i, NameOf(atts[i]))
               IN  IF x \notin DOMAIN t.sub THEN Fails("mismatch")
                   ELSE h[TypeOf(t.sub[x])][v.sub[x]][TypeOf(atts[i])]
  <2>1. \A i : Filled(f, i) = Filled(g, i)
    OBVIOUS
  <2>2. [i \in DOMAIN atts |-> Filled(f, i)] = [i \in DOMAIN atts |-> Filled(g, i)]
    <3> HIDE DEF Filled
    <3> QED
      BY <2>1
  <2> QED
    BY <2>2 DEF ToRow
<1>4. CASE t.k \in Lists
  BY <1>2, <1>4 DEF DatumOf, Lists
<1>5. CASE t.k = "Dictionary"
  BY <1>1, <1>5 DEF DatumOf, Lists
<1>6. CASE t.k \notin Lists \union {"Dictionary"}
  BY <1>3, <1>6 DEF DatumOf, Lists
<1> QED
  BY <1>4, <1>5, <1>6

\* ToJson is what its definition says.
LEMMA ToJsonIs ==
    ASSUME NEW t \in Types, NEW v \in Cells
    PROVE  ToJson[t][v] = JsonOf(ToJson, t, v)
<1> DEFINE Row(f, s) == [c \in Cells |-> JsonOf(f, s, c)]
<1> DEFINE Good(f, m) == \A s \in TypesTo[m] : f[s] = Row(f, s)
<1> DEFINE S == {m \in 0 .. MaxDepth : \E f : f = [s \in Types |-> f[s]] /\ Good(f, m)}
<1>0. MaxDepth \in Nat
  BY DepthAssumption
<1>1. ASSUME NEW f, NEW g, NEW s \in Types,
             \A i \in DOMAIN s.sub : f[TypeOf(s.sub[i])] = g[TypeOf(s.sub[i])]
      PROVE  Row(f, s) = Row(g, s)
  <2>1. ASSUME NEW c \in Cells PROVE JsonOf(f, s, c) = JsonOf(g, s, c)
    BY <1>1, JsonOfLocal
  <2> QED
    BY <2>1
<1> HIDE DEF Row
<1>2. ASSUME NEW m \in 0 .. MaxDepth, NEW f, NEW g, g = [s \in Types |-> Row(f, s)],
             \A s \in TypesTo[m] : \A i \in DOMAIN s.sub : f[TypeOf(s.sub[i])] = g[TypeOf(s.sub[i])]
      PROVE  g = [s \in Types |-> g[s]] /\ Good(g, m)
  <2>1. g = [s \in Types |-> g[s]]
    BY <1>2
  <2>2. ASSUME NEW s \in TypesTo[m] PROVE g[s] = Row(g, s)
    <3>1. s \in Types
      BY TypesToGrow DEF Types
    <3>2. Row(f, s) = Row(g, s)
      BY <1>1, <1>2, <3>1
    <3> QED
      BY <1>2, <3>1, <3>2
  <2> QED
    BY <2>1, <2>2
<1>3. 0 \in S
  <2>1. PICK f : f = [s \in Types |-> {}]
    OBVIOUS
  <2>2. PICK g : g = [s \in Types |-> Row(f, s)]
    OBVIOUS
  <2>3. 0 \in 0 .. MaxDepth
    BY <1>0
  <2>4. \A s \in TypesTo[0] : \A i \in DOMAIN s.sub : f[TypeOf(s.sub[i])] = g[TypeOf(s.sub[i])]
    BY <2>3, Inside
  <2>5. g = [s \in Types |-> g[s]] /\ Good(g, 0)
    <3> HIDE DEF Good
    <3> QED
      BY <1>2, <2>2, <2>3, <2>4
  <2> QED
    BY <2>3, <2>5
<1>4. ASSUME NEW m \in 0 .. MaxDepth - 1, m \in S PROVE m + 1 \in S
  <2>1. PICK f : f = [s \in Types |-> f[s]] /\ Good(f, m)
    BY <1>4
  <2>2. PICK g : g = [s \in Types |-> Row(f, s)]
    OBVIOUS
  <2>3. m + 1 \in 0 .. MaxDepth /\ m \in 0 .. MaxDepth /\ m + 1 - 1 = m
    BY <1>0
  <2>4. ASSUME NEW s \in TypesTo[m + 1], NEW i \in DOMAIN s.sub
        PROVE  f[TypeOf(s.sub[i])] = g[TypeOf(s.sub[i])]
    <3>1. TypeOf(s.sub[i]) \in TypesTo[m]
      BY <2>3, Inside
    <3>2. TypeOf(s.sub[i]) \in Types
      BY <2>3, <3>1, TypesToGrow DEF Types
    <3> QED
      BY <2>1, <2>2, <3>1, <3>2
  <2>5. g = [s \in Types |-> g[s]] /\ Good(g, m + 1)
    <3> HIDE DEF Good
    <3> QED
      BY <1>2, <2>2, <2>3, <2>4
  <2> QED
    BY <2>3, <2>5
<1>5. MaxDepth \in S
  <2> HIDE DEF S
  <2> QED
    BY <1>0, <1>3, <1>4, Induct
<1>6. PICK f : f = [s \in Types |-> f[s]] /\ Good(f, MaxDepth)
  BY <1>5
<1>7. f = [s \in Types |-> Row(f, s)]
  BY <1>6 DEF Types
<1>8. \E h : h = [s \in Types |-> Row(h, s)]
  BY <1>7
<1>9. ToJson = [s \in Types |-> Row(ToJson, s)]
  BY <1>8 DEF Row, ToJson
<1>10. PICK h : h = ToJson
  OBVIOUS
<1>11. h[t] = Row(h, t)
  BY <1>9, <1>10
<1>12. h[t][v] = JsonOf(h, t, v)
  BY <1>11 DEF Row
<1> QED
  BY <1>10, <1>12

\* The same of Holds.
LEMMA HoldsIs ==
    ASSUME NEW t \in Types, NEW v \in Cells
    PROVE  Holds[t][v] = Held(Holds, t, v)
<1> DEFINE Row(f, s) == [c \in Cells |-> Held(f, s, c)]
<1> DEFINE Good(f, m) == \A s \in TypesTo[m] : f[s] = Row(f, s)
<1> DEFINE S == {m \in 0 .. MaxDepth : \E f : f = [s \in Types |-> f[s]] /\ Good(f, m)}
<1>0. MaxDepth \in Nat
  BY DepthAssumption
<1>1. ASSUME NEW f, NEW g, NEW s \in Types,
             \A i \in DOMAIN s.sub : f[TypeOf(s.sub[i])] = g[TypeOf(s.sub[i])]
      PROVE  Row(f, s) = Row(g, s)
  <2>1. ASSUME NEW c \in Cells PROVE Held(f, s, c) = Held(g, s, c)
    BY <1>1, HeldLocal
  <2> QED
    BY <2>1
<1> HIDE DEF Row
<1>2. ASSUME NEW m \in 0 .. MaxDepth, NEW f, NEW g, g = [s \in Types |-> Row(f, s)],
             \A s \in TypesTo[m] : \A i \in DOMAIN s.sub : f[TypeOf(s.sub[i])] = g[TypeOf(s.sub[i])]
      PROVE  g = [s \in Types |-> g[s]] /\ Good(g, m)
  <2>1. g = [s \in Types |-> g[s]]
    BY <1>2
  <2>2. ASSUME NEW s \in TypesTo[m] PROVE g[s] = Row(g, s)
    <3>1. s \in Types
      BY TypesToGrow DEF Types
    <3>2. Row(f, s) = Row(g, s)
      BY <1>1, <1>2, <3>1
    <3> QED
      BY <1>2, <3>1, <3>2
  <2> QED
    BY <2>1, <2>2
<1>3. 0 \in S
  <2>1. PICK f : f = [s \in Types |-> {}]
    OBVIOUS
  <2>2. PICK g : g = [s \in Types |-> Row(f, s)]
    OBVIOUS
  <2>3. 0 \in 0 .. MaxDepth
    BY <1>0
  <2>4. \A s \in TypesTo[0] : \A i \in DOMAIN s.sub : f[TypeOf(s.sub[i])] = g[TypeOf(s.sub[i])]
    BY <2>3, Inside
  <2>5. g = [s \in Types |-> g[s]] /\ Good(g, 0)
    <3> HIDE DEF Good
    <3> QED
      BY <1>2, <2>2, <2>3, <2>4
  <2> QED
    BY <2>3, <2>5
<1>4. ASSUME NEW m \in 0 .. MaxDepth - 1, m \in S PROVE m + 1 \in S
  <2>1. PICK f : f = [s \in Types |-> f[s]] /\ Good(f, m)
    BY <1>4
  <2>2. PICK g : g = [s \in Types |-> Row(f, s)]
    OBVIOUS
  <2>3. m + 1 \in 0 .. MaxDepth /\ m \in 0 .. MaxDepth /\ m + 1 - 1 = m
    BY <1>0
  <2>4. ASSUME NEW s \in TypesTo[m + 1], NEW i \in DOMAIN s.sub
        PROVE  f[TypeOf(s.sub[i])] = g[TypeOf(s.sub[i])]
    <3>1. TypeOf(s.sub[i]) \in TypesTo[m]
      BY <2>3, Inside
    <3>2. TypeOf(s.sub[i]) \in Types
      BY <2>3, <3>1, TypesToGrow DEF Types
    <3> QED
      BY <2>1, <2>2, <3>1, <3>2
  <2>5. g = [s \in Types |-> g[s]] /\ Good(g, m + 1)
    <3> HIDE DEF Good
    <3> QED
      BY <1>2, <2>2, <2>3, <2>4
  <2> QED
    BY <2>3, <2>5
<1>5. MaxDepth \in S
  <2> HIDE DEF S
  <2> QED
    BY <1>0, <1>3, <1>4, Induct
<1>6. PICK f : f = [s \in Types |-> f[s]] /\ Good(f, MaxDepth)
  BY <1>5
<1>7. f = [s \in Types |-> Row(f, s)]
  BY <1>6 DEF Types
<1>8. \E h : h = [s \in Types |-> Row(h, s)]
  BY <1>7
<1>9. Holds = [s \in Types |-> Row(Holds, s)]
  BY <1>8 DEF Row, Holds
<1>10. PICK h : h = Holds
  OBVIOUS
<1>11. h[t] = Row(h, t)
  BY <1>9, <1>10
<1>12. h[t][v] = Held(h, t, v)
  BY <1>11 DEF Row
<1> QED
  BY <1>10, <1>12

\* The same of Validates.
LEMMA ValidatesIs ==
    ASSUME NEW catalog, NEW t \in Types, NEW pg \in PgTypes
    PROVE  Validates(catalog)[t][pg] = Fits(Validates(catalog), t, pg, catalog)
<1> DEFINE Row(f, s) == [p \in PgTypes |-> Fits(f, s, p, catalog)]
<1> DEFINE Good(f, m) == \A s \in TypesTo[m] : f[s] = Row(f, s)
<1> DEFINE S == {m \in 0 .. MaxDepth : \E f : f = [s \in Types |-> f[s]] /\ Good(f, m)}
<1>0. MaxDepth \in Nat
  BY DepthAssumption
<1>1. ASSUME NEW f, NEW g, NEW s \in Types,
             \A i \in DOMAIN s.sub : f[TypeOf(s.sub[i])] = g[TypeOf(s.sub[i])]
      PROVE  Row(f, s) = Row(g, s)
  <2>1. ASSUME NEW p \in PgTypes PROVE Fits(f, s, p, catalog) = Fits(g, s, p, catalog)
    BY <1>1, FitsLocal
  <2> QED
    BY <2>1
<1> HIDE DEF Row
<1>2. ASSUME NEW m \in 0 .. MaxDepth, NEW f, NEW g, g = [s \in Types |-> Row(f, s)],
             \A s \in TypesTo[m] : \A i \in DOMAIN s.sub : f[TypeOf(s.sub[i])] = g[TypeOf(s.sub[i])]
      PROVE  g = [s \in Types |-> g[s]] /\ Good(g, m)
  <2>1. g = [s \in Types |-> g[s]]
    BY <1>2
  <2>2. ASSUME NEW s \in TypesTo[m] PROVE g[s] = Row(g, s)
    <3>1. s \in Types
      BY TypesToGrow DEF Types
    <3>2. Row(f, s) = Row(g, s)
      BY <1>1, <1>2, <3>1
    <3> QED
      BY <1>2, <3>1, <3>2
  <2> QED
    BY <2>1, <2>2
<1>3. 0 \in S
  <2>1. PICK f : f = [s \in Types |-> {}]
    OBVIOUS
  <2>2. PICK g : g = [s \in Types |-> Row(f, s)]
    OBVIOUS
  <2>3. 0 \in 0 .. MaxDepth
    BY <1>0
  <2>4. \A s \in TypesTo[0] : \A i \in DOMAIN s.sub : f[TypeOf(s.sub[i])] = g[TypeOf(s.sub[i])]
    BY <2>3, Inside
  <2>5. g = [s \in Types |-> g[s]] /\ Good(g, 0)
    <3> HIDE DEF Good
    <3> QED
      BY <1>2, <2>2, <2>3, <2>4
  <2> QED
    BY <2>3, <2>5
<1>4. ASSUME NEW m \in 0 .. MaxDepth - 1, m \in S PROVE m + 1 \in S
  <2>1. PICK f : f = [s \in Types |-> f[s]] /\ Good(f, m)
    BY <1>4
  <2>2. PICK g : g = [s \in Types |-> Row(f, s)]
    OBVIOUS
  <2>3. m + 1 \in 0 .. MaxDepth /\ m \in 0 .. MaxDepth /\ m + 1 - 1 = m
    BY <1>0
  <2>4. ASSUME NEW s \in TypesTo[m + 1], NEW i \in DOMAIN s.sub
        PROVE  f[TypeOf(s.sub[i])] = g[TypeOf(s.sub[i])]
    <3>1. TypeOf(s.sub[i]) \in TypesTo[m]
      BY <2>3, Inside
    <3>2. TypeOf(s.sub[i]) \in Types
      BY <2>3, <3>1, TypesToGrow DEF Types
    <3> QED
      BY <2>1, <2>2, <3>1, <3>2
  <2>5. g = [s \in Types |-> g[s]] /\ Good(g, m + 1)
    <3> HIDE DEF Good
    <3> QED
      BY <1>2, <2>2, <2>3, <2>4
  <2> QED
    BY <2>3, <2>5
<1>5. MaxDepth \in S
  <2> HIDE DEF S
  <2> QED
    BY <1>0, <1>3, <1>4, Induct
<1>6. PICK f : f = [s \in Types |-> f[s]] /\ Good(f, MaxDepth)
  BY <1>5
<1>7. f = [s \in Types |-> Row(f, s)]
  BY <1>6 DEF Types
<1>8. \E h : h = [s \in Types |-> Row(h, s)]
  BY <1>7
<1>9. Validates(catalog) = [s \in Types |-> Row(Validates(catalog), s)]
  BY <1>8 DEF Row, Validates
<1>10. PICK h : h = Validates(catalog)
  OBVIOUS
<1>11. h[t] = Row(h, t)
  BY <1>9, <1>10
<1>12. h[t][pg] = Fits(h, t, pg, catalog)
  BY <1>11 DEF Row
<1> QED
  BY <1>10, <1>12

\* The same of ToDatum.
LEMMA ToDatumIs ==
    ASSUME NEW env, NEW t \in Types, NEW v \in Cells, NEW pg \in PgTypes
    PROVE  ToDatum(env)[t][v][pg] = DatumOf(ToDatum(env), t, v, pg, env)
<1> DEFINE Row(f, s) == [c \in Cells |-> [p \in PgTypes |-> DatumOf(f, s, c, p, env)]]
<1> DEFINE Good(f, m) == \A s \in TypesTo[m] : f[s] = Row(f, s)
<1> DEFINE S == {m \in 0 .. MaxDepth : \E f : f = [s \in Types |-> f[s]] /\ Good(f, m)}
<1>0. MaxDepth \in Nat
  BY DepthAssumption
<1>1. ASSUME NEW f, NEW g, NEW s \in Types,
             \A i \in DOMAIN s.sub : f[TypeOf(s.sub[i])] = g[TypeOf(s.sub[i])]
      PROVE  Row(f, s) = Row(g, s)
  <2>1. ASSUME NEW c \in Cells, NEW p \in PgTypes PROVE DatumOf(f, s, c, p, env) = DatumOf(g, s, c, p, env)
    BY <1>1, DatumOfLocal
  <2> QED
    BY <2>1
<1> HIDE DEF Row
<1>2. ASSUME NEW m \in 0 .. MaxDepth, NEW f, NEW g, g = [s \in Types |-> Row(f, s)],
             \A s \in TypesTo[m] : \A i \in DOMAIN s.sub : f[TypeOf(s.sub[i])] = g[TypeOf(s.sub[i])]
      PROVE  g = [s \in Types |-> g[s]] /\ Good(g, m)
  <2>1. g = [s \in Types |-> g[s]]
    BY <1>2
  <2>2. ASSUME NEW s \in TypesTo[m] PROVE g[s] = Row(g, s)
    <3>1. s \in Types
      BY TypesToGrow DEF Types
    <3>2. Row(f, s) = Row(g, s)
      BY <1>1, <1>2, <3>1
    <3> QED
      BY <1>2, <3>1, <3>2
  <2> QED
    BY <2>1, <2>2
<1>3. 0 \in S
  <2>1. PICK f : f = [s \in Types |-> {}]
    OBVIOUS
  <2>2. PICK g : g = [s \in Types |-> Row(f, s)]
    OBVIOUS
  <2>3. 0 \in 0 .. MaxDepth
    BY <1>0
  <2>4. \A s \in TypesTo[0] : \A i \in DOMAIN s.sub : f[TypeOf(s.sub[i])] = g[TypeOf(s.sub[i])]
    BY <2>3, Inside
  <2>5. g = [s \in Types |-> g[s]] /\ Good(g, 0)
    <3> HIDE DEF Good
    <3> QED
      BY <1>2, <2>2, <2>3, <2>4
  <2> QED
    BY <2>3, <2>5
<1>4. ASSUME NEW m \in 0 .. MaxDepth - 1, m \in S PROVE m + 1 \in S
  <2>1. PICK f : f = [s \in Types |-> f[s]] /\ Good(f, m)
    BY <1>4
  <2>2. PICK g : g = [s \in Types |-> Row(f, s)]
    OBVIOUS
  <2>3. m + 1 \in 0 .. MaxDepth /\ m \in 0 .. MaxDepth /\ m + 1 - 1 = m
    BY <1>0
  <2>4. ASSUME NEW s \in TypesTo[m + 1], NEW i \in DOMAIN s.sub
        PROVE  f[TypeOf(s.sub[i])] = g[TypeOf(s.sub[i])]
    <3>1. TypeOf(s.sub[i]) \in TypesTo[m]
      BY <2>3, Inside
    <3>2. TypeOf(s.sub[i]) \in Types
      BY <2>3, <3>1, TypesToGrow DEF Types
    <3> QED
      BY <2>1, <2>2, <3>1, <3>2
  <2>5. g = [s \in Types |-> g[s]] /\ Good(g, m + 1)
    <3> HIDE DEF Good
    <3> QED
      BY <1>2, <2>2, <2>3, <2>4
  <2> QED
    BY <2>3, <2>5
<1>5. MaxDepth \in S
  <2> HIDE DEF S
  <2> QED
    BY <1>0, <1>3, <1>4, Induct
<1>6. PICK f : f = [s \in Types |-> f[s]] /\ Good(f, MaxDepth)
  BY <1>5
<1>7. f = [s \in Types |-> Row(f, s)]
  BY <1>6 DEF Types
<1>8. \E h : h = [s \in Types |-> Row(h, s)]
  BY <1>7
<1>9. ToDatum(env) = [s \in Types |-> Row(ToDatum(env), s)]
  BY <1>8 DEF Row, ToDatum
<1>10. PICK h : h = ToDatum(env)
  OBVIOUS
<1>11. h[t] = Row(h, t)
  BY <1>9, <1>10
<1>12. h[t][v][pg] = DatumOf(h, t, v, pg, env)
  BY <1>11 DEF Row
<1> QED
  BY <1>10, <1>12

-----------------------------------------------------------------------------
(* What conversions give is of the types of PostgreSQL.                    *)

\* A function over 1 .. l is a sequence of l elements.
LEMMA LenIs ==
    ASSUME NEW l \in Nat, NEW s, DOMAIN s = 1 .. l, s = [i \in 1 .. l |-> s[i]]
    PROVE  Len(s) = l
<1>1. PICK T : T = {s[i] : i \in 1 .. l}
  OBVIOUS
<1>2. s \in [1 .. l -> T]
  BY <1>1
<1>3. s \in Seq(T)
  BY <1>2
<1> QED
  BY <1>3

\* The cells inside a cell of a type are of the types inside.
LEMMA HeldInside ==
    ASSUME NEW t \in Types, NEW n \in 0 .. MaxDepth, NEW v \in CellsTo[n], Holds[t][v], ~v.null
    PROVE  /\ v \in Cells
           /\ t.k = "Dictionary" =>
                n > 0 /\ n - 1 \in 0 .. MaxDepth
                /\ Entry(v) \in CellsTo[n - 1] /\ Entry(v) \in Cells /\ Holds[Item(t)][Entry(v)]
           /\ t.k \in Lists => \A i \in DOMAIN v.sub : Holds[Item(t)][v.sub[i]]
           /\ t.k = "Struct" => /\ DOMAIN v.sub = DOMAIN t.sub
                                /\ \A i \in DOMAIN t.sub : Holds[TypeOf(t.sub[i])][v.sub[i]]
           /\ t.k \notin Lists \union {"Dictionary", "Struct"} => v.n \in NumbersOf(t)
<1>1. v \in Cells
  BY CellsToGrow DEF Cells
<1>2. Held(Holds, t, v)
  BY <1>1, HoldsIs
<1>3. ASSUME t.k = "Dictionary"
      PROVE  n > 0 /\ n - 1 \in 0 .. MaxDepth
             /\ Entry(v) \in CellsTo[n - 1] /\ Entry(v) \in Cells /\ Holds[Item(t)][Entry(v)]
  <2>1. v.n + 1 \in DOMAIN v.sub /\ \A i \in DOMAIN v.sub : Holds[Item(t)][v.sub[i]]
    BY <1>2, <1>3 DEF Held, Lists
  <2> QED
    BY <2>1, CellParts DEF Entry
<1>4. ASSUME t.k \in Lists PROVE \A i \in DOMAIN v.sub : Holds[Item(t)][v.sub[i]]
  BY <1>2, <1>4 DEF Held, Lists
<1>5. ASSUME t.k = "Struct"
      PROVE  /\ DOMAIN v.sub = DOMAIN t.sub
             /\ \A i \in DOMAIN t.sub : Holds[TypeOf(t.sub[i])][v.sub[i]]
  BY <1>2, <1>5 DEF Held, Lists
<1>6. ASSUME t.k \notin Lists \union {"Dictionary", "Struct"} PROVE v.n \in NumbersOf(t)
  BY <1>2, <1>6 DEF Held
<1> QED
  BY <1>1, <1>3, <1>4, <1>5, <1>6

LEMMA WholeNumbers ==
    ASSUME NEW t \in Types
    PROVE  /\ NumbersOf(t) \subseteq Numbers
           /\ t.k \notin Float => NumbersOf(t) \subseteq Int
           /\ t.k \in Integer => \A n \in NumbersOf(t) : Wrapped(n) \in Int
<1>1. Max64 \in Nat
  BY TimeAssumption
<1>2. 0 .. Size - 1 \subseteq Int /\ I64 \subseteq Int
  BY <1>1 DEF Size, I64, Min64
<1>3. NumbersOf(t) = 0 .. Size - 1 \/ NumbersOf(t) = I64 \/ NumbersOf(t) = Int
      \/ (NumbersOf(t) = Numbers /\ t.k \in Float)
  BY DEF NumbersOf
<1>4. NumbersOf(t) \subseteq Numbers /\ (t.k \notin Float => NumbersOf(t) \subseteq Int)
  BY <1>2, <1>3 DEF Numbers
<1>5. ASSUME t.k \in Integer, NEW n \in NumbersOf(t) PROVE Wrapped(n) \in Int
  <2>1. n \in Int
    BY <1>4, <1>5 DEF Integer, Float
  <2> QED
    BY <1>1, <2>1 DEF Wrapped, Size, Min64
<1> QED
  BY <1>4, <1>5

LEMMA KindOf ==
    ASSUME NEW k, NEW n
    PROVE  Datum(k, n).k = k /\ Datum(k, n).n = n /\ Datum(k, n).scale = 0
  BY DEF Datum

LEMMA PlainJson ==
    ASSUME NEW n \in 0 .. MaxDepth, NEW k \in JsonKinds, NEW x \in Numbers, NEW d, d = Datum(k, x)
    PROVE  d \in DatumsTo[n] /\ d.k \in JsonKinds
<1>1. Datum(k, x) \in DatumsTo[n]
  <2>1. k \in DatumKinds /\ 0 \in Int
    BY DEF DatumKinds
  <2> QED
    BY <2>1, PlainDatum
<1>2. d.k = k
  BY KindOf
<1> QED
  BY <1>1, <1>2

LEMMA JsonScalarTyped ==
    ASSUME NEW t \in Types, NEW n \in NumbersOf(t), NEW m \in 0 .. MaxDepth
    PROVE  JsonScalar(t, n) \in DatumsTo[m] /\ JsonScalar(t, n).k \in JsonKinds
<1>1. n \in Numbers /\ 0 \in Numbers /\ t.scale \in Int
  <2>1. n \in Numbers
    BY WholeNumbers
  <2>2. t.scale \in Int
    BY TypeParts
  <2> QED
    BY <2>1, <2>2 DEF Numbers
<1>2. CASE t.k \in Integer
  <2>1. JsonScalar(t, n) = Datum("jsonb number", Wrapped(n))
    BY <1>2 DEF JsonScalar, Float, Integer
  <2>2. Wrapped(n) \in Numbers
    BY <1>2, WholeNumbers DEF Numbers
  <2>3. "jsonb number" \in JsonKinds
    BY DEF JsonKinds
  <2> QED
    BY <2>1, <2>2, <2>3, PlainJson
<1>3. CASE t.k \in {"Decimal128", "Decimal256"}
  <2>1. JsonScalar(t, n) = [Datum("jsonb string", n) EXCEPT !.scale = t.scale]
    BY <1>3 DEF JsonScalar, Float, Integer
  <2>2. "jsonb string" \in JsonKinds /\ "jsonb string" \in DatumKinds
    BY DEF JsonKinds, DatumKinds
  <2>3. [Datum("jsonb string", n) EXCEPT !.scale = t.scale] \in DatumsTo[m]
    BY <1>1, <2>2, PlainDatum
  <2>4. [Datum("jsonb string", n) EXCEPT !.scale = t.scale].k = "jsonb string"
    BY DEF Datum
  <2>5. JsonScalar(t, n).k = "jsonb string"
    BY <2>1, <2>4
  <2> QED
    BY <2>1, <2>2, <2>3, <2>5
<1>4. CASE t.k \notin Integer \union {"Decimal128", "Decimal256"}
  <2>1. \/ JsonScalar(t, n) = Datum("jsonb null", 0)
        \/ JsonScalar(t, n) = Datum("jsonb number", n)
        \/ JsonScalar(t, n) = Datum("jsonb bool", n)
        \/ JsonScalar(t, n) = Datum("jsonb string", n)
        \/ JsonScalar(t, n) = Datum("jsonb placeholder", 0)
    BY <1>4 DEF JsonScalar, Float, Integer
  <2>2. {"jsonb null", "jsonb number", "jsonb bool", "jsonb string", "jsonb placeholder"}
          \subseteq JsonKinds
    BY DEF JsonKinds
  <2>3. PICK k \in JsonKinds, x \in {n, 0} : JsonScalar(t, n) = Datum(k, x)
    BY <2>1, <2>2
  <2> QED
    BY <1>1, <2>3, PlainJson
<1> QED
  BY <1>2, <1>3, <1>4

\* The JSON of a cell nests no deeper than the cell.
LEMMA ToJsonTyped ==
    ASSUME NEW t \in Types, NEW n \in 0 .. MaxDepth, NEW v \in CellsTo[n], Holds[t][v]
    PROVE  ToJson[t][v] \in DatumsTo[n] /\ ToJson[t][v].k \in JsonKinds
<1> DEFINE P == {s \in Types : \A m \in 0 .. MaxDepth : \A c \in CellsTo[m] :
                   Holds[s][c] => ToJson[s][c] \in DatumsTo[m] /\ ToJson[s][c].k \in JsonKinds}
<1>1. ASSUME NEW s \in Types, \A i \in DOMAIN s.sub : TypeOf(s.sub[i]) \in P
      PROVE  s \in P
  <2> SUFFICES ASSUME NEW m \in 0 .. MaxDepth, NEW c \in CellsTo[m], Holds[s][c]
               PROVE  ToJson[s][c] \in DatumsTo[m] /\ ToJson[s][c].k \in JsonKinds
    OBVIOUS
  <2>0. c \in Cells
    BY CellsToGrow DEF Cells
  <2>1. ToJson[s][c] = JsonOf(ToJson, s, c)
    BY <2>0, ToJsonIs
  <2>2. CASE c.null
    <3>1. JsonOf(ToJson, s, c) = Datum("jsonb null", 0)
      BY <2>2 DEF JsonOf
    <3>2. 0 \in Numbers /\ "jsonb null" \in JsonKinds
      BY DEF Numbers, JsonKinds
    <3> QED
      BY <2>1, <3>1, <3>2, PlainJson
  <2>3. CASE ~c.null /\ s.k \in Lists
    <3> DEFINE sub == [i \in DOMAIN c.sub |-> ToJson[Item(s)][c.sub[i]]]
    <3>1. JsonOf(ToJson, s, c) = Compound("jsonb array", sub, <<>>)
      BY <2>3 DEF JsonOf, Lists
    <3>2. DOMAIN c.sub = 1 .. Len(c.sub) /\ Len(c.sub) \in Nat
      BY CellParts
    <3>3. Item(s) \in P
      BY <1>1, <2>3, TypeParts DEF Item
    <3>4. ASSUME NEW i \in DOMAIN c.sub PROVE m > 0 /\ sub[i] \in DatumsTo[m - 1]
      <4>1. m > 0 /\ m - 1 \in 0 .. MaxDepth /\ c.sub[i] \in CellsTo[m - 1]
        BY CellParts
      <4>2. Holds[Item(s)][c.sub[i]]
        BY <2>3, HeldInside
      <4> QED
        BY <3>3, <4>1, <4>2
    <3>5. <<>> \in Seq(Name) /\ "jsonb array" \in DatumKinds
      BY DEF DatumKinds, JsonKinds
    <3>6. Compound("jsonb array", sub, <<>>) \in DatumsTo[m]
      <4>1. DOMAIN sub = 1 .. Len(c.sub) /\ sub = [i \in DOMAIN sub |-> sub[i]]
        BY <3>2
      <4> HIDE DEF sub, P
      <4> QED
        BY <3>2, <3>4, <3>5, <4>1, CompoundDatum
    <3>7. Compound("jsonb array", sub, <<>>).k \in JsonKinds
      BY DEF Compound, Datum, JsonKinds
    <3> QED
      BY <2>1, <3>1, <3>6, <3>7
  <2>4. CASE ~c.null /\ s.k = "Struct"
    <3> DEFINE sub == [i \in DOMAIN s.sub |-> ToJson[TypeOf(s.sub[i])][c.sub[i]]]
    <3> DEFINE names == [i \in DOMAIN s.sub |-> NameOf(s.sub[i])]
    <3>1. JsonOf(ToJson, s, c) = Compound("jsonb object", sub, names)
      BY <2>4 DEF JsonOf, Lists
    <3>2. DOMAIN s.sub = 1 .. Len(s.sub) /\ Len(s.sub) \in Nat
      BY TypeParts
    <3>3. ASSUME NEW i \in DOMAIN s.sub PROVE m > 0 /\ sub[i] \in DatumsTo[m - 1]
      <4>1. i \in DOMAIN c.sub /\ Holds[TypeOf(s.sub[i])][c.sub[i]]
        BY <2>4, HeldInside
      <4>2. m > 0 /\ m - 1 \in 0 .. MaxDepth /\ c.sub[i] \in CellsTo[m - 1]
        BY <4>1, CellParts
      <4>3. TypeOf(s.sub[i]) \in P
        BY <1>1
      <4> QED
        BY <4>1, <4>2, <4>3
    <3>4. names \in Seq(Name) /\ "jsonb object" \in DatumKinds
      <4>1. \A i \in 1 .. Len(s.sub) : NameOf(s.sub[i]) \in Name
        BY <3>2, TypeParts
      <4>2. names \in [1 .. Len(s.sub) -> Name]
        BY <3>2, <4>1
      <4> QED
        BY <3>2, <4>2 DEF DatumKinds, JsonKinds
    <3>5. Compound("jsonb object", sub, names) \in DatumsTo[m]
      <4>1. DOMAIN sub = 1 .. Len(s.sub) /\ sub = [i \in DOMAIN sub |-> sub[i]]
            /\ DOMAIN sub = DOMAIN s.sub
        BY <3>2
      <4> HIDE DEF sub, P, names
      <4> QED
        BY <3>2, <3>3, <3>4, <4>1, CompoundDatum
    <3>6. Compound("jsonb object", sub, names).k \in JsonKinds
      BY DEF Compound, Datum, JsonKinds
    <3> QED
      BY <2>1, <3>1, <3>5, <3>6
  <2>5. CASE ~c.null /\ s.k = "Dictionary"
    <3>1. JsonOf(ToJson, s, c) = ToJson[Item(s)][Entry(c)]
      BY <2>5 DEF JsonOf, Lists
    <3>2. m > 0 /\ m - 1 \in 0 .. MaxDepth /\ Entry(c) \in CellsTo[m - 1] /\ Holds[Item(s)][Entry(c)]
      BY <2>5, HeldInside
    <3>3. Item(s) \in P
      BY <1>1, <2>5, TypeParts DEF Item
    <3>4. ToJson[Item(s)][Entry(c)] \in DatumsTo[m - 1] /\ ToJson[Item(s)][Entry(c)].k \in JsonKinds
      BY <3>2, <3>3
    <3>5. DatumsTo[m - 1] \subseteq DatumsTo[m]
      BY <3>2, DatumsToGrow
    <3> QED
      BY <2>1, <3>1, <3>4, <3>5
  <2>6. CASE ~c.null /\ s.k \notin Lists \union {"Dictionary", "Struct"}
    <3>1. JsonOf(ToJson, s, c) = JsonScalar(s, c.n)
      BY <2>6 DEF JsonOf
    <3>2. c.n \in NumbersOf(s)
      BY <2>6, HeldInside
    <3> QED
      BY <2>1, <3>1, <3>2, JsonScalarTyped
  <2> QED
    BY <2>2, <2>3, <2>4, <2>5, <2>6
<1>2. Types \subseteq P
  <2> HIDE DEF P
  <2> QED
    BY <1>1, TypeInduction
<1> QED
  BY <1>2

-----------------------------------------------------------------------------
(* Conversions to datums: what they give, and that what the check lets     *)
(* through fits.                                                           *)

Errors   == {"none", "mismatch", "range", "internal", "panic"}
Catalogs == SUBSET (Name \X Seq(Name \X PgTypes))

LEMMA PgTypeParts ==
    ASSUME NEW pg \in PgTypes
    PROVE  /\ Element(pg) \in PgTypes /\ pg.name \in Name /\ pg.base \in PgBases
           /\ pg.array \in BOOLEAN
  BY DEF PgTypes, Element

LEMMA RequiredTyped ==
    ASSUME NEW t
    PROVE  Required(t) \in PgBases \ {"composite"}
<1>1. CASE t.k \in Integer
  <2>1. Required(t) \in {"int2", "int4", "int8"}
    BY <1>1 DEF Required, Integer
  <2> QED
    BY <2>1 DEF PgBases
<1>2. CASE t.k \notin Integer
  <2>1. Required(t) \in {"bool", "float4", "float8", "text", "bytea", "date", "timestamp",
                         "timestamptz", "numeric", "jsonb"}
    BY <1>2 DEF Required, Integer
  <2> QED
    BY <2>1 DEF PgBases
<1> QED
  BY <1>1, <1>2

\* The attributes of a composite type of the catalog.
LEMMA AttributeParts ==
    ASSUME NEW catalog \in Catalogs, NEW pg, Composites(catalog, pg) # {}
    PROVE  /\ pg.base = "composite" /\ ~pg.array
           /\ Attributes(catalog, pg) \in Seq(Name \X PgTypes)
           /\ Len(Attributes(catalog, pg)) \in Nat
           /\ DOMAIN Attributes(catalog, pg) = 1 .. Len(Attributes(catalog, pg))
           /\ \A i \in DOMAIN Attributes(catalog, pg) :
                /\ NameOf(Attributes(catalog, pg)[i]) \in Name
                /\ TypeOf(Attributes(catalog, pg)[i]) \in PgTypes
<1>1. PICK d \in Composites(catalog, pg) : d = CHOOSE e \in Composites(catalog, pg) : TRUE
  OBVIOUS
<1>2. pg.base = "composite" /\ ~pg.array /\ d \in catalog
  BY DEF Composites
<1>3. d[2] \in Seq(Name \X PgTypes)
  BY <1>2 DEF Catalogs
<1>4. Attributes(catalog, pg) = d[2]
  BY <1>1 DEF Attributes
<1>5. PICK atts \in Seq(Name \X PgTypes) : atts = Attributes(catalog, pg)
  BY <1>3, <1>4
<1>6. \A i \in DOMAIN atts : atts[i] \in Name \X PgTypes
  BY <1>5
<1>7. \A i \in DOMAIN atts : NameOf(atts[i]) \in Name /\ TypeOf(atts[i]) \in PgTypes
  BY <1>6 DEF NameOf, TypeOf
<1> QED
  BY <1>2, <1>5, <1>7

LEMMA ResultParts ==
    ASSUME NEW d, NEW e
    PROVE  Ok(d).err = "none" /\ Ok(d).d = d /\ Fails(e).err = e /\ Fails(e).d = NullDatum
  BY DEF Ok, Fails

LEMMA NullDatumTyped ==
    ASSUME NEW n \in 0 .. MaxDepth
    PROVE  NullDatum \in DatumsTo[n] /\ NullDatum.k = "null"
<1>1. "null" \in DatumKinds /\ 0 \in Numbers /\ 0 \in Int
  BY DEF DatumKinds, Numbers
<1>2. Datum("null", 0) \in DatumsTo[n]
  BY <1>1, PlainDatum
<1>3. Datum("null", 0).k = "null"
  BY KindOf
<1> QED
  BY <1>2, <1>3 DEF NullDatum

\* The datums of results.
DatumsIn(results, l) == [i \in 1 .. l |-> results[i].d]

\* Assembled is the first error of the parts, or all of them.
LEMMA AssembledIs ==
    ASSUME NEW l \in Nat, NEW results, DOMAIN results = 1 .. l, Len(results) = l, NEW k, NEW names
    PROVE  \/ \E i \in 1 .. l : results[i].err # "none" /\ Assembled(k, results, names) = results[i]
           \/ /\ \A i \in 1 .. l : results[i].err = "none"
              /\ Assembled(k, results, names) = Ok(Compound(k, DatumsIn(results, l), names))
<1> DEFINE I == {i \in 1 .. l : results[i].err # "none"}
<1> DEFINE bad == SelectInSeq(results, LAMBDA r : r.err # "none")
<1>1. bad = IF I # {} THEN Min(I) ELSE 0
  BY DEF SelectInSeq
<1>2. CASE I = {}
  <2>1. bad = 0
    BY <1>1, <1>2
  <2>2. Assembled(k, results, names) = Ok(Compound(k, DatumsIn(results, l), names))
    BY <2>1 DEF Assembled, DatumsIn
  <2> QED
    BY <1>2, <2>2
<1>3. CASE I # {}
  <2>1. I \in SUBSET Nat
    OBVIOUS
  <2>2. \E m \in I : \A i \in I : m <= i
    BY <1>3, <2>1, Least
  <2>3. Min(I) \in I
    <3> HIDE DEF I
    <3> QED
      BY <2>2 DEF Min
  <2>4. PICK p \in I : p = bad
    BY <1>1, <1>3, <2>3
  <2>5. p \in 1 .. l /\ results[p].err # "none" /\ p # 0
    OBVIOUS
  <2>6. Assembled(k, results, names) = results[p]
    BY <2>4, <2>5 DEF Assembled
  <2> QED
    BY <2>5, <2>6
<1> QED
  BY <1>2, <1>3

LEMMA AssembledTyped ==
    ASSUME NEW n \in 0 .. MaxDepth, NEW l \in Nat, NEW results, DOMAIN results = 1 .. l, Len(results) = l,
           \A i \in 1 .. l :
             /\ results[i].err \in Errors /\ results[i].d \in DatumsTo[n]
             /\ results[i].err = "none" => n > 0 /\ results[i].d \in DatumsTo[n - 1],
           NEW k \in DatumKinds, NEW names \in Seq(Name)
    PROVE  /\ Assembled(k, results, names).err \in Errors
           /\ Assembled(k, results, names).d \in DatumsTo[n]
           /\ (\A i \in 1 .. l : results[i].err # "mismatch")
                => Assembled(k, results, names).err # "mismatch"
<1>1. CASE \E i \in 1 .. l : results[i].err # "none" /\ Assembled(k, results, names) = results[i]
  <2>1. PICK i \in 1 .. l : Assembled(k, results, names) = results[i]
    BY <1>1
  <2>2. results[i].err \in Errors /\ results[i].d \in DatumsTo[n]
    OBVIOUS
  <2> QED
    BY <2>1, <2>2
<1>2. CASE /\ \A i \in 1 .. l : results[i].err = "none"
           /\ Assembled(k, results, names) = Ok(Compound(k, DatumsIn(results, l), names))
  <2> DEFINE sub == [i \in 1 .. l |-> results[i].d]
  <2>1. \A i \in 1 .. l : n > 0 /\ sub[i] \in DatumsTo[n - 1]
    BY <1>2
  <2>2. DOMAIN sub = 1 .. l /\ sub = [i \in DOMAIN sub |-> sub[i]]
    OBVIOUS
  <2>3. Compound(k, sub, names) \in DatumsTo[n]
    <3> HIDE DEF sub
    <3> QED
      BY <2>1, <2>2, CompoundDatum
  <2>4. Assembled(k, results, names).err = "none" /\ Assembled(k, results, names).d \in DatumsTo[n]
    <3>1. PICK c : c = Compound(k, sub, names)
      OBVIOUS
    <3>2. Assembled(k, results, names) = Ok(c)
      BY <1>2, <3>1 DEF DatumsIn
    <3> QED
      BY <2>3, <3>1, <3>2, ResultParts
  <2> QED
    BY <2>4 DEF Errors
<1> QED
  BY <1>1, <1>2, AssembledIs

LEMMA MicrosTyped ==
    ASSUME NEW unit \in {"s", "ms", "us", "ns"}, NEW n \in Int
    PROVE  UnixMicros(unit, n) \in Int /\ PgMicros(UnixMicros(unit, n)) \in Int
<1>1. /\ Max64 \in Int /\ Second \in Int /\ Milli \in Int /\ Micro \in Nat \ {0} /\ Epoch \in Int
  BY TimeAssumption
<1>2. ASSUME NEW m \in Int PROVE Saturated(m) \in Int /\ Wrapped(m) \in Int
  BY <1>1 DEF Saturated, Wrapped, Min64, Size
<1>3. Quotient(n, Micro) \in Int
  BY <1>1 DEF Quotient
<1>4. n * Second \in Int /\ n * Milli \in Int
  BY <1>1
<1>5. UnixMicros(unit, n) \in Int
  BY <1>2, <1>3, <1>4 DEF UnixMicros
<1>6. UnixMicros(unit, n) - Epoch \in Int
  BY <1>1, <1>5
<1> QED
  BY <1>2, <1>5, <1>6 DEF PgMicros

-----------------------------------------------------------------------------
(* Dates.                                                                  *)

LEMMA YearBounds ==
    ASSUME NEW y \in Years
    PROVE  /\ y \in Int /\ YearFirst[y] \in Int /\ YearFirst[y + 1] \in Int
           /\ YearFirst[y + 1] = YearFirst[y] + YearDays + (IF Leap(y) THEN 1 ELSE 0)
           /\ YearDays \in Nat /\ LeapDay \in 0 .. YearDays
<1>1. FirstYear \in Int /\ LastYear \in Int /\ YearDays \in Nat /\ LeapDay \in 0 .. YearDays
  BY YearAssumption
<1>2. y \in FirstYear .. LastYear + 1 /\ y + 1 \in FirstYear .. LastYear + 1 /\ y \in Int
  BY <1>1 DEF Years
<1>3. YearFirst[y] \in Int /\ YearFirst[y + 1] \in Int
  BY <1>2, YearAssumption
<1>4. YearFirst[y + 1] - YearFirst[y] \in {YearDays, YearDays + 1}
  BY YearAssumption
<1> QED
  BY <1>1, <1>2, <1>3, <1>4 DEF Leap

\* A day lies in one year.
LEMMA YearIs ==
    ASSUME NEW y \in Years, NEW n \in DaysOf(y)
    PROVE  YearOf(n) = y
<1>1. ASSUME NEW z \in Years, n \in DaysOf(z), z # y PROVE FALSE
  <2>1. /\ y \in Int /\ YearFirst[y] \in Int /\ YearFirst[y + 1] \in Int
        /\ z \in Int /\ YearFirst[z] \in Int /\ YearFirst[z + 1] \in Int
    BY YearBounds
  <2>2. n \in Int /\ YearFirst[y] <= n /\ n < YearFirst[y + 1]
        /\ YearFirst[z] <= n /\ n < YearFirst[z + 1]
    BY <1>1, <2>1 DEF DaysOf
  <2>3. y < z => YearFirst[y + 1] <= YearFirst[z]
    BY YearAssumption
  <2>4. z < y => YearFirst[z + 1] <= YearFirst[y]
    BY YearAssumption
  <2> QED
    BY <1>1, <2>1, <2>2, <2>3, <2>4
<1>2. YearOf(n) \in Years /\ n \in DaysOf(YearOf(n))
  BY DEF YearOf
<1> QED
  BY <1>1, <1>2

\* A day is the one of its month and day in its year, and no other.
LEMMA DayMonthDay ==
    ASSUME NEW y \in Years, NEW n \in DaysOf(y)
    PROVE  MonthDay(n) \in 0 .. YearDays /\ Exists(y, MonthDay(n)) /\ DayIn(y, MonthDay(n)) = n
<1>1. /\ YearFirst[y] \in Int /\ YearFirst[y + 1] \in Int /\ YearDays \in Nat /\ LeapDay \in 0 .. YearDays
      /\ YearFirst[y + 1] = YearFirst[y] + YearDays + (IF Leap(y) THEN 1 ELSE 0)
  BY YearBounds
<1>2. n \in Int /\ YearFirst[y] <= n /\ n < YearFirst[y + 1]
  BY <1>1 DEF DaysOf
<1>3. PICK i \in Nat : i = n - YearFirst[y]
  BY <1>1, <1>2
<1>4. MonthDay(n) = IF Leap(y) \/ i < LeapDay THEN i ELSE i + 1
  BY <1>3, YearIs DEF MonthDay
<1>5. CASE Leap(y)
  BY <1>1, <1>2, <1>3, <1>4, <1>5 DEF Exists, DayIn
<1>6. CASE ~Leap(y)
  BY <1>1, <1>2, <1>3, <1>4, <1>6 DEF Exists, DayIn
<1> QED
  BY <1>5, <1>6

LEMMA MonthDayDay ==
    ASSUME NEW y \in Years, NEW md \in 0 .. YearDays, Exists(y, md)
    PROVE  DayIn(y, md) \in DaysOf(y) /\ YearOf(DayIn(y, md)) = y /\ MonthDay(DayIn(y, md)) = md
<1>1. /\ YearFirst[y] \in Int /\ YearFirst[y + 1] \in Int /\ YearDays \in Nat /\ LeapDay \in 0 .. YearDays
      /\ YearFirst[y + 1] = YearFirst[y] + YearDays + (IF Leap(y) THEN 1 ELSE 0)
  BY YearBounds
<1>2. PICK d : d = DayIn(y, md)
  OBVIOUS
<1>3. d \in DaysOf(y)
  BY <1>1, <1>2 DEF DayIn, DaysOf, Exists
<1>4. YearOf(d) = y
  BY <1>3, YearIs
<1>5. PICK i \in Int : i = d - YearFirst[y]
  BY <1>1, <1>3 DEF DaysOf
<1>6. MonthDay(d) = IF Leap(y) \/ i < LeapDay THEN i ELSE i + 1
  BY <1>4, <1>5 DEF MonthDay
<1>7. MonthDay(d) = md
  BY <1>1, <1>2, <1>5, <1>6 DEF DayIn, Exists
<1> QED
  BY <1>2, <1>3, <1>4, <1>7

(***************************************************************************)
(* A day becomes the same date, or, before Christ, the one a year later:   *)
(* it fails only where there is none.                                      *)
(***************************************************************************)
LEMMA ToDateIs ==
    ASSUME NEW n \in Int
    PROVE  \/ NoDate(n) /\ ToDate(n) \in {Fails("range"), Fails("internal")}
           \/ \E d \in Int : ToDate(n) = Ok(Datum("date", d)) /\ SameDate(n, d)
<1>1. DayFirst \in Int /\ DayLast \in Int /\ PgDayFirst \in Int /\ DayFirst <= PgDayFirst
  BY DayAssumption
<1>2. CASE n \notin DayFirst .. DayLast
  <2>1. NoDate(n)
    BY <1>1, <1>2 DEF NoDate
  <2> QED
    BY <1>2, <2>1 DEF ToDate
<1>3. CASE n \in DayFirst .. DayLast
  <2>1. PICK y \in Years : n \in DaysOf(y)
    BY <1>3, YearAssumption
  <2>2. YearOf(n) = y
    BY <2>1, YearIs
  <2>3. PICK md \in 0 .. YearDays : md = MonthDay(n) /\ Exists(y, md) /\ DayIn(y, md) = n
    BY <2>1, DayMonthDay
  <2>4. ToDate(n) = IF y = 0 \/ ~Exists(PgYear(y), md) \/ DayIn(PgYear(y), md) < PgDayFirst
                    THEN Fails("internal") ELSE Ok(Datum("date", DayIn(PgYear(y), md)))
    BY <1>3, <2>2, <2>3 DEF ToDate
  <2>5. 0 \in Years /\ 1 \in Years /\ y \in Int /\ YearFirst[1] \in Int
    BY YearBounds, YearAssumption
  <2>6. YearFirst[y] \in Int /\ YearFirst[y + 1] \in Int /\ YearFirst[y] <= n /\ n < YearFirst[y + 1]
    BY <2>1, YearBounds DEF DaysOf
  <2>7. CASE y > 0
    <3>1. PgYear(y) = y
      BY <2>7 DEF PgYear
    <3>2. YearOne <= n
      <4>1. CASE y = 1
        BY <2>6, <4>1 DEF YearOne
      <4>2. CASE 1 < y
        <5>1. YearFirst[1 + 1] <= YearFirst[y] /\ YearFirst[1 + 1] \in Int /\ YearFirst[1] <= YearFirst[1 + 1]
          <6>1. YearFirst[1 + 1] <= YearFirst[y]
            BY <2>5, <4>2, YearAssumption
          <6> QED
            BY <2>5, <6>1, YearBounds
        <5> QED
          BY <2>5, <2>6, <5>1 DEF YearOne
      <4> QED
        BY <2>5, <2>7, <4>1, <4>2
    <3>3. CASE n < PgDayFirst
      BY <2>3, <2>4, <2>5, <2>7, <3>1, <3>3 DEF NoDate
    <3>4. CASE ~(n < PgDayFirst)
      BY <2>3, <2>4, <2>5, <2>7, <3>1, <3>2, <3>4 DEF SameDate
    <3> QED
      BY <3>3, <3>4
  <2>8. CASE ~(y > 0)
    <3>1. PgYear(y) = y + 1 /\ y < 1
      BY <2>5, <2>8 DEF PgYear
    <3>2. n < YearOne
      <4>1. YearFirst[y + 1] <= YearFirst[1]
        BY <2>5, <3>1, YearAssumption
      <4> QED
        BY <2>5, <2>6, <4>1 DEF YearOne
    <3>3. y + 1 \in Years
      BY <2>5, <3>1, YearAssumption DEF Years
    <3>4. CASE y = 0
      BY <2>2, <2>4, <3>2, <3>4 DEF NoDate
    <3>5. CASE y # 0 /\ ~Exists(y + 1, md)
      <4>1. md = LeapDay
        BY <3>5 DEF Exists
      <4> QED
        BY <2>3, <2>4, <3>1, <3>2, <3>5, <4>1 DEF NoDate
    <3>6. CASE y # 0 /\ Exists(y + 1, md)
      <4>1. DayIn(y + 1, md) \in DaysOf(y + 1)
            /\ YearOf(DayIn(y + 1, md)) = y + 1 /\ MonthDay(DayIn(y + 1, md)) = md
        BY <3>3, <3>6, MonthDayDay
      <4>2. DayIn(y + 1, md) \in Int /\ YearFirst[y + 1] <= DayIn(y + 1, md)
        BY <2>6, <3>3, <4>1, YearBounds DEF DaysOf
      <4>3. CASE DayIn(y + 1, md) < PgDayFirst
        <5>1. n < PgDayFirst
          BY <1>1, <2>6, <4>2, <4>3
        <5> QED
          BY <2>4, <3>1, <4>3, <5>1 DEF NoDate
      <4>4. CASE ~(DayIn(y + 1, md) < PgDayFirst)
        <5>1. ToDate(n) = Ok(Datum("date", DayIn(y + 1, md)))
          BY <2>4, <3>1, <3>6, <4>4
        <5>2. SameDate(n, DayIn(y + 1, md))
          BY <2>2, <2>3, <2>5, <3>2, <4>1 DEF SameDate, YearOne
        <5> QED
          BY <4>2, <5>1, <5>2
      <4> QED
        BY <4>3, <4>4
    <3> QED
      BY <3>4, <3>5, <3>6
  <2> QED
    BY <2>7, <2>8
<1> QED
  BY <1>2, <1>3

\* What a scalar becomes: the value a kind promises, or an error that is not
\* about its type.
LEMMA ToScalarTyped ==
    ASSUME NEW t \in Types, t.k \notin Lists \union {"Dictionary", "Struct"},
           NEW x \in NumbersOf(t), NEW checked \in BOOLEAN, NEW n \in 0 .. MaxDepth
    PROVE  /\ ToScalar(t, x, checked).err \in Errors \ {"mismatch"}
           /\ ToScalar(t, x, checked).d \in DatumsTo[n]
<1> DEFINE r == ToScalar(t, x, checked)
<1>0. /\ NullDatum \in DatumsTo[n]
      /\ \A k \in DatumKinds : \A m \in Numbers : Datum(k, m) \in DatumsTo[n]
      /\ \A k \in DatumKinds : \A m \in Numbers : \A s \in Int : [Datum(k, m) EXCEPT !.scale = s] \in DatumsTo[n]
  <2>1. ASSUME NEW k \in DatumKinds, NEW m \in Numbers, NEW s \in Int
        PROVE  Datum(k, m) \in DatumsTo[n] /\ [Datum(k, m) EXCEPT !.scale = s] \in DatumsTo[n]
    BY PlainDatum
  <2>2. 0 \in Int
    OBVIOUS
  <2> QED
    BY <2>1, <2>2, NullDatumTyped
<1>1. Required(t) \in DatumKinds
  <2>1. Required(t) \in PgBases \ {"composite"}
    BY RequiredTyped
  <2> QED
    BY <2>1 DEF DatumKinds
<1>2. x \in Numbers /\ (t.k \notin Float => x \in Int) /\ t.scale \in Int
  <2>1. x \in Numbers /\ (t.k \notin Float => x \in Int)
    BY WholeNumbers
  <2>2. t.scale \in Int
    BY TypeParts
  <2> QED
    BY <2>1, <2>2
<1>3. Int \subseteq Numbers /\ {"date", "numeric"} \subseteq DatumKinds
      /\ {"none", "range", "internal", "panic"} \subseteq Errors \ {"mismatch"}
  BY DEF Numbers, DatumKinds, PgBases, Errors
<1>11. t.k \in Integer \union {"Boolean", "Date32", "Date64", "Timestamp", "Decimal128", "Decimal256"}
         => Required(t) # "jsonb"
  BY DEF Required, Integer
<1>4. CASE t.k \in Integer \union {"Boolean"}
  <2>1. r = ToInteger(t, x)
    BY <1>4, <1>11 DEF ToScalar, Integer
  <2>2. ToInteger(t, x) = Fails("range") \/ ToInteger(t, x) = Ok(Datum(Required(t), x))
    BY DEF ToInteger
  <2> HIDE DEF r
  <2> QED
    BY <1>0, <1>1, <1>2, <1>3, <2>1, <2>2, ResultParts DEF r
<1>5. ASSUME NEW m \in Int PROVE ToDate(m).err \in Errors \ {"mismatch"} /\ ToDate(m).d \in DatumsTo[n]
  <2>1. PICK d \in Int : ToDate(m) \in {Fails("range"), Fails("internal"), Ok(Datum("date", d))}
    <3>1. \/ ToDate(m) \in {Fails("range"), Fails("internal")}
          \/ \E d \in Int : ToDate(m) = Ok(Datum("date", d))
      BY <1>5, ToDateIs
    <3> QED
      BY <1>5, <3>1
  <2>2. ToDate(m) = Fails("range") \/ ToDate(m) = Fails("internal") \/ ToDate(m) = Ok(Datum("date", d))
    BY <2>1
  <2> QED
    BY <1>0, <1>3, <2>2, ResultParts
<1>6. CASE t.k = "Date32"
  <2>1. r = ToDate(x)
    BY <1>6, <1>11 DEF ToScalar, Integer
  <2> QED
    BY <1>2, <1>5, <1>6, <2>1 DEF Float
<1>7. CASE t.k = "Date64"
  <2>1. r = ToDate(x \div Day)
    BY <1>7, <1>11 DEF ToScalar, Integer
  <2>2. x \in Int
    BY <1>2, <1>7 DEF Float
  <2>3. x \div Day \in Int
    BY <2>2, DayAssumption
  <2> QED
    BY <1>5, <2>1, <2>3
<1>8. CASE t.k = "Timestamp"
  <2>1. r = ToTimestamp(t, x, checked)
    BY <1>8, <1>11 DEF ToScalar, Integer
  <2>2. x \in Int
    BY <1>2, <1>8 DEF Float
  <2>3. t.unit \in {"s", "ms", "us", "ns"}
    BY <1>8, TypeParts DEF Shaped
  <2>4. PgMicros(UnixMicros(t.unit, x)) \in Int
    BY <2>2, <2>3, MicrosTyped
  <2>5. \/ ToTimestamp(t, x, checked) = Fails("panic")
        \/ ToTimestamp(t, x, checked) = Fails("range")
        \/ ToTimestamp(t, x, checked) = Ok(Datum(Required(t), PgMicros(UnixMicros(t.unit, x))))
    BY DEF ToTimestamp
  <2> HIDE DEF r
  <2> QED
    BY <1>0, <1>1, <1>3, <2>1, <2>4, <2>5, ResultParts DEF r
<1>9. CASE t.k \in {"Decimal128", "Decimal256"}
  <2>1. r = Ok([Datum("numeric", x) EXCEPT !.scale = t.scale])
    BY <1>9, <1>11 DEF ToScalar, ToDecimal, Integer
  <2>2. [Datum("numeric", x) EXCEPT !.scale = t.scale] \in DatumsTo[n]
    BY <1>0, <1>2, <1>3
  <2> HIDE DEF r
  <2> QED
    BY <1>3, <2>1, <2>2, ResultParts DEF r
<1>10. CASE t.k \notin Integer \union {"Boolean", "Date32", "Date64", "Timestamp", "Decimal128", "Decimal256"}
  <2>1. r = Ok(JsonScalar(t, x)) \/ r = Ok(Datum(Required(t), x))
    BY <1>10 DEF ToScalar, ToPlain
  <2>2. JsonScalar(t, x) \in DatumsTo[n]
    BY JsonScalarTyped
  <2> HIDE DEF r
  <2> QED
    BY <1>0, <1>1, <1>2, <1>3, <2>1, <2>2, ResultParts DEF r
<1> QED
  BY <1>4, <1>6, <1>7, <1>8, <1>9, <1>10

Converts(r, n) == r.err \in Errors /\ r.d \in DatumsTo[n]

LEMMA ConvertsGrow ==
    ASSUME NEW n \in 0 .. MaxDepth, n > 0, NEW r, Converts(r, n - 1)
    PROVE  Converts(r, n)
  BY DatumsToGrow DEF Converts

LEMMA OkConverts ==
    ASSUME NEW n, NEW d \in DatumsTo[n]
    PROVE  Converts(Ok(d), n) /\ Ok(d).err # "mismatch"
  BY ResultParts DEF Converts, Errors

LEMMA MismatchConverts ==
    ASSUME NEW n \in 0 .. MaxDepth
    PROVE  Converts(Fails("mismatch"), n)
  BY ResultParts, NullDatumTyped DEF Converts, Errors

\* What the check requires of what a list, a dictionary, a struct and a
\* scalar hold.
LEMMA FitsInside ==
    ASSUME NEW catalog, NEW t \in Types, NEW pg \in PgTypes, Validates(catalog)[t][pg]
    PROVE  /\ t.k = "Dictionary" => Validates(catalog)[Item(t)][pg]
           /\ t.k \in Lists => \/ pg = Jsonb
                               \/ pg.array /\ Validates(catalog)[Item(t)][Element(pg)]
           /\ t.k = "Struct" =>
                /\ Composites(catalog, pg) # {}
                /\ \A i \in DOMAIN Attributes(catalog, pg) :
                     LET f == Position(t.sub, NameOf(Attributes(catalog, pg)[i]))
                     IN  f # 0 /\ Validates(catalog)[TypeOf(t.sub[f])][TypeOf(Attributes(catalog, pg)[i])]
           /\ t.k \notin Lists \union {"Dictionary", "Struct"} => pg = Pg(Required(t))
<1>1. Fits(Validates(catalog), t, pg, catalog)
  BY ValidatesIs
<1>2. CASE t.k = "Dictionary"
  BY <1>1, <1>2 DEF Fits, Lists
<1>3. CASE t.k \in Lists
  BY <1>1, <1>3 DEF Fits, Lists, ListTarget
<1>4. CASE t.k = "Struct"
  BY <1>1, <1>4 DEF Fits, Lists
<1>5. CASE t.k \notin Lists \union {"Dictionary", "Struct"}
  BY <1>1, <1>5 DEF Fits
<1> QED
  BY <1>2, <1>3, <1>4, <1>5

\* What the inner conversions of an item do, by induction.
Sound(env, t, v, pg, n) ==
    /\ Converts(ToDatum(env)[t][v][pg], n)
    /\ Validates(env.types)[t][pg] => ToDatum(env)[t][v][pg].err # "mismatch"

LEMMA ListConverts ==
    ASSUME NEW env, NEW t \in Types, t.k \in Lists,
           NEW n \in 0 .. MaxDepth, NEW v \in CellsTo[n], Holds[t][v], ~v.null, NEW pg \in PgTypes,
           \A i \in DOMAIN v.sub : \A e \in PgTypes : Sound(env, Item(t), v.sub[i], e, n - 1)
    PROVE  Sound(env, t, v, pg, n)
<1>1. ToDatum(env)[t][v][pg] = ToArray(ToDatum(env), t, v, pg, env)
  <2>1. v \in Cells
    BY CellsToGrow DEF Cells
  <2>2. ToDatum(env)[t][v][pg] = DatumOf(ToDatum(env), t, v, pg, env)
    BY <2>1, ToDatumIs
  <2> QED
    BY <2>2 DEF DatumOf, Lists
<1>2. CASE pg.array
  <2> DEFINE results == [i \in DOMAIN v.sub |-> ToDatum(env)[Item(t)][v.sub[i]][Element(pg)]]
  <2>1. ToArray(ToDatum(env), t, v, pg, env) = Assembled("array", results, <<>>)
    BY <1>2 DEF ToArray
  <2>2. PICK l \in Nat : l = Len(v.sub) /\ DOMAIN v.sub = 1 .. l
    BY CellParts
  <2>3. DOMAIN results = 1 .. l /\ Len(results) = l
    BY <2>2, LenIs
  <2>4. ASSUME NEW i \in 1 .. l
        PROVE  /\ results[i].err \in Errors /\ results[i].d \in DatumsTo[n]
               /\ results[i].err = "none" => n > 0 /\ results[i].d \in DatumsTo[n - 1]
    <3>1. n > 0
      BY <2>2, CellParts
    <3>2. Converts(results[i], n - 1)
      BY <2>2, PgTypeParts DEF Sound
    <3> QED
      BY <3>1, <3>2, ConvertsGrow DEF Converts
  <2>5. Validates(env.types)[t][pg] => \A i \in 1 .. l : results[i].err # "mismatch"
    <3>1. ASSUME Validates(env.types)[t][pg] PROVE Validates(env.types)[Item(t)][Element(pg)]
      BY <1>2, <3>1, FitsInside DEF Jsonb, Pg
    <3> QED
      BY <2>2, <3>1, PgTypeParts DEF Sound
  <2>6. "array" \in DatumKinds /\ <<>> \in Seq(Name)
    BY DEF DatumKinds
  <2> HIDE DEF results
  <2>7. /\ Assembled("array", results, <<>>).err \in Errors
        /\ Assembled("array", results, <<>>).d \in DatumsTo[n]
        /\ (\A i \in 1 .. l : results[i].err # "mismatch")
             => Assembled("array", results, <<>>).err # "mismatch"
    BY <2>3, <2>4, <2>6, AssembledTyped
  <2> QED
    BY <1>1, <2>1, <2>5, <2>7 DEF Sound, Converts
<1>3. CASE ~pg.array /\ pg = Jsonb
  <2>1. ToDatum(env)[t][v][pg] = Ok(ToJson[t][v])
    BY <1>1, <1>3 DEF ToArray
  <2>2. ToJson[t][v] \in DatumsTo[n]
    BY ToJsonTyped
  <2> QED
    BY <2>1, <2>2, OkConverts DEF Sound
<1>4. CASE ~pg.array /\ pg # Jsonb
  <2>1. ToDatum(env)[t][v][pg] = Fails("mismatch")
    BY <1>1, <1>4 DEF ToArray
  <2>2. ~Validates(env.types)[t][pg]
    BY <1>4, FitsInside
  <2> QED
    BY <2>1, <2>2, MismatchConverts DEF Sound
<1> QED
  BY <1>2, <1>3, <1>4

LEMMA RowConverts ==
    ASSUME NEW env, env.types \in Catalogs, NEW t \in Types, t.k = "Struct",
           NEW n \in 0 .. MaxDepth, NEW v \in CellsTo[n], Holds[t][v], ~v.null, NEW pg \in PgTypes,
           \A i \in DOMAIN t.sub : \A e \in PgTypes : Sound(env, TypeOf(t.sub[i]), v.sub[i], e, n - 1)
    PROVE  Sound(env, t, v, pg, n)
<1>1. ToDatum(env)[t][v][pg] = ToRow(ToDatum(env), t, v, pg, env)
  <2>1. v \in Cells
    BY CellsToGrow DEF Cells
  <2>2. ToDatum(env)[t][v][pg] = DatumOf(ToDatum(env), t, v, pg, env)
    BY <2>1, ToDatumIs
  <2> QED
    BY <2>2 DEF DatumOf, Lists
<1>2. CASE Composites(env.types, pg) = {}
  <2>1. ToDatum(env)[t][v][pg] = Fails("mismatch")
    BY <1>1, <1>2 DEF ToRow
  <2>2. ~Validates(env.types)[t][pg]
    BY <1>2, FitsInside
  <2> QED
    BY <2>1, <2>2, MismatchConverts DEF Sound
<1>3. CASE Composites(env.types, pg) # {}
  <2>1. PICK atts : atts = Attributes(env.types, pg)
    OBVIOUS
  <2>2. PICK l \in Nat : l = Len(atts) /\ DOMAIN atts = 1 .. l
    BY <1>3, <2>1, AttributeParts
  <2>3. \A i \in 1 .. l : NameOf(atts[i]) \in Name /\ TypeOf(atts[i]) \in PgTypes
    BY <1>3, <2>1, <2>2, AttributeParts
  <2> DEFINE f(i) == Position(t.sub, NameOf(atts[i]))
  <2> DEFINE results == [i \in DOMAIN atts |->
               IF f(i) \notin DOMAIN t.sub THEN Fails("mismatch")
               ELSE ToDatum(env)[TypeOf(t.sub[f(i)])][v.sub[f(i)]][TypeOf(atts[i])]]
  <2> DEFINE names == [i \in DOMAIN atts |-> NameOf(atts[i])]
  <2>4. ToRow(ToDatum(env), t, v, pg, env) = Assembled("row", results, names)
    BY <1>3, <2>1 DEF ToRow, FieldFor
  <2>5. DOMAIN results = 1 .. l /\ Len(results) = l
    BY <2>2, LenIs
  <2>6. names \in Seq(Name) /\ "row" \in DatumKinds
    <3>1. names \in [1 .. l -> Name]
      BY <2>2, <2>3
    <3> QED
      BY <3>1 DEF DatumKinds
  <2>7. ASSUME NEW i \in 1 .. l
        PROVE  /\ results[i].err \in Errors /\ results[i].d \in DatumsTo[n]
               /\ results[i].err = "none" => n > 0 /\ results[i].d \in DatumsTo[n - 1]
               /\ Validates(env.types)[t][pg] => results[i].err # "mismatch"
    <3>1. CASE f(i) \notin DOMAIN t.sub
      <4>1. results[i] = Fails("mismatch")
        BY <2>2, <3>1
      <4>2. results[i].err = "mismatch" /\ Converts(results[i], n)
        BY <4>1, MismatchConverts, ResultParts
      <4>3. ~Validates(env.types)[t][pg]
        <5>1. f(i) \in 0 .. Len(t.sub) /\ DOMAIN t.sub = 1 .. Len(t.sub) /\ Len(t.sub) \in Nat
          BY TypeParts, PositionIs
        <5>2. f(i) = 0
          BY <3>1, <5>1
        <5> QED
          BY <2>1, <2>2, <5>2, FitsInside
      <4> QED
        BY <4>2, <4>3 DEF Converts
    <3>2. CASE f(i) \in DOMAIN t.sub
      <4>1. PICK x \in DOMAIN t.sub : x = f(i)
        BY <3>2
      <4>2. results[i] = ToDatum(env)[TypeOf(t.sub[x])][v.sub[x]][TypeOf(atts[i])]
        BY <2>2, <4>1
      <4>3. Sound(env, TypeOf(t.sub[x]), v.sub[x], TypeOf(atts[i]), n - 1)
        BY <2>3
      <4>4. n > 0
        <5>1. x \in DOMAIN v.sub
          BY HeldInside
        <5> QED
          BY <5>1, CellParts
      <4>5. Validates(env.types)[t][pg] => Validates(env.types)[TypeOf(t.sub[x])][TypeOf(atts[i])]
        BY <2>1, <2>2, <4>1, FitsInside
      <4>6. Converts(results[i], n - 1) /\ (Validates(env.types)[t][pg] => results[i].err # "mismatch")
        <5> HIDE DEF results
        <5> QED
          BY <4>2, <4>3, <4>5 DEF Sound
      <4>7. Converts(results[i], n)
        <5> HIDE DEF results
        <5> QED
          BY <4>4, <4>6, ConvertsGrow
      <4> HIDE DEF results
      <4> QED
        BY <4>4, <4>6, <4>7 DEF Converts
    <3> QED
      BY <3>1, <3>2
  <2> HIDE DEF results, names
  <2>8. /\ Assembled("row", results, names).err \in Errors
        /\ Assembled("row", results, names).d \in DatumsTo[n]
        /\ (\A i \in 1 .. l : results[i].err # "mismatch")
             => Assembled("row", results, names).err # "mismatch"
    BY <2>5, <2>6, <2>7, AssembledTyped
  <2> QED
    BY <1>1, <2>4, <2>7, <2>8 DEF Sound, Converts
<1> QED
  BY <1>2, <1>3

\* A conversion gives a datum that nests no deeper than the cell, and where
\* the check lets the types through it fails for no mismatch.
LEMMA ConversionSound ==
    ASSUME NEW env, env.types \in Catalogs, env.checked \in BOOLEAN, NEW t \in Types,
           NEW n \in 0 .. MaxDepth, NEW v \in CellsTo[n], Holds[t][v], NEW pg \in PgTypes
    PROVE  Sound(env, t, v, pg, n)
<1> DEFINE P == {s \in Types : \A m \in 0 .. MaxDepth : \A c \in CellsTo[m] : \A p \in PgTypes :
                   Holds[s][c] => Sound(env, s, c, p, m)}
<1>1. ASSUME NEW s \in Types, \A i \in DOMAIN s.sub : TypeOf(s.sub[i]) \in P
      PROVE  s \in P
  <2> SUFFICES ASSUME NEW m \in 0 .. MaxDepth, NEW c \in CellsTo[m], NEW p \in PgTypes, Holds[s][c]
               PROVE  Sound(env, s, c, p, m)
    OBVIOUS
  <2>0. c \in Cells
    BY CellsToGrow DEF Cells
  <2>1. ToDatum(env)[s][c][p] = DatumOf(ToDatum(env), s, c, p, env)
    BY <2>0, ToDatumIs
  <2>2. CASE c.null
    <3>1. ToDatum(env)[s][c][p] = Ok(NullDatum)
      BY <2>1, <2>2 DEF DatumOf
    <3> QED
      BY <3>1, OkConverts, NullDatumTyped DEF Sound
  <2>3. CASE ~c.null /\ s.k \in Lists
    <3>1. Item(s) \in P
      BY <1>1, <2>3, TypeParts DEF Item
    <3>2. ASSUME NEW i \in DOMAIN c.sub, NEW e \in PgTypes
          PROVE  Sound(env, Item(s), c.sub[i], e, m - 1)
      <4>1. m - 1 \in 0 .. MaxDepth /\ c.sub[i] \in CellsTo[m - 1]
        BY CellParts
      <4>2. Holds[Item(s)][c.sub[i]]
        BY <2>3, HeldInside
      <4> QED
        BY <3>1, <4>1, <4>2
    <3> HIDE DEF P
    <3> QED
      BY <2>3, <3>2, ListConverts
  <2>4. CASE ~c.null /\ s.k = "Dictionary"
    <3>1. ToDatum(env)[s][c][p] = ToDatum(env)[Item(s)][Entry(c)][p]
      BY <2>1, <2>4 DEF DatumOf
    <3>2. m > 0 /\ m - 1 \in 0 .. MaxDepth /\ Entry(c) \in CellsTo[m - 1] /\ Holds[Item(s)][Entry(c)]
      BY <2>4, HeldInside
    <3>3. Item(s) \in P
      BY <1>1, <2>4, TypeParts DEF Item
    <3>4. Sound(env, Item(s), Entry(c), p, m - 1)
      BY <3>2, <3>3
    <3>5. Validates(env.types)[s][p] => Validates(env.types)[Item(s)][p]
      BY <2>4, FitsInside
    <3> HIDE DEF P
    <3> QED
      BY <3>1, <3>2, <3>4, <3>5, ConvertsGrow DEF Sound
  <2>5. CASE ~c.null /\ s.k = "Struct"
    <3>1. ASSUME NEW i \in DOMAIN s.sub, NEW e \in PgTypes
          PROVE  Sound(env, TypeOf(s.sub[i]), c.sub[i], e, m - 1)
      <4>1. i \in DOMAIN c.sub /\ Holds[TypeOf(s.sub[i])][c.sub[i]]
        BY <2>5, HeldInside
      <4>2. m - 1 \in 0 .. MaxDepth /\ c.sub[i] \in CellsTo[m - 1]
        BY <4>1, CellParts
      <4>3. TypeOf(s.sub[i]) \in P
        BY <1>1
      <4> QED
        BY <4>1, <4>2, <4>3
    <3> HIDE DEF P
    <3> QED
      BY <2>5, <3>1, RowConverts
  <2>6. CASE ~c.null /\ s.k \notin Lists \union {"Dictionary", "Struct"}
    <3>1. CASE p # Pg(Required(s))
      <4>1. ToDatum(env)[s][c][p] = Fails("mismatch")
        BY <2>1, <2>6, <3>1 DEF DatumOf
      <4>2. ~Validates(env.types)[s][p]
        BY <2>6, <3>1, FitsInside
      <4> QED
        BY <4>1, <4>2, MismatchConverts DEF Sound
    <3>2. CASE p = Pg(Required(s))
      <4>1. ToDatum(env)[s][c][p] = ToScalar(s, c.n, env.checked)
        BY <2>1, <2>6, <3>2 DEF DatumOf
      <4>2. c.n \in NumbersOf(s)
        BY <2>6, HeldInside
      <4>3. /\ ToScalar(s, c.n, env.checked).err \in Errors \ {"mismatch"}
            /\ ToScalar(s, c.n, env.checked).d \in DatumsTo[m]
        BY <2>6, <4>2, ToScalarTyped
      <4> QED
        BY <4>1, <4>3 DEF Sound, Converts
    <3> QED
      BY <3>1, <3>2
  <2> QED
    BY <2>2, <2>3, <2>4, <2>5, <2>6
<1>2. Types \subseteq P
  <2> HIDE DEF P
  <2> QED
    BY <1>1, TypeInduction
<1> QED
  BY <1>2

-----------------------------------------------------------------------------
(* Import.                                                                 *)

\* f holds what was found before the fields and after each of them.
Afters(f, pgType, fields, path, acc) ==
    /\ f[0] = acc
    /\ \A i \in 1 .. Len(fields) :
         f[i] = pgType[TypeOf(fields[i])][Under(path, NameOf(fields[i]))][f[i - 1]]

\* PgTypesFor is what its definition says.
LEMMA FieldsAre ==
    ASSUME NEW pgType, NEW fields, Len(fields) \in Nat, NEW path, NEW acc
    PROVE  \E f : /\ Afters(f, pgType, fields, path, acc)
                 /\ PgTypesFor(pgType, fields, path, acc) = f[Len(fields)]
<1> DEFINE Step(f, i) == IF i = 0 THEN acc ELSE pgType[TypeOf(fields[i])][Under(path, NameOf(fields[i]))][f[i - 1]]
<1> DEFINE Good(f, m) == \A i \in 0 .. m : f[i] = Step(f, i)
<1> DEFINE S == {m \in 0 .. Len(fields) : \E f : f = [i \in 0 .. Len(fields) |-> f[i]] /\ Good(f, m)}
<1>0. PICK l \in Nat : l = Len(fields)
  OBVIOUS
<1>1. ASSUME NEW m \in 0 .. Len(fields), NEW f, NEW g, g = [i \in 0 .. Len(fields) |-> Step(f, i)],
             \A i \in 0 .. m - 1 : f[i] = g[i]
      PROVE  g = [i \in 0 .. Len(fields) |-> g[i]] /\ Good(g, m)
  <2>1. ASSUME NEW i \in 0 .. m PROVE g[i] = Step(g, i)
    <3>1. g[i] = Step(f, i)
      BY <1>0, <1>1
    <3>2. i # 0 => i - 1 \in 0 .. m - 1
      BY <1>0
    <3>3. i # 0 => f[i - 1] = g[i - 1]
      BY <1>1, <3>2
    <3> QED
      BY <3>1, <3>3
  <2> HIDE DEF Step
  <2> QED
    BY <1>1, <2>1
<1> HIDE DEF Step
<1>2. 0 \in S
  <2>1. PICK f : f = [i \in 0 .. Len(fields) |-> {}]
    OBVIOUS
  <2>2. PICK g : g = [i \in 0 .. Len(fields) |-> Step(f, i)]
    OBVIOUS
  <2>3. 0 \in 0 .. Len(fields) /\ \A i \in 0 .. 0 - 1 : f[i] = g[i]
    BY <1>0
  <2>4. g = [i \in 0 .. Len(fields) |-> g[i]] /\ Good(g, 0)
    <3> HIDE DEF Good
    <3> QED
      BY <1>1, <2>2, <2>3
  <2> QED
    BY <2>3, <2>4
<1>3. ASSUME NEW m \in 0 .. Len(fields) - 1, m \in S PROVE m + 1 \in S
  <2>1. PICK f : f = [i \in 0 .. Len(fields) |-> f[i]] /\ Good(f, m)
    BY <1>3
  <2>2. PICK g : g = [i \in 0 .. Len(fields) |-> Step(f, i)]
    OBVIOUS
  <2>3. m + 1 \in 0 .. Len(fields) /\ m + 1 - 1 = m /\ 0 .. m \subseteq 0 .. Len(fields)
    BY <1>0
  <2>4. \A i \in 0 .. m + 1 - 1 : f[i] = g[i]
    BY <2>1, <2>2, <2>3
  <2>5. g = [i \in 0 .. Len(fields) |-> g[i]] /\ Good(g, m + 1)
    <3> HIDE DEF Good
    <3> QED
      BY <1>1, <2>2, <2>3, <2>4
  <2> QED
    BY <2>3, <2>5
<1>4. Len(fields) \in S
  <2> HIDE DEF S
  <2> QED
    BY <1>0, <1>2, <1>3, Induct
<1>5. PICK f : f = [i \in 0 .. Len(fields) |-> f[i]] /\ Good(f, Len(fields))
  BY <1>4
<1>6. f = [i \in 0 .. Len(fields) |-> Step(f, i)]
  BY <1>5
<1>7. PICK h : h = CHOOSE g : g = [i \in 0 .. Len(fields) |-> IF i = 0 THEN acc ELSE pgType[TypeOf(fields[i])][Under(path, NameOf(fields[i]))][g[i - 1]]]
  OBVIOUS
<1>8. h = [i \in 0 .. Len(fields) |-> IF i = 0 THEN acc ELSE pgType[TypeOf(fields[i])][Under(path, NameOf(fields[i]))][h[i - 1]]]
  BY <1>6, <1>7 DEF Step
<1>9. PgTypesFor(pgType, fields, path, acc) = h[Len(fields)]
  BY <1>7 DEF PgTypesFor
<1>10. \A i \in 0 .. Len(fields) : h[i] = Step(h, i)
  BY <1>8 DEF Step
<1>11. h[0] = acc
  BY <1>0, <1>10 DEF Step
<1>12. ASSUME NEW i \in 1 .. Len(fields)
       PROVE  h[i] = pgType[TypeOf(fields[i])][Under(path, NameOf(fields[i]))][h[i - 1]]
  <2>1. i \in 0 .. Len(fields) /\ i # 0
    BY <1>0
  <2> QED
    BY <1>10, <2>1 DEF Step
<1> QED
  BY <1>9, <1>11, <1>12 DEF Afters

LEMMA FieldsLocal ==
    ASSUME NEW f, NEW g, NEW fields, Len(fields) \in Nat, NEW path, NEW acc,
           \A i \in 1 .. Len(fields) : f[TypeOf(fields[i])] = g[TypeOf(fields[i])]
    PROVE  PgTypesFor(f, fields, path, acc) = PgTypesFor(g, fields, path, acc)
<1>0. PICK l \in Nat : l = Len(fields)
  OBVIOUS
<1>1. PICK a : Afters(a, f, fields, path, acc) /\ PgTypesFor(f, fields, path, acc) = a[l]
  BY <1>0, FieldsAre
<1>2. PICK b : Afters(b, g, fields, path, acc) /\ PgTypesFor(g, fields, path, acc) = b[l]
  BY <1>0, FieldsAre
<1> DEFINE S == {i \in 0 .. l : a[i] = b[i]}
<1>3. 0 \in S
  BY <1>0, <1>1, <1>2 DEF Afters
<1>4. ASSUME NEW i \in 0 .. l - 1, i \in S PROVE i + 1 \in S
  <2>1. i + 1 \in 0 .. l /\ i + 1 \in 1 .. l /\ i + 1 - 1 = i
    OBVIOUS
  <2>2. a[i + 1] = f[TypeOf(fields[i + 1])][Under(path, NameOf(fields[i + 1]))][a[i]]
    BY <1>0, <1>1, <2>1 DEF Afters
  <2>3. b[i + 1] = g[TypeOf(fields[i + 1])][Under(path, NameOf(fields[i + 1]))][b[i]]
    BY <1>0, <1>2, <2>1 DEF Afters
  <2>4. f[TypeOf(fields[i + 1])] = g[TypeOf(fields[i + 1])] /\ a[i] = b[i]
    BY <1>0, <1>4, <2>1
  <2> QED
    BY <2>1, <2>2, <2>3, <2>4
<1>5. 0 .. l \subseteq S
  <2> HIDE DEF S
  <2> QED
    BY <1>3, <1>4, Induct
<1>6. a[l] = b[l]
  BY <1>5
<1> QED
  BY <1>1, <1>2, <1>6

LEMMA PgTypeForLocal ==
    ASSUME NEW table, NEW f, NEW g, NEW t \in Types, NEW path \in Name, NEW acc \in Accs,
           \A i \in DOMAIN t.sub : f[TypeOf(t.sub[i])] = g[TypeOf(t.sub[i])]
    PROVE  PgTypeFor(f, table, t, path, acc) = PgTypeFor(g, table, t, path, acc)
<1>1. t.k \in Lists \union {"Dictionary"} => f[Item(t)] = g[Item(t)]
  BY TypeParts DEF Item
<1>2. CASE t.k \in Lists
  BY <1>1, <1>2 DEF PgTypeFor
<1>3. CASE t.k = "Dictionary"
  BY <1>1, <1>3 DEF PgTypeFor, Lists
<1>4. CASE t.k = "Struct"
  <2> DEFINE inner == [acc EXCEPT !.seen = @ \union {CompositeTypeName(table, path)}, !.types = <<>>]
  <2>1. DOMAIN t.sub = 1 .. Len(t.sub) /\ Len(t.sub) \in Nat
    BY TypeParts
  <2>2. PgTypesFor(f, t.sub, path, inner) = PgTypesFor(g, t.sub, path, inner)
    <3>1. \A i \in 1 .. Len(t.sub) : f[TypeOf(t.sub[i])] = g[TypeOf(t.sub[i])]
      BY <2>1
    <3> HIDE DEF inner
    <3> QED
      BY <2>1, <3>1, FieldsLocal
  <2> QED
    BY <1>4, <2>2 DEF PgTypeFor, Lists
<1>5. CASE t.k \notin Lists \union {"Dictionary", "Struct"}
  BY <1>5 DEF PgTypeFor
<1> QED
  BY <1>2, <1>3, <1>4, <1>5

\* PgTypeIn is what its definition says.
LEMMA PgTypeInIs ==
    ASSUME NEW table, NEW t \in Types, NEW path \in Name, NEW acc \in Accs
    PROVE  PgTypeIn(table)[t][path][acc] = PgTypeFor(PgTypeIn(table), table, t, path, acc)
<1> DEFINE Row(f, s) == [q \in Name |-> [a \in Accs |-> PgTypeFor(f, table, s, q, a)]]
<1> DEFINE Good(f, m) == \A s \in TypesTo[m] : f[s] = Row(f, s)
<1> DEFINE S == {m \in 0 .. MaxDepth : \E f : f = [s \in Types |-> f[s]] /\ Good(f, m)}
<1>0. MaxDepth \in Nat
  BY DepthAssumption
<1>1. ASSUME NEW f, NEW g, NEW s \in Types,
             \A i \in DOMAIN s.sub : f[TypeOf(s.sub[i])] = g[TypeOf(s.sub[i])]
      PROVE  Row(f, s) = Row(g, s)
  <2>1. ASSUME NEW q \in Name, NEW a \in Accs PROVE PgTypeFor(f, table, s, q, a) = PgTypeFor(g, table, s, q, a)
    BY <1>1, PgTypeForLocal
  <2> QED
    BY <2>1
<1> HIDE DEF Row
<1>2. ASSUME NEW m \in 0 .. MaxDepth, NEW f, NEW g, g = [s \in Types |-> Row(f, s)],
             \A s \in TypesTo[m] : \A i \in DOMAIN s.sub : f[TypeOf(s.sub[i])] = g[TypeOf(s.sub[i])]
      PROVE  g = [s \in Types |-> g[s]] /\ Good(g, m)
  <2>1. g = [s \in Types |-> g[s]]
    BY <1>2
  <2>2. ASSUME NEW s \in TypesTo[m] PROVE g[s] = Row(g, s)
    <3>1. s \in Types
      BY TypesToGrow DEF Types
    <3>2. Row(f, s) = Row(g, s)
      BY <1>1, <1>2, <3>1
    <3> QED
      BY <1>2, <3>1, <3>2
  <2> QED
    BY <2>1, <2>2
<1>3. 0 \in S
  <2>1. PICK f : f = [s \in Types |-> {}]
    OBVIOUS
  <2>2. PICK g : g = [s \in Types |-> Row(f, s)]
    OBVIOUS
  <2>3. 0 \in 0 .. MaxDepth
    BY <1>0
  <2>4. \A s \in TypesTo[0] : \A i \in DOMAIN s.sub : f[TypeOf(s.sub[i])] = g[TypeOf(s.sub[i])]
    BY <2>3, Inside
  <2>5. g = [s \in Types |-> g[s]] /\ Good(g, 0)
    <3> HIDE DEF Good
    <3> QED
      BY <1>2, <2>2, <2>3, <2>4
  <2> QED
    BY <2>3, <2>5
<1>4. ASSUME NEW m \in 0 .. MaxDepth - 1, m \in S PROVE m + 1 \in S
  <2>1. PICK f : f = [s \in Types |-> f[s]] /\ Good(f, m)
    BY <1>4
  <2>2. PICK g : g = [s \in Types |-> Row(f, s)]
    OBVIOUS
  <2>3. m + 1 \in 0 .. MaxDepth /\ m \in 0 .. MaxDepth /\ m + 1 - 1 = m
    BY <1>0
  <2>4. ASSUME NEW s \in TypesTo[m + 1], NEW i \in DOMAIN s.sub
        PROVE  f[TypeOf(s.sub[i])] = g[TypeOf(s.sub[i])]
    <3>1. TypeOf(s.sub[i]) \in TypesTo[m]
      BY <2>3, Inside
    <3>2. TypeOf(s.sub[i]) \in Types
      BY <2>3, <3>1, TypesToGrow DEF Types
    <3> QED
      BY <2>1, <2>2, <3>1, <3>2
  <2>5. g = [s \in Types |-> g[s]] /\ Good(g, m + 1)
    <3> HIDE DEF Good
    <3> QED
      BY <1>2, <2>2, <2>3, <2>4
  <2> QED
    BY <2>3, <2>5
<1>5. MaxDepth \in S
  <2> HIDE DEF S
  <2> QED
    BY <1>0, <1>3, <1>4, Induct
<1>6. PICK f : f = [s \in Types |-> f[s]] /\ Good(f, MaxDepth)
  BY <1>5
<1>7. f = [s \in Types |-> Row(f, s)]
  BY <1>6 DEF Types
<1>8. \E h : h = [s \in Types |-> Row(h, s)]
  BY <1>7
<1>9. PgTypeIn(table) = [s \in Types |-> Row(PgTypeIn(table), s)]
  BY <1>8 DEF Row, PgTypeIn
<1>10. PICK h : h = PgTypeIn(table)
  OBVIOUS
<1>11. h[t] = Row(h, t)
  BY <1>9, <1>10
<1>12. h[t][path][acc] = PgTypeFor(h, table, t, path, acc)
  BY <1>11 DEF Row
<1> QED
  BY <1>10, <1>12

\* What pg_type_for_arrow makes of a type by itself.
TextOf(text, table, t, path) ==
    IF t.k \in Lists THEN
        LET inner == text[Item(t)][Under(path, <<"i">>)]
        IN  PgText(inner.base, inner.name, inner.dims + 1)
    ELSE IF t.k = "Dictionary" THEN text[Item(t)][Under(path, <<"d">>)]
    ELSE IF t.k # "Struct" THEN PgText(MappedTo(t), <<>>, 0)
    ELSE PgText("composite", CompositeTypeName(table, path), 0)

TextIn(table) ==
    LET text[t \in Types] == [path \in Name |-> TextOf(text, table, t, path)]
    IN  text

LEMMA TextOfLocal ==
    ASSUME NEW table, NEW f, NEW g, NEW t \in Types, NEW path \in Name,
           \A i \in DOMAIN t.sub : f[TypeOf(t.sub[i])] = g[TypeOf(t.sub[i])]
    PROVE  TextOf(f, table, t, path) = TextOf(g, table, t, path)
<1>1. t.k \in Lists \union {"Dictionary"} => f[Item(t)] = g[Item(t)]
  BY TypeParts DEF Item
<1> QED
  BY <1>1 DEF TextOf

\* TextIn is what its definition says.
LEMMA TextInIs ==
    ASSUME NEW table, NEW t \in Types, NEW path \in Name
    PROVE  TextIn(table)[t][path] = TextOf(TextIn(table), table, t, path)
<1> DEFINE Row(f, s) == [q \in Name |-> TextOf(f, table, s, q)]
<1> DEFINE Good(f, m) == \A s \in TypesTo[m] : f[s] = Row(f, s)
<1> DEFINE S == {m \in 0 .. MaxDepth : \E f : f = [s \in Types |-> f[s]] /\ Good(f, m)}
<1>0. MaxDepth \in Nat
  BY DepthAssumption
<1>1. ASSUME NEW f, NEW g, NEW s \in Types,
             \A i \in DOMAIN s.sub : f[TypeOf(s.sub[i])] = g[TypeOf(s.sub[i])]
      PROVE  Row(f, s) = Row(g, s)
  <2>1. ASSUME NEW q \in Name PROVE TextOf(f, table, s, q) = TextOf(g, table, s, q)
    BY <1>1, TextOfLocal
  <2> QED
    BY <2>1
<1> HIDE DEF Row
<1>2. ASSUME NEW m \in 0 .. MaxDepth, NEW f, NEW g, g = [s \in Types |-> Row(f, s)],
             \A s \in TypesTo[m] : \A i \in DOMAIN s.sub : f[TypeOf(s.sub[i])] = g[TypeOf(s.sub[i])]
      PROVE  g = [s \in Types |-> g[s]] /\ Good(g, m)
  <2>1. g = [s \in Types |-> g[s]]
    BY <1>2
  <2>2. ASSUME NEW s \in TypesTo[m] PROVE g[s] = Row(g, s)
    <3>1. s \in Types
      BY TypesToGrow DEF Types
    <3>2. Row(f, s) = Row(g, s)
      BY <1>1, <1>2, <3>1
    <3> QED
      BY <1>2, <3>1, <3>2
  <2> QED
    BY <2>1, <2>2
<1>3. 0 \in S
  <2>1. PICK f : f = [s \in Types |-> {}]
    OBVIOUS
  <2>2. PICK g : g = [s \in Types |-> Row(f, s)]
    OBVIOUS
  <2>3. 0 \in 0 .. MaxDepth
    BY <1>0
  <2>4. \A s \in TypesTo[0] : \A i \in DOMAIN s.sub : f[TypeOf(s.sub[i])] = g[TypeOf(s.sub[i])]
    BY <2>3, Inside
  <2>5. g = [s \in Types |-> g[s]] /\ Good(g, 0)
    <3> HIDE DEF Good
    <3> QED
      BY <1>2, <2>2, <2>3, <2>4
  <2> QED
    BY <2>3, <2>5
<1>4. ASSUME NEW m \in 0 .. MaxDepth - 1, m \in S PROVE m + 1 \in S
  <2>1. PICK f : f = [s \in Types |-> f[s]] /\ Good(f, m)
    BY <1>4
  <2>2. PICK g : g = [s \in Types |-> Row(f, s)]
    OBVIOUS
  <2>3. m + 1 \in 0 .. MaxDepth /\ m \in 0 .. MaxDepth /\ m + 1 - 1 = m
    BY <1>0
  <2>4. ASSUME NEW s \in TypesTo[m + 1], NEW i \in DOMAIN s.sub
        PROVE  f[TypeOf(s.sub[i])] = g[TypeOf(s.sub[i])]
    <3>1. TypeOf(s.sub[i]) \in TypesTo[m]
      BY <2>3, Inside
    <3>2. TypeOf(s.sub[i]) \in Types
      BY <2>3, <3>1, TypesToGrow DEF Types
    <3> QED
      BY <2>1, <2>2, <3>1, <3>2
  <2>5. g = [s \in Types |-> g[s]] /\ Good(g, m + 1)
    <3> HIDE DEF Good
    <3> QED
      BY <1>2, <2>2, <2>3, <2>4
  <2> QED
    BY <2>3, <2>5
<1>5. MaxDepth \in S
  <2> HIDE DEF S
  <2> QED
    BY <1>0, <1>3, <1>4, Induct
<1>6. PICK f : f = [s \in Types |-> f[s]] /\ Good(f, MaxDepth)
  BY <1>5
<1>7. f = [s \in Types |-> Row(f, s)]
  BY <1>6 DEF Types
<1>8. \E h : h = [s \in Types |-> Row(h, s)]
  BY <1>7
<1>9. TextIn(table) = [s \in Types |-> Row(TextIn(table), s)]
  BY <1>8 DEF Row, TextIn
<1>10. PICK h : h = TextIn(table)
  OBVIOUS
<1>11. h[t] = Row(h, t)
  BY <1>9, <1>10
<1>12. h[t][path] = TextOf(h, table, t, path)
  BY <1>11 DEF Row
<1> QED
  BY <1>10, <1>12

LEMMA NamesInside ==
    ASSUME NEW path \in Name, NEW name \in Name, NEW table \in Name
    PROVE  /\ Under(path, name) \in Name /\ CompositeTypeName(table, path) \in Name
           /\ <<"i">> \in Name /\ <<"d">> \in Name /\ <<>> \in Name
<1>1. "_" \in DOMAIN Clean /\ "i" \in DOMAIN Clean /\ "d" \in DOMAIN Clean
  BY NameAssumption
<1>2. <<"_">> \in Name /\ <<"i">> \in Name /\ <<"d">> \in Name /\ <<>> \in Name
  <2>1. ASSUME NEW S, NEW x \in S PROVE <<x>> \in Seq(S) /\ <<>> \in Seq(S)
    OBVIOUS
  <2> QED
    BY <1>1, <2>1 DEF Name
<1>3. path \o <<"_">> \o name \in Name /\ table \o <<"_">> \o path \in Name
  <2>1. \A a, b \in Name : a \o b \in Name
    BY ConcatProperties DEF Name
  <2> QED
    BY <1>2, <2>1
<1>4. CompositeTypeName(table, path) \in Name
  <2>1. PICK whole \in Seq(DOMAIN Clean) : whole = table \o <<"_">> \o path
    BY <1>3 DEF Name
  <2>2. PICK l \in Nat : l = (IF Len(whole) > NameMax THEN NameMax ELSE Len(whole)) /\ l <= Len(whole)
    <3>1. NameMax \in Nat
      BY NameAssumption
    <3>2. Len(whole) \in Nat
      BY LenProperties
    <3> QED
      BY <3>1, <3>2
  <2>3. \A i \in 1 .. l : whole[i] \in DOMAIN Clean
    BY <2>2
  <2>4. \A c \in DOMAIN Clean : Clean[c] \in DOMAIN Clean
    BY NameAssumption
  <2>5. [i \in 1 .. l |-> Clean[whole[i]]] \in Seq(DOMAIN Clean)
    BY <2>3, <2>4
  <2> QED
    BY <2>1, <2>2, <2>5 DEF CompositeTypeName, Name
<1> QED
  BY <1>2, <1>3, <1>4 DEF Under

LEMMA MappedTyped ==
    ASSUME NEW t
    PROVE  MappedTo(t) \in PgBases \ {"composite"}
<1>1. CASE t.k \in Integer
  BY <1>1 DEF MappedTo, MappedInteger, Integer, PgBases
<1>2. CASE t.k \notin Integer
  BY <1>2 DEF MappedTo, PgBases
<1> QED
  BY <1>1, <1>2

LEMMA TextTyped ==
    ASSUME NEW table \in Name, NEW t \in Types, NEW path \in Name
    PROVE  TextIn(table)[t][path] \in PgTexts
<1> DEFINE P == {s \in Types : \A p \in Name : TextIn(table)[s][p] \in PgTexts}
<1>1. ASSUME NEW s \in Types, \A i \in DOMAIN s.sub : TypeOf(s.sub[i]) \in P PROVE s \in P
  <2>1. ASSUME NEW p \in Name PROVE TextIn(table)[s][p] \in PgTexts
    <3>1. TextIn(table)[s][p] = TextOf(TextIn(table), table, s, p)
      BY TextInIs
    <3>2. s.k \in Lists \union {"Dictionary"} => Item(s) \in P
      BY <1>1, TypeParts DEF Item
    <3>3. Under(p, <<"i">>) \in Name /\ Under(p, <<"d">>) \in Name /\ CompositeTypeName(table, p) \in Name /\ <<>> \in Name
      BY NamesInside
    <3>4. CASE s.k \in Lists
      <4>1. TextIn(table)[Item(s)][Under(p, <<"i">>)] \in PgTexts
        BY <3>2, <3>3, <3>4
      <4> QED
        BY <3>1, <3>4, <4>1 DEF TextOf, PgText, PgTexts
    <3>5. CASE s.k = "Dictionary"
      BY <3>1, <3>2, <3>3, <3>5 DEF TextOf, Lists
    <3>6. CASE s.k = "Struct"
      BY <3>1, <3>3, <3>6 DEF TextOf, PgText, PgTexts, PgBases, Lists
    <3>7. CASE s.k \notin Lists \union {"Dictionary", "Struct"}
      BY <3>1, <3>3, <3>7, MappedTyped DEF TextOf, PgText, PgTexts
    <3> QED
      BY <3>4, <3>5, <3>6, <3>7
  <2> QED
    BY <2>1
<1>2. Types \subseteq P
  <2> HIDE DEF P
  <2> QED
    BY <1>1, TypeInduction
<1> QED
  BY <1>2

\* What an import has found: the names of what it defines are seen.
Sane(acc) == acc \in Accs /\ IsFiniteSet(acc.defs) /\ Names(acc.defs) \subseteq acc.seen

\* r has one type more than acc had, and has forgotten no name.
Finds(r, acc, text) == Sane(r) /\ r.types = Append(acc.types, text) /\ acc.seen \subseteq r.seen

Mapped(table, t) ==
    \A path \in Name : \A acc \in Accs :
      Sane(acc) => Finds(PgTypeIn(table)[t][path][acc], acc, TextIn(table)[t][path])

TextAt(table, fields, path, j) == TextIn(table)[TypeOf(fields[j])][Under(path, NameOf(fields[j]))]

FieldsMapped(table, fields, path, acc, r) ==
    /\ Sane(r) /\ acc.seen \subseteq r.seen
    /\ Len(r.types) = Len(fields)
    /\ \A j \in 1 .. Len(fields) : r.types[j] = TextAt(table, fields, path, j)

LEMMA AccParts ==
    ASSUME NEW acc \in Accs
    PROVE  /\ acc.types \in Seq(PgTexts) /\ acc.seen \in SUBSET Name
           /\ acc.defs \in SUBSET (Name \X Seq(Name \X PgTexts))
           /\ acc = [types |-> acc.types, seen |-> acc.seen, defs |-> acc.defs]
  BY DEF Accs

\* The types of fields are found one after the other.
LEMMA FieldsFind ==
    ASSUME NEW table \in Name, NEW fields, Len(fields) \in Nat, NEW path \in Name,
           NEW acc, Sane(acc), acc.types = <<>>,
           \A i \in 1 .. Len(fields) :
             TypeOf(fields[i]) \in Types /\ NameOf(fields[i]) \in Name /\ Mapped(table, TypeOf(fields[i]))
    PROVE  FieldsMapped(table, fields, path, acc, PgTypesFor(PgTypeIn(table), fields, path, acc))
<1> DEFINE Good(a, i) == /\ Sane(a) /\ acc.seen \subseteq a.seen
                         /\ Len(a.types) = i
                         /\ \A j \in 1 .. i : a.types[j] = TextAt(table, fields, path, j)
<1>0. PICK l \in Nat : l = Len(fields)
  OBVIOUS
<1>1. PICK f : Afters(f, PgTypeIn(table), fields, path, acc)
               /\ PgTypesFor(PgTypeIn(table), fields, path, acc) = f[l]
  BY <1>0, FieldsAre
<1> DEFINE S == {i \in 0 .. l : Good(f[i], i)}
<1>2. 0 \in S
  <2>1. f[0] = acc
    BY <1>1 DEF Afters
  <2> QED
    BY <2>1
<1>3. ASSUME NEW i \in 0 .. l - 1, i \in S PROVE i + 1 \in S
  <2>1. i + 1 \in 0 .. l /\ i + 1 \in 1 .. l /\ i + 1 - 1 = i
    OBVIOUS
  <2>2. PICK t \in Types : t = TypeOf(fields[i + 1])
    BY <1>0, <2>1
  <2>3. PICK p \in Name : p = Under(path, NameOf(fields[i + 1]))
    BY <1>0, <2>1, NamesInside
  <2>4. PICK a : a = f[i]
    OBVIOUS
  <2>5. f[i + 1] = PgTypeIn(table)[t][p][a]
    BY <1>0, <1>1, <2>1, <2>2, <2>3, <2>4 DEF Afters
  <2>6. Good(a, i)
    BY <1>3, <2>4
  <2>7. Mapped(table, t)
    BY <1>0, <2>1, <2>2
  <2>8. PICK b : b = f[i + 1]
    OBVIOUS
  <2>9. Sane(b) /\ b.types = Append(a.types, TextIn(table)[t][p]) /\ a.seen \subseteq b.seen
    BY <2>5, <2>6, <2>7, <2>8 DEF Mapped, Finds, Sane
  <2>10. TextIn(table)[t][p] \in PgTexts /\ TextIn(table)[t][p] = TextAt(table, fields, path, i + 1)
    BY <2>2, <2>3, TextTyped DEF TextAt
  <2>11. PICK x \in PgTexts : x = TextIn(table)[t][p]
    BY <2>10
  <2>12. a.types \in Seq(PgTexts) /\ Len(a.types) = i
    BY <2>6 DEF Sane, Accs
  <2>13. Len(b.types) = i + 1 /\ b.types[i + 1] = x /\ \A j \in 1 .. i : b.types[j] = a.types[j]
    BY <2>9, <2>11, <2>12, AppendProperties
  <2>14. \A j \in 1 .. i + 1 : j \in 1 .. i \/ j = i + 1
    OBVIOUS
  <2>15. \A j \in 1 .. i + 1 : b.types[j] = TextAt(table, fields, path, j)
    BY <2>6, <2>10, <2>11, <2>13, <2>14
  <2>16. Good(b, i + 1)
    BY <2>6, <2>9, <2>13, <2>15
  <2> HIDE DEF Good
  <2> QED
    BY <2>1, <2>8, <2>16
<1>4. 0 .. l \subseteq S
  <2> HIDE DEF S
  <2> QED
    BY <1>2, <1>3, Induct
<1>5. l \in S
  BY <1>4
<1> QED
  BY <1>0, <1>1, <1>5 DEF FieldsMapped

LEMMA AppendFinds ==
    ASSUME NEW acc, Sane(acc), NEW text \in PgTexts
    PROVE  Finds(Found(acc, text), acc, text)
<1>1. Append(acc.types, text) \in Seq(PgTexts)
  BY AppendProperties DEF Sane, Accs
<1>2. Found(acc, text) = [types |-> Append(acc.types, text), seen |-> acc.seen, defs |-> acc.defs]
  BY DEF Found, Sane, Accs
<1> QED
  BY <1>1, <1>2 DEF Finds, Sane, Accs

\* A list adds a dimension to the last type found.
LEMMA ListFinds ==
    ASSUME NEW acc, Sane(acc), NEW text \in PgTexts, NEW r, Finds(r, acc, text)
    PROVE  Finds([r EXCEPT !.types[Len(r.types)].dims = @ + 1], acc,
                 PgText(text.base, text.name, text.dims + 1))
<1>1. PICK l \in Nat : l = Len(acc.types)
  BY DEF Sane, Accs
<1>2. acc.types \in Seq(PgTexts) /\ r.types = Append(acc.types, text) /\ r.types \in Seq(PgTexts)
  BY DEF Sane, Accs, Finds
<1>3. Len(r.types) = l + 1 /\ r.types[l + 1] = text /\ DOMAIN r.types = 1 .. l + 1
  BY <1>1, <1>2, AppendProperties
<1>4. PICK more \in PgTexts : more = PgText(text.base, text.name, text.dims + 1)
  <2>1. text.name \in Name /\ text.base \in PgBases /\ text.dims \in Nat
    BY DEF PgTexts
  <2>2. text.dims + 1 \in Nat
    BY <2>1
  <2> QED
    BY <2>1, <2>2 DEF PgText, PgTexts
<1>5. more = [text EXCEPT !.dims = @ + 1]
  BY <1>4 DEF PgText, PgTexts
<1>6. PICK types : types = [r.types EXCEPT ![l + 1] = more]
  OBVIOUS
<1>7. [r EXCEPT !.types[Len(r.types)].dims = @ + 1] = [r EXCEPT !.types = types]
  BY <1>3, <1>5, <1>6 DEF Finds, Sane, Accs
<1>8. types \in Seq(PgTexts) /\ types = Append(acc.types, more)
  <2>1. types \in Seq(PgTexts)
    BY <1>2, <1>3, <1>6
  <2>2. PICK other : other = Append(acc.types, more)
    OBVIOUS
  <2>3. other \in Seq(PgTexts) /\ Len(other) = l + 1 /\ other[l + 1] = more
        /\ \A j \in 1 .. l : other[j] = acc.types[j]
    BY <1>1, <1>2, <2>2, AppendProperties
  <2>4. Len(types) = l + 1 /\ types[l + 1] = more /\ \A j \in 1 .. l : types[j] = r.types[j]
    <3>1. DOMAIN types = 1 .. l + 1 /\ types[l + 1] = more
      BY <1>3, <1>6
    <3>2. Len(types) = l + 1
      BY <1>1, <2>1, <3>1
    <3>3. \A j \in 1 .. l : types[j] = r.types[j]
      BY <1>1, <1>3, <1>6
    <3> QED
      BY <3>1, <3>2, <3>3
  <2>5. \A j \in 1 .. l : r.types[j] = acc.types[j]
    BY <1>1, <1>2, AppendProperties
  <2>6. \A j \in 1 .. l + 1 : types[j] = other[j]
    <3>1. \A j \in 1 .. l + 1 : j \in 1 .. l \/ j = l + 1
      OBVIOUS
    <3> QED
      BY <2>3, <2>4, <2>5, <3>1
  <2> QED
    BY <2>1, <2>2, <2>3, <2>4, <2>6, SeqEqual
<1>9. [r EXCEPT !.types = types] = [types |-> types, seen |-> r.seen, defs |-> r.defs]
  BY DEF Finds, Sane, Accs
<1> QED
  BY <1>4, <1>7, <1>8, <1>9 DEF Finds, Sane, Accs

\* A struct is one type more, whether or not its name is new.
LEMMA StructFinds ==
    ASSUME NEW table \in Name, NEW t \in Types, t.k = "Struct",
           \A i \in DOMAIN t.sub : Mapped(table, TypeOf(t.sub[i])),
           NEW path \in Name, NEW acc, Sane(acc)
    PROVE  Finds(PgTypeFor(PgTypeIn(table), table, t, path, acc), acc, TextIn(table)[t][path])
<1>1. PICK name \in Name : name = CompositeTypeName(table, path)
  BY NamesInside
<1>2. PICK self \in PgTexts : self = PgText("composite", name, 0)
  BY DEF PgText, PgTexts, PgBases
<1>3. TextIn(table)[t][path] = self
  BY <1>1, <1>2, TextInIs DEF TextOf, Lists
<1>4. PICK inner : inner = [acc EXCEPT !.seen = @ \union {name}, !.types = <<>>]
  OBVIOUS
<1>5. Sane(inner) /\ inner.types = <<>> /\ inner.seen = acc.seen \union {name}
  <2>1. <<>> \in Seq(PgTexts)
    OBVIOUS
  <2> QED
    BY <1>4, <2>1 DEF Sane, Accs
<1>6. PICK sub : sub = PgTypesFor(PgTypeIn(table), t.sub, path, inner)
  OBVIOUS
<1>7. PICK l \in Nat : l = Len(t.sub) /\ DOMAIN t.sub = 1 .. l
  BY TypeParts
<1>8. FieldsMapped(table, t.sub, path, inner, sub)
  BY <1>5, <1>6, <1>7, TypeParts, FieldsFind
<1>9. PICK cols : cols = [i \in DOMAIN t.sub |-> <<NameOf(t.sub[i]), sub.types[i]>>]
  OBVIOUS
<1>10. cols \in Seq(Name \X PgTexts)
  <2>1. ASSUME NEW i \in 1 .. l PROVE cols[i] \in Name \X PgTexts
    <3>1. sub.types[i] \in PgTexts
      BY <1>7, <1>8 DEF FieldsMapped, Sane, Accs
    <3>2. NameOf(t.sub[i]) \in Name
      BY <1>7, TypeParts
    <3> QED
      BY <1>7, <1>9, <3>1, <3>2
  <2>2. PICK A : A = Name \X PgTexts
    OBVIOUS
  <2>3. cols = [i \in 1 .. l |-> cols[i]] /\ \A i \in 1 .. l : cols[i] \in A
    BY <1>7, <1>9, <2>1, <2>2
  <2>4. cols \in Seq(A)
    BY <2>3
  <2> QED
    BY <2>2, <2>4
<1>11. PICK r : r = PgTypeFor(PgTypeIn(table), table, t, path, acc)
  OBVIOUS
<1>12. CASE name \in acc.seen
  <2>1. r = Found(acc, self)
    BY <1>1, <1>2, <1>11, <1>12 DEF PgTypeFor, Lists
  <2> QED
    BY <1>3, <1>11, <2>1, AppendFinds
<1>13. CASE name \notin acc.seen
  <2>1. PICK defs : defs = {d \in sub.defs : d[1] # name} \union {<<name, cols>>}
    OBVIOUS
  <2>2. r = [types |-> Append(acc.types, self), seen |-> sub.seen, defs |-> defs]
    BY <1>1, <1>2, <1>4, <1>6, <1>9, <1>11, <1>13, <2>1 DEF PgTypeFor, Lists
  <2>3. sub \in Accs /\ IsFiniteSet(sub.defs) /\ Names(sub.defs) \subseteq sub.seen
        /\ inner.seen \subseteq sub.seen
    BY <1>8 DEF FieldsMapped, Sane
  <2>4. IsFiniteSet(defs)
    <3>1. IsFiniteSet({d \in sub.defs : d[1] # name})
      BY <2>3, FS_Subset
    <3> QED
      BY <2>1, <3>1, FS_AddElement
  <2>5. defs \subseteq Name \X Seq(Name \X PgTexts)
    BY <1>10, <2>1, <2>3 DEF Accs
  <2>6. Append(acc.types, self) \in Seq(PgTexts)
    BY AppendProperties DEF Sane, Accs
  <2>7. sub.seen \in SUBSET Name
    BY <2>3 DEF Accs
  <2>8. r \in Accs
    BY <2>2, <2>5, <2>6, <2>7 DEF Accs
  <2>9. Names(defs) \subseteq sub.seen
    <3>1. name \in sub.seen
      BY <1>5, <2>3
    <3> QED
      BY <2>1, <2>3, <3>1 DEF Names
  <2> QED
    BY <1>3, <1>5, <1>11, <2>2, <2>3, <2>4, <2>8, <2>9 DEF Finds, Sane
<1> QED
  BY <1>12, <1>13

\* Whatever was seen before, a type is found as what it is by itself.
LEMMA AllMapped ==
    ASSUME NEW table \in Name
    PROVE  \A t \in Types : Mapped(table, t)
<1> DEFINE P == {t \in Types : Mapped(table, t)}
<1>1. ASSUME NEW t \in Types, \A i \in DOMAIN t.sub : TypeOf(t.sub[i]) \in P PROVE t \in P
  <2>1. ASSUME NEW path \in Name, NEW acc \in Accs, Sane(acc)
        PROVE  Finds(PgTypeIn(table)[t][path][acc], acc, TextIn(table)[t][path])
    <3>1. PICK r : r = PgTypeIn(table)[t][path][acc]
      OBVIOUS
    <3>2. r = PgTypeFor(PgTypeIn(table), table, t, path, acc)
      BY <3>1, PgTypeInIs
    <3>3. t.k \in Lists \union {"Dictionary"} => Item(t) \in Types /\ Mapped(table, Item(t))
      BY <1>1, TypeParts DEF Item
    <3>4. PICK i \in Name : i = Under(path, <<"i">>)
      BY <2>1, NamesInside
    <3>5. PICK d \in Name : d = Under(path, <<"d">>)
      BY <2>1, NamesInside
    <3>6. TextIn(table)[t][path] = TextOf(TextIn(table), table, t, path)
      BY TextInIs
    <3>7. CASE t.k \in Lists
      <4>1. PICK text \in PgTexts : text = TextIn(table)[Item(t)][i]
        BY <3>3, <3>7, TextTyped
      <4>2. PICK q : q = PgTypeIn(table)[Item(t)][i][acc]
        OBVIOUS
      <4>3. Finds(q, acc, text)
        BY <2>1, <3>3, <3>7, <4>1, <4>2 DEF Mapped
      <4>4. r = [q EXCEPT !.types[Len(q.types)].dims = @ + 1]
        BY <3>2, <3>4, <3>7, <4>2 DEF PgTypeFor
      <4>5. TextIn(table)[t][path] = PgText(text.base, text.name, text.dims + 1)
        BY <3>4, <3>6, <3>7, <4>1 DEF TextOf
      <4> QED
        BY <2>1, <3>1, <4>3, <4>4, <4>5, ListFinds
    <3>8. CASE t.k = "Dictionary"
      <4>1. r = PgTypeIn(table)[Item(t)][d][acc]
        BY <3>2, <3>5, <3>8 DEF PgTypeFor, Lists
      <4>2. TextIn(table)[t][path] = TextIn(table)[Item(t)][d]
        BY <3>5, <3>6, <3>8 DEF TextOf, Lists
      <4> QED
        BY <2>1, <3>1, <3>3, <3>8, <4>1, <4>2 DEF Mapped
    <3>9. CASE t.k = "Struct"
      BY <1>1, <2>1, <3>1, <3>2, <3>9, StructFinds
    <3>10. CASE t.k \notin Lists \union {"Dictionary", "Struct"}
      <4>1. PgText(MappedTo(t), <<>>, 0) \in PgTexts
        BY <2>1, NamesInside, MappedTyped DEF PgText, PgTexts
      <4>2. TextIn(table)[t][path] = PgText(MappedTo(t), <<>>, 0)
        BY <3>6, <3>10 DEF TextOf
      <4>3. r = Found(acc, PgText(MappedTo(t), <<>>, 0))
        BY <3>2, <3>10 DEF PgTypeFor
      <4> QED
        BY <2>1, <3>1, <4>1, <4>2, <4>3, AppendFinds
    <3> QED
      BY <3>7, <3>8, <3>9, <3>10
  <2> QED
    BY <2>1 DEF Mapped
<1>2. Types \subseteq P
  <2> HIDE DEF P
  <2> QED
    BY <1>1, TypeInduction
<1> QED
  BY <1>2

(***************************************************************************)
(* build_schema_mapping gives every field of a schema the type it would    *)
(* have by itself, and defines only composites it has seen.                *)
(***************************************************************************)
THEOREM MappingFound ==
    ASSUME NEW table \in Name, NEW fields \in Seq(Name \X Types)
    PROVE  FieldsMapped(table, fields, <<>>, Nothing, SchemaMapping(table, fields))
<1>1. PICK l \in Nat : l = Len(fields)
  OBVIOUS
<1>2. ASSUME NEW i \in 1 .. l
      PROVE  TypeOf(fields[i]) \in Types /\ NameOf(fields[i]) \in Name
  <2>1. fields[i] \in Name \X Types
    BY <1>1
  <2> QED
    BY <2>1 DEF TypeOf, NameOf
<1>3. Sane(Nothing) /\ Nothing.types = <<>>
  <2>1. IsFiniteSet({}) /\ <<>> \in Seq(PgTexts)
    BY FS_EmptySet
  <2> QED
    BY <2>1 DEF Nothing, Sane, Accs, Names
<1>4. <<>> \in Name
  BY DEF Name
<1> QED
  BY <1>1, <1>2, <1>3, <1>4, AllMapped, FieldsFind DEF SchemaMapping

-----------------------------------------------------------------------------
(* The composite types.                                                    *)

\* f holds what is left of defs and what is out, after each pass.
Emits(f, defs) ==
    /\ f[0] = [left |-> defs, out |-> <<>>]
    /\ \A i \in 1 .. Cardinality(defs) : f[i] = Emit(f[i - 1])

\* f holds the catalog after each CREATE TYPE.
Creates(f, order, catalog) ==
    /\ f[0] = [ok |-> TRUE, catalog |-> catalog]
    /\ \A i \in 1 .. Len(order) : f[i] = Create(order[i], f[i - 1])

\* OrderTypes is what its definition says.
LEMMA OrderIs ==
    ASSUME NEW defs, Cardinality(defs) \in Nat
    PROVE  \E f : Emits(f, defs) /\ OrderTypes(defs) = f[Cardinality(defs)].out \o SetToSeq(f[Cardinality(defs)].left)
<1> DEFINE Step(f, i) == IF i = 0 THEN [left |-> defs, out |-> <<>>] ELSE Emit(f[i - 1])
<1> DEFINE Good(f, m) == \A i \in 0 .. m : f[i] = Step(f, i)
<1> DEFINE S == {m \in 0 .. Cardinality(defs) : \E f : f = [i \in 0 .. Cardinality(defs) |-> f[i]] /\ Good(f, m)}
<1>0. PICK l \in Nat : l = Cardinality(defs)
  OBVIOUS
<1>1. ASSUME NEW m \in 0 .. Cardinality(defs), NEW f, NEW g, g = [i \in 0 .. Cardinality(defs) |-> Step(f, i)],
             \A i \in 0 .. m - 1 : f[i] = g[i]
      PROVE  g = [i \in 0 .. Cardinality(defs) |-> g[i]] /\ Good(g, m)
  <2>1. ASSUME NEW i \in 0 .. m PROVE g[i] = Step(g, i)
    <3>1. g[i] = Step(f, i)
      BY <1>0, <1>1
    <3>2. i # 0 => i - 1 \in 0 .. m - 1
      BY <1>0
    <3>3. i # 0 => f[i - 1] = g[i - 1]
      BY <1>1, <3>2
    <3> QED
      BY <3>1, <3>3
  <2> HIDE DEF Step
  <2> QED
    BY <1>1, <2>1
<1> HIDE DEF Step
<1>2. 0 \in S
  <2>1. PICK f : f = [i \in 0 .. Cardinality(defs) |-> {}]
    OBVIOUS
  <2>2. PICK g : g = [i \in 0 .. Cardinality(defs) |-> Step(f, i)]
    OBVIOUS
  <2>3. 0 \in 0 .. Cardinality(defs) /\ \A i \in 0 .. 0 - 1 : f[i] = g[i]
    BY <1>0
  <2>4. g = [i \in 0 .. Cardinality(defs) |-> g[i]] /\ Good(g, 0)
    <3> HIDE DEF Good
    <3> QED
      BY <1>1, <2>2, <2>3
  <2> QED
    BY <2>3, <2>4
<1>3. ASSUME NEW m \in 0 .. Cardinality(defs) - 1, m \in S PROVE m + 1 \in S
  <2>1. PICK f : f = [i \in 0 .. Cardinality(defs) |-> f[i]] /\ Good(f, m)
    BY <1>3
  <2>2. PICK g : g = [i \in 0 .. Cardinality(defs) |-> Step(f, i)]
    OBVIOUS
  <2>3. m + 1 \in 0 .. Cardinality(defs) /\ m + 1 - 1 = m /\ 0 .. m \subseteq 0 .. Cardinality(defs)
    BY <1>0
  <2>4. \A i \in 0 .. m + 1 - 1 : f[i] = g[i]
    BY <2>1, <2>2, <2>3
  <2>5. g = [i \in 0 .. Cardinality(defs) |-> g[i]] /\ Good(g, m + 1)
    <3>1. PICK k \in 0 .. Cardinality(defs) : k = m + 1
      BY <2>3
    <3>2. \A i \in 0 .. k - 1 : f[i] = g[i]
      BY <2>4, <3>1
    <3> HIDE DEF Good
    <3>3. g = [i \in 0 .. Cardinality(defs) |-> g[i]] /\ Good(g, k)
      BY <1>1, <2>2, <3>2
    <3> QED
      BY <3>1, <3>3
  <2> QED
    BY <2>3, <2>5
<1>4. Cardinality(defs) \in S
  <2> HIDE DEF S
  <2> QED
    BY <1>0, <1>2, <1>3, Induct
<1>5. PICK f : f = [i \in 0 .. Cardinality(defs) |-> f[i]] /\ Good(f, Cardinality(defs))
  BY <1>4
<1>6. f = [i \in 0 .. Cardinality(defs) |-> Step(f, i)]
  BY <1>5
<1>7. PICK h : h = CHOOSE g : g = [i \in 0 .. Cardinality(defs) |-> IF i = 0 THEN [left |-> defs, out |-> <<>>] ELSE Emit(g[i - 1])]
  OBVIOUS
<1>8. h = [i \in 0 .. Cardinality(defs) |-> IF i = 0 THEN [left |-> defs, out |-> <<>>] ELSE Emit(h[i - 1])]
  BY <1>6, <1>7 DEF Step
<1>9. OrderTypes(defs) = h[Cardinality(defs)].out \o SetToSeq(h[Cardinality(defs)].left)
  BY <1>7 DEF OrderTypes
<1>10. \A i \in 0 .. Cardinality(defs) : h[i] = Step(h, i)
  BY <1>8 DEF Step
<1>11. h[0] = [left |-> defs, out |-> <<>>]
  <2>1. 0 \in 0 .. Cardinality(defs)
    BY <1>0
  <2> QED
    BY <1>10, <2>1 DEF Step
<1>12. ASSUME NEW i \in 1 .. Cardinality(defs)
       PROVE  h[i] = Emit(h[i - 1])
  <2>1. i \in 0 .. Cardinality(defs) /\ i # 0
    BY <1>0
  <2> QED
    BY <1>10, <2>1 DEF Step
<1> QED
  BY <1>9, <1>11, <1>12 DEF Emits

\* The same of CreateTypes.
LEMMA CreateIs ==
    ASSUME NEW order, NEW catalog, Len(order) \in Nat
    PROVE  \E f : Creates(f, order, catalog) /\ CreateTypes(order, catalog) = f[Len(order)]
<1> DEFINE Step(f, i) == IF i = 0 THEN [ok |-> TRUE, catalog |-> catalog] ELSE Create(order[i], f[i - 1])
<1> DEFINE Good(f, m) == \A i \in 0 .. m : f[i] = Step(f, i)
<1> DEFINE S == {m \in 0 .. Len(order) : \E f : f = [i \in 0 .. Len(order) |-> f[i]] /\ Good(f, m)}
<1>0. PICK l \in Nat : l = Len(order)
  OBVIOUS
<1>1. ASSUME NEW m \in 0 .. Len(order), NEW f, NEW g, g = [i \in 0 .. Len(order) |-> Step(f, i)],
             \A i \in 0 .. m - 1 : f[i] = g[i]
      PROVE  g = [i \in 0 .. Len(order) |-> g[i]] /\ Good(g, m)
  <2>1. ASSUME NEW i \in 0 .. m PROVE g[i] = Step(g, i)
    <3>1. g[i] = Step(f, i)
      BY <1>0, <1>1
    <3>2. i # 0 => i - 1 \in 0 .. m - 1
      BY <1>0
    <3>3. i # 0 => f[i - 1] = g[i - 1]
      BY <1>1, <3>2
    <3> QED
      BY <3>1, <3>3
  <2> HIDE DEF Step
  <2> QED
    BY <1>1, <2>1
<1> HIDE DEF Step
<1>2. 0 \in S
  <2>1. PICK f : f = [i \in 0 .. Len(order) |-> {}]
    OBVIOUS
  <2>2. PICK g : g = [i \in 0 .. Len(order) |-> Step(f, i)]
    OBVIOUS
  <2>3. 0 \in 0 .. Len(order) /\ \A i \in 0 .. 0 - 1 : f[i] = g[i]
    BY <1>0
  <2>4. g = [i \in 0 .. Len(order) |-> g[i]] /\ Good(g, 0)
    <3> HIDE DEF Good
    <3> QED
      BY <1>1, <2>2, <2>3
  <2> QED
    BY <2>3, <2>4
<1>3. ASSUME NEW m \in 0 .. Len(order) - 1, m \in S PROVE m + 1 \in S
  <2>1. PICK f : f = [i \in 0 .. Len(order) |-> f[i]] /\ Good(f, m)
    BY <1>3
  <2>2. PICK g : g = [i \in 0 .. Len(order) |-> Step(f, i)]
    OBVIOUS
  <2>3. m + 1 \in 0 .. Len(order) /\ m + 1 - 1 = m /\ 0 .. m \subseteq 0 .. Len(order)
    BY <1>0
  <2>4. \A i \in 0 .. m + 1 - 1 : f[i] = g[i]
    BY <2>1, <2>2, <2>3
  <2>5. g = [i \in 0 .. Len(order) |-> g[i]] /\ Good(g, m + 1)
    <3>1. PICK k \in 0 .. Len(order) : k = m + 1
      BY <2>3
    <3>2. \A i \in 0 .. k - 1 : f[i] = g[i]
      BY <2>4, <3>1
    <3> HIDE DEF Good
    <3>3. g = [i \in 0 .. Len(order) |-> g[i]] /\ Good(g, k)
      BY <1>1, <2>2, <3>2
    <3> QED
      BY <3>1, <3>3
  <2> QED
    BY <2>3, <2>5
<1>4. Len(order) \in S
  <2> HIDE DEF S
  <2> QED
    BY <1>0, <1>2, <1>3, Induct
<1>5. PICK f : f = [i \in 0 .. Len(order) |-> f[i]] /\ Good(f, Len(order))
  BY <1>4
<1>6. f = [i \in 0 .. Len(order) |-> Step(f, i)]
  BY <1>5
<1>7. PICK h : h = CHOOSE g : g = [i \in 0 .. Len(order) |-> IF i = 0 THEN [ok |-> TRUE, catalog |-> catalog] ELSE Create(order[i], g[i - 1])]
  OBVIOUS
<1>8. h = [i \in 0 .. Len(order) |-> IF i = 0 THEN [ok |-> TRUE, catalog |-> catalog] ELSE Create(order[i], h[i - 1])]
  BY <1>6, <1>7 DEF Step
<1>9. CreateTypes(order, catalog) = h[Len(order)]
  BY <1>7 DEF CreateTypes
<1>10. \A i \in 0 .. Len(order) : h[i] = Step(h, i)
  BY <1>8 DEF Step
<1>11. h[0] = [ok |-> TRUE, catalog |-> catalog]
  <2>1. 0 \in 0 .. Len(order)
    BY <1>0
  <2> QED
    BY <1>10, <2>1 DEF Step
<1>12. ASSUME NEW i \in 1 .. Len(order)
       PROVE  h[i] = Create(order[i], h[i - 1])
  <2>1. i \in 0 .. Len(order) /\ i # 0
    BY <1>0
  <2> QED
    BY <1>10, <2>1 DEF Step
<1> QED
  BY <1>9, <1>11, <1>12 DEF Creates

\* A definition as the catalog holds it.
Resolved(def) == <<def[1], [i \in DOMAIN def[2] |-> <<def[2][i][1], Resolve(def[2][i][2])>>]>>

\* No two types share a name.
Unique(catalog) == \A d, e \in catalog : d[1] = e[1] => d = e

Defs == Name \X Seq(Name \X PgTexts)

\* Each comes after what it depends on.
Topological(order) ==
    \A i \in 1 .. Len(order) : \A n \in Deps(order[i]) : \E j \in 1 .. i - 1 : order[j][1] = n

LEMMA ResolvedTyped ==
    ASSUME NEW def \in Defs
    PROVE  Resolved(def) \in Name \X Seq(Name \X PgTypes) /\ Resolved(def)[1] = def[1]
<1>1. PICK l \in Nat : l = Len(def[2]) /\ DOMAIN def[2] = 1 .. l
  BY DEF Defs
<1>2. PICK cols : cols = [i \in DOMAIN def[2] |-> <<def[2][i][1], Resolve(def[2][i][2])>>]
  OBVIOUS
<1>3. PICK A : A = Name \X PgTypes
  OBVIOUS
<1>4. ASSUME NEW i \in 1 .. l PROVE cols[i] \in A
  <2>1. def[2] \in Seq(Name \X PgTexts)
    BY DEF Defs
  <2>2. def[2][i] \in Name \X PgTexts
    BY <1>1, <2>1
  <2>3. PICK text \in PgTexts : text = def[2][i][2]
    BY <2>2
  <2>4. Resolve(text) \in PgTypes
    BY DEF Resolve, PgTexts, PgTypes
  <2> QED
    BY <1>1, <1>2, <1>3, <2>2, <2>3, <2>4
<1>5. cols = [i \in 1 .. l |-> cols[i]]
  BY <1>1, <1>2
<1>6. cols \in Seq(A)
  BY <1>4, <1>5
<1> QED
  BY <1>2, <1>3, <1>6 DEF Resolved, Defs

\* One CREATE TYPE.
LEMMA CreateStep ==
    ASSUME NEW s, s.ok \in BOOLEAN, s.catalog \in Catalogs, s = [ok |-> s.ok, catalog |-> s.catalog],
           NEW d \in Defs, NEW r, r = Create(d, s)
    PROVE  /\ r.ok \in BOOLEAN /\ r.catalog \in Catalogs /\ r = [ok |-> r.ok, catalog |-> r.catalog]
           /\ s.catalog \subseteq r.catalog /\ r.catalog \subseteq s.catalog \union {Resolved(d)}
           /\ Unique(s.catalog) => Unique(r.catalog)
           /\ r.ok => s.ok /\ d[1] \in Names(r.catalog)
           /\ s.ok /\ Deps(d) \subseteq Names(s.catalog) => r.ok
<1>1. PICK res : res = Resolved(d)
  OBVIOUS
<1>2. res \in Name \X Seq(Name \X PgTypes) /\ res[1] = d[1]
  BY <1>1, ResolvedTyped
<1>3. CASE ~s.ok \/ d[1] \in Names(s.catalog)
  <2>1. r = s
    BY <1>3 DEF Create
  <2> QED
    BY <1>3, <2>1
<1>4. CASE s.ok /\ d[1] \notin Names(s.catalog) /\ Deps(d) \subseteq Names(s.catalog)
  <2>1. r = [ok |-> TRUE, catalog |-> s.catalog \union {res}]
    BY <1>1, <1>4 DEF Create, Resolved
  <2>2. r.catalog \in Catalogs
    BY <1>2, <2>1 DEF Catalogs
  <2>3. \A e \in s.catalog : e[1] # res[1]
    BY <1>2, <1>4 DEF Names
  <2>4. Unique(s.catalog) => Unique(r.catalog)
    BY <2>1, <2>3 DEF Unique
  <2>5. d[1] \in Names(r.catalog)
    BY <1>2, <2>1 DEF Names
  <2> QED
    BY <1>1, <1>4, <2>1, <2>2, <2>4, <2>5
<1>5. CASE s.ok /\ d[1] \notin Names(s.catalog) /\ ~(Deps(d) \subseteq Names(s.catalog))
  <2>1. r = [ok |-> FALSE, catalog |-> s.catalog]
    BY <1>5 DEF Create
  <2> QED
    BY <1>5, <2>1
<1> QED
  BY <1>3, <1>4, <1>5

\* The catalog keeps what it had and gains definitions; the statement
\* succeeds when each comes after what it depends on, and then the catalog
\* has them all.
LEMMA CreateAll ==
    ASSUME NEW catalog \in Catalogs, NEW order \in Seq(Defs), NEW r, r = CreateTypes(order, catalog)
    PROVE  /\ r.ok \in BOOLEAN /\ r.catalog \in Catalogs
           /\ catalog \subseteq r.catalog
           /\ r.catalog \subseteq catalog \union {Resolved(order[i]) : i \in 1 .. Len(order)}
           /\ Unique(catalog) => Unique(r.catalog)
           /\ r.ok => \A i \in 1 .. Len(order) : order[i][1] \in Names(r.catalog)
           /\ Topological(order) => r.ok
<1> DEFINE Some(n) == {Resolved(order[i]) : i \in 1 .. n}
<1> DEFINE Good(s, n) == /\ s.ok \in BOOLEAN /\ s.catalog \in Catalogs
                         /\ s = [ok |-> s.ok, catalog |-> s.catalog]
                         /\ catalog \subseteq s.catalog
                         /\ s.catalog \subseteq catalog \union Some(n)
                         /\ Unique(catalog) => Unique(s.catalog)
                         /\ s.ok => \A i \in 1 .. n : order[i][1] \in Names(s.catalog)
                         /\ Topological(order) => s.ok
<1>0. PICK l \in Nat : l = Len(order) /\ \A i \in 1 .. l : order[i] \in Defs
  <2>1. Len(order) \in Nat /\ \A i \in 1 .. Len(order) : order[i] \in Defs
    OBVIOUS
  <2> QED
    BY <2>1
<1>1. PICK f : Creates(f, order, catalog) /\ CreateTypes(order, catalog) = f[l]
  BY <1>0, CreateIs
<1> DEFINE S == {n \in 0 .. l : Good(f[n], n)}
<1>2. 0 \in S
  <2>1. PICK s : s = f[0]
    OBVIOUS
  <2>2. s = [ok |-> TRUE, catalog |-> catalog]
    BY <1>1, <2>1 DEF Creates
  <2>3. Good(s, 0)
    BY <2>2
  <2> HIDE DEF Good
  <2> QED
    BY <2>1, <2>3
<1>3. ASSUME NEW n \in 0 .. l - 1, n \in S PROVE n + 1 \in S
  <2>1. n + 1 \in 0 .. l /\ n + 1 \in 1 .. l /\ n + 1 - 1 = n
    OBVIOUS
  <2>2. PICK d \in Defs : d = order[n + 1]
    BY <1>0, <2>1
  <2>3. PICK s : s = f[n]
    OBVIOUS
  <2>4. PICK q : q = f[n + 1]
    OBVIOUS
  <2>5. q = Create(d, s)
    BY <1>0, <1>1, <2>1, <2>2, <2>3, <2>4 DEF Creates
  <2>6. Good(s, n)
    BY <1>3, <2>3
  <2>7. s.ok \in BOOLEAN /\ s.catalog \in Catalogs /\ s = [ok |-> s.ok, catalog |-> s.catalog]
    BY <2>6
  <2>8. /\ q.ok \in BOOLEAN /\ q.catalog \in Catalogs /\ q = [ok |-> q.ok, catalog |-> q.catalog]
        /\ s.catalog \subseteq q.catalog /\ q.catalog \subseteq s.catalog \union {Resolved(d)}
        /\ Unique(s.catalog) => Unique(q.catalog)
        /\ q.ok => s.ok /\ d[1] \in Names(q.catalog)
        /\ s.ok /\ Deps(d) \subseteq Names(s.catalog) => q.ok
    BY <2>5, <2>7, CreateStep
  <2>9. Some(n) \subseteq Some(n + 1) /\ Resolved(d) \in Some(n + 1)
    BY <2>1, <2>2
  <2>10. \A i \in 1 .. n + 1 : i \in 1 .. n \/ i = n + 1
    OBVIOUS
  <2>11. q.ok => \A i \in 1 .. n + 1 : order[i][1] \in Names(q.catalog)
    <3>1. Names(s.catalog) \subseteq Names(q.catalog)
      BY <2>8 DEF Names
    <3> QED
      BY <2>2, <2>6, <2>8, <2>10, <3>1
  <2>12. Topological(order) => q.ok
    <3>1. SUFFICES ASSUME Topological(order) PROVE Deps(d) \subseteq Names(s.catalog) /\ s.ok
      BY <2>8
    <3>2. s.ok
      BY <2>6, <3>1
    <3>3. ASSUME NEW x \in Deps(d) PROVE x \in Names(s.catalog)
      <4>1. PICK k \in 1 .. l : k = n + 1 /\ k - 1 = n /\ order[k] = d
        BY <2>1, <2>2
      <4>2. \A y \in Deps(order[k]) : \E j \in 1 .. k - 1 : order[j][1] = y
        BY <1>0, <3>1 DEF Topological
      <4>3. \E j \in 1 .. n : order[j][1] = x
        BY <3>3, <4>1, <4>2
      <4> QED
        BY <2>6, <3>2, <4>3
    <3> QED
      BY <3>2, <3>3
  <2> HIDE DEF Some
  <2>13. catalog \subseteq q.catalog /\ q.catalog \subseteq catalog \union Some(n + 1)
    BY <2>6, <2>8, <2>9
  <2>14. Good(q, n + 1)
    BY <2>6, <2>8, <2>11, <2>12, <2>13
  <2> HIDE DEF Good
  <2> QED
    BY <2>1, <2>4, <2>14
<1>4. 0 .. l \subseteq S
  <2> HIDE DEF S
  <2> QED
    BY <1>2, <1>3, Induct
<1>5. l \in S
  BY <1>4
<1>6. Good(f[l], l)
  BY <1>5
<1> QED
  BY <1>0, <1>1, <1>6

\* Among any of the definitions one depends on none of them, and what it
\* depends on is defined.
Orderable(defs) == \A L \in SUBSET defs : L # {} => \E d \in L : Deps(d) \subseteq Names(defs \ L)

\* What is out comes after what it depends on, and the rest is left.
Emitted(s, defs) ==
    /\ s = [left |-> s.left, out |-> s.out]
    /\ s.left \in SUBSET defs /\ s.out \in Seq(defs)
    /\ \A d \in defs : d \in s.left \/ \E i \in 1 .. Len(s.out) : s.out[i] = d
    /\ Topological(s.out)

LEMMA RangeIs ==
    ASSUME NEW S, NEW out \in Seq(S)
    PROVE  Range(out) = {out[i] : i \in 1 .. Len(out)}
  BY DEF Range

LEMMA EmitStep ==
    ASSUME NEW defs \in SUBSET Defs, IsFiniteSet(defs), NEW s, Emitted(s, defs), NEW r, r = Emit(s)
    PROVE  /\ Emitted(r, defs)
           /\ Orderable(defs) /\ s.left # {} =>
                Cardinality(r.left) = Cardinality(s.left) - 1
           /\ s.left = {} => r = s
<1> DEFINE ready == {d \in s.left : Deps(d) \subseteq Names(Range(s.out))}
<1>1. CASE ready = {}
  <2>1. r = s
    BY <1>1 DEF Emit
  <2>2. ASSUME Orderable(defs), s.left # {} PROVE FALSE
    <3>1. PICK d \in s.left : Deps(d) \subseteq Names(defs \ s.left)
      BY <2>2 DEF Orderable, Emitted
    <3>2. defs \ s.left \subseteq Range(s.out)
      BY RangeIs DEF Emitted
    <3>3. Deps(d) \subseteq Names(Range(s.out))
      BY <3>1, <3>2 DEF Names
    <3> QED
      BY <1>1, <3>3
  <2> QED
    BY <2>1, <2>2
<1>2. CASE ready # {}
  <2>1. PICK d : d = CHOOSE e \in ready : TRUE
    OBVIOUS
  <2>2. d \in ready
    BY <1>2, <2>1
  <2>3. r = [left |-> s.left \ {d}, out |-> Append(s.out, d)]
    BY <1>2, <2>1 DEF Emit
  <2>4. d \in s.left /\ d \in defs /\ Deps(d) \subseteq Names(Range(s.out))
    BY <2>2 DEF Emitted
  <2>5. PICK l \in Nat : l = Len(s.out)
    BY DEF Emitted
  <2>6. /\ r.out \in Seq(defs) /\ Len(r.out) = l + 1 /\ r.out[l + 1] = d
        /\ \A i \in 1 .. l : r.out[i] = s.out[i]
    BY <2>3, <2>4, <2>5, AppendProperties DEF Emitted
  <2>7. ASSUME NEW e \in defs PROVE e \in r.left \/ \E i \in 1 .. Len(r.out) : r.out[i] = e
    <3>1. CASE e = d
      <4>1. l + 1 \in 1 .. Len(r.out)
        BY <2>6
      <4> QED
        BY <2>6, <3>1, <4>1
    <3>2. CASE e # d /\ e \in s.left
      BY <2>3, <3>2
    <3>3. CASE e # d /\ e \notin s.left
      <4>1. PICK i \in 1 .. l : s.out[i] = e
        BY <2>5, <3>3 DEF Emitted
      <4>2. i \in 1 .. Len(r.out) /\ r.out[i] = e
        BY <2>6, <4>1
      <4> QED
        BY <4>2
    <3> QED
      BY <3>1, <3>2, <3>3
  <2>8. Topological(r.out)
    <3>1. ASSUME NEW i \in 1 .. Len(r.out), NEW n \in Deps(r.out[i])
          PROVE  \E j \in 1 .. i - 1 : r.out[j][1] = n
      <4>1. CASE i \in 1 .. l
        <5>1. n \in Deps(s.out[i])
          BY <2>6, <3>1, <4>1
        <5>2. PICK j \in 1 .. i - 1 : s.out[j][1] = n
          BY <2>5, <4>1, <5>1 DEF Emitted, Topological
        <5>3. j \in 1 .. l
          BY <4>1
        <5> QED
          BY <2>6, <5>2, <5>3
      <4>2. CASE i = l + 1
        <5>1. n \in Names(Range(s.out))
          BY <2>4, <2>6, <3>1, <4>2
        <5>2. PICK e \in Range(s.out) : e[1] = n
          BY <5>1 DEF Names
        <5>3. PICK j \in 1 .. l : s.out[j] = e
          BY <2>5, <5>2, RangeIs DEF Emitted
        <5>4. j \in 1 .. i - 1 /\ r.out[j] = e
          BY <2>6, <4>2, <5>3
        <5> QED
          BY <5>2, <5>4
      <4> QED
        BY <2>6, <4>1, <4>2
    <3> QED
      BY <3>1 DEF Topological
  <2>9. Emitted(r, defs)
    <3>1. r.left \in SUBSET defs
      BY <2>3 DEF Emitted
    <3> QED
      BY <2>3, <2>6, <2>7, <2>8, <3>1 DEF Emitted
  <2>10. Cardinality(r.left) = Cardinality(s.left) - 1
    <3>1. IsFiniteSet(s.left)
      BY FS_Subset DEF Emitted
    <3>2. PICK left : left = s.left
      OBVIOUS
    <3>3. Cardinality(left \ {d}) = Cardinality(left) - 1
      BY <2>4, <3>1, <3>2, FS_RemoveElement
    <3>4. r.left = left \ {d}
      BY <2>3, <3>2
    <3> QED
      BY <3>2, <3>3, <3>4
  <2> QED
    BY <2>4, <2>9, <2>10
<1> QED
  BY <1>1, <1>2

LEMMA SetToSeqTyped ==
    ASSUME NEW S, IsFiniteSet(S)
    PROVE  SetToSeq(S) \in Seq(S) /\ (S = {} => SetToSeq(S) = <<>>)
<1>1. PICK n \in Nat : n = Cardinality(S)
  BY FS_CardinalityType
<1>2. PICK f : f \in Bijection(1 .. n, S)
  BY <1>1, FS_CardinalityType, FS_NatBijection DEF ExistsBijection
<1>3. f \in [1 .. n -> S] /\ IsInjective(f)
  BY <1>2 DEF Bijection, Injection, IsInjective
<1>4. SetToSeq(S) \in [1 .. n -> S]
  BY <1>1, <1>3 DEF SetToSeq
<1>5. SetToSeq(S) \in Seq(S)
  BY <1>1, <1>4
<1>6. ASSUME S = {} PROVE SetToSeq(S) = <<>>
  <2>1. n = 0
    BY <1>1, <1>6, FS_EmptySet
  <2>2. Len(SetToSeq(S)) = 0
    BY <1>4, <1>5, <2>1
  <2> QED
    BY <1>5, <2>2, SeqEqual
<1> QED
  BY <1>5, <1>6

(***************************************************************************)
(* order_composite_types puts every composite type after those it depends  *)
(* on, where their dependencies have no cycle; the lists it gives to       *)
(* CREATE TYPE hold nothing but definitions of the mapping.                *)
(***************************************************************************)
THEOREM OrderSound ==
    ASSUME NEW defs \in SUBSET Defs, IsFiniteSet(defs)
    PROVE  /\ OrderTypes(defs) \in Seq(defs)
           /\ Orderable(defs) =>
                /\ Topological(OrderTypes(defs))
                /\ \A d \in defs : \E i \in 1 .. Len(OrderTypes(defs)) : OrderTypes(defs)[i] = d
<1>1. PICK n \in Nat : n = Cardinality(defs)
  BY FS_CardinalityType
<1>2. PICK f : Emits(f, defs) /\ OrderTypes(defs) = f[n].out \o SetToSeq(f[n].left)
  BY <1>1, OrderIs
<1> DEFINE Good(s, i) == Emitted(s, defs) /\ (Orderable(defs) => Cardinality(s.left) <= n - i)
<1> DEFINE S == {i \in 0 .. n : Good(f[i], i)}
<1>3. 0 \in S
  <2>1. PICK s : s = f[0]
    OBVIOUS
  <2>2. s = [left |-> defs, out |-> <<>>]
    BY <1>2, <2>1 DEF Emits
  <2>3. Topological(<<>>) /\ <<>> \in Seq(defs)
    BY DEF Topological
  <2>4. Good(s, 0)
    BY <1>1, <2>2, <2>3 DEF Emitted
  <2> HIDE DEF Good
  <2> QED
    BY <2>1, <2>4
<1>4. ASSUME NEW i \in 0 .. n - 1, i \in S PROVE i + 1 \in S
  <2>1. i + 1 \in 0 .. n /\ i + 1 \in 1 .. n /\ i + 1 - 1 = i
    OBVIOUS
  <2>2. PICK s : s = f[i]
    OBVIOUS
  <2>3. PICK r : r = f[i + 1]
    OBVIOUS
  <2>4. r = Emit(s)
    BY <1>1, <1>2, <2>1, <2>2, <2>3 DEF Emits
  <2>5. Emitted(s, defs) /\ (Orderable(defs) => Cardinality(s.left) <= n - i)
    BY <1>4, <2>2
  <2>6. /\ Emitted(r, defs)
        /\ Orderable(defs) /\ s.left # {} => Cardinality(r.left) = Cardinality(s.left) - 1
        /\ s.left = {} => r = s
    BY <2>4, <2>5, EmitStep
  <2>7. IsFiniteSet(s.left) /\ Cardinality(s.left) \in Nat
    <3>1. IsFiniteSet(s.left)
      BY <2>5, FS_Subset DEF Emitted
    <3> QED
      BY <3>1, FS_CardinalityType
  <2>8. Orderable(defs) => Cardinality(r.left) <= n - (i + 1)
    <3>1. CASE s.left = {}
      <4>1. Cardinality(s.left) = 0
        BY <3>1, FS_EmptySet
      <4> QED
        BY <2>1, <2>6, <3>1, <4>1
    <3>2. CASE s.left # {}
      BY <2>5, <2>6, <2>7, <3>2
    <3> QED
      BY <3>1, <3>2
  <2>9. Good(r, i + 1)
    BY <2>6, <2>8
  <2> HIDE DEF Good
  <2> QED
    BY <2>1, <2>3, <2>9
<1>5. 0 .. n \subseteq S
  <2> HIDE DEF S
  <2> QED
    BY <1>3, <1>4, Induct
<1>6. n \in S
  BY <1>5
<1>7. PICK s : s = f[n]
  OBVIOUS
<1>8. Emitted(s, defs) /\ (Orderable(defs) => Cardinality(s.left) <= n - n)
  BY <1>6, <1>7
<1>9. IsFiniteSet(s.left)
  BY <1>8, FS_Subset DEF Emitted
<1>10. PICK rest : rest = SetToSeq(s.left)
  OBVIOUS
<1>11. rest \in Seq(s.left) /\ (s.left = {} => rest = <<>>)
  BY <1>9, <1>10, SetToSeqTyped
<1>12. rest \in Seq(defs) /\ s.out \in Seq(defs)
  BY <1>8, <1>11 DEF Emitted
<1>13. OrderTypes(defs) = s.out \o rest
  BY <1>2, <1>7, <1>10
<1>14. OrderTypes(defs) \in Seq(defs)
  BY <1>12, <1>13, ConcatProperties
<1>15. ASSUME Orderable(defs) PROVE OrderTypes(defs) = s.out /\ s.left = {}
  <2>1. s.left = {}
    BY <1>8, <1>9, <1>15, FS_CardinalityType, FS_EmptySet
  <2> QED
    BY <1>11, <1>12, <1>13, <2>1, ConcatEmptySeq
<1> QED
  BY <1>8, <1>14, <1>15 DEF Emitted

=============================================================================
