-------------------------- MODULE WritePath_proofs --------------------------
(***************************************************************************)
(* Proofs about the write path for any number of calls, any arguments, any *)
(* chunk size and any source.                                              *)
(***************************************************************************)
EXTENDS WriteRefinement, TLAPS

(* The inductive invariant.                                                *)

\* Where the cursor is at each point of the fetch loop.
CursorInv(c) ==
    /\ done[c] <= total[c] /\ total[c] <= Len(Source(c))
    /\ pc[c] \in {"handle", "commit"} =>
         /\ done[c] < total[c]
         /\ total[c] = NextStop(Len(Source(c)), args[c].chunk, done[c])
    /\ pc[c] \in {"new", "fetch", "ok"} => done[c] = total[c]
    /\ pc[c] = "new" => total[c] = 0
    /\ pc[c] = "ok" => total[c] = Len(Source(c))

\* The versions of a call are its finished chunks, in order.
LedgerInv(c) ==
    /\ \A v \in Mine(c) :
         /\ log[v].lo < log[v].hi /\ log[v].hi <= done[c]
         /\ log[v].hi = NextStop(Len(Source(c)), args[c].chunk, log[v].lo)
    /\ \A p \in 1 .. done[c] : \E v \in Mine(c) : p \in Applied(v)
    /\ \A v, w \in Mine(c) : v < w => log[v].hi <= log[w].lo

\* The dataset a merge holds between chunks has all its commits.
HandleInv(c) ==
    Merges(c) => \A v \in Mine(c) :
        /\ handle[c] # 0 => v <= handle[c]
        /\ pc[c] \in {"fetch", "handle"} => handle[c] # 0
        /\ pc[c] = "commit" => v <= readv[c]

\* How far a call that is wrong in itself can get.
FaultInv(c) ==
    args[c].fault # "none" =>
        /\ Mine(c) = {} /\ done[c] = 0 /\ handle[c] = 0
        /\ pc[c] # "commit"
        /\ pc[c] \in {"fetch", "handle"} => ~RejectedAtStart(c)
        /\ pc[c] = "handle" => args[c].fault # "columns"

CallInv(c) == CursorInv(c) /\ LedgerInv(c) /\ HandleInv(c) /\ FaultInv(c)

IInv == TypeOK /\ \A c \in Calls : CallInv(c)

-----------------------------------------------------------------------------
(* Facts about the operators.                                              *)

\* What CallArgsAssumption says of the arguments of one call.
LEMMA ArgumentsOfCall ==
    ASSUME TypeOK, NEW c \in Calls
    PROVE  /\ args[c] \in Arguments
           /\ Source(c) \in Seq(Key) /\ Len(Source(c)) \in Nat
           /\ args[c].chunk \in Nat
           /\ args[c].op \in Modes \union {"merge"}
           /\ args[c].fault \in Faults
           /\ ~Merges(c) => args[c].fault \notin {"keys", "matched"}
<1>1. args[c] \in CallArgs
  BY DEF TypeOK
<1>2. args[c] \in Arguments /\ (args[c].op # "merge" => args[c].fault \notin {"keys", "matched"})
  BY <1>1, CallArgsAssumption
<1> QED
  BY <1>2 DEF Arguments, Source, Merges

\* A fetch that is not at the end of the source moves the cursor forward, to
\* the end at most; with chunking off, to the end.
LEMMA NextStopAdvances ==
    ASSUME NEW len \in Nat, NEW chunk \in Nat, NEW n \in Nat, n < len
    PROVE  /\ NextStop(len, chunk, n) \in Nat
           /\ n < NextStop(len, chunk, n)
           /\ NextStop(len, chunk, n) <= len
           /\ chunk = 0 => NextStop(len, chunk, n) = len
BY DEF NextStop

\* A version is added at the end of the log, and the others stay.
LEMMA AppendedLog ==
    ASSUME NEW S, NEW l \in Seq(S), NEW e
    PROVE  /\ Len(Append(l, e)) = Len(l) + 1
           /\ DOMAIN Append(l, e) = DOMAIN l \union {Len(l) + 1}
           /\ \A v \in DOMAIN l : Append(l, e)[v] = l[v]
           /\ Append(l, e)[Len(l) + 1] = e
           /\ DOMAIN l = 1 .. Len(l)
           /\ Len(l) \in Nat
           /\ e \in S => Append(l, e) \in Seq(S)
OBVIOUS

\* The rows visible at a version of the log are rows.
LEMMA VisibleRows ==
    ASSUME TypeOK, NEW v \in 0 .. Len(log)
    PROVE  RowsAt(log, v) \subseteq Row
<1>1. CASE v = 0
  BY <1>1 DEF RowsAt
<1>2. CASE v # 0
  <2>1. log[v] \in Version
    BY <1>2 DEF TypeOK
  <2> QED
    BY <1>2, <2>1 DEF RowsAt, Version
<1> QED
  BY <1>1, <1>2

\* The rows a version inserts for rows of the source are rows.
LEMMA InsertedRows ==
    ASSUME NEW source \in Seq(Key), NEW P \in SUBSET (1 .. Len(source)),
           NEW c \in Calls \union {NoCall}, NEW v \in Nat
    PROVE  Inserted(source, P, c, v) \subseteq Row
BY DEF Inserted, Row

\* The rows a merge rewrites are rows again.
LEMMA UpdatedRows ==
    ASSUME NEW source \in Seq(Key), NEW P \in SUBSET (1 .. Len(source)),
           NEW c \in Calls, NEW T \in SUBSET Row
    PROVE  Updated(T, source, P, c) \subseteq Row
BY DEF Updated, MatchesOf, Row

-----------------------------------------------------------------------------
(* A step of one call, seen from the others.                               *)

\* The log after a commit of call c: one more version of c, and none of any
\* other call.
LEMMA MineAfterCommit ==
    ASSUME TypeOK, NEW c \in Calls, NEW e, e.by = c, log' = Append(log, e),
           NEW d \in Calls
    PROVE  /\ Mine(d)' = IF d = c THEN Mine(d) \union {Len(log) + 1} ELSE Mine(d)
           /\ \A v \in Mine(d) : v \in 1 .. Len(log) /\ log'[v] = log[v]
           /\ log'[Len(log) + 1] = e
<1>1. log \in Seq(Version)
  BY DEF TypeOK
<1>2. /\ DOMAIN log' = DOMAIN log \union {Len(log) + 1}
      /\ \A v \in DOMAIN log : log'[v] = log[v]
      /\ log'[Len(log) + 1] = e
      /\ DOMAIN log = 1 .. Len(log)
  BY <1>1, AppendedLog
<1> QED
  BY <1>2 DEF Mine

\* A call that takes no part in a step keeps its invariant: its own state is
\* as before, and the log is, or has one version more, of somebody else.
LEMMA BystanderKept ==
    ASSUME IInv, NEW c \in Calls, NEW d \in Calls, c # d,
           \/ log' = log
           \/ \E e : e.by = c /\ log' = Append(log, e),
           args' = args, pc'[d] = pc[d], total'[d] = total[d],
           done'[d] = done[d], handle'[d] = handle[d], readv'[d] = readv[d]
    PROVE  CallInv(d)'
<1> USE DEF IInv, CallInv
<1>1. /\ Mine(d)' = Mine(d)
      /\ \A v \in Mine(d) : log'[v] = log[v]
  BY MineAfterCommit DEF Mine
<1>2. \A v \in Mine(d) : Applied(v)' = Applied(v)
  BY <1>1 DEF Applied
<1>3. CursorInv(d)'
  BY DEF CursorInv, Source
<1>4. LedgerInv(d)'
  BY <1>1, <1>2 DEF LedgerInv, Source
<1>5. HandleInv(d)'
  BY <1>1 DEF HandleInv, Merges
<1>6. FaultInv(d)'
  BY <1>1 DEF FaultInv, RejectedAtStart, Merges
<1> QED
  BY <1>3, <1>4, <1>5, <1>6

\* The chunk in hand becomes the last version of its call.
LEMMA CommitterKept ==
    ASSUME IInv, NEW c \in Calls, pc[c] = "commit",
           NEW e, log' = Append(log, e),
           e.by = c, e.lo = done[c], e.hi = total[c],
           args' = args, total' = total,
           done' = [done EXCEPT ![c] = total[c]],
           pc' = [pc EXCEPT ![c] = "fetch"]
    PROVE  CursorInv(c)' /\ LedgerInv(c)' /\ FaultInv(c)'
<1> USE DEF IInv, CallInv
<1> DEFINE n == Len(log) + 1
<1>1. /\ Mine(c)' = Mine(c) \union {n}
      /\ \A v \in Mine(c) : v \in 1 .. Len(log) /\ log'[v] = log[v]
      /\ log'[n] = e
  BY MineAfterCommit
<1>2. /\ done[c] \in Nat /\ total[c] \in Nat /\ Len(log) \in Nat
      /\ done'[c] = total[c] /\ total'[c] = total[c] /\ pc'[c] = "fetch"
      /\ log \in Seq(Version)
  BY DEF TypeOK
<1>3. /\ done[c] < total[c] /\ total[c] <= Len(Source(c))
      /\ total[c] = NextStop(Len(Source(c)), args[c].chunk, done[c])
  BY DEF CursorInv
<1>4. CursorInv(c)'
  BY <1>2, <1>3, ArgumentsOfCall DEF CursorInv, Source
<1>5. \A v \in Mine(c) : log[v].lo \in Nat /\ log[v].hi \in Nat
  <2>1. \A v \in Mine(c) : log[v] \in Version
    BY <1>2 DEF Mine
  <2> QED
    BY <2>1 DEF Version
<1>6. LedgerInv(c)'
  <2>1. \A v \in Mine(c)' :
           /\ log'[v].lo < log'[v].hi /\ log'[v].hi <= done'[c]
           /\ log'[v].hi = NextStop(Len(Source(c)), args[c].chunk, log'[v].lo)
    BY <1>1, <1>2, <1>3, <1>5 DEF LedgerInv
  <2>2. \A p \in 1 .. done'[c] : \E v \in Mine(c)' :
           p \in Positions(log'[v].lo, log'[v].hi)
    <3> SUFFICES ASSUME NEW p \in 1 .. total[c]
                 PROVE  \E v \in Mine(c)' : p \in Positions(log'[v].lo, log'[v].hi)
      BY <1>2
    <3>1. CASE p <= done[c]
      BY <3>1, <1>1, <1>2 DEF LedgerInv, Applied
    <3>2. CASE p > done[c]
      <4>1. n \in Mine(c)' /\ log'[n].lo = done[c] /\ log'[n].hi = total[c]
        BY <1>1
      <4>2. p \in Positions(done[c], total[c])
        BY <3>2, <1>2 DEF Positions
      <4> QED
        BY <4>1, <4>2
    <3>3. p <= done[c] \/ p > done[c]
      BY <1>2
    <3> QED
      BY <3>1, <3>2, <3>3
  <2>3. \A v, w \in Mine(c)' : v < w => log'[v].hi <= log'[w].lo
    BY <1>1, <1>2 DEF LedgerInv
  <2> QED
    BY <2>1, <2>2, <2>3 DEF LedgerInv, Applied, Source
<1>7. args[c].fault = "none"
  BY DEF FaultInv
<1> QED
  BY <1>4, <1>6, <1>7 DEF FaultInv

\* A version that applies the chunk in hand is a version.
LEMMA EntryIsVersion ==
    ASSUME IInv, NEW c \in Calls, pc[c] = "commit",
           NEW rows \in SUBSET Row
    PROVE  Entry(c, rows) \in Version
<1>1. WriteMode(c) \in Modes \union {"merge"}
  BY ArgumentsOfCall DEF IInv, WriteMode, Merges, Modes
<1>2. readv[c] \in Nat /\ done[c] \in Nat /\ total[c] \in Nat
  BY DEF IInv, TypeOK
<1> QED
  BY <1>1, <1>2 DEF Entry, Version

\* What a commit leaves visible are rows.
LEMMA CommittedRows ==
    ASSUME IInv, NEW c \in Calls, pc[c] = "commit"
    PROVE  /\ RowsWritten(c) \subseteq Row
           /\ (Newest \ Removed(c)) \union Added(c) \subseteq Row
<1> USE DEF IInv, CallInv
<1>1. Chunk(c) \in SUBSET (1 .. Len(Source(c)))
  BY ArgumentsOfCall DEF Chunk, Positions, CursorInv, TypeOK
<1>2. Source(c) \in Seq(Key) /\ Len(log) + 1 \in Nat /\ Latest(log) = Len(log)
  BY ArgumentsOfCall DEF TypeOK, Latest
<1>3. Newest \subseteq Row /\ Base(c) \subseteq Row
  BY VisibleRows, <1>2 DEF Newest, Base, TypeOK
<1>4. Inserted(Source(c), Chunk(c), c, Latest(log) + 1) \subseteq Row
  BY <1>1, <1>2, InsertedRows
<1>5. Updated(Base(c), Source(c), Chunk(c), c) \subseteq Row
  BY <1>1, <1>2, <1>3, UpdatedRows
<1>6. Unmatched(Base(c), Source(c), Chunk(c)) \in SUBSET (1 .. Len(Source(c)))
  BY <1>1 DEF Unmatched
<1>7. Inserted(Source(c), Unmatched(Base(c), Source(c), Chunk(c)), c,
               Latest(log) + 1) \subseteq Row
  BY <1>2, <1>6, InsertedRows
<1>8. Added(c) \subseteq Row
  BY <1>5, <1>7 DEF Added
<1> QED
  BY <1>3, <1>4, <1>8 DEF RowsWritten

-----------------------------------------------------------------------------
(* The invariant is inductive.                                             *)

\* No call has started, so none has a version: the only author is NoCall.
LEMMA InitIInv == Init => IInv
<1> SUFFICES ASSUME Init PROVE IInv
  OBVIOUS
<1>1. SeedVersion \in Version
  <2>1. DOMAIN SeedKeys \in SUBSET (1 .. Len(SeedKeys))
    BY SeedAssumption
  <2>2. Inserted(SeedKeys, DOMAIN SeedKeys, NoCall, 1) \subseteq Row
    BY <2>1, SeedAssumption, InsertedRows
  <2> QED
    BY <2>2 DEF SeedVersion, Version, Modes
<1>2. log \in Seq(Version)
  <2>1. <<>> \in Seq(Version)
    OBVIOUS
  <2>2. <<SeedVersion>> \in Seq(Version)
    BY <1>1
  <2> QED
    BY <2>1, <2>2 DEF Init
<1>3. TypeOK
  BY <1>2 DEF Init, TypeOK
<1>4. \A v \in DOMAIN log : log[v].by = NoCall
  BY DEF Init, SeedVersion
<1>5. \A c \in Calls : Mine(c) = {}
  BY <1>4, NoCallAssumption DEF Mine
<1>6. ASSUME NEW c \in Calls PROVE CallInv(c)
  <2>1. CursorInv(c)
    BY <1>3, ArgumentsOfCall DEF Init, CursorInv
  <2>2. LedgerInv(c) /\ HandleInv(c) /\ FaultInv(c)
    BY <1>5 DEF Init, LedgerInv, HandleInv, FaultInv
  <2> QED
    BY <2>1, <2>2 DEF CallInv
<1> QED
  BY <1>3, <1>6 DEF IInv

\* A call that stops where it is, for whatever reason, keeps the invariant.
LEMMA StopKept ==
    ASSUME IInv, NEW c \in Calls, NEW l \in {"error", "guard"}, Goto(c, l),
           UNCHANGED <<log, args, cursor, local>>
    PROVE  IInv'
<1> USE DEF IInv, CallInv, Goto, cursor, local
<1>1. TypeOK'
  BY DEF TypeOK
<1>2. CallInv(c)'
  <2>1. pc'[c] = l
    BY DEF TypeOK
  <2>2. Mine(c)' = Mine(c) /\ (\A v \in Mine(c) : Applied(v)' = Applied(v))
    BY DEF Mine, Applied
  <2>3. CursorInv(c)'
    BY <2>1 DEF CursorInv, Source
  <2>4. LedgerInv(c)'
    BY <2>2 DEF LedgerInv, Source
  <2>5. HandleInv(c)'
    BY <2>1, <2>2 DEF HandleInv, Merges
  <2>6. FaultInv(c)'
    BY <2>1, <2>2 DEF FaultInv
  <2> QED
    BY <2>3, <2>4, <2>5, <2>6
<1>3. ASSUME NEW d \in Calls, d # c PROVE CallInv(d)'
  BY <1>3, BystanderKept DEF TypeOK
<1> QED
  BY <1>1, <1>2, <1>3

\* A call that only moves on in its program (to fetch, or to its return) keeps
\* the invariant when its own part holds at the new place.
LEMMA MoveKept ==
    ASSUME IInv, NEW c \in Calls, NEW l \in {"fetch", "ok"}, Goto(c, l),
           UNCHANGED <<log, args, cursor, local>>, CallInv(c)'
    PROVE  IInv'
<1> USE DEF IInv, Goto, cursor, local
<1>1. TypeOK'
  BY DEF TypeOK
<1>2. ASSUME NEW d \in Calls, d # c PROVE CallInv(d)'
  BY <1>2, BystanderKept DEF TypeOK
<1> QED
  BY <1>1, <1>2

LEMMA StartKept == ASSUME IInv, NEW c \in Calls, Start(c) PROVE IInv'
<1>1. CASE RejectedAtStart(c)
  BY <1>1, StopKept DEF Start
<1>2. CASE ~RejectedAtStart(c)
  <2> USE DEF IInv, CallInv, cursor, local
  <2>1. Goto(c, "fetch") /\ UNCHANGED <<log, args, cursor, local>> /\ pc[c] = "new"
    BY <1>2 DEF Start
  <2>2. pc'[c] = "fetch"
    BY <2>1 DEF Goto, TypeOK
  <2>3. total[c] = 0 /\ done[c] = 0
    BY <2>1 DEF CursorInv
  <2>4. Mine(c) = {}
    <3> SUFFICES ASSUME NEW v \in Mine(c) PROVE FALSE
      OBVIOUS
    <3>1. log[v] \in Version
      BY DEF Mine, TypeOK
    <3> QED
      BY <2>3, <3>1 DEF LedgerInv, Version
  <2>5. Mine(c)' = {}
    BY <2>1, <2>4 DEF Mine
  <2>6. CursorInv(c)'
    BY <2>1, <2>2, <2>3, ArgumentsOfCall DEF CursorInv, Source
  <2>7. LedgerInv(c)' /\ HandleInv(c)'
    BY <2>1, <2>3, <2>5 DEF LedgerInv, HandleInv
  <2>8. FaultInv(c)'
    BY <1>2, <2>1, <2>2, <2>5 DEF FaultInv, RejectedAtStart, Merges
  <2> QED
    BY <2>1, <2>6, <2>7, <2>8, MoveKept
<1> QED
  BY <1>1, <1>2

LEMMA FetchEmptyKept == ASSUME IInv, NEW c \in Calls, FetchEmpty(c) PROVE IInv'
<1> USE DEF IInv, CallInv, cursor, local
<1>1. Goto(c, "ok") /\ UNCHANGED <<log, args, cursor, local>> /\ pc[c] = "fetch"
  BY DEF FetchEmpty
<1>2. pc'[c] = "ok"
  BY <1>1 DEF Goto, TypeOK
<1>3. Mine(c)' = Mine(c) /\ (\A v \in Mine(c) : Applied(v)' = Applied(v))
  BY <1>1 DEF Mine, Applied
<1>4. CursorInv(c)'
  BY <1>1, <1>2 DEF FetchEmpty, AtEnd, CursorInv, Source
<1>5. LedgerInv(c)'
  BY <1>1, <1>3 DEF LedgerInv, Source
<1>6. HandleInv(c)' /\ FaultInv(c)'
  BY <1>1, <1>2, <1>3 DEF HandleInv, FaultInv, Merges
<1> QED
  BY <1>1, <1>4, <1>5, <1>6, MoveKept

LEMMA FetchChunkKept == ASSUME IInv, NEW c \in Calls, FetchChunk(c) PROVE IInv'
<1> USE DEF IInv, CallInv, cursor, local
<1> DEFINE stop == NextStop(Len(Source(c)), args[c].chunk, total[c])
<1>1. /\ pc[c] = "fetch" /\ total[c] < Len(Source(c)) /\ ~BadColumns(c)
      /\ total' = [total EXCEPT ![c] = stop]
      /\ pc' = [pc EXCEPT ![c] = "handle"]
      /\ UNCHANGED <<log, args, done, local>>
  <2>1. total[c] # Len(Source(c)) /\ total[c] <= Len(Source(c))
    BY DEF FetchChunk, AtEnd, CursorInv
  <2>2. total[c] \in Nat /\ Len(Source(c)) \in Nat
    BY ArgumentsOfCall DEF TypeOK
  <2> QED
    BY <2>1, <2>2 DEF FetchChunk, Goto
<1>2. total[c] \in Nat /\ done[c] = total[c] /\ pc'[c] = "handle" /\ total'[c] = stop
  BY <1>1 DEF TypeOK, CursorInv
<1>3. stop \in Nat /\ total[c] < stop /\ stop <= Len(Source(c))
  BY <1>1, <1>2, ArgumentsOfCall, NextStopAdvances
<1>4. TypeOK'
  BY <1>1, <1>3 DEF TypeOK
<1>5. Mine(c)' = Mine(c) /\ (\A v \in Mine(c) : Applied(v)' = Applied(v))
  BY <1>1 DEF Mine, Applied
<1>6. CursorInv(c)'
  BY <1>1, <1>2, <1>3, ArgumentsOfCall DEF CursorInv, Source
<1>7. LedgerInv(c)'
  BY <1>1, <1>5 DEF LedgerInv, Source
<1>8. HandleInv(c)'
  BY <1>1, <1>2, <1>5 DEF HandleInv, Merges
<1>9. FaultInv(c)'
  BY <1>1, <1>2, <1>5 DEF FaultInv, BadColumns, RejectedAtStart, Merges
<1>10. ASSUME NEW d \in Calls, d # c PROVE CallInv(d)'
  BY <1>1, <1>10, BystanderKept DEF TypeOK
<1> QED
  BY <1>4, <1>6, <1>7, <1>8, <1>9, <1>10

LEMMA PrepareChunkKept == ASSUME IInv, NEW c \in Calls, PrepareChunk(c) PROVE IInv'
<1> USE DEF IInv, CallInv, cursor, local
<1>1. /\ pc[c] = "handle" /\ ~RejectedChunk(c)
      /\ readv' = [readv EXCEPT ![c] = BaseVersion(c)]
      /\ handle' = [handle EXCEPT ![c] = 0]
      /\ pc' = [pc EXCEPT ![c] = "commit"]
      /\ UNCHANGED <<log, args, cursor, first, txns>>
  BY DEF PrepareChunk, Goto
<1>2. /\ pc'[c] = "commit" /\ handle'[c] = 0 /\ readv'[c] = BaseVersion(c)
      /\ Len(log) \in Nat
  BY <1>1 DEF TypeOK
<1>3. BaseVersion(c) \in 0 .. Len(log)
  BY <1>2 DEF BaseVersion, Latest, TypeOK
<1>4. TypeOK'
  BY <1>1, <1>2, <1>3 DEF TypeOK
<1>5. Mine(c)' = Mine(c) /\ (\A v \in Mine(c) : Applied(v)' = Applied(v))
  BY <1>1 DEF Mine, Applied
<1>6. CursorInv(c)'
  BY <1>1, <1>2 DEF CursorInv, Source
<1>7. LedgerInv(c)'
  BY <1>1, <1>5 DEF LedgerInv, Source
<1>8. HandleInv(c)'
  BY <1>1, <1>2, <1>5 DEF HandleInv, Merges, BaseVersion
<1>9. args[c].fault = "none"
  <2>1. CASE Merges(c)
    BY <1>1, <2>1, ArgumentsOfCall
       DEF FaultInv, RejectedChunk, RejectedMerge, RejectedAtStart, Faults
  <2>2. CASE ~Merges(c)
    BY <1>1, <2>2, ArgumentsOfCall DEF FaultInv, RejectedAtStart, Faults
  <2> QED
    BY <2>1, <2>2
<1>10. FaultInv(c)'
  BY <1>1, <1>9 DEF FaultInv
<1>11. ASSUME NEW d \in Calls, d # c PROVE CallInv(d)'
  BY <1>1, <1>11, BystanderKept DEF TypeOK
<1> QED
  BY <1>4, <1>6, <1>7, <1>8, <1>10, <1>11

LEMMA CommitWriteKept == ASSUME IInv, NEW c \in Calls, CommitWrite(c) PROVE IInv'
<1> USE DEF IInv, CallInv, cursor, local
<1> DEFINE e == Entry(c, RowsWritten(c))
<1>1. /\ pc[c] = "commit" /\ ~Merges(c)
      /\ log' = Append(log, e)
      /\ done' = [done EXCEPT ![c] = total[c]]
      /\ first' = [first EXCEPT ![c] = FALSE]
      /\ pc' = [pc EXCEPT ![c] = "fetch"]
      /\ UNCHANGED <<args, total, handle, readv, txns>>
  BY DEF CommitWrite, Goto
<1>2. e.by = c /\ e.lo = done[c] /\ e.hi = total[c]
  BY DEF Entry
<1>3. e \in Version
  BY <1>1, CommittedRows, EntryIsVersion
<1>4. log' \in Seq(Version) /\ Len(log') = Len(log) + 1 /\ Len(log) \in Nat
  BY <1>1, <1>3, AppendedLog DEF TypeOK
<1>5. TypeOK'
  <2> HIDE DEF e
  <2> QED
    BY <1>1, <1>4 DEF TypeOK
<1>6. CursorInv(c)' /\ LedgerInv(c)' /\ FaultInv(c)'
  <2> HIDE DEF e
  <2> QED
    BY <1>1, <1>2, CommitterKept
<1>7. HandleInv(c)'
  BY <1>1 DEF HandleInv, Merges
<1>8. ASSUME NEW d \in Calls, d # c PROVE CallInv(d)'
  <2> HIDE DEF e
  <2>1. pc'[d] = pc[d] /\ done'[d] = done[d]
    BY <1>1, <1>8 DEF TypeOK
  <2> QED
    BY <1>1, <1>2, <1>8, <2>1, BystanderKept
<1> QED
  BY <1>5, <1>6, <1>7, <1>8

LEMMA CommitMergeKept == ASSUME IInv, NEW c \in Calls, CommitMerge(c) PROVE IInv'
<1> USE DEF IInv, CallInv, cursor, local
<1> DEFINE e == Entry(c, (Newest \ Removed(c)) \union Added(c))
<1>1. /\ pc[c] = "commit" /\ Merges(c)
      /\ log' = Append(log, e)
      /\ done' = [done EXCEPT ![c] = total[c]]
      /\ handle' = [handle EXCEPT ![c] = Len(log) + 1]
      /\ txns' = [txns EXCEPT ![c] = @ + 1]
      /\ pc' = [pc EXCEPT ![c] = "fetch"]
      /\ UNCHANGED <<args, total, first, readv>>
  BY DEF CommitMerge, Goto, Latest, MergedDataset
<1>2. e.by = c /\ e.lo = done[c] /\ e.hi = total[c]
  BY DEF Entry
<1>3. e \in Version
  BY <1>1, CommittedRows, EntryIsVersion
<1>4. log' \in Seq(Version) /\ Len(log') = Len(log) + 1 /\ Len(log) \in Nat
  BY <1>1, <1>3, AppendedLog DEF TypeOK
<1> HIDE DEF e
<1>5. TypeOK'
  BY <1>1, <1>4 DEF TypeOK
<1>6. CursorInv(c)' /\ LedgerInv(c)' /\ FaultInv(c)'
  BY <1>1, <1>2, CommitterKept
<1>7. HandleInv(c)'
  <2>1. handle'[c] = Len(log) + 1 /\ pc'[c] = "fetch"
    BY <1>1, <1>4 DEF TypeOK
  <2>2. Mine(c)' = Mine(c) \union {Len(log) + 1}
        /\ \A v \in Mine(c) : v \in 1 .. Len(log)
    BY <1>1, <1>2, MineAfterCommit
  <2> QED
    BY <1>4, <2>1, <2>2 DEF HandleInv
<1>8. ASSUME NEW d \in Calls, d # c PROVE CallInv(d)'
  <2>1. pc'[d] = pc[d] /\ done'[d] = done[d] /\ handle'[d] = handle[d]
    BY <1>1, <1>8 DEF TypeOK
  <2> QED
    BY <1>1, <1>2, <1>8, <2>1, BystanderKept
<1> QED
  BY <1>5, <1>6, <1>7, <1>8

LEMMA RetryMergeKept == ASSUME IInv, NEW c \in Calls, RetryMerge(c) PROVE IInv'
<1> USE DEF IInv, CallInv, cursor, local
<1>1. /\ pc[c] = "commit"
      /\ readv' = [readv EXCEPT ![c] = Len(log)]
      /\ UNCHANGED <<log, args, pc, cursor, first, handle, txns>>
  BY DEF RetryMerge, Latest
<1>2. Len(log) \in Nat /\ readv'[c] = Len(log) /\ DOMAIN log = 1 .. Len(log)
  BY <1>1 DEF TypeOK
<1>3. TypeOK'
  BY <1>1, <1>2 DEF TypeOK
<1>4. Mine(c)' = Mine(c) /\ (\A v \in Mine(c) : Applied(v)' = Applied(v))
  BY <1>1 DEF Mine, Applied
<1>5. CursorInv(c)' /\ LedgerInv(c)' /\ FaultInv(c)'
  BY <1>1, <1>4 DEF CursorInv, LedgerInv, FaultInv, Source, RejectedAtStart, Merges
<1>6. HandleInv(c)'
  <2>1. \A v \in Mine(c) : v \in 1 .. Len(log)
    BY <1>2 DEF Mine
  <2> QED
    BY <1>1, <1>2, <1>4, <2>1 DEF HandleInv, Merges
<1>7. ASSUME NEW d \in Calls, d # c PROVE CallInv(d)'
  BY <1>1, <1>7, BystanderKept DEF TypeOK
<1> QED
  BY <1>3, <1>5, <1>6, <1>7

LEMMA NextKeepsIInv == IInv /\ [Next]_vars => IInv'
<1> SUFFICES ASSUME IInv, [Next]_vars PROVE IInv'
  OBVIOUS
<1>1. ASSUME NEW c \in Calls, Step(c) PROVE IInv'
  <2>1. CASE Start(c)
    BY <2>1, StartKept
  <2>2. CASE FetchChunk(c)
    BY <2>2, FetchChunkKept
  <2>3. CASE FetchEmpty(c)
    BY <2>3, FetchEmptyKept
  <2>4. CASE FetchRejected(c)
    BY <2>4, StopKept DEF FetchRejected
  <2>5. CASE PrepareChunk(c)
    BY <2>5, PrepareChunkKept
  <2>6. CASE HandleRejected(c)
    BY <2>6, StopKept DEF HandleRejected
  <2>7. CASE CommitWrite(c)
    BY <2>7, CommitWriteKept
  <2>8. CASE CommitMerge(c)
    BY <2>8, CommitMergeKept
  <2>9. CASE RetryMerge(c)
    BY <2>9, RetryMergeKept
  <2>10. CASE CommitRefused(c)
    BY <2>10, StopKept DEF CommitRefused
  <2>11. CASE GuardAborts(c)
    BY <2>11, StopKept DEF GuardAborts
  <2>12. CASE Interrupted(c)
    BY <2>12, StopKept DEF Interrupted
  <2> QED
    BY <1>1, <2>1, <2>2, <2>3, <2>4, <2>5, <2>6, <2>7, <2>8, <2>9, <2>10,
       <2>11, <2>12 DEF Step, Progress
<1>2. CASE UNCHANGED vars
  BY <1>2 DEF vars, cursor, local, IInv, CallInv, TypeOK, CursorInv, LedgerInv,
     HandleInv, FaultInv, Mine, Applied, Source, Merges, RejectedAtStart
<1> QED
  BY <1>1, <1>2 DEF Next, Finished

THEOREM Invariance == Spec => []IInv
BY InitIInv, NextKeepsIInv, PTL DEF Spec

-----------------------------------------------------------------------------
(* What the invariant gives.                                               *)

\* Every variable keeps its type (TypeOK).
THEOREM TypeCorrect == Spec => []TypeOK
<1>1. IInv => TypeOK
  BY DEF IInv
<1> QED
  BY <1>1, Invariance, PTL

\* A call's commits are an initial segment of its source, each row once and in
\* order, and all of it when the call returns (AppliedInOrder).
THEOREM AppliedInOrderCorrect == Spec => []AppliedInOrder
<1>1. IInv => AppliedInOrder
  <2> SUFFICES ASSUME IInv, NEW c \in Calls
               PROVE  /\ \A v \in Mine(c) : Applied(v) \subseteq 1 .. done[c]
                      /\ \A p \in 1 .. done[c] : \E v \in Mine(c) : p \in Applied(v)
                      /\ \A v, w \in Mine(c) : v < w => log[v].hi <= log[w].lo
                      /\ done[c] <= total[c] /\ total[c] <= Len(Source(c))
                      /\ pc[c] = "ok" => done[c] = Len(Source(c))
    BY DEF AppliedInOrder
  <2>1. TypeOK /\ CursorInv(c) /\ LedgerInv(c)
    BY DEF IInv, CallInv
  <2>2. ASSUME NEW v \in Mine(c) PROVE Applied(v) \subseteq 1 .. done[c]
    <3>1. log[v] \in Version
      BY <2>1 DEF Mine, TypeOK
    <3>2. log[v].lo \in Nat /\ log[v].hi \in Nat /\ done[c] \in Nat
      BY <2>1, <3>1 DEF Version, TypeOK
    <3>3. log[v].hi <= done[c]
      BY <2>1 DEF LedgerInv
    <3> QED
      BY <3>2, <3>3 DEF Applied, Positions
  <2> QED
    BY <2>1, <2>2 DEF CursorInv, LedgerInv
<1> QED
  BY <1>1, Invariance, PTL

\* With chunking off a call makes one commit, of its whole source, or none
\* (AllOrNothing): its first chunk reaches the end, and a second would have to
\* begin there.
THEOREM AllOrNothingCorrect == Spec => []AllOrNothing
<1>1. IInv => AllOrNothing
  <2> SUFFICES ASSUME IInv, NEW c \in Calls, args[c].chunk = 0, NEW v \in Mine(c)
               PROVE  Applied(v) = 1 .. Len(Source(c)) /\ Mine(c) = {v}
    BY DEF AllOrNothing
  <2> DEFINE len == Len(Source(c))
  <2>1. TypeOK /\ CursorInv(c) /\ LedgerInv(c)
    BY DEF IInv, CallInv
  <2>2. len \in Nat /\ done[c] \in Nat /\ done[c] <= len
    BY <2>1, ArgumentsOfCall DEF TypeOK, CursorInv
  <2>3. ASSUME NEW w \in Mine(c)
        PROVE  w \in Nat /\ log[w].lo \in Nat /\ log[w].lo < len /\ log[w].hi = len
    <3>1. log[w] \in Version /\ w \in Nat
      BY <2>1 DEF Mine, TypeOK
    <3>2. /\ log[w].lo < log[w].hi /\ log[w].hi <= done[c]
          /\ log[w].hi = NextStop(len, 0, log[w].lo)
      BY <2>1 DEF LedgerInv
    <3>3. log[w].hi = len
      BY <3>2 DEF NextStop
    <3> QED
      BY <3>1, <3>2, <3>3 DEF Version
  <2>4. ASSUME NEW u \in Mine(c), NEW w \in Mine(c), u # w PROVE FALSE
    <3>1. CASE u < w
      BY <2>1, <2>2, <2>3, <3>1 DEF LedgerInv
    <3>2. CASE w < u
      BY <2>1, <2>2, <2>3, <3>2 DEF LedgerInv
    <3> QED
      BY <2>3, <2>4, <3>1, <3>2
  <2>5. Mine(c) = {v}
    BY <2>4
  <2>6. log[v].lo = 0
    <3> SUFFICES ASSUME log[v].lo # 0 PROVE FALSE
      OBVIOUS
    <3>1. 1 \in 1 .. done[c]
      <4>1. log[v].hi <= done[c] /\ log[v].hi = len
        BY <2>1, <2>3 DEF LedgerInv
      <4> QED
        BY <2>2, <2>3, <4>1
    <3>2. 1 \in Positions(log[v].lo, log[v].hi)
      BY <2>1, <2>5, <3>1 DEF LedgerInv, Applied
    <3> QED
      BY <2>3, <3>2 DEF Positions
  <2> QED
    BY <2>2, <2>3, <2>5, <2>6 DEF Applied, Positions
<1> QED
  BY <1>1, Invariance, PTL

\* A call that is wrong in itself commits nothing (RejectedNeverCommits).
THEOREM RejectedNeverCommitsCorrect == Spec => []RejectedNeverCommits
<1>1. IInv => RejectedNeverCommits
  <2> SUFFICES ASSUME IInv, NEW c \in Calls, args[c].fault # "none"
               PROVE  Mine(c) = {} /\ (pc[c] = "ok" => Source(c) = <<>>)
    BY DEF RejectedNeverCommits
  <2>1. TypeOK /\ CursorInv(c) /\ FaultInv(c)
    BY DEF IInv, CallInv
  <2>2. pc[c] = "ok" => Len(Source(c)) = 0
    BY <2>1 DEF CursorInv, FaultInv
  <2>3. Source(c) \in Seq(Key)
    BY <2>1, ArgumentsOfCall
  <2> QED
    BY <2>1, <2>2, <2>3 DEF FaultInv
<1> QED
  BY <1>1, Invariance, PTL

\* A merge in flight was prepared against a version that has every earlier
\* commit of its call (MergeSeesOwnWrites).
THEOREM MergeSeesOwnWritesCorrect == Spec => []MergeSeesOwnWrites
<1>1. IInv => MergeSeesOwnWrites
  BY DEF IInv, CallInv, HandleInv, MergeSeesOwnWrites
<1> QED
  BY <1>1, Invariance, PTL

-----------------------------------------------------------------------------
(* The write path implements the ledger.                                   *)

\* The rows in the log are those of the finished chunks.
LEMMA DurableIsDone ==
    IInv => \A c \in Calls : Durable(c) = Positions(0, done[c])
<1> SUFFICES ASSUME IInv, NEW c \in Calls
             PROVE  Durable(c) = Positions(0, done[c])
  OBVIOUS
<1>1. TypeOK /\ LedgerInv(c)
  BY DEF IInv, CallInv
<1>2. ASSUME NEW v \in Mine(c) PROVE Applied(v) \subseteq 1 .. done[c]
  <2>1. log[v] \in Version
    BY <1>1 DEF Mine, TypeOK
  <2>2. log[v].lo \in Nat /\ log[v].hi \in Nat /\ done[c] \in Nat
    BY <1>1, <2>1 DEF Version, TypeOK
  <2>3. log[v].hi <= done[c]
    BY <1>1 DEF LedgerInv
  <2> QED
    BY <2>2, <2>3 DEF Applied, Positions
<1>3. Positions(0, done[c]) = 1 .. done[c]
  BY DEF Positions
<1> QED
  BY <1>1, <1>2, <1>3 DEF Durable, LedgerInv

LEMMA DurableIsDoneNext ==
    IInv' => (\A c \in Calls : Durable(c) = Positions(0, done[c]))'
BY DurableIsDone, PTL

LEMMA InitImplements == Init => Ledger!Init
<1> SUFFICES ASSUME Init PROVE Ledger!Init
  OBVIOUS
<1>1. IInv
  BY InitIInv
<1>2. \A c \in Calls : Len(Source(c)) \in Nat /\ args[c].chunk \in Nat
  BY <1>1, ArgumentsOfCall DEF IInv
<1>3. \A c \in Calls : Durable(c) = {}
  BY <1>1, DurableIsDone DEF Init, Positions
<1>4. \A c \in Calls : StateOf(c) = "idle"
  BY DEF Init, StateOf, Running
<1> QED
  BY <1>2, <1>3, <1>4 DEF Ledger!Init

\* A step that leaves the log and the state of every call as they are is a
\* stutter of the ledger.
LEMMA StutterImplements ==
    ASSUME UNCHANGED <<log, args>>, \A d \in Calls : StateOf(d)' = StateOf(d)
    PROVE  UNCHANGED Ledger!lvars
<1>1. \A d \in Calls : Durable(d)' = Durable(d)
  BY DEF Durable, Mine, Applied
<1>2. \A d \in Calls : Len(Source(d))' = Len(Source(d))
  BY DEF Source
<1> QED
  BY <1>1, <1>2 DEF Ledger!lvars

\* A call that stops fails in the ledger.
LEMMA StopImplements ==
    ASSUME IInv, NEW c \in Calls, NEW l \in {"error", "guard"},
           pc[c] = "new" \/ Running(c), Goto(c, l), UNCHANGED <<log, args>>
    PROVE  Ledger!Fail(c)
<1>1. pc' = [pc EXCEPT ![c] = l] /\ pc \in [Calls -> {"new", "fetch", "handle", "commit", "ok", "error", "guard"}]
  BY DEF Goto, IInv, TypeOK
<1>2. StateOf(c) \in {"idle", "running"} /\ StateOf(c)' = "failed"
  BY <1>1 DEF StateOf, Running
<1>3. \A d \in Calls : d # c => StateOf(d)' = StateOf(d)
  BY <1>1 DEF StateOf, Running
<1>4. \A d \in Calls : Durable(d)' = Durable(d) /\ Len(Source(d))' = Len(Source(d))
  BY DEF Durable, Mine, Applied, Source
<1> QED
  BY <1>2, <1>3, <1>4 DEF Ledger!Fail

\* A commit makes the chunk in hand durable.
LEMMA CommitImplements ==
    ASSUME IInv, IInv', NEW c \in Calls, pc[c] = "commit", Goto(c, "fetch"),
           args' = args, done' = [done EXCEPT ![c] = total[c]]
    PROVE  Ledger!Apply(c)
<1> DEFINE len == Len(Source(c))
<1>1. /\ pc' = [pc EXCEPT ![c] = "fetch"]
      /\ pc \in [Calls -> {"new", "fetch", "handle", "commit", "ok", "error", "guard"}]
      /\ done \in [Calls -> Nat] /\ total[c] \in Nat
  BY DEF Goto, IInv, TypeOK
<1>2. /\ done[c] < len /\ len \in Nat
      /\ total[c] = NextStop(len, args[c].chunk, done[c])
  BY <1>1, ArgumentsOfCall DEF IInv, CallInv, CursorInv
<1>3. \A d \in Calls : StateOf(d)' = StateOf(d)
  BY <1>1 DEF StateOf, Running
<1>4. StateOf(c) = "running"
  BY <1>1 DEF StateOf, Running
<1>5. \A d \in Calls : Durable(d) = Positions(0, done[d])
  BY DurableIsDone
<1>6. \A d \in Calls : Durable(d)' = Positions(0, done'[d])
  <2>1. (\A d \in Calls : Durable(d) = Positions(0, done[d]))'
    BY DurableIsDoneNext
  <2> QED
    BY <2>1 DEF Positions
<1>7. \A d \in Calls :
         Durable(d)' = IF d = c THEN Positions(0, total[c]) ELSE Durable(d)
  BY <1>1, <1>5, <1>6
<1>8. \A d \in Calls : Len(Source(d))' = Len(Source(d)) /\ args'[d].chunk = args[d].chunk
  BY DEF Source
<1>9. [d \in Calls |-> Durable(d)]' =
         [[d \in Calls |-> Durable(d)] EXCEPT ![c] = Positions(0, total[c])]
  BY <1>7
<1>10. done[c] \in 0 .. len /\ Durable(c) = Positions(0, done[c])
  BY <1>1, <1>2, <1>5
<1> QED
  BY <1>2, <1>3, <1>4, <1>8, <1>9, <1>10 DEF Ledger!Apply, Ledger!NextStop, Ledger!Positions, NextStop, Positions

LEMMA StepImplements ==
    ASSUME IInv, IInv', NEW c \in Calls, Step(c)
    PROVE  [Ledger!Next]_Ledger!lvars
<1> USE DEF Ledger!Next
<1>1. /\ pc \in [Calls -> {"new", "fetch", "handle", "commit", "ok", "error", "guard"}]
      /\ CursorInv(c)
  BY DEF IInv, TypeOK, CallInv
<1>2. CASE Start(c) /\ RejectedAtStart(c)
  <2>1. Ledger!Fail(c)
    BY <1>2, StopImplements DEF Start
  <2> QED
    BY <2>1
<1>3. CASE Start(c) /\ ~RejectedAtStart(c)
  <2>1. pc[c] = "new" /\ pc' = [pc EXCEPT ![c] = "fetch"] /\ UNCHANGED <<log, args>>
    BY <1>3 DEF Start, Goto
  <2>2. StateOf(c) = "idle" /\ StateOf(c)' = "running"
    BY <1>1, <2>1 DEF StateOf, Running
  <2>3. \A d \in Calls : d # c => StateOf(d)' = StateOf(d)
    BY <1>1, <2>1 DEF StateOf, Running
  <2>4. \A d \in Calls : Durable(d)' = Durable(d) /\ Len(Source(d))' = Len(Source(d))
    BY <2>1 DEF Durable, Mine, Applied, Source
  <2>5. Ledger!Begin(c)
    BY <2>1, <2>2, <2>3, <2>4 DEF Ledger!Begin
  <2> QED
    BY <2>5
<1>4. CASE FetchChunk(c) \/ PrepareChunk(c) \/ RetryMerge(c)
  <2>1. UNCHANGED <<log, args>>
    BY <1>4 DEF FetchChunk, PrepareChunk, RetryMerge
  <2>2. \A d \in Calls : StateOf(d)' = StateOf(d)
    BY <1>1, <1>4 DEF FetchChunk, PrepareChunk, RetryMerge, Goto, StateOf, Running
  <2> QED
    BY <2>1, <2>2, StutterImplements
<1>5. CASE FetchEmpty(c)
  <2>1. /\ pc[c] = "fetch" /\ pc' = [pc EXCEPT ![c] = "ok"] /\ UNCHANGED <<log, args>>
        /\ done[c] = Len(Source(c))
    BY <1>1, <1>5 DEF FetchEmpty, AtEnd, Goto, CursorInv
  <2>2. StateOf(c) = "running" /\ StateOf(c)' = "ok"
    BY <1>1, <2>1 DEF StateOf, Running
  <2>3. \A d \in Calls : d # c => StateOf(d)' = StateOf(d)
    BY <1>1, <2>1 DEF StateOf, Running
  <2>4. \A d \in Calls : Durable(d)' = Durable(d) /\ Len(Source(d))' = Len(Source(d))
    BY <2>1 DEF Durable, Mine, Applied, Source
  <2>5. Durable(c) = Positions(0, Len(Source(c)))
    BY <2>1, DurableIsDone
  <2>6. Ledger!Succeed(c)
    BY <2>1, <2>2, <2>3, <2>4, <2>5 DEF Ledger!Succeed, Ledger!Positions, Positions
  <2> QED
    BY <2>6
<1>6. CASE CommitWrite(c) \/ CommitMerge(c)
  <2>1. Ledger!Apply(c)
    BY <1>6, CommitImplements DEF CommitWrite, CommitMerge
  <2> QED
    BY <2>1
<1>7. CASE \/ FetchRejected(c) \/ HandleRejected(c) \/ CommitRefused(c)
           \/ GuardAborts(c) \/ Interrupted(c)
  <2>1. \E l \in {"error", "guard"} :
           Running(c) /\ Goto(c, l) /\ UNCHANGED <<log, args>>
    BY <1>7 DEF FetchRejected, HandleRejected, CommitRefused, GuardAborts,
                Interrupted, Running
  <2>2. Ledger!Fail(c)
    BY <2>1, StopImplements
  <2> QED
    BY <2>2
<1> QED
  BY <1>2, <1>3, <1>4, <1>5, <1>6, <1>7 DEF Step, Progress

LEMMA NextImplements ==
    IInv /\ IInv' /\ [Next]_vars => [Ledger!Next]_Ledger!lvars
<1> SUFFICES ASSUME IInv, IInv', [Next]_vars PROVE [Ledger!Next]_Ledger!lvars
  OBVIOUS
<1>1. ASSUME NEW c \in Calls, Step(c) PROVE [Ledger!Next]_Ledger!lvars
  BY <1>1, StepImplements
<1>2. CASE UNCHANGED vars
  BY <1>2, StutterImplements DEF vars, StateOf, Running
<1> QED
  BY <1>1, <1>2 DEF Next, Finished

\* The write path implements the ledger (ImplementsLedger): what a call has made
\* durable, read off the log, grows chunk by chunk, and success is reported for
\* the whole source only.
THEOREM Implementation == Spec => ImplementsLedger
BY InitImplements, NextImplements, Invariance, PTL
   DEF Spec, ImplementsLedger, Ledger!Spec
=============================================================================
