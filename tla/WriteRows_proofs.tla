-------------------------- MODULE WriteRows_proofs --------------------------
(***************************************************************************)
(* Proofs about the rows concurrent writers leave in the table, for any    *)
(* number of calls, any arguments, any chunk size and any source.  They    *)
(* rest on the invariant of WritePath_proofs, which does not look at rows. *)
(***************************************************************************)
EXTENDS WritePath_proofs, MergeResult, FiniteSetTheorems, FunctionTheorems

(* The invariant about rows.                                               *)

\* The rows of version v of call c, as they were inserted.
Batch(c, v) == Inserted(Source(c), Applied(v), c, v)

\* The rows of call c that the table shows.
Shown(c) == { r \in Newest : r.by = c }

\* As long as only appends follow the commits of a lance_append, the table
\* shows exactly the rows it inserted.
StayInv(c) ==
    ~Merges(c) /\ (\A v \in Mine(c) : \A w \in v + 1 .. Len(log) :
                       log[w].op = "append")
    => Shown(c) = UNION { Batch(c, v) : v \in Mine(c) }

\* The first commit of an overwrite replaces the table, and it knows whether it
\* has made it.
ReplaceInv(c) ==
    args[c].op = "overwrite" =>
        /\ first[c] <=> Mine(c) = {}
        /\ \A v \in Mine(c) : (\A u \in Mine(c) : v <= u) => log[v].op = "overwrite"

\* Once the table was replaced, its rows were inserted by that commit or later.
ReplacedGone ==
    \A v, w \in DOMAIN log : v <= w /\ log[v].op = "overwrite" =>
        \A r \in log[w].rows : r.id[1] >= v

\* A row has an id of its own, and is in every version from the one that
\* inserted it on: rows come once and, when they go, do not come back.
IdInv(u) ==
    \A r \in log[u].rows :
        /\ r.id[1] \in 1 .. u
        /\ \A s \in log[u].rows : s.id = r.id => s = r
        /\ \A t \in r.id[1] .. u : \E s \in log[t].rows : s.id = r.id

\* A row that call c inserted keeps the key it has in the source.
KeyInv(c) ==
    \A u \in DOMAIN log : \A r \in log[u].rows : r.id[1] \in Mine(c) =>
        /\ r.id[2] \in DOMAIN Source(c)
        /\ r.key = Source(c)[r.id[2]]

\* A merge without a repeated key in a chunk inserted no key twice.
OnceInv(c) ==
    Merges(c) /\ DistinctInChunks(args[c]) =>
        \A u \in DOMAIN log : \A r, s \in log[u].rows :
            r.id[1] \in Mine(c) /\ s.id[1] \in Mine(c) /\ r.key = s.key
            => r.id = s.id

\* Chunks begin at the multiples of the chunk size.
AlignedInv(c) ==
    args[c].chunk # 0 /\ done[c] < Len(Source(c)) =>
        \E m \in 0 .. done[c] : done[c] = m * args[c].chunk

RowsInv ==
    /\ \A c \in Calls : /\ StayInv(c) /\ ReplaceInv(c)
                        /\ KeyInv(c) /\ OnceInv(c) /\ AlignedInv(c)
    /\ \A u \in DOMAIN log : IdInv(u)
    /\ ReplacedGone

-----------------------------------------------------------------------------
(* What a commit does to the rows.                                         *)

\* Row r is inserted by the commit call c is about to make.
Fresh(c, r) == r \in Inserted(Source(c), Chunk(c), c, Len(log) + 1)

\* Row r has the id and the key of a row that is in the table.
Carried(r) == \E s \in Newest : s.id = r.id /\ s.key = r.key

\* R is what a commit of call c may leave: rows of the table, or of c; under
\* ids of their own; with keys that the base of a merge did not have.
Lands(c, R) ==
    /\ R \subseteq Row
    /\ \A r \in R :
         /\ r \in Newest \/ r.by = c
         /\ \/ Carried(r)
            \/ Fresh(c, r) /\ (Merges(c) => \A b \in Base(c) : b.key # r.key)
         /\ \A s \in R : s.id = r.id => s = r
    /\ ~Merges(c) =>
         R = (IF WriteMode(c) = "append" THEN Newest ELSE {})
               \union Inserted(Source(c), Chunk(c), c, Len(log) + 1)

\* Call c commits a version with the rows R.
Commits(c, R) ==
    /\ pc[c] = "commit"
    /\ Lands(c, R)
    /\ log' = Append(log, Entry(c, R))
    /\ done' = [done EXCEPT ![c] = total[c]]
    /\ args' = args
    /\ first'[c] = FALSE \/ Merges(c)
    /\ \A d \in Calls \ {c} : first'[d] = first[d]

\* The rows of the table have ids of their own, none of them in the future.
LEMMA NewestRows ==
    ASSUME IInv, RowsInv
    PROVE  /\ Newest \subseteq Row
           /\ \A r \in Newest : /\ Len(log) \in DOMAIN log
                                /\ r \in log[Len(log)].rows
                                /\ r.id[1] \in 1 .. Len(log)
           /\ \A r, s \in Newest : r.id = s.id => r = s
<1>1. log \in Seq(Version) /\ Len(log) \in Nat /\ DOMAIN log = 1 .. Len(log)
  BY DEF IInv, TypeOK
<1>2. Newest \subseteq Row
  BY <1>1, VisibleRows DEF IInv, Newest, Latest
<1>3. \A r \in Newest : Len(log) \in DOMAIN log /\ r \in log[Len(log)].rows
  BY <1>1 DEF Newest, RowsAt, Latest
<1>4. \A r \in Newest : IdInv(Len(log))
  BY <1>3 DEF RowsInv
<1> QED
  BY <1>2, <1>3, <1>4 DEF IdInv

\* The rows of one commit have ids of their own, and none has them yet.
LEMMA FreshRows ==
    ASSUME IInv, NEW c \in Calls, pc[c] = "commit", NEW r, Fresh(c, r)
    PROVE  /\ r.id = <<Len(log) + 1, r.pos>> /\ r.id[1] = Len(log) + 1
           /\ r.id[2] = r.pos /\ r.by = c
           /\ r.pos \in Chunk(c) /\ r.pos \in DOMAIN Source(c)
           /\ r.key = Source(c)[r.pos] /\ r \in Row
           /\ r = [id |-> <<Len(log) + 1, r.pos>>, key |-> Source(c)[r.pos],
                   by |-> c, pos |-> r.pos]
<1>1. Chunk(c) \in SUBSET (1 .. Len(Source(c)))
  BY ArgumentsOfCall DEF IInv, CallInv, Chunk, Positions, CursorInv, TypeOK
<1>2. Source(c) \in Seq(Key) /\ Len(log) + 1 \in Nat
  BY ArgumentsOfCall DEF IInv, TypeOK
<1>3. PICK p \in Chunk(c) :
         r = [id |-> <<Len(log) + 1, p>>, key |-> Source(c)[p], by |-> c, pos |-> p]
  BY DEF Fresh, Inserted
<1>4. r.pos = p /\ r.id = <<Len(log) + 1, p>>
  BY <1>3
<1>5. r \in Row
  BY <1>1, <1>2, InsertedRows DEF Fresh
<1> QED
  BY <1>1, <1>2, <1>3, <1>4, <1>5

\* lance_append: the rows of the table stay as they are, or all go.
LEMMA CommitWriteLands ==
    ASSUME IInv, RowsInv, NEW c \in Calls, CommitWrite(c)
    PROVE  \E R : Commits(c, R)
<1> DEFINE R == RowsWritten(c)
<1>1. pc[c] = "commit" /\ ~Merges(c) /\ Latest(log) = Len(log)
  BY DEF CommitWrite, Latest
<1>2. R = (IF WriteMode(c) = "append" THEN Newest ELSE {})
            \union Inserted(Source(c), Chunk(c), c, Len(log) + 1)
  BY <1>1 DEF RowsWritten
<1>3. R \subseteq Row
  BY <1>1, CommittedRows
<1>4. \A r \in R : r \in Newest \/ Fresh(c, r)
  BY <1>2 DEF Fresh
<1>5. \A r \in R : r \in Newest \/ r.by = c
  BY <1>1, <1>4, FreshRows
<1>6. ASSUME NEW r \in R, NEW s \in R, s.id = r.id PROVE s = r
  <2>1. CASE r \in Newest /\ s \in Newest
    BY <2>1, <1>6, NewestRows
  <2>2. CASE Fresh(c, r) /\ Fresh(c, s)
    <3>1. s.pos = r.pos
      BY <1>1, <1>6, <2>2, FreshRows
    <3> QED
      BY <1>1, <2>2, <3>1, FreshRows
  <2>3. \A x, y : x \in Newest /\ Fresh(c, y) => x.id # y.id
    <3> SUFFICES ASSUME NEW x \in Newest, NEW y, Fresh(c, y) PROVE x.id[1] # y.id[1]
      OBVIOUS
    <3> QED
      BY <1>1, NewestRows, FreshRows DEF IInv, TypeOK
  <2> QED
    BY <1>4, <1>6, <2>1, <2>2, <2>3
<1>7. Lands(c, R)
  BY <1>1, <1>2, <1>3, <1>4, <1>5, <1>6 DEF Lands, Carried
<1>8. first'[c] = FALSE /\ \A d \in Calls \ {c} : first'[d] = first[d]
  BY DEF CommitWrite, IInv, TypeOK
<1> QED
  BY <1>1, <1>7, <1>8 DEF CommitWrite, Commits

\* In a merge that is not ambiguous a target row has one match at most.
LEMMA OneMatch ==
    ASSUME NEW T, NEW source, NEW n \in Nat, NEW P \in SUBSET (1 .. n),
           ~Ambiguous(T, source, P), NEW r \in T,
           NEW p \in MatchesOf(r, source, P), NEW q \in MatchesOf(r, source, P)
    PROVE  p = q
<1> DEFINE M == MatchesOf(r, source, P)
<1>1. IsFiniteSet(1 .. n)
  BY FS_Interval
<1>2. M \in SUBSET (1 .. n)
  BY DEF MatchesOf
<1>3. IsFiniteSet(M)
  BY <1>1, <1>2, FS_Subset
<1>4. Cardinality(M) \in Nat
  BY <1>3, FS_CardinalityType
<1>5. ~(Cardinality(M) > 1)
  BY DEF Ambiguous
<1>6. Cardinality(M) # 0
  BY <1>3, FS_EmptySet
<1>7. Cardinality(M) = 1
  BY <1>4, <1>5, <1>6
<1>8. PICK x : M = {x}
  BY <1>3, <1>7, FS_Singleton
<1> QED
  BY <1>8

\* lance_merge_insert: rows that are not replaced stay, rows that are replaced
\* keep their id and key, and the keys of new rows were not in its base.
LEMMA CommitMergeLands ==
    ASSUME IInv, RowsInv, NEW c \in Calls, CommitMerge(c)
    PROVE  \E R : Commits(c, R)
<1> DEFINE R == (Newest \ Removed(c)) \union Added(c)
           Refreshed(r) ==
             \E b \in Removed(c) :
                \E p \in MatchesOf(b, Source(c), Chunk(c)) :
                   r = [id |-> b.id, key |-> b.key, by |-> c, pos |-> p]
<1>1. /\ pc[c] = "commit" /\ Merges(c) /\ Latest(log) = Len(log)
      /\ Removed(c) \subseteq Newest /\ Removed(c) \subseteq Base(c)
  BY DEF CommitMerge, Contended, Latest, Removed, Rewritten
<1>2. R \subseteq Row
  BY <1>1, CommittedRows
<1>3. \A r \in Added(c) :
         \/ Refreshed(r)
         \/ Fresh(c, r) /\ \A b \in Base(c) : b.key # r.key
  <2> SUFFICES ASSUME NEW r \in Added(c), ~Refreshed(r)
               PROVE  Fresh(c, r) /\ \A b \in Base(c) : b.key # r.key
    OBVIOUS
  <2>1. ~(args[c].matched = "update" /\ r \in Updated(Base(c), Source(c), Chunk(c), c))
    BY DEF Removed, Rewritten, Updated
  <2>2. r \in Inserted(Source(c), Unmatched(Base(c), Source(c), Chunk(c)), c, Len(log) + 1)
    BY <1>1, <2>1 DEF Added
  <2> QED
    BY <2>2 DEF Inserted, Unmatched, Fresh
<1>4. \A r : Refreshed(r) => r.by = c /\ Carried(r)
  BY <1>1 DEF Carried
<1>5. \A r \in R :
         /\ r \in Newest \/ r.by = c
         /\ Carried(r) \/ (Fresh(c, r) /\ \A b \in Base(c) : b.key # r.key)
  BY <1>1, <1>3, <1>4, FreshRows DEF Carried
<1>6. ASSUME NEW r, NEW s, Refreshed(r), Refreshed(s), r.id = s.id PROVE r = s
  <2>1. PICK b \in Removed(c) : \E p \in MatchesOf(b, Source(c), Chunk(c)) :
           r = [id |-> b.id, key |-> b.key, by |-> c, pos |-> p]
    BY <1>6
  <2>2. PICK p \in MatchesOf(b, Source(c), Chunk(c)) :
           r = [id |-> b.id, key |-> b.key, by |-> c, pos |-> p]
    BY <2>1
  <2>3. PICK d \in Removed(c) : \E q \in MatchesOf(d, Source(c), Chunk(c)) :
           s = [id |-> d.id, key |-> d.key, by |-> c, pos |-> q]
    BY <1>6
  <2>4. PICK q \in MatchesOf(d, Source(c), Chunk(c)) :
           s = [id |-> d.id, key |-> d.key, by |-> c, pos |-> q]
    BY <2>3
  <2>5. b.id = d.id
    BY <1>6, <2>2, <2>4
  <2>6. b = d
    BY <1>1, <2>5, NewestRows
  <2>7. ~Ambiguous(Base(c), Source(c), Chunk(c))
    <3>1. args[c].matched = "update"
      BY DEF Removed
    <3>2. WriteMode(c) = "merge" /\ ~Refused(c)
      BY <1>1 DEF CommitMerge, WriteMode, Merges
    <3> QED
      BY <3>1, <3>2 DEF Refused
  <2>8. Len(Source(c)) \in Nat /\ Chunk(c) \in SUBSET (1 .. Len(Source(c)))
    BY <1>1, ArgumentsOfCall DEF IInv, CallInv, Chunk, Positions, CursorInv, TypeOK
  <2>9. p = q
    BY <1>1, <2>6, <2>7, <2>8, OneMatch
  <2> QED
    BY <2>2, <2>4, <2>6, <2>9
<1>7. ASSUME NEW r \in Newest \ Removed(c), NEW s, Refreshed(s) PROVE r.id # s.id
  BY <1>1, <1>7, NewestRows
<1>8. ASSUME NEW r, Fresh(c, r), NEW s, s \in Newest \/ Refreshed(s)
      PROVE  r.id # s.id
  <2>1. PICK t \in Newest : s.id = t.id
    BY <1>1, <1>8
  <2>2. r.id[1] = Len(log) + 1
    BY <1>1, <1>8, FreshRows
  <2>3. t.id[1] \in 1 .. Len(log)
    BY NewestRows
  <2>4. Len(log) \in Nat
    BY DEF IInv, TypeOK
  <2>5. r.id[1] # t.id[1]
    BY <2>2, <2>3, <2>4
  <2> QED
    BY <2>1, <2>5
<1>9. ASSUME NEW r, NEW s, Fresh(c, r), Fresh(c, s), r.id = s.id PROVE r = s
  <2>1. s.pos = r.pos
    BY <1>1, <1>9, FreshRows
  <2> QED
    BY <1>1, <1>9, <2>1, FreshRows
<1>10. ASSUME NEW r \in R, NEW s \in R, s.id = r.id PROVE s = r
  <2>1. /\ r \in Newest \ Removed(c) \/ Refreshed(r) \/ Fresh(c, r)
        /\ s \in Newest \ Removed(c) \/ Refreshed(s) \/ Fresh(c, s)
    BY <1>3
  <2>2. CASE r \in Newest \ Removed(c)
    BY <1>7, <1>8, <1>10, <2>1, <2>2, NewestRows
  <2>3. CASE Refreshed(r)
    BY <1>6, <1>7, <1>8, <1>10, <2>1, <2>3
  <2>4. CASE Fresh(c, r)
    BY <1>8, <1>9, <1>10, <2>1, <2>4
  <2> QED
    BY <2>1, <2>2, <2>3, <2>4
<1>11. Lands(c, R)
  BY <1>1, <1>2, <1>5, <1>10 DEF Lands
<1> QED
  BY <1>1, <1>11 DEF CommitMerge, Commits

-----------------------------------------------------------------------------
(* A commit keeps the invariant about rows.                                *)

\* The log, and what is read off it, after a commit of call c.
LEMMA AfterCommit ==
    ASSUME IInv, NEW c \in Calls, NEW R, Commits(c, R)
    PROVE  /\ Len(log) \in Nat /\ DOMAIN log = 1 .. Len(log)
           /\ Len(log') = Len(log) + 1 /\ DOMAIN log' = 1 .. Len(log) + 1
           /\ \A u \in 1 .. Len(log) : log'[u] = log[u]
           /\ log'[Len(log) + 1] = Entry(c, R)
           /\ log'[Len(log) + 1].rows = R
           /\ log'[Len(log) + 1].op = WriteMode(c)
           /\ log'[Len(log) + 1].lo = done[c]
           /\ log'[Len(log) + 1].hi = total[c]
           /\ Newest' = R
           /\ \A d \in Calls :
                /\ Mine(d)' = IF d = c THEN Mine(d) \union {Len(log) + 1} ELSE Mine(d)
                /\ Mine(d) \subseteq 1 .. Len(log)
                /\ Source(d)' = Source(d) /\ Merges(d)' = Merges(d)
<1>1. log \in Seq(Version) /\ log' = Append(log, Entry(c, R))
  BY DEF IInv, TypeOK, Commits
<1>2. /\ Len(log) \in Nat /\ DOMAIN log = 1 .. Len(log)
      /\ Len(log') = Len(log) + 1 /\ DOMAIN log' = 1 .. Len(log) + 1
      /\ \A u \in 1 .. Len(log) : log'[u] = log[u]
      /\ log'[Len(log) + 1] = Entry(c, R)
  BY <1>1, AppendedLog
<1>3. Newest' = R
  <2>1. Newest' = log'[Len(log) + 1].rows
    BY <1>2 DEF Newest, RowsAt, Latest
  <2> QED
    BY <1>2, <2>1 DEF Entry
<1>4. Entry(c, R).by = c
  BY DEF Entry
<1>5. ASSUME NEW d \in Calls
      PROVE  /\ Mine(d)' = IF d = c THEN Mine(d) \union {Len(log) + 1} ELSE Mine(d)
             /\ Mine(d) \subseteq 1 .. Len(log)
             /\ Source(d)' = Source(d) /\ Merges(d)' = Merges(d)
  <2>1. Mine(d)' = IF d = c THEN Mine(d) \union {Len(log) + 1} ELSE Mine(d)
    BY <1>1, <1>4, MineAfterCommit DEF IInv
  <2>2. Mine(d) \subseteq 1 .. Len(log)
    BY <1>2 DEF Mine
  <2>3. Source(d)' = Source(d) /\ Merges(d)' = Merges(d)
    BY DEF Commits, Source, Merges
  <2> QED
    BY <2>1, <2>2, <2>3
<1> QED
  BY <1>2, <1>3, <1>5 DEF Entry

\* Ids stay unique, and rows still come once.
LEMMA IdKept ==
    ASSUME IInv, RowsInv, NEW c \in Calls, NEW R, Commits(c, R),
           NEW u \in DOMAIN log'
    PROVE  IdInv(u)'
<1> DEFINE n == Len(log) + 1
<1>1. /\ Len(log) \in Nat /\ DOMAIN log' = 1 .. n /\ DOMAIN log = 1 .. Len(log)
      /\ \A v \in 1 .. Len(log) : log'[v] = log[v]
      /\ log'[n].rows = R
  BY AfterCommit
<1>2. CASE u \in 1 .. Len(log)
  <2>1. IdInv(u)
    BY <1>1, <1>2 DEF RowsInv
  <2>2. \A r \in log[u].rows : r.id[1] \in 1 .. u
                  /\ \A t \in r.id[1] .. u : t \in 1 .. Len(log)
    BY <1>1, <1>2, <2>1 DEF IdInv
  <2> QED
    BY <1>1, <1>2, <2>1, <2>2 DEF IdInv
<1>3. CASE u = n
  <2> SUFFICES ASSUME NEW r \in R
               PROVE  /\ r.id[1] \in 1 .. n
                      /\ \A s \in R : s.id = r.id => s = r
                      /\ \A t \in r.id[1] .. n : \E s \in log'[t].rows : s.id = r.id
    BY <1>1, <1>3 DEF IdInv
  <2>1. \A s \in R : s.id = r.id => s = r
    BY DEF Commits, Lands
  <2>2. CASE Carried(r)
    <3>1. PICK s \in Newest : s.id = r.id
      BY <2>2 DEF Carried
    <3>2. r.id[1] \in 1 .. Len(log) /\ Len(log) \in DOMAIN log
          /\ s \in log[Len(log)].rows
      BY <3>1, NewestRows
    <3>3. IdInv(Len(log))
      BY <3>2 DEF RowsInv
    <3>4. \A t \in r.id[1] .. Len(log) : \E x \in log[t].rows : x.id = r.id
      BY <3>1, <3>2, <3>3 DEF IdInv
    <3>5. \A t \in r.id[1] .. Len(log) : \E x \in log'[t].rows : x.id = r.id
      BY <1>1, <3>2, <3>4
    <3>6. \A t \in r.id[1] .. n : t = n \/ t \in r.id[1] .. Len(log)
      BY <1>1, <3>2
    <3> QED
      BY <1>1, <2>1, <3>2, <3>5, <3>6
  <2>3. CASE Fresh(c, r)
    <3>1. r.id[1] = n
      BY <2>3, FreshRows DEF Commits
    <3> QED
      BY <1>1, <2>1, <3>1
  <2> QED
    BY <2>2, <2>3 DEF Commits, Lands
<1> QED
  BY <1>1, <1>2, <1>3

\* Keys stay the keys of the source.
LEMMA KeyKept ==
    ASSUME IInv, RowsInv, NEW c \in Calls, NEW R, Commits(c, R), NEW d \in Calls
    PROVE  KeyInv(d)'
<1> DEFINE n == Len(log) + 1
<1>1. /\ Len(log) \in Nat /\ DOMAIN log' = 1 .. n /\ DOMAIN log = 1 .. Len(log)
      /\ \A v \in 1 .. Len(log) : log'[v] = log[v]
      /\ log'[n].rows = R
      /\ Mine(d)' = IF d = c THEN Mine(d) \union {n} ELSE Mine(d)
      /\ Mine(d) \subseteq 1 .. Len(log)
      /\ Source(d)' = Source(d)
  BY AfterCommit
<1> SUFFICES ASSUME NEW u \in 1 .. n, NEW r \in log'[u].rows, r.id[1] \in Mine(d)'
             PROVE  r.id[2] \in DOMAIN Source(d) /\ r.key = Source(d)[r.id[2]]
  BY <1>1 DEF KeyInv
<1>2. KeyInv(d)
  BY DEF RowsInv
<1>3. CASE u \in 1 .. Len(log)
  <2>1. r \in log[u].rows /\ IdInv(u)
    BY <1>1, <1>3 DEF RowsInv
  <2>2. r.id[1] \in 1 .. Len(log)
    BY <1>1, <1>3, <2>1 DEF IdInv
  <2>3. r.id[1] \in Mine(d)
    BY <1>1, <2>2
  <2> QED
    BY <1>1, <1>2, <1>3, <2>1, <2>3 DEF KeyInv
<1>4. CASE u = n /\ Carried(r)
  <2>1. PICK s \in Newest : s.id = r.id /\ s.key = r.key
    BY <1>4 DEF Carried
  <2>2. r.id[1] \in 1 .. Len(log) /\ Len(log) \in DOMAIN log
        /\ s \in log[Len(log)].rows
    BY <2>1, NewestRows
  <2>3. s.id[1] \in Mine(d)
    BY <1>1, <2>1, <2>2
  <2> QED
    BY <1>2, <2>1, <2>2, <2>3 DEF KeyInv
<1>5. CASE u = n /\ Fresh(c, r)
  <2>1. r.id[1] = n /\ r.id[2] = r.pos /\ r.pos \in DOMAIN Source(c)
        /\ r.key = Source(c)[r.pos]
    BY <1>5, FreshRows DEF Commits
  <2>2. d = c
    BY <1>1, <2>1
  <2> QED
    BY <2>1, <2>2
<1>6. u = n => Carried(r) \/ Fresh(c, r)
  BY <1>1 DEF Commits, Lands
<1> QED
  BY <1>1, <1>3, <1>4, <1>5, <1>6

\* The first commit of an overwrite is the one that replaces the table.
LEMMA ReplaceKept ==
    ASSUME IInv, RowsInv, NEW c \in Calls, NEW R, Commits(c, R), NEW d \in Calls
    PROVE  ReplaceInv(d)'
<1> DEFINE n == Len(log) + 1
<1>1. /\ \A v \in 1 .. Len(log) : log'[v] = log[v]
      /\ log'[n].op = WriteMode(c)
      /\ Mine(d)' = IF d = c THEN Mine(d) \union {n} ELSE Mine(d)
      /\ Mine(d) \subseteq 1 .. Len(log)
  BY AfterCommit
<1>2. ReplaceInv(d) /\ args' = args
  BY DEF RowsInv, Commits
<1>3. CASE d # c
  <2>1. first'[d] = first[d]
    BY <1>3 DEF Commits
  <2> QED
    BY <1>1, <1>2, <1>3, <2>1 DEF ReplaceInv
<1>4. CASE d = c
  <2> SUFFICES ASSUME args[d].op = "overwrite" PROVE ReplaceInv(d)'
    BY <1>2 DEF ReplaceInv
  <2>1. ~first'[d] /\ n \in Mine(d)'
    BY <1>1, <1>4 DEF Commits, Merges
  <2>2. CASE first[d]
    <3>1. Mine(d)' = {n} /\ log'[n].op = "overwrite"
      BY <1>1, <1>2, <1>4, <2>2 DEF ReplaceInv, WriteMode, Merges
    <3> QED
      BY <2>1, <3>1 DEF ReplaceInv
  <2>3. CASE ~first[d]
    <3>1. Mine(d) # {} /\ Len(log) \in Nat
      BY <1>2, <2>3 DEF ReplaceInv, IInv, TypeOK
    <3>2. ASSUME NEW v \in Mine(d)', \A u \in Mine(d)' : v <= u
          PROVE  log'[v].op = "overwrite"
      <4>1. v # n
        <5>1. PICK u \in Mine(d) : TRUE
          BY <3>1
        <5> QED
          BY <1>1, <1>4, <3>1, <3>2, <5>1
      <4>2. v \in Mine(d) /\ \A u \in Mine(d) : v <= u
        BY <1>1, <1>4, <3>2, <4>1
      <4> QED
        BY <1>1, <1>2, <4>2 DEF ReplaceInv
    <3> QED
      BY <1>2, <2>1, <3>2 DEF ReplaceInv
  <2> QED
    BY <2>2, <2>3
<1> QED
  BY <1>3, <1>4

\* A commit brings no row of a replaced table back.
LEMMA ReplacedStaysGone ==
    ASSUME IInv, RowsInv, NEW c \in Calls, NEW R, Commits(c, R)
    PROVE  ReplacedGone'
<1> DEFINE n == Len(log) + 1
<1>1. /\ Len(log) \in Nat /\ DOMAIN log' = 1 .. n /\ DOMAIN log = 1 .. Len(log)
      /\ \A v \in 1 .. Len(log) : log'[v] = log[v]
      /\ log'[n].op = WriteMode(c) /\ log'[n].rows = R
  BY AfterCommit
<1> SUFFICES ASSUME NEW v \in 1 .. n, NEW w \in 1 .. n, v <= w,
                    log'[v].op = "overwrite", NEW r \in log'[w].rows
             PROVE  r.id[1] >= v
  BY <1>1 DEF ReplacedGone
<1>2. CASE w \in 1 .. Len(log)
  BY <1>1, <1>2 DEF RowsInv, ReplacedGone
<1>3. CASE w = n /\ Fresh(c, r)
  BY <1>1, <1>3, FreshRows DEF Commits
<1>4. CASE w = n /\ v = n
  <2>1. WriteMode(c) = "overwrite" /\ ~Merges(c)
    BY <1>1, <1>4 DEF WriteMode, Merges
  <2>2. Fresh(c, r)
    BY <1>1, <1>4, <2>1 DEF Commits, Lands, Fresh
  <2> QED
    BY <1>3, <1>4, <2>2
<1>5. CASE w = n /\ v \in 1 .. Len(log) /\ Carried(r)
  <2>1. PICK s \in Newest : s.id = r.id
    BY <1>5 DEF Carried
  <2>2. /\ Len(log) \in DOMAIN log /\ s \in log[Len(log)].rows
        /\ v \in DOMAIN log /\ v <= Len(log) /\ log[v].op = "overwrite"
    BY <1>1, <1>5, NewestRows
  <2>3. s.id[1] >= v
    BY <2>2 DEF RowsInv, ReplacedGone
  <2> QED
    BY <2>1, <2>3
<1>6. w = n => Carried(r) \/ Fresh(c, r)
  BY <1>1 DEF Commits, Lands
<1> QED
  BY <1>1, <1>2, <1>3, <1>4, <1>5, <1>6

LEMMA OneMoreMultiple ==
    ASSUME NEW m \in Nat, NEW k \in Nat
    PROVE  (m + 1) * k = m * k + k
OBVIOUS

\* The next chunk begins a chunk size further on.
LEMMA AlignedKept ==
    ASSUME IInv, RowsInv, NEW c \in Calls, NEW R, Commits(c, R), NEW d \in Calls
    PROVE  AlignedInv(d)'
<1>1. AlignedInv(d) /\ args' = args /\ Source(d)' = Source(d)
  BY DEF RowsInv, Commits, Source
<1>2. CASE d # c
  <2>1. done'[d] = done[d]
    BY <1>2 DEF Commits
  <2> QED
    BY <1>1, <2>1 DEF AlignedInv
<1>3. CASE d = c
  <2> DEFINE k == args[c].chunk  len == Len(Source(c))
  <2>1. /\ done[c] \in Nat /\ total[c] \in Nat /\ k \in Nat /\ len \in Nat
        /\ done'[c] = total[c]
    BY ArgumentsOfCall DEF IInv, TypeOK, Commits
  <2>2. done[c] < total[c] /\ total[c] = NextStop(len, k, done[c])
    BY DEF IInv, CallInv, CursorInv, Commits
  <2> SUFFICES ASSUME k # 0, total[c] < len
               PROVE  \E m \in 0 .. total[c] : total[c] = m * k
    BY <1>1, <1>3, <2>1 DEF AlignedInv
  <2>3. total[c] = done[c] + k
    BY <2>1, <2>2 DEF NextStop
  <2>4. done[c] < len
    BY <2>1, <2>2
  <2>5. PICK m \in 0 .. done[c] : done[c] = m * k
    BY <1>1, <1>3, <2>4 DEF AlignedInv
  <2>6. m + 1 \in 0 .. total[c]
    BY <2>1, <2>3, <2>5
  <2>7. (m + 1) * k = m * k + k
    BY <2>1, OneMoreMultiple
  <2> QED
    BY <2>3, <2>5, <2>6, <2>7
<1> QED
  BY <1>2, <1>3

\* Appends add their rows to those that are shown.
LEMMA StayKept ==
    ASSUME IInv, RowsInv, NEW c \in Calls, NEW R, Commits(c, R), NEW d \in Calls
    PROVE  StayInv(d)'
<1> DEFINE n == Len(log) + 1
<1>1. /\ Len(log) \in Nat /\ DOMAIN log' = 1 .. n /\ DOMAIN log = 1 .. Len(log)
      /\ Len(log') = n
      /\ \A v \in 1 .. Len(log) : log'[v] = log[v]
      /\ log'[n].rows = R /\ log'[n].op = WriteMode(c)
      /\ log'[n].lo = done[c] /\ log'[n].hi = total[c]
      /\ Mine(d)' = IF d = c THEN Mine(d) \union {n} ELSE Mine(d)
      /\ Mine(d) \subseteq 1 .. Len(log)
      /\ Source(d)' = Source(d) /\ Merges(d)' = Merges(d)
      /\ Newest' = R
  BY AfterCommit
<1> SUFFICES ASSUME ~Merges(d),
                    \A v \in Mine(d)' : \A w \in v + 1 .. n : log'[w].op = "append"
             PROVE  Shown(d)' = UNION { Batch(d, v)' : v \in Mine(d)' }
  BY <1>1 DEF StayInv
<1>2. \A v \in Mine(d) : \A w \in v + 1 .. Len(log) : log[w].op = "append"
  <2> SUFFICES ASSUME NEW v \in Mine(d), NEW w \in v + 1 .. Len(log)
               PROVE  log[w].op = "append"
    OBVIOUS
  <2>1. w \in 1 .. Len(log) /\ w \in v + 1 .. n /\ v \in Mine(d)'
    BY <1>1
  <2> QED
    BY <1>1, <2>1
<1>3. Shown(d) = UNION { Batch(d, v) : v \in Mine(d) }
  BY <1>2 DEF RowsInv, StayInv
<1>4. \A v \in Mine(d) : Batch(d, v)' = Batch(d, v)
  BY <1>1 DEF Batch, Applied
<1>5. Mine(d) = {} \/ WriteMode(c) = "append"
  <2> SUFFICES ASSUME NEW v \in Mine(d) PROVE WriteMode(c) = "append"
    OBVIOUS
  <2>1. v \in Mine(d)' /\ n \in v + 1 .. n
    BY <1>1
  <2> QED
    BY <1>1, <2>1
<1>6. Mine(d) = {} => Shown(d) = {}
  BY <1>3
<1>7. Shown(d)' = { r \in R : r.by = d }
  BY <1>1 DEF Shown
<1>8. CASE d = c
  <2>1. R = (IF WriteMode(c) = "append" THEN Newest ELSE {})
              \union Inserted(Source(c), Chunk(c), c, n)
    BY <1>8 DEF Commits, Lands
  <2>2. \A r \in Inserted(Source(c), Chunk(c), c, n) : r.by = c
    BY DEF Inserted
  <2>3. Shown(d)' = Shown(d) \union Inserted(Source(c), Chunk(c), c, n)
    BY <1>5, <1>6, <1>7, <1>8, <2>1, <2>2 DEF Shown
  <2>4. \A v : v = n => Batch(d, v)' = Inserted(Source(c), Chunk(c), c, n)
    BY <1>1, <1>8 DEF Batch, Applied, Chunk
  <2>5. Mine(d)' = Mine(d) \union {n}
    BY <1>1, <1>8
  <2>6. { Batch(d, v)' : v \in Mine(d)' }
          = { Batch(d, v)' : v \in Mine(d) }
              \union {Inserted(Source(c), Chunk(c), c, n)}
    BY <2>4, <2>5
  <2>7. { Batch(d, v)' : v \in Mine(d) } = { Batch(d, v) : v \in Mine(d) }
    BY <1>4
  <2> QED
    BY <1>3, <2>3, <2>6, <2>7
<1>9. CASE d # c
  <2>1. \A r \in R : r.by = d => r \in Newest
    BY <1>9 DEF Commits, Lands
  <2>2. Shown(d)' = Shown(d)
    <3>1. CASE WriteMode(c) = "append"
      <4>1. ~Merges(c)
        BY <3>1 DEF WriteMode, Merges
      <4> QED
        BY <1>7, <2>1, <3>1, <4>1 DEF Commits, Lands, Shown
    <3>2. CASE Mine(d) = {}
      BY <1>6, <1>7, <2>1, <3>2 DEF Shown
    <3> QED
      BY <1>5, <3>1, <3>2
  <2> QED
    BY <1>1, <1>3, <1>4, <1>9, <2>2
<1> QED
  BY <1>8, <1>9

LEMMA QuotientOf ==
    ASSUME NEW m \in Nat, NEW k \in Nat, k # 0,
           NEW y \in Nat, m * k <= y, y < m * k + k
    PROVE  y \div k = m
OBVIOUS

\* The positions of one chunk have the same quotient by the chunk size.
LEMMA SameQuotient ==
    ASSUME NEW k \in Nat, k # 0, NEW lo \in Nat, NEW hi \in Nat, hi <= lo + k,
           \E m \in 0 .. lo : lo = m * k, NEW x \in lo + 1 .. hi
    PROVE  x - 1 \in Nat /\ \A m \in 0 .. lo : lo = m * k => (x - 1) \div k = m
<1>1. PICK y \in Nat : y = x - 1
  OBVIOUS
<1>2. lo <= y /\ y < lo + k
  BY <1>1
<1>3. ASSUME NEW m \in 0 .. lo, lo = m * k PROVE y \div k = m
  <2>1. m * k <= y /\ y < m * k + k
    BY <1>2, <1>3
  <2> QED
    BY <2>1, QuotientOf
<1> QED
  BY <1>1, <1>3

\* The chunk in hand has a key once when equal keys are in different chunks.
LEMMA ChunkHasKeyOnce ==
    ASSUME IInv, RowsInv, NEW c \in Calls, pc[c] = "commit",
           DistinctInChunks(args[c]), NEW p \in Chunk(c), NEW q \in Chunk(c),
           Source(c)[p] = Source(c)[q]
    PROVE  p = q
<1> DEFINE k == args[c].chunk  len == Len(Source(c))
<1>1. /\ done[c] \in Nat /\ total[c] \in Nat /\ k \in Nat /\ len \in Nat
      /\ Source(c) \in Seq(Key)
  BY ArgumentsOfCall DEF IInv, TypeOK
<1>2. /\ done[c] < total[c] /\ total[c] <= len
      /\ total[c] = NextStop(len, k, done[c])
  BY DEF IInv, CallInv, CursorInv
<1>3. Chunk(c) = done[c] + 1 .. total[c] /\ Chunk(c) \subseteq DOMAIN Source(c)
  BY <1>1, <1>2 DEF Chunk, Positions
<1>4. ASSUME NEW x \in Chunk(c), NEW y \in Chunk(c), x < y,
             Source(c)[x] = Source(c)[y]
      PROVE  FALSE
  <2>1. k # 0 /\ (x - 1) \div k # (y - 1) \div k
    BY <1>3, <1>4 DEF DistinctInChunks, Source
  <2>2. PICK m \in 0 .. done[c] : done[c] = m * k
    BY <1>1, <1>2, <2>1 DEF RowsInv, AlignedInv
  <2>3. total[c] <= done[c] + k
    BY <1>1, <1>2, <2>1 DEF NextStop
  <2>4. x \in done[c] + 1 .. total[c] /\ y \in done[c] + 1 .. total[c]
    BY <1>3
  <2>5. (x - 1) \div k = m
    BY <1>1, <2>1, <2>2, <2>3, <2>4, SameQuotient
  <2>6. (y - 1) \div k = m
    BY <1>1, <2>1, <2>2, <2>3, <2>4, SameQuotient
  <2> QED
    BY <2>1, <2>5, <2>6
<1>5. p \in Nat /\ q \in Nat
  BY <1>1, <1>3
<1> QED
  BY <1>4, <1>5

\* A row a merge inserts has a key that none of its call's rows has: those that
\* are in the table were in its base, which has all commits of the call.
LEMMA FreshKeyIsNew ==
    ASSUME IInv, RowsInv, NEW c \in Calls, pc[c] = "commit", Merges(c),
           NEW r, Fresh(c, r), \A b \in Base(c) : b.key # r.key,
           NEW s \in Newest, s.id[1] \in Mine(c)
    PROVE  s.key # r.key
<1>1. /\ Len(log) \in DOMAIN log /\ s \in log[Len(log)].rows
      /\ s.id[1] \in 1 .. Len(log) /\ Len(log) \in Nat
      /\ DOMAIN log = 1 .. Len(log)
  BY NewestRows DEF IInv, TypeOK
<1>2. s.id[1] <= readv[c] /\ readv[c] \in 0 .. Len(log)
  BY DEF IInv, TypeOK, CallInv, HandleInv
<1>3. readv[c] \in s.id[1] .. Len(log) /\ readv[c] # 0 /\ readv[c] \in DOMAIN log
  BY <1>1, <1>2
<1>4. IdInv(Len(log)) /\ KeyInv(c)
  BY <1>1 DEF RowsInv
<1>5. PICK b \in log[readv[c]].rows : b.id = s.id
  BY <1>1, <1>3, <1>4 DEF IdInv
<1>6. b \in Base(c)
  BY <1>3, <1>5 DEF Base, RowsAt
<1>7. b.key = s.key
  BY <1>1, <1>3, <1>4, <1>5 DEF KeyInv
<1> QED
  BY <1>6, <1>7

\* No call of a merge inserts a key it inserted before.
LEMMA OnceKept ==
    ASSUME IInv, RowsInv, NEW c \in Calls, NEW R, Commits(c, R), NEW d \in Calls
    PROVE  OnceInv(d)'
<1> DEFINE n == Len(log) + 1
<1>1. /\ Len(log) \in Nat /\ DOMAIN log' = 1 .. n /\ DOMAIN log = 1 .. Len(log)
      /\ \A v \in 1 .. Len(log) : log'[v] = log[v]
      /\ log'[n].rows = R
      /\ Mine(d)' = IF d = c THEN Mine(d) \union {n} ELSE Mine(d)
      /\ Mine(d) \subseteq 1 .. Len(log)
      /\ Merges(d)' = Merges(d) /\ args' = args
  BY AfterCommit DEF Commits
<1> SUFFICES ASSUME Merges(d), DistinctInChunks(args[d]), NEW u \in 1 .. n,
                    NEW r \in log'[u].rows, NEW s \in log'[u].rows,
                    r.id[1] \in Mine(d)', s.id[1] \in Mine(d)', r.key = s.key
             PROVE  r.id = s.id
  BY <1>1 DEF OnceInv
<1>2. OnceInv(d)
  BY DEF RowsInv
<1>3. CASE u \in 1 .. Len(log)
  <2>1. \A x \in log[u].rows : x.id[1] \in 1 .. Len(log)
    BY <1>1, <1>3 DEF RowsInv, IdInv
  <2>2. r.id[1] \in Mine(d) /\ s.id[1] \in Mine(d)
    BY <1>1, <1>3, <2>1
  <2> QED
    BY <1>1, <1>2, <1>3, <2>2 DEF OnceInv
<1>4. CASE u = n
  <2>1. r \in R /\ s \in R
    BY <1>1, <1>4
  <2>2. ASSUME NEW x \in R, Carried(x), x.id[1] \in Mine(d)'
        PROVE  \E y \in Newest : /\ y.id = x.id /\ y.key = x.key
                                 /\ y.id[1] \in Mine(d)
                                 /\ Len(log) \in DOMAIN log
                                 /\ y \in log[Len(log)].rows
    <3>1. PICK y \in Newest : y.id = x.id /\ y.key = x.key
      BY <2>2 DEF Carried
    <3>2. y.id[1] \in 1 .. Len(log) /\ Len(log) \in DOMAIN log
          /\ y \in log[Len(log)].rows
      BY NewestRows
    <3> QED
      BY <1>1, <2>2, <3>1, <3>2
  <2>3. ASSUME NEW x \in R, ~Carried(x), x.id[1] \in Mine(d)'
        PROVE  d = c /\ Fresh(c, x) /\ \A b \in Base(c) : b.key # x.key
    <3>1. Fresh(c, x) /\ (Merges(c) => \A b \in Base(c) : b.key # x.key)
      BY <2>3 DEF Commits, Lands
    <3>2. x.id[1] = n
      BY <3>1, FreshRows DEF Commits
    <3> QED
      BY <1>1, <2>3, <3>1, <3>2
  <2>4. ASSUME NEW x \in R, NEW y \in R, Carried(x), ~Carried(y),
               x.id[1] \in Mine(d)', y.id[1] \in Mine(d)'
        PROVE  x.key # y.key
    <3>1. PICK z \in Newest : z.id = x.id /\ z.key = x.key /\ z.id[1] \in Mine(d)
      BY <2>2, <2>4
    <3>2. d = c /\ Fresh(c, y) /\ \A b \in Base(c) : b.key # y.key
      BY <2>3, <2>4
    <3> QED
      BY <3>1, <3>2, FreshKeyIsNew DEF Commits
  <2>5. CASE Carried(r) /\ Carried(s)
    BY <1>2, <2>1, <2>2, <2>5 DEF OnceInv
  <2>6. CASE ~Carried(r) /\ ~Carried(s)
    <3>1. d = c /\ Fresh(c, r) /\ Fresh(c, s)
      BY <2>1, <2>3, <2>6
    <3>2. /\ r.pos \in Chunk(c) /\ s.pos \in Chunk(c)
          /\ r.id = <<n, r.pos>> /\ s.id = <<n, s.pos>>
          /\ r.key = Source(c)[r.pos] /\ s.key = Source(c)[s.pos]
      BY <3>1, FreshRows DEF Commits
    <3>3. r.pos = s.pos
      BY <3>1, <3>2, ChunkHasKeyOnce DEF Commits
    <3> QED
      BY <3>2, <3>3
  <2> QED
    BY <2>1, <2>4, <2>5, <2>6
<1> QED
  BY <1>1, <1>3, <1>4

-----------------------------------------------------------------------------
(* The invariant about rows is one.                                        *)

\* The only rows are those of the seed, with the ids <<1, 1>>, <<1, 2>>, ...
LEMMA InitRows == Init => RowsInv
<1> SUFFICES ASSUME Init PROVE RowsInv
  OBVIOUS
<1>1. IInv
  BY InitIInv
<1>2. \A v \in DOMAIN log : /\ v = 1 /\ Len(log) = 1 /\ log[v] = SeedVersion
                            /\ log[v].by = NoCall /\ log[v].op = "create"
                            /\ log[v].rows = Inserted(SeedKeys, DOMAIN SeedKeys, NoCall, 1)
  BY DEF Init, SeedVersion
<1>3. \A c \in Calls : Mine(c) = {}
  BY <1>2, NoCallAssumption DEF Mine
<1>4. \A v \in DOMAIN log : \A r \in log[v].rows :
         \E p \in DOMAIN SeedKeys :
            r = [id |-> <<1, p>>, key |-> SeedKeys[p], by |-> NoCall, pos |-> p]
  BY <1>2 DEF Inserted
<1>5. \A r \in Newest : r.by = NoCall
  <2>1. \A r \in Newest : \E v \in DOMAIN log : r \in log[v].rows
    BY <1>1 DEF IInv, TypeOK, Newest, RowsAt, Latest
  <2> QED
    BY <1>4, <2>1
<1>6. ASSUME NEW c \in Calls
      PROVE  StayInv(c) /\ ReplaceInv(c) /\ KeyInv(c) /\ OnceInv(c) /\ AlignedInv(c)
  <2>1. Shown(c) = {}
    BY <1>5, NoCallAssumption DEF Shown
  <2>2. StayInv(c)
    BY <1>3, <2>1 DEF StayInv
  <2>3. ReplaceInv(c) /\ KeyInv(c) /\ OnceInv(c)
    BY <1>3 DEF Init, ReplaceInv, KeyInv, OnceInv
  <2>4. args[c].chunk \in Nat /\ done[c] = 0
    BY <1>1, ArgumentsOfCall DEF IInv, Init
  <2>5. AlignedInv(c)
    BY <2>4 DEF AlignedInv
  <2> QED
    BY <2>2, <2>3, <2>5
<1>7. ASSUME NEW u \in DOMAIN log PROVE IdInv(u)
  <2>1. u = 1
    BY <1>2
  <2>2. ASSUME NEW r \in log[u].rows, NEW s \in log[u].rows, s.id = r.id
        PROVE  s = r
    <3>1. PICK p \in DOMAIN SeedKeys :
             r = [id |-> <<1, p>>, key |-> SeedKeys[p], by |-> NoCall, pos |-> p]
      BY <1>4
    <3>2. PICK q \in DOMAIN SeedKeys :
             s = [id |-> <<1, q>>, key |-> SeedKeys[q], by |-> NoCall, pos |-> q]
      BY <1>4
    <3>3. p = q
      BY <2>2, <3>1, <3>2
    <3> QED
      BY <3>1, <3>2, <3>3
  <2>3. \A r \in log[u].rows : r.id[1] = 1
    BY <1>4
  <2> QED
    BY <2>1, <2>2, <2>3 DEF IdInv
<1>8. ReplacedGone
  BY <1>2 DEF ReplacedGone
<1> QED
  BY <1>6, <1>7, <1>8 DEF RowsInv

\* A step that commits nothing leaves the rows, and what is said of them, alone.
LEMMA RowsUntouched ==
    ASSUME RowsInv, UNCHANGED <<log, args, done, first>>
    PROVE  RowsInv'
BY DEF RowsInv, StayInv, ReplaceInv, ReplacedGone, IdInv, KeyInv, OnceInv,
       AlignedInv, Shown, Batch, Mine, Applied, Merges, Source, Newest, Latest

LEMMA NextKeepsRows == IInv /\ RowsInv /\ [Next]_vars => RowsInv'
<1> SUFFICES ASSUME IInv, RowsInv, [Next]_vars PROVE RowsInv'
  OBVIOUS
<1>1. ASSUME NEW c \in Calls, CommitWrite(c) \/ CommitMerge(c) PROVE RowsInv'
  <2>1. PICK R : Commits(c, R)
    BY <1>1, CommitWriteLands, CommitMergeLands
  <2>2. \A d \in Calls : /\ StayInv(d)' /\ ReplaceInv(d)'
                         /\ KeyInv(d)' /\ OnceInv(d)' /\ AlignedInv(d)'
    BY <2>1, StayKept, ReplaceKept, KeyKept, OnceKept, AlignedKept
  <2>3. \A u \in DOMAIN log' : IdInv(u)'
    BY <2>1, IdKept
  <2>4. ReplacedGone'
    BY <2>1, ReplacedStaysGone
  <2> QED
    BY <2>2, <2>3, <2>4 DEF RowsInv
<1>2. ASSUME NEW c \in Calls,
             \/ Start(c) \/ FetchChunk(c) \/ FetchEmpty(c) \/ FetchRejected(c)
             \/ PrepareChunk(c) \/ HandleRejected(c) \/ RetryMerge(c)
             \/ CommitRefused(c) \/ GuardAborts(c) \/ Interrupted(c)
      PROVE  RowsInv'
  <2>1. UNCHANGED <<log, args, done, first>>
    BY <1>2 DEF Start, FetchChunk, FetchEmpty, FetchRejected, PrepareChunk,
                HandleRejected, RetryMerge, CommitRefused, GuardAborts,
                Interrupted, cursor, local
  <2> QED
    BY <2>1, RowsUntouched
<1>3. CASE UNCHANGED vars
  BY <1>3, RowsUntouched DEF vars, cursor, local
<1> QED
  BY <1>1, <1>2, <1>3 DEF Next, Step, Progress, Finished

-----------------------------------------------------------------------------
(* What follows from it.                                                   *)

\* Every version keeps to what IInv and RowsInv say, however writers interleave.
THEOREM RowsInvariance == Spec => [](IInv /\ RowsInv)
BY InitIInv, InitRows, NextKeepsIInv, NextKeepsRows, PTL DEF Spec

\* The rows of a lance_append stay, each once, until the table is replaced or
\* merged into (lance_append_impl): no concurrent append loses or repeats one.
THEOREM AppendedRowsStayCorrect == Spec => []AppendedRowsStay
<1>1. ASSUME IInv, RowsInv PROVE AppendedRowsStay
  <2> SUFFICES ASSUME NEW c \in Calls, ~Merges(c),
                      \A v \in Mine(c) : \A w \in v + 1 .. Len(log) :
                          log[w].op = "append"
               PROVE  /\ { r.pos : r \in Shown(c) } = 1 .. done[c]
                      /\ Cardinality(Shown(c)) = done[c]
    BY DEF AppendedRowsStay, Shown
  <2>1. /\ LedgerInv(c) /\ done[c] \in Nat
        /\ Shown(c) = UNION { Batch(c, v) : v \in Mine(c) }
    BY <1>1 DEF IInv, CallInv, TypeOK, RowsInv, StayInv
  <2>2. \A v \in Mine(c) : v \in Nat /\ log[v].lo \in Nat /\ log[v].hi \in Nat
    <3>1. \A v \in Mine(c) : v \in Nat /\ log[v] \in Version
      BY <1>1 DEF IInv, TypeOK, Mine
    <3> QED
      BY <3>1 DEF Version
  <2>3. \A r \in Shown(c) : \E v \in Mine(c) : \E p \in Applied(v) :
           r = [id |-> <<v, p>>, key |-> Source(c)[p], by |-> c, pos |-> p]
    BY <2>1 DEF Batch, Inserted
  <2>4. \A v \in Mine(c) : Applied(v) \subseteq 1 .. done[c]
    BY <2>1, <2>2 DEF LedgerInv, Applied, Positions
  <2>5. \A r \in Shown(c) : r.pos \in 1 .. done[c]
    BY <2>3, <2>4
  <2>6. ASSUME NEW p \in 1 .. done[c] PROVE \E r \in Shown(c) : r.pos = p
    <3>1. PICK v \in Mine(c) : p \in Applied(v)
      BY <2>1 DEF LedgerInv
    <3> DEFINE r == [id |-> <<v, p>>, key |-> Source(c)[p], by |-> c, pos |-> p]
    <3>2. r \in Batch(c, v)
      BY <3>1 DEF Batch, Inserted
    <3> QED
      BY <2>1, <3>2
  <2>7. ASSUME NEW r \in Shown(c), NEW s \in Shown(c), r.pos = s.pos PROVE r = s
    <3>1. PICK v \in Mine(c) : \E p \in Applied(v) :
             r = [id |-> <<v, p>>, key |-> Source(c)[p], by |-> c, pos |-> p]
      BY <2>3
    <3>2. PICK w \in Mine(c) : \E p \in Applied(w) :
             s = [id |-> <<w, p>>, key |-> Source(c)[p], by |-> c, pos |-> p]
      BY <2>3
    <3>3. r.pos \in Applied(v) /\ r.pos \in Applied(w)
      BY <2>7, <3>1, <3>2
    <3>4. /\ log[v].lo < r.pos /\ r.pos <= log[v].hi
          /\ log[w].lo < r.pos /\ r.pos <= log[w].hi
          /\ r.pos \in Nat
      BY <2>2, <3>3 DEF Applied, Positions
    <3>5. ~(log[v].hi <= log[w].lo) /\ ~(log[w].hi <= log[v].lo)
      BY <2>2, <3>4
    <3>6. ~(v < w) /\ ~(w < v)
      BY <2>1, <3>5 DEF LedgerInv
    <3>7. v = w
      BY <2>2, <3>6
    <3> QED
      BY <2>7, <3>1, <3>2, <3>7
  <2>8. { r.pos : r \in Shown(c) } = 1 .. done[c]
    BY <2>5, <2>6
  <2> DEFINE f == [p \in 1 .. done[c] |-> CHOOSE r \in Shown(c) : r.pos = p]
  <2>9. \A p \in 1 .. done[c] : f[p] \in Shown(c) /\ f[p].pos = p
    BY <2>6
  <2>10. f \in [1 .. done[c] -> Shown(c)]
    BY <2>9
  <2>11. \A p, q \in 1 .. done[c] : f[p] = f[q] => p = q
    BY <2>9
  <2>12. \A r \in Shown(c) : \E p \in 1 .. done[c] : f[p] = r
    BY <2>5, <2>7, <2>9
  <2>13. f \in Bijection(1 .. done[c], Shown(c))
    BY <2>10, <2>11, <2>12, Fun_IsBij
  <2>14. Cardinality(Shown(c)) = done[c]
    BY <2>1, <2>13, FS_CountingElements DEF ExistsBijection
  <2> QED
    BY <2>8, <2>14
<1> QED
  BY <1>1, RowsInvariance, PTL

\* Once an overwrite has committed its first chunk, nothing brings back a row of
\* the table it replaced, whoever inserted or updated it (lance_append_impl).
THEOREM OverwriteReplacesCorrect == Spec => []OverwriteReplaces
<1>1. ASSUME IInv, RowsInv PROVE OverwriteReplaces
  <2> SUFFICES ASSUME NEW c \in Calls, args[c].op = "overwrite",
                      NEW v \in Mine(c), \A u \in Mine(c) : v <= u,
                      NEW r \in Newest
               PROVE  r.id[1] >= v
    BY DEF OverwriteReplaces
  <2>1. log[v].op = "overwrite"
    BY <1>1 DEF RowsInv, ReplaceInv
  <2>2. /\ v \in DOMAIN log /\ v <= Len(log)
        /\ Len(log) \in DOMAIN log /\ r \in log[Len(log)].rows
    BY <1>1, NewestRows DEF Mine, IInv, TypeOK
  <2> QED
    BY <1>1, <2>1, <2>2 DEF RowsInv, ReplacedGone
<1> QED
  BY <1>1, RowsInvariance, PTL

\* A lance_merge_insert whose chunks do not repeat a key inserts each key once,
\* whatever other backends commit between its chunks.
THEOREM InsertsEachKeyOnceCorrect == Spec => []InsertsEachKeyOnce
<1>1. ASSUME IInv, RowsInv PROVE InsertsEachKeyOnce
  <2> SUFFICES ASSUME NEW c \in Calls, Merges(c), DistinctInChunks(args[c]),
                      NEW r \in Newest, NEW s \in Newest,
                      r.id[1] \in Mine(c), s.id[1] \in Mine(c), r.key = s.key
               PROVE  r = s
    BY DEF InsertsEachKeyOnce
  <2>1. /\ Len(log) \in DOMAIN log
        /\ r \in log[Len(log)].rows /\ s \in log[Len(log)].rows
    BY <1>1, NewestRows
  <2>2. r.id = s.id
    BY <1>1, <2>1 DEF RowsInv, OnceInv
  <2> QED
    BY <1>1, <2>2, NewestRows
<1> QED
  BY <1>1, RowsInvariance, PTL
-----------------------------------------------------------------------------
(* Least and greatest numbers of a set.                                    *)

\* A set of finite sets has a member that includes no other one.
LEMMA SmallestSet ==
    ASSUME NEW T, T # {}, \A I \in T : I \subseteq Nat /\ IsFiniteSet(I)
    PROVE  \E I \in T : \A J \in T : J \subseteq I => J = I
<1>1. T \subseteq FiniteSubsetsOf(Nat)
  BY DEF FiniteSubsetsOf
<1>2. PICK I \in T : \A J \in T : <<J, I>> \notin StrictSubsetOrdering(Nat)
  BY <1>1, FS_StrictSubsetOrderingWellFounded, WFMin
<1>3. \A J \in T : J \subseteq I => J = I
  BY <1>2 DEF StrictSubsetOrdering
<1> QED
  BY <1>3

\* A set of numbers that is not empty has a least one.
LEMMA LeastOf ==
    ASSUME NEW S \in SUBSET Nat, S # {}
    PROVE  Min(S) \in S /\ \A x \in S : Min(S) <= x
<1>1. PICK T : T = { 0 .. m : m \in S }
  OBVIOUS
<1>2. T # {}
  BY <1>1
<1>3. \A I \in T : I \subseteq Nat /\ IsFiniteSet(I)
  <2>1. \A m \in S : 0 .. m \subseteq Nat /\ IsFiniteSet(0 .. m)
    BY FS_Interval
  <2> QED
    BY <1>1, <2>1
<1>4. PICK I \in T : \A J \in T : J \subseteq I => J = I
  BY <1>2, <1>3, SmallestSet
<1>5. PICK m \in S : I = 0 .. m
  BY <1>1
<1>6. ASSUME NEW x \in S, x < m PROVE FALSE
  <2>1. 0 .. x \in T /\ 0 .. x \subseteq 0 .. m
    BY <1>1, <1>6
  <2>2. 0 .. x = 0 .. m
    BY <1>4, <1>5, <2>1
  <2>3. m \in 0 .. m /\ m \notin 0 .. x
    BY <1>6
  <2> QED
    BY <2>2, <2>3
<1>7. \A x \in S : m <= x
  BY <1>6
<1> QED
  BY <1>7 DEF Min

\* A bounded set of numbers that is not empty has a greatest one.
LEMMA GreatestOf ==
    ASSUME NEW n \in Nat, NEW S \in SUBSET (0 .. n), S # {}
    PROVE  Max(S) \in S /\ \A x \in S : x <= Max(S)
<1>1. PICK T : T = { m .. n : m \in S }
  OBVIOUS
<1>2. T # {}
  BY <1>1
<1>3. \A I \in T : I \subseteq Nat /\ IsFiniteSet(I)
  BY <1>1, FS_Interval
<1>4. PICK I \in T : \A J \in T : J \subseteq I => J = I
  BY <1>2, <1>3, SmallestSet
<1>5. PICK m \in S : I = m .. n
  BY <1>1
<1>6. ASSUME NEW x \in S, m < x PROVE FALSE
  <2>1. x .. n \in T /\ x .. n \subseteq m .. n
    BY <1>1, <1>6
  <2>2. x .. n = m .. n
    BY <1>4, <1>5, <2>1
  <2>3. m \in m .. n /\ m \notin x .. n
    BY <1>6
  <2> QED
    BY <2>2, <2>3
<1>7. \A x \in S : m >= x
  BY <1>6
<1>8. Max(S) \in S /\ \A x \in S : Max(S) >= x
  BY <1>7 DEF Max
<1> QED
  BY <1>8
-----------------------------------------------------------------------------
(* A merge, one key at a time.                                             *)

\* The first n source rows with key k, and which of them wins.
Spots(a, n, k)  == { p \in 1 .. n : a.source[p] = k }
Winner(a, n, k) == IF a.matched = "update" THEN Max(Spots(a, n, k)) ELSE Min(Spots(a, n, k))

OfKey(T, k) == { r \in T : r.key = k }
IdsOf(T)    == { r.id : r \in T }
Won(a, n, T, k, c) == \A r \in T : r.by = c /\ r.pos = Winner(a, n, k)

\* The rows B of key k became F by merging the first n source rows.
KeyMerged(a, n, B, F, k, c) ==
    IF Spots(a, n, k) = {} THEN F = B
    ELSE IF B = {}
         THEN IF a.unmatched = "insert"
              THEN (\E r : F = {r}) /\ Won(a, n, F, k, c)
              ELSE F = {}
         ELSE IF a.matched = "update"
              THEN IdsOf(F) = IdsOf(B) /\ Won(a, n, F, k, c)
              ELSE F = B

MergedUpTo(a, n, B, F, c) ==
    \A k \in Key : KeyMerged(a, n, OfKey(B, k), OfKey(F, k), k, c)

\* Key by key is all: that is what IsMergeOf says of the first n source rows.
LEMMA KeysMakeMerge ==
    ASSUME NEW a \in Arguments, NEW n \in 0 .. Len(a.source),
           NEW B \in SUBSET Row, NEW F \in SUBSET Row, NEW c,
           MergedUpTo(a, n, B, F, c)
    PROVE  IsMergeOf(a, SubSeq(a.source, 1, n), B, F, {c})
<1>1. PICK source : source = SubSeq(a.source, 1, n)
  OBVIOUS
<1>2. a.source \in Seq(Key)
  BY DEF Arguments
<1>3. DOMAIN source = 1 .. n /\ \A p \in 1 .. n : source[p] = a.source[p]
  BY <1>1, <1>2
<1>4. \A k : { p \in DOMAIN source : source[p] = k } = Spots(a, n, k)
  BY <1>3 DEF Spots
<1>5. \A k : k \in ToSet(source) <=> Spots(a, n, k) # {}
  BY <1>4 DEF ToSet
<1>6. \A k : Spots(a, n, k) # {} => k \in Key
  BY <1>2 DEF Spots
<1>7. \A r \in B \union F : r.key \in Key
  BY DEF Row
<1>8. { r \in F : r.key \notin ToSet(source) } = { r \in B : r.key \notin ToSet(source) }
  <2>1. ASSUME NEW k \in Key, k \notin ToSet(source) PROVE OfKey(F, k) = OfKey(B, k)
    BY <1>5, <2>1 DEF MergedUpTo, KeyMerged
  <2> QED
    BY <1>7, <2>1 DEF OfKey
<1>9. ASSUME NEW k \in ToSet(source)
      PROVE  IF OfKey(B, k) = {}
             THEN IF a.unmatched = "insert"
                  THEN Cardinality(OfKey(F, k)) = 1 /\ Won(a, n, OfKey(F, k), k, c)
                  ELSE OfKey(F, k) = {}
             ELSE IF a.matched = "update"
                  THEN IdsOf(OfKey(F, k)) = IdsOf(OfKey(B, k))
                       /\ Won(a, n, OfKey(F, k), k, c)
                  ELSE OfKey(F, k) = OfKey(B, k)
  <2>1. k \in Key /\ Spots(a, n, k) # {}
    BY <1>5, <1>6
  <2>2. \A r : Cardinality({r}) = 1
    BY FS_Singleton
  <2> QED
    BY <2>1, <2>2 DEF MergedUpTo, KeyMerged
<1>10. \A k : Winner(a, n, k) = IF a.matched = "update"
                               THEN Max({ p \in DOMAIN source : source[p] = k })
                               ELSE Min({ p \in DOMAIN source : source[p] = k })
  BY <1>4 DEF Winner
<1>11. IsMergeOf(a, source, B, F, {c})
  <2> DEFINE Wins(k) == IF a.matched = "update"
                        THEN Max({ p \in DOMAIN source : source[p] = k })
                        ELSE Min({ p \in DOMAIN source : source[p] = k })
             Right(T, k) == \A r \in T : r.by \in {c} /\ r.pos = Wins(k)
  <2>1. \A T, k : Won(a, n, T, k, c) <=> Right(T, k)
    BY <1>10 DEF Won
  <2>2. \A k \in ToSet(source) :
          IF OfKey(B, k) = {}
          THEN IF a.unmatched = "insert"
               THEN Cardinality(OfKey(F, k)) = 1 /\ Right(OfKey(F, k), k)
               ELSE OfKey(F, k) = {}
          ELSE IF a.matched = "update"
               THEN IdsOf(OfKey(F, k)) = IdsOf(OfKey(B, k)) /\ Right(OfKey(F, k), k)
               ELSE OfKey(F, k) = OfKey(B, k)
    <3> HIDE DEF Right
    <3> QED
      BY <1>9, <2>1
  <2> QED
    BY <1>8, <2>2 DEF IsMergeOf, OfKey, IdsOf
<1> QED
  BY <1>1, <1>11

\* A later source row wins over the earlier ones where matches are updated, and
\* only if there is none where they are not.
LEMMA LaterWins ==
    ASSUME NEW a \in Arguments, NEW n \in Nat, NEW m \in Nat, n <= m, NEW k,
           NEW p \in n + 1 .. m, Spots(a, m, k) = Spots(a, n, k) \union {p}
    PROVE  Winner(a, m, k) = IF a.matched = "update" \/ Spots(a, n, k) = {}
                             THEN p ELSE Winner(a, n, k)
<1>1. PICK S, T : S = Spots(a, n, k) /\ T = Spots(a, m, k)
  OBVIOUS
<1>2. S \subseteq 1 .. n /\ T = S \union {p} /\ T \in SUBSET (0 .. m) /\ T # {}
  BY <1>1 DEF Spots
<1>3. Max(T) \in T /\ \A x \in T : x <= Max(T)
  BY <1>2, GreatestOf
<1>4. Min(T) \in T /\ \A x \in T : Min(T) <= x
  BY <1>2, LeastOf
<1>5. S # {} => Min(S) \in S /\ \A x \in S : Min(S) <= x
  BY <1>2, LeastOf
<1>6. Max(T) = p
  <2>1. p \in T /\ p <= Max(T)
    BY <1>2, <1>3
  <2>2. \A x \in S : ~(p <= x)
    BY <1>2
  <2>3. Max(T) \notin S
    BY <2>1, <2>2
  <2> QED
    BY <1>2, <1>3, <2>3
<1>7. S = {} => Min(T) = p
  BY <1>2, <1>4
<1>8. S # {} => Min(T) = Min(S)
  <2> SUFFICES ASSUME S # {} PROVE Min(T) = Min(S)
    OBVIOUS
  <2>1. Min(S) \in S /\ Min(S) \in 1 .. n /\ Min(S) \in T
    BY <1>2, <1>5
  <2>2. Min(T) <= Min(S)
    BY <1>4, <2>1
  <2>3. Min(T) \in S
    <3>1. Min(T) # p
      BY <1>2, <2>1, <2>2
    <3> QED
      BY <1>2, <1>4, <3>1
  <2>4. Min(S) <= Min(T) /\ Min(T) \in 1 .. n
    BY <1>2, <1>5, <2>3
  <2> QED
    BY <2>1, <2>2, <2>4
<1> QED
  BY <1>1, <1>6, <1>7, <1>8 DEF Winner

\* What a chunk that has a key once, in source row p, makes of the rows N of the
\* key that are in the table.
ChunkOnKey(a, N, R, p, c) ==
    /\ N # {} /\ a.matched = "update" =>
         IdsOf(R) = IdsOf(N) /\ \A r \in R : r.by = c /\ r.pos = p
    /\ N # {} /\ a.matched = "update" => \A x : N = {x} => \E y : R = {y}
    /\ N # {} /\ a.matched # "update" => R = N
    /\ N = {} /\ a.unmatched = "insert" =>
         (\E y : R = {y}) /\ \A r \in R : r.by = c /\ r.pos = p
    /\ N = {} /\ a.unmatched # "insert" => R = {}

\* A merge that was prepared against the table it lands on does so.
LEMMA KeyInChunk ==
    ASSUME NEW c \in Calls, Base(c) = Newest, NEW p \in Chunk(c),
           NEW k, k = Source(c)[p], \A q \in Chunk(c) : Source(c)[q] = k => q = p
    PROVE  ChunkOnKey(args[c], OfKey(Newest, k),
                      OfKey((Newest \ Removed(c)) \union Added(c), k), p, c)
<1> DEFINE New(r) == [id |-> r.id, key |-> r.key, by |-> c, pos |-> p]
           fresh  == [id |-> <<Len(log) + 1, p>>, key |-> k, by |-> c, pos |-> p]
<1>1. PICK N, R, T : /\ N = OfKey(Newest, k) /\ T = Newest
                     /\ R = OfKey((Newest \ Removed(c)) \union Added(c), k)
  OBVIOUS
<1>2. \A r \in T : r.key = k => MatchesOf(r, Source(c), Chunk(c)) = {p}
  BY DEF MatchesOf
<1>3. \A r \in T : r.key # k => \A q \in MatchesOf(r, Source(c), Chunk(c)) : Source(c)[q] # k
  BY DEF MatchesOf
<1>4. OfKey(Updated(T, Source(c), Chunk(c), c), k) = { New(r) : r \in N }
  <2>1. \A r \in N : r \in T /\ r.key = k
    BY <1>1 DEF OfKey
  <2>2. ASSUME NEW x \in Updated(T, Source(c), Chunk(c), c), x.key = k
        PROVE  \E r \in N : x = New(r)
    <3>1. PICK r \in T : \E q \in MatchesOf(r, Source(c), Chunk(c)) :
             x = [id |-> r.id, key |-> r.key, by |-> c, pos |-> q]
      BY DEF Updated
    <3>2. r.key = k /\ r \in N
      BY <1>1, <2>2, <3>1 DEF OfKey
    <3> QED
      BY <1>2, <3>1, <3>2
  <2>3. ASSUME NEW r \in N PROVE New(r) \in Updated(T, Source(c), Chunk(c), c) /\ New(r).key = k
    BY <1>2, <2>1, <2>3 DEF Updated
  <2> QED
    BY <2>2, <2>3 DEF OfKey
<1>5. OfKey(Inserted(Source(c), Unmatched(T, Source(c), Chunk(c)), c, Len(log) + 1), k)
        = IF N = {} THEN {fresh} ELSE {}
  <2>1. N = {} <=> p \in Unmatched(T, Source(c), Chunk(c))
    BY <1>1 DEF OfKey, Unmatched
  <2>2. \A q \in Unmatched(T, Source(c), Chunk(c)) : Source(c)[q] = k => q = p
    BY DEF Unmatched
  <2> QED
    BY <2>1, <2>2 DEF OfKey, Inserted
<1>6. Latest(log) = Len(log)
  BY DEF Latest
<1>7. ASSUME args[c].matched = "update" PROVE ChunkOnKey(args[c], N, R, p, c)
  <2>1. Removed(c) = Rewritten(T, Source(c), Chunk(c))
    BY <1>1, <1>7 DEF Removed
  <2>2. OfKey(Newest \ Removed(c), k) = {}
    BY <1>1, <1>2, <2>1 DEF OfKey, Rewritten
  <2>3. R = { New(r) : r \in N } \union
              (IF N = {} /\ args[c].unmatched = "insert" THEN {fresh} ELSE {})
    BY <1>1, <1>4, <1>5, <1>6, <1>7, <2>2 DEF Added, OfKey
  <2>4. N # {} => R = { New(r) : r \in N }
    BY <2>3
  <2>5. N # {} => IdsOf(R) = IdsOf(N) /\ \A r \in R : r.by = c /\ r.pos = p
    <3> SUFFICES ASSUME N # {}
                 PROVE  IdsOf(R) = IdsOf(N) /\ \A r \in R : r.by = c /\ r.pos = p
      OBVIOUS
    <3>1. \A r \in N : New(r) \in R /\ New(r).id = r.id
      BY <2>4
    <3>2. \A x \in R : \E r \in N : x.id = r.id /\ x.by = c /\ x.pos = p
      BY <2>4
    <3>3. IdsOf(N) \subseteq IdsOf(R)
      BY <3>1 DEF IdsOf
    <3>4. \A x \in R : x.id \in IdsOf(N)
      BY <3>2 DEF IdsOf
    <3>5. IdsOf(R) \subseteq IdsOf(N)
      BY <3>4 DEF IdsOf
    <3> QED
      BY <3>2, <3>3, <3>5
  <2>6. ASSUME NEW x, N = {x} PROVE R = {New(x)}
    BY <2>4, <2>6
  <2>7. fresh.by = c /\ fresh.pos = p
    OBVIOUS
  <2>8. CASE N = {}
    <3>1. R = IF args[c].unmatched = "insert" THEN {fresh} ELSE {}
      BY <2>3, <2>8
    <3> HIDE DEF fresh
    <3> QED
      BY <1>7, <2>7, <2>8, <3>1 DEF ChunkOnKey
  <2>9. CASE N # {}
    BY <1>7, <2>5, <2>6, <2>9 DEF ChunkOnKey
  <2> QED
    BY <2>8, <2>9
<1>8. ASSUME args[c].matched # "update" PROVE ChunkOnKey(args[c], N, R, p, c)
  <2>1. R = N \union (IF N = {} /\ args[c].unmatched = "insert" THEN {fresh} ELSE {})
    BY <1>1, <1>5, <1>6, <1>8 DEF Added, Removed, OfKey
  <2>2. fresh.by = c /\ fresh.pos = p
    OBVIOUS
  <2> QED
    BY <1>8, <2>1, <2>2 DEF ChunkOnKey
<1> QED
  BY <1>1, <1>7, <1>8

\* The rows of a key that the chunk does not have stay.
LEMMA ChunkOffKey ==
    ASSUME NEW c \in Calls, NEW k, \A p \in Chunk(c) : Source(c)[p] # k
    PROVE  OfKey((Newest \ Removed(c)) \union Added(c), k) = OfKey(Newest, k)
<1>1. \A r \in Removed(c) : r.key # k
  BY DEF Removed, Rewritten, MatchesOf
<1>2. \A r \in Added(c) : r.key # k
  BY DEF Added, Updated, Inserted, Unmatched, MatchesOf
<1> QED
  BY <1>1, <1>2 DEF OfKey

\* A chunk that a merge commits on the table it was prepared against takes what
\* merging the earlier rows left to what merging its rows too leaves.
LEMMA ChunkMerges ==
    ASSUME IInv, RowsInv, NEW c \in Calls, CommitMerge(c), Base(c) = Newest,
           DistinctInChunks(args[c]), NEW B, MergedUpTo(args[c], done[c], B, Newest, c)
    PROVE  MergedUpTo(args[c], total[c], B, (Newest \ Removed(c)) \union Added(c), c)
<1> DEFINE F == (Newest \ Removed(c)) \union Added(c)
<1>1. /\ pc[c] = "commit" /\ args[c] \in Arguments /\ args[c].source = Source(c)
      /\ done[c] \in Nat /\ total[c] \in Nat /\ done[c] <= total[c]
      /\ total[c] <= Len(Source(c)) /\ Len(Source(c)) \in Nat
  BY ArgumentsOfCall DEF IInv, CallInv, CursorInv, TypeOK, CommitMerge, Source
<1>2. Chunk(c) = done[c] + 1 .. total[c]
  BY <1>1 DEF Chunk, Positions
<1> SUFFICES ASSUME NEW k \in Key
             PROVE  KeyMerged(args[c], total[c], OfKey(B, k), OfKey(F, k), k, c)
  BY DEF MergedUpTo
<1>3. KeyMerged(args[c], done[c], OfKey(B, k), OfKey(Newest, k), k, c)
  BY DEF MergedUpTo
<1>4. Spots(args[c], total[c], k)
        = Spots(args[c], done[c], k) \union { p \in Chunk(c) : Source(c)[p] = k }
  BY <1>1, <1>2 DEF Spots
<1>5. CASE \A p \in Chunk(c) : Source(c)[p] # k
  <2>1. OfKey(F, k) = OfKey(Newest, k)
    BY <1>5, ChunkOffKey
  <2>2. Spots(args[c], total[c], k) = Spots(args[c], done[c], k)
    BY <1>4, <1>5
  <2> QED
    BY <1>3, <2>1, <2>2 DEF KeyMerged, Won, Winner
<1>6. ASSUME NEW p \in Chunk(c), Source(c)[p] = k
      PROVE  KeyMerged(args[c], total[c], OfKey(B, k), OfKey(F, k), k, c)
  <2>1. \A q \in Chunk(c) : Source(c)[q] = k => q = p
    BY <1>1, <1>6, ChunkHasKeyOnce
  <2>2. Spots(args[c], total[c], k) = Spots(args[c], done[c], k) \union {p}
    BY <1>4, <1>6, <2>1
  <2>3. Winner(args[c], total[c], k)
          = IF args[c].matched = "update" \/ Spots(args[c], done[c], k) = {}
            THEN p ELSE Winner(args[c], done[c], k)
    BY <1>1, <1>2, <2>2, LaterWins
  <2>4. PICK a, S, W, V, N, K, R :
          /\ a = args[c] /\ S = Spots(args[c], done[c], k)
          /\ W = Winner(args[c], total[c], k) /\ V = Winner(args[c], done[c], k)
          /\ N = OfKey(Newest, k) /\ K = OfKey(B, k) /\ R = OfKey(F, k)
    OBVIOUS
  <2>5. ChunkOnKey(a, N, R, p, c)
    BY <1>6, <2>1, <2>4, KeyInChunk
  <2>6. /\ N # {} /\ a.matched = "update" =>
             IdsOf(R) = IdsOf(N) /\ \A r \in R : r.by = c /\ r.pos = p
        /\ N # {} /\ a.matched = "update" => \A x : N = {x} => \E y : R = {y}
        /\ N # {} /\ a.matched # "update" => R = N
        /\ N = {} /\ a.unmatched = "insert" =>
             (\E y : R = {y}) /\ \A r \in R : r.by = c /\ r.pos = p
        /\ N = {} /\ a.unmatched # "insert" => R = {}
    BY <2>5 DEF ChunkOnKey
  <2>7. IF S = {} THEN N = K
        ELSE IF K = {}
             THEN IF a.unmatched = "insert"
                  THEN (\E r : N = {r}) /\ \A r \in N : r.by = c /\ r.pos = V
                  ELSE N = {}
             ELSE IF a.matched = "update"
                  THEN IdsOf(N) = IdsOf(K) /\ \A r \in N : r.by = c /\ r.pos = V
                  ELSE N = K
    BY <1>3, <2>4 DEF KeyMerged, Won
  <2>8. W = IF a.matched = "update" \/ S = {} THEN p ELSE V
    BY <2>3, <2>4
  <2>9. K # {} /\ N = {} => IdsOf(N) # IdsOf(K)
    BY DEF IdsOf
  <2>10. IF K = {}
         THEN IF a.unmatched = "insert"
              THEN (\E r : R = {r}) /\ \A r \in R : r.by = c /\ r.pos = W
              ELSE R = {}
         ELSE IF a.matched = "update"
              THEN IdsOf(R) = IdsOf(K) /\ \A r \in R : r.by = c /\ r.pos = W
              ELSE R = K
    <3>1. CASE K = {} /\ a.unmatched = "insert"
      <4>1. CASE S = {}
        BY <2>6, <2>7, <2>8, <3>1, <4>1
      <4>2. CASE S # {}
        BY <2>6, <2>7, <2>8, <3>1, <4>2
      <4> QED
        BY <4>1, <4>2
    <3>2. CASE K = {} /\ a.unmatched # "insert"
      BY <2>6, <2>7, <3>2
    <3>3. CASE K # {} /\ a.matched = "update"
      BY <2>6, <2>7, <2>8, <2>9, <3>3
    <3>4. CASE K # {} /\ a.matched # "update"
      BY <2>6, <2>7, <3>4
    <3> QED
      BY <3>1, <3>2, <3>3, <3>4
  <2>11. Spots(args[c], total[c], k) # {}
    BY <2>2
  <2> QED
    BY <2>4, <2>10, <2>11 DEF KeyMerged, Won
<1> QED
  BY <1>5, <1>6

-----------------------------------------------------------------------------
(* The merges of a call, one chunk after another.                          *)

\* What one call has merged that nobody disturbed is one merge.
MergedInv(c) ==
    Merges(c) /\ Undisturbed(c) /\ DistinctInChunks(args[c]) =>
        MergedUpTo(args[c], done[c], Before(c), After(c), c)

\* A commit was prepared against an earlier version.
ReadsEarlier == \A v \in DOMAIN log : log[v].read < v

MergeInv == ReadsEarlier /\ \A c \in Calls : MergedInv(c)

\* The first and the last commit of a call.
LEMMA FirstAndLast ==
    ASSUME IInv, NEW c \in Calls, Mine(c) # {}
    PROVE  /\ Min(Mine(c)) \in Mine(c) /\ Max(Mine(c)) \in Mine(c)
           /\ Min(Mine(c)) \in 1 .. Len(log) /\ Max(Mine(c)) \in 1 .. Len(log)
           /\ \A v \in Mine(c) : Min(Mine(c)) <= v /\ v <= Max(Mine(c))
           /\ Len(log) \in Nat /\ DOMAIN log = 1 .. Len(log)
<1>1. log \in Seq(Version) /\ Len(log) \in Nat /\ DOMAIN log = 1 .. Len(log)
  BY DEF IInv, TypeOK
<1>2. Mine(c) \in SUBSET (0 .. Len(log)) /\ Mine(c) \in SUBSET Nat
      /\ Mine(c) \subseteq 1 .. Len(log)
  BY <1>1 DEF Mine
<1>3. Max(Mine(c)) \in Mine(c) /\ \A v \in Mine(c) : v <= Max(Mine(c))
  BY <1>1, <1>2, GreatestOf
<1>4. Min(Mine(c)) \in Mine(c) /\ \A v \in Mine(c) : Min(Mine(c)) <= v
  BY <1>2, LeastOf
<1> QED
  BY <1>1, <1>2, <1>3, <1>4

\* A commit of another call changes nothing of it.
LEMMA BystanderMerged ==
    ASSUME IInv, RowsInv, MergeInv, NEW c \in Calls, NEW R, Commits(c, R),
           NEW d \in Calls, d # c
    PROVE  MergedInv(d)'
<1>1. /\ Len(log) \in Nat /\ \A v \in 1 .. Len(log) : log'[v] = log[v]
      /\ Mine(d)' = Mine(d) /\ Merges(d)' = Merges(d)
      /\ args' = args /\ done'[d] = done[d]
  BY AfterCommit DEF Commits, IInv, TypeOK
<1> SUFFICES ASSUME Merges(d), Undisturbed(d)', DistinctInChunks(args[d])
             PROVE  MergedUpTo(args[d], done[d], Before(d)', After(d)', d)
  BY <1>1 DEF MergedInv
<1>2. Mine(d) # {}
  BY <1>1 DEF Undisturbed
<1>3. PICK lo, hi : /\ lo = Min(Mine(d)) /\ hi = Max(Mine(d))
                    /\ lo \in 1 .. Len(log) /\ hi \in 1 .. Len(log)
                    /\ lo - 1 \in 0 .. Len(log)
  BY <1>2, FirstAndLast
<1>4. log[lo].read \in Nat
  <2>1. log[lo] \in Version
    BY <1>3 DEF IInv, TypeOK
  <2> QED
    BY <2>1 DEF Version
<1>5. Undisturbed(d)
  <2>1. \A v \in log'[lo].read + 1 .. hi : log'[v].by = d
    BY <1>1, <1>3 DEF Undisturbed
  <2>2. \A v \in log[lo].read + 1 .. hi : v \in 1 .. Len(log)
    BY <1>1, <1>3, <1>4
  <2>3. \A v \in log[lo].read + 1 .. hi : log[v].by = d
    BY <1>1, <1>3, <2>1, <2>2
  <2> QED
    BY <1>2, <1>3, <2>3 DEF Undisturbed
<1>6. Before(d)' = Before(d) /\ After(d)' = After(d)
  <2>1. RowsAt(log', lo - 1) = RowsAt(log, lo - 1) /\ RowsAt(log', hi) = RowsAt(log, hi)
    BY <1>1, <1>3 DEF RowsAt
  <2> QED
    BY <1>1, <1>3, <2>1 DEF Before, After
<1> QED
  BY <1>5, <1>6 DEF MergeInv, MergedInv

\* A commit of its own adds its chunk.
LEMMA MergerMerged ==
    ASSUME IInv, RowsInv, MergeInv, NEW c \in Calls, CommitMerge(c)
    PROVE  MergedInv(c)'
<1> DEFINE R == (Newest \ Removed(c)) \union Added(c)
           n == Len(log) + 1
<1>1. PICK Q : Commits(c, Q)
  BY CommitMergeLands
<1>2. /\ Len(log) \in Nat /\ DOMAIN log = 1 .. Len(log)
      /\ \A v \in 1 .. Len(log) : log'[v] = log[v]
      /\ log'[n] = Entry(c, Q) /\ log'[n].rows = Q
      /\ Mine(c)' = Mine(c) \union {n} /\ Mine(c) \subseteq 1 .. Len(log)
      /\ Merges(c) /\ args' = args /\ done'[c] = total[c] /\ pc[c] = "commit"
      /\ log' = Append(log, Entry(c, R))
  BY <1>1, AfterCommit DEF Commits, CommitMerge, IInv, TypeOK
<1>3. Q = R
  <2>1. log'[n] = Entry(c, R)
    BY <1>2, AppendedLog DEF IInv, TypeOK
  <2> QED
    BY <1>2, <2>1 DEF Entry
<1>4. log'[n].read = readv[c] /\ readv[c] \in 0 .. Len(log)
  BY <1>2 DEF Entry, IInv, TypeOK
<1> SUFFICES ASSUME Undisturbed(c)', DistinctInChunks(args[c])
             PROVE  MergedUpTo(args[c], total[c], Before(c)', After(c)', c)
  BY <1>2 DEF MergedInv
<1>5. Max(Mine(c)') = n
  <2>1. Mine(c)' \in SUBSET (0 .. n) /\ n \in Nat /\ n \in Mine(c)'
    BY <1>2
  <2>2. Max(Mine(c)') \in Mine(c)' /\ \A v \in Mine(c)' : v <= Max(Mine(c)')
    BY <2>1, GreatestOf
  <2> QED
    BY <2>1, <2>2
<1>6. After(c)' = R
  <2>1. After(c)' = RowsAt(log', n)
    BY <1>5 DEF After
  <2>2. n # 0
    BY <1>2
  <2>3. RowsAt(log', n) = Q
    BY <1>2, <2>2 DEF RowsAt
  <2> QED
    BY <1>3, <2>1, <2>3
<1>7. PICK lo : lo = Min(Mine(c)') /\ lo \in Mine(c)' /\ (\A v \in Mine(c)' : lo <= v)
  <2>1. Mine(c)' \in SUBSET Nat /\ Mine(c)' # {}
    BY <1>2
  <2> QED
    BY <2>1, LeastOf
<1>8. \A v \in log'[lo].read + 1 .. n : log'[v].by = c
  BY <1>5, <1>7 DEF Undisturbed
<1>9. CASE Mine(c) = {}
  <2>1. lo = n
    BY <1>2, <1>7, <1>9
  <2>2. readv[c] = Len(log)
    <3> SUFFICES ASSUME readv[c] < Len(log) PROVE FALSE
      BY <1>2, <1>4
    <3>1. Len(log) \in readv[c] + 1 .. n /\ Len(log) \in 1 .. Len(log)
      BY <1>2, <1>4
    <3>2. Len(log) \in Mine(c)
      BY <1>2, <1>4, <1>8, <2>1, <3>1 DEF Mine
    <3> QED
      BY <1>9, <3>2
  <2>3. Base(c) = Newest
    BY <2>2 DEF Base, Newest, Latest
  <2>4. Before(c)' = Newest
    <3>1. Before(c)' = RowsAt(log', n - 1) /\ n - 1 = Len(log)
      BY <1>2, <1>7, <2>1 DEF Before
    <3>2. RowsAt(log', Len(log)) = RowsAt(log, Len(log))
      <4>1. CASE Len(log) = 0
        BY <4>1 DEF RowsAt
      <4>2. CASE Len(log) # 0
        <5>1. Len(log) \in 1 .. Len(log)
          BY <1>2, <4>2
        <5>2. log'[Len(log)] = log[Len(log)]
          BY <1>2, <5>1
        <5> QED
          BY <4>2, <5>2 DEF RowsAt
      <4> QED
        BY <4>1, <4>2
    <3> QED
      BY <3>1, <3>2 DEF Newest, Latest
  <2>5. done[c] = 0
    <3>1. done[c] \in Nat /\ \A p \in 1 .. done[c] : FALSE
      BY <1>9 DEF IInv, TypeOK, CallInv, LedgerInv
    <3> QED
      BY <3>1
  <2>6. MergedUpTo(args[c], done[c], Newest, Newest, c)
    BY <2>5 DEF MergedUpTo, KeyMerged, Spots
  <2> QED
    BY <1>2, <1>6, <2>3, <2>4, <2>6, ChunkMerges
<1>10. CASE Mine(c) # {}
  <2>1. lo = Min(Mine(c)) /\ lo \in 1 .. Len(log)
    <3>1. PICK l : l = Min(Mine(c)) /\ l \in Mine(c) /\ l \in 1 .. Len(log)
                   /\ \A v \in Mine(c) : l <= v
      BY <1>10, FirstAndLast
    <3>2. lo <= l
      BY <1>2, <1>7, <3>1
    <3>3. lo # n
      BY <1>2, <3>1, <3>2
    <3>4. lo \in Mine(c)
      BY <1>2, <1>7, <3>3
    <3>5. l <= lo /\ lo \in 1 .. Len(log)
      BY <1>2, <3>1, <3>4
    <3> QED
      BY <3>1, <3>2, <3>5
  <2>2. log[lo].read \in Nat /\ log[lo].read < lo
    <3>1. log[lo] \in Version
      BY <2>1 DEF IInv, TypeOK
    <3> QED
      BY <1>2, <2>1, <3>1 DEF Version, MergeInv, ReadsEarlier
  <2>3. \A v \in log[lo].read + 1 .. Len(log) : log[v].by = c /\ v \in Mine(c)
    <3> SUFFICES ASSUME NEW v \in log[lo].read + 1 .. Len(log)
                 PROVE  log[v].by = c /\ v \in Mine(c)
      OBVIOUS
    <3>1. v \in 1 .. Len(log) /\ v \in log'[lo].read + 1 .. n
      BY <1>2, <2>1, <2>2
    <3> QED
      BY <1>2, <1>8, <3>1 DEF Mine
  <2>4. Len(log) \in Mine(c) /\ Max(Mine(c)) = Len(log)
    <3>1. Len(log) \in Mine(c)
      BY <1>2, <2>1, <2>2, <2>3
    <3>2. Max(Mine(c)) \in 1 .. Len(log) /\ Len(log) <= Max(Mine(c))
      BY <1>10, <3>1, FirstAndLast
    <3> QED
      BY <1>2, <3>1, <3>2
  <2>5. readv[c] = Len(log)
    <3>1. Len(log) <= readv[c]
      BY <1>2, <2>4 DEF IInv, CallInv, HandleInv
    <3> QED
      BY <1>2, <1>4, <3>1
  <2>6. Base(c) = Newest
    BY <2>5 DEF Base, Newest, Latest
  <2>7. Undisturbed(c)
    BY <1>10, <2>1, <2>3, <2>4 DEF Undisturbed
  <2>8. After(c) = Newest
    BY <2>4 DEF After, Newest, Latest
  <2>9. Before(c)' = Before(c)
    <3>1. RowsAt(log', lo - 1) = RowsAt(log, lo - 1)
      BY <1>2, <2>1 DEF RowsAt
    <3> QED
      BY <1>7, <2>1, <3>1 DEF Before
  <2>10. MergedUpTo(args[c], done[c], Before(c), Newest, c)
    BY <1>2, <2>7, <2>8 DEF MergeInv, MergedInv
  <2> QED
    BY <1>2, <1>6, <2>6, <2>9, <2>10, ChunkMerges
<1> QED
  BY <1>9, <1>10

\* Nobody has merged anything when the calls begin.
LEMMA InitMerge == Init => MergeInv
<1> SUFFICES ASSUME Init PROVE MergeInv
  OBVIOUS
<1>1. \A v \in DOMAIN log : v = 1 /\ log[v].by = NoCall /\ log[v].read = 0
  BY DEF Init, SeedVersion
<1>2. \A c \in Calls : Mine(c) = {}
  BY <1>1, NoCallAssumption DEF Mine
<1> QED
  BY <1>1, <1>2 DEF MergeInv, ReadsEarlier, MergedInv, Undisturbed

\* Every step keeps the merges what they should be.
LEMMA NextKeepsMerge == IInv /\ RowsInv /\ MergeInv /\ [Next]_vars => MergeInv'
<1> SUFFICES ASSUME IInv, RowsInv, MergeInv, [Next]_vars PROVE MergeInv'
  OBVIOUS
<1>1. ASSUME NEW c \in Calls, CommitWrite(c) \/ CommitMerge(c) PROVE MergeInv'
  <2>1. PICK R : Commits(c, R)
    BY <1>1, CommitWriteLands, CommitMergeLands
  <2>2. \A d \in Calls \ {c} : MergedInv(d)'
    BY <2>1, BystanderMerged
  <2>3. MergedInv(c)'
    <3>1. CASE CommitMerge(c)
      BY <3>1, MergerMerged
    <3>2. CASE CommitWrite(c)
      <4>1. ~Merges(c)'
        BY <3>2 DEF CommitWrite, Merges
      <4> QED
        BY <4>1 DEF MergedInv
    <3> QED
      BY <1>1, <3>1, <3>2
  <2>4. ReadsEarlier'
    <3>1. /\ Len(log) \in Nat /\ DOMAIN log = 1 .. Len(log)
          /\ DOMAIN log' = 1 .. Len(log) + 1
          /\ \A v \in 1 .. Len(log) : log'[v] = log[v]
          /\ log'[Len(log) + 1] = Entry(c, R)
      BY <2>1, AfterCommit
    <3>2. Entry(c, R).read = readv[c] /\ readv[c] \in 0 .. Len(log)
      BY DEF Entry, IInv, TypeOK
    <3> QED
      BY <3>1, <3>2 DEF MergeInv, ReadsEarlier
  <2> QED
    BY <2>2, <2>3, <2>4 DEF MergeInv
<1>2. ASSUME UNCHANGED <<log, args, done>> PROVE MergeInv'
  BY <1>2 DEF MergeInv, ReadsEarlier, MergedInv, Undisturbed, Before, After, Mine, Merges
<1>3. ASSUME NEW c \in Calls,
             \/ Start(c) \/ FetchChunk(c) \/ FetchEmpty(c) \/ FetchRejected(c)
             \/ PrepareChunk(c) \/ HandleRejected(c) \/ RetryMerge(c)
             \/ CommitRefused(c) \/ GuardAborts(c) \/ Interrupted(c)
      PROVE  MergeInv'
  <2>1. UNCHANGED <<log, args, done>>
    BY <1>3 DEF Start, FetchChunk, FetchEmpty, FetchRejected, PrepareChunk,
                HandleRejected, RetryMerge, CommitRefused, GuardAborts,
                Interrupted, cursor, local
  <2> QED
    BY <1>2, <2>1
<1>4. CASE UNCHANGED vars
  BY <1>2, <1>4 DEF vars, cursor, local
<1> QED
  BY <1>1, <1>3, <1>4 DEF Next, Step, Progress, Finished

\* The table a merge found, and the one it left, are sets of rows with ids of
\* their own.
LEMMA TablesOfMerge ==
    ASSUME IInv, RowsInv, NEW c \in Calls, Mine(c) # {}
    PROVE  /\ Before(c) \in SUBSET Row /\ After(c) \in SUBSET Row
           /\ \A r, s \in After(c) : r.id = s.id => r = s
<1>1. /\ Min(Mine(c)) \in 1 .. Len(log) /\ Max(Mine(c)) \in 1 .. Len(log)
      /\ Len(log) \in Nat /\ DOMAIN log = 1 .. Len(log)
  BY FirstAndLast
<1>2. PICK lo, hi : /\ lo = Min(Mine(c)) - 1 /\ hi = Max(Mine(c))
                    /\ lo \in 0 .. Len(log) /\ hi \in 1 .. Len(log)
  BY <1>1
<1>3. RowsAt(log, lo) \subseteq Row /\ RowsAt(log, hi) \subseteq Row
  BY <1>2, VisibleRows DEF IInv
<1>4. \A r, s \in RowsAt(log, hi) : r.id = s.id => r = s
  BY <1>1, <1>2 DEF RowsInv, IdInv, RowsAt
<1> QED
  BY <1>2, <1>3, <1>4 DEF Before, After

\* Every version keeps to the three invariants, however writers interleave.
THEOREM MergeInvariance == Spec => [](IInv /\ RowsInv /\ MergeInv)
BY InitIInv, InitRows, InitMerge, NextKeepsIInv, NextKeepsRows, NextKeepsMerge, PTL DEF Spec

\* What a lance_merge_insert has committed, chunk by chunk (the loop of
\* lance_merge_insert_impl_inner), is what one merge of all these rows leaves,
\* if no other call committed in between and no chunk repeats a key.
THEOREM ChunkedMergeIsOneMergeCorrect == Spec => []ChunkedMergeIsOneMerge
<1>1. ASSUME IInv, RowsInv, MergeInv PROVE ChunkedMergeIsOneMerge
  <2> SUFFICES ASSUME NEW c \in Calls, Merges(c), Undisturbed(c), DistinctInChunks(args[c])
               PROVE  IsMergeOf(args[c], SubSeq(Source(c), 1, done[c]),
                                Before(c), After(c), {c})
    BY DEF ChunkedMergeIsOneMerge
  <2>1. /\ args[c] \in Arguments /\ args[c].source = Source(c)
        /\ done[c] \in 0 .. Len(args[c].source)
    BY <1>1, ArgumentsOfCall DEF IInv, CallInv, CursorInv, TypeOK, Source
  <2>2. Before(c) \in SUBSET Row /\ After(c) \in SUBSET Row
    BY <1>1, TablesOfMerge DEF Undisturbed
  <2>3. MergedUpTo(args[c], done[c], Before(c), After(c), c)
    BY <1>1 DEF MergeInv, MergedInv
  <2> QED
    BY <2>1, <2>2, <2>3, KeysMakeMerge
<1> QED
  BY <1>1, MergeInvariance, PTL

\* Updating merges of one source after one another: the second one makes up for
\* what the first one did not come to.
LEMMA MergedAgain ==
    ASSUME NEW a, NEW b, a.source = b.source, a.matched = "update",
           b.matched = "update", a.unmatched = b.unmatched,
           NEW m \in Nat, NEW n \in Nat, m <= n, NEW c, NEW d, NEW k, NEW B, NEW M, NEW F,
           \A r, s \in F : r.id = s.id => r = s,
           KeyMerged(a, m, B, M, k, c), KeyMerged(b, n, M, F, k, d)
    PROVE  KeyMerged(b, n, B, F, k, d)
<1>1. Spots(a, m, k) \subseteq Spots(b, n, k)
  BY DEF Spots
<1>2. CASE Spots(a, m, k) = {}
  BY <1>2 DEF KeyMerged
<1>3. CASE Spots(a, m, k) # {}
  <2>1. Spots(b, n, k) # {}
    BY <1>1, <1>3
  <2>2. CASE B = {} /\ a.unmatched = "insert"
    <3>1. PICK r : M = {r}
      BY <1>3, <2>2 DEF KeyMerged
    <3>2. IdsOf(F) = {r.id} /\ Won(b, n, F, k, d)
      BY <2>1, <3>1 DEF KeyMerged, IdsOf
    <3>3. \E s : F = {s}
      <4>1. PICK s \in F : s.id = r.id
        BY <3>2 DEF IdsOf
      <4>2. \A x \in F : x.id = r.id
        BY <3>2 DEF IdsOf
      <4>3. \A x \in F : x = s
        BY <4>1, <4>2
      <4> QED
        BY <4>1, <4>3
    <3> QED
      BY <2>1, <2>2, <3>2, <3>3 DEF KeyMerged
  <2>3. CASE B = {} /\ a.unmatched # "insert"
    <3>1. M = {}
      BY <1>3, <2>3 DEF KeyMerged
    <3> QED
      BY <2>3, <3>1
  <2>4. CASE B # {}
    <3>1. IdsOf(M) = IdsOf(B)
      BY <1>3, <2>4 DEF KeyMerged
    <3>2. M # {}
      BY <2>4, <3>1 DEF IdsOf
    <3>3. IdsOf(F) = IdsOf(M) /\ Won(b, n, F, k, d)
      BY <2>1, <3>2 DEF KeyMerged
    <3> QED
      BY <2>1, <2>4, <3>1, <3>3 DEF KeyMerged
  <2> QED
    BY <2>2, <2>3, <2>4
<1> QED
  BY <1>2, <1>3

\* Running an updating merge again, in chunks of any size, completes one that
\* ended partway (README: "Re-running an idempotent merge is safe").
THEOREM RerunCompletesMergeCorrect == Spec => []RerunCompletesMerge
<1>1. ASSUME IInv, RowsInv, MergeInv PROVE RerunCompletesMerge
  <2> SUFFICES ASSUME NEW c \in Calls, NEW d \in Calls, Merges(c), Merges(d),
                      [args[c] EXCEPT !.chunk = 0] = [args[d] EXCEPT !.chunk = 0],
                      args[c].matched = "update",
                      DistinctInChunks(args[c]), DistinctInChunks(args[d]),
                      pc[d] = "ok", Undisturbed(c), Undisturbed(d),
                      Max(Mine(c)) + 1 = Min(Mine(d))
               PROVE  IsMergeOf(args[d], Source(d), Before(c), After(d), {d})
    BY DEF RerunCompletesMerge
  <2>1. /\ args[c] \in Arguments /\ args[c].source = Source(c)
        /\ args[d] \in Arguments /\ args[d].source = Source(d)
        /\ Source(d) \in Seq(Key) /\ Len(Source(d)) \in Nat
        /\ done[c] \in Nat /\ done[c] <= Len(Source(c)) /\ done[d] = Len(Source(d))
    <3>1. /\ args[c] \in Arguments /\ args[d] \in Arguments
          /\ Source(d) \in Seq(Key) /\ Len(Source(d)) \in Nat /\ Len(Source(c)) \in Nat
      BY <1>1, ArgumentsOfCall DEF IInv
    <3>2. /\ done[c] \in Nat /\ total[c] \in Nat /\ done[d] \in Nat /\ total[d] \in Nat
          /\ CursorInv(c) /\ CursorInv(d)
      BY <1>1 DEF IInv, CallInv, TypeOK
    <3>3. done[c] <= Len(Source(c))
      BY <3>1, <3>2 DEF CursorInv
    <3>4. done[d] = Len(Source(d))
      BY <3>1, <3>2 DEF CursorInv
    <3> QED
      BY <3>1, <3>2, <3>3, <3>4 DEF Source
  <2>2. /\ args[c].source = args[d].source /\ args[c].matched = args[d].matched
        /\ args[c].unmatched = args[d].unmatched
    <3>1. PICK a, b : a = args[c] /\ b = args[d] /\ a \in Arguments /\ b \in Arguments
      BY <2>1
    <3>2. [a EXCEPT !.chunk = 0] = [b EXCEPT !.chunk = 0]
      BY <3>1
    <3>3. /\ [a EXCEPT !.chunk = 0].source = a.source
          /\ [a EXCEPT !.chunk = 0].matched = a.matched
          /\ [a EXCEPT !.chunk = 0].unmatched = a.unmatched
          /\ [b EXCEPT !.chunk = 0].source = b.source
          /\ [b EXCEPT !.chunk = 0].matched = b.matched
          /\ [b EXCEPT !.chunk = 0].unmatched = b.unmatched
      BY <3>1 DEF Arguments
    <3> QED
      BY <3>1, <3>2, <3>3
  <2>3. Before(d) = After(c)
    <3>1. Max(Mine(c)) \in 1 .. Len(log) /\ Len(log) \in Nat
      BY <1>1, FirstAndLast DEF Undisturbed
    <3>2. Min(Mine(d)) - 1 = Max(Mine(c))
      BY <3>1
    <3> QED
      BY <3>2 DEF Before, After
  <2>4. /\ Before(c) \in SUBSET Row /\ After(d) \in SUBSET Row
        /\ \A r, s \in After(d) : r.id = s.id => r = s
    BY <1>1, TablesOfMerge DEF Undisturbed
  <2>5. /\ MergedUpTo(args[c], done[c], Before(c), After(c), c)
        /\ MergedUpTo(args[d], done[d], After(c), After(d), d)
    BY <1>1, <2>3 DEF MergeInv, MergedInv
  <2>6. MergedUpTo(args[d], done[d], Before(c), After(d), d)
    <3> SUFFICES ASSUME NEW k \in Key
                 PROVE  KeyMerged(args[d], done[d], OfKey(Before(c), k), OfKey(After(d), k), k, d)
      BY DEF MergedUpTo
    <3>1. /\ KeyMerged(args[c], done[c], OfKey(Before(c), k), OfKey(After(c), k), k, c)
          /\ KeyMerged(args[d], done[d], OfKey(After(c), k), OfKey(After(d), k), k, d)
      BY <2>5 DEF MergedUpTo
    <3>2. \A r, s \in OfKey(After(d), k) : r.id = s.id => r = s
      BY <2>4 DEF OfKey
    <3>3. done[d] \in Nat /\ done[c] <= done[d]
      BY <2>1, <2>2
    <3> QED
      BY <2>1, <2>2, <3>1, <3>2, <3>3, MergedAgain
  <2>7. SubSeq(Source(d), 1, Len(Source(d))) = Source(d)
    BY <2>1
  <2>8. IsMergeOf(args[d], SubSeq(args[d].source, 1, done[d]), Before(c), After(d), {d})
    <3>1. done[d] \in 0 .. Len(args[d].source)
      BY <2>1
    <3> QED
      BY <2>1, <2>4, <2>6, <3>1, KeysMakeMerge
  <2> QED
    BY <2>1, <2>7, <2>8
<1> QED
  BY <1>1, MergeInvariance, PTL
=============================================================================
