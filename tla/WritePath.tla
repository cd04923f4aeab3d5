----------------------------- MODULE WritePath ------------------------------
(***************************************************************************)
(* The write path of the extension: backends that run lance_append and     *)
(* lance_merge_insert on one dataset.  A call streams its source query     *)
(* through an SPI cursor in chunks (for_each_spi_chunk) and turns every    *)
(* chunk into a Lance commit of its own (the closure of                    *)
(* lance_append_impl, handle_chunk of lance_merge_insert_impl_inner).      *)
(* Backends share nothing but the dataset, so the steps of calls           *)
(* interleave between any two of: fetching a chunk, opening the dataset    *)
(* for it, and the commit taking effect.                                   *)
(*                                                                         *)
(* A call is issued at most once; running the statement again is another   *)
(* call.  Its arguments, with the GUC lance.write_chunk_rows it reads when *)
(* it starts, are in args.                                                 *)
(***************************************************************************)
EXTENDS LanceLog

CONSTANTS
    Calls,       \* the calls that may be issued
    NoCall,      \* the author of the version that is there before them
    Key,         \* values of the merge columns
    CallArgs,    \* the arguments a call may be issued with
    SeedKeys,    \* the keys of the rows of that version
    MaxRunning   \* how many backends write at the same time

Modes  == {"create", "append", "overwrite"}          \* mode of lance_append
Faults == {"none",     \* nothing wrong with the call
           "args",     \* invalid mode; empty on_columns
           "server",   \* server_name is not a foreign server
           "columns",  \* a column type, or an override, Arrow cannot take
           "keys",     \* an on_column the source or the dataset lacks
           "matched"}  \* when_matched or when_not_matched is not a keyword

Arguments ==
    [op: Modes \union {"merge"}, source: Seq(Key), chunk: Nat,
     matched: {"update", "nothing"}, unmatched: {"insert", "nothing"},
     fault: Faults]

\* lance_append has no on_columns and no when_ keywords to get wrong.
ASSUME CallArgsAssumption ==
    CallArgs \subseteq { a \in Arguments :
        a.op # "merge" => a.fault \notin {"keys", "matched"} }
ASSUME SeedAssumption     == SeedKeys \in Seq(Key)
ASSUME NoCallAssumption   == NoCall \notin Calls
ASSUME RunningAssumption  == MaxRunning \in Nat \ {0}

VARIABLES
    log,      \* the dataset
    args,     \* what each call was issued with
    pc,       \* where each call is; its outcome once it has ended
    total,    \* total_rows: source rows fetched so far
    done,     \* source rows in finished chunks: the batches in hand are
              \*   rows done+1..total
    first,    \* lance_append's `first`
    handle,   \* lance_merge_insert's `dataset`: its version, 0 for None
    readv,    \* the version the Lance operation in flight was prepared against
    txns      \* lance_merge_insert's chunk_txns

cursor == <<total, done>>
local  == <<first, handle, readv, txns>>
vars   == <<log, args, pc, cursor, local>>

-----------------------------------------------------------------------------
Merges(c)  == args[c].op = "merge"
Source(c)  == args[c].source
Running(c) == pc[c] \in {"fetch", "handle", "commit"}
Ended(c)   == pc[c] \in {"ok", "error", "guard"}
Goto(c, l) == pc' = [pc EXCEPT ![c] = l]

\* Mutant of WriteMode: an overwrite is written as an append.
OverwriteAsAppend(c) ==
    IF Merges(c) \/ (first[c] /\ args[c].op = "create")
    THEN args[c].op ELSE "append"

\* The kind of commit the chunk in hand asks for: only the first chunk of
\* lance_append honours the mode.
WriteMode(c) == IF Merges(c) \/ first[c] THEN args[c].op ELSE "append"

SeedVersion ==
    [op |-> "create", by |-> NoCall, read |-> 0, lo |-> 0, hi |-> 0,
     rows |-> Inserted(SeedKeys, DOMAIN SeedKeys, NoCall, 1)]

Init ==
    /\ log \in {<<>>, <<SeedVersion>>}
    /\ args \in [Calls -> CallArgs]
    /\ pc     = [c \in Calls |-> "new"]
    /\ total  = [c \in Calls |-> 0]
    /\ done   = [c \in Calls |-> 0]
    /\ first  = [c \in Calls |-> TRUE]
    /\ handle = [c \in Calls |-> 0]
    /\ readv  = [c \in Calls |-> 0]
    /\ txns   = [c \in Calls |-> 0]

-----------------------------------------------------------------------------
(* The call starts.  lance_append resolves the storage options of its      *)
(* server here; lance_merge_insert only when it first opens the dataset.   *)

RejectedAtStart(c) ==
    args[c].fault \in (IF Merges(c) THEN {"args"} ELSE {"args", "server"})

Start(c) ==
    /\ pc[c] = "new"
    /\ Cardinality({d \in Calls : Running(d)}) < MaxRunning
    /\ Goto(c, IF RejectedAtStart(c) THEN "error" ELSE "fetch")
    /\ UNCHANGED <<log, args, cursor, local>>

-----------------------------------------------------------------------------
(* The loop of for_each_spi_chunk.                                         *)

\* The columns of the source are looked at once, on the first rows.
BadColumns(c) == total[c] = 0 /\ args[c].fault = "columns"

\* Mutant of AtEnd: a fetch that would come up short ends the loop.
ShortFetch(c) ==
    \/ total[c] = Len(Source(c))
    \/ Len(Source(c)) < total[c] + args[c].chunk

\* The next fetch is empty.
AtEnd(c) == total[c] = Len(Source(c))

FetchChunk(c) ==
    /\ pc[c] = "fetch"
    /\ ~AtEnd(c)
    /\ ~BadColumns(c)
    /\ total' = [total EXCEPT ![c] =
                   NextStop(Len(Source(c)), args[c].chunk, total[c])]
    /\ Goto(c, "handle")
    /\ UNCHANGED <<log, args, done, local>>

\* An empty fetch ends the loop, and the call returns its counts.
FetchEmpty(c) ==
    /\ pc[c] = "fetch"
    /\ AtEnd(c)
    /\ Goto(c, "ok")
    /\ UNCHANGED <<log, args, cursor, local>>

FetchRejected(c) ==
    /\ pc[c] = "fetch"
    /\ ~AtEnd(c)
    /\ BadColumns(c)
    /\ Goto(c, "error")
    /\ UNCHANGED <<log, args, cursor, local>>

\* The Arrow copy of the chunk outgrows lance.max_write_buffer_mb.  How many
\* bytes a row takes is the data's affair, so any chunk may.
GuardAborts(c) ==
    /\ pc[c] = "fetch"
    /\ ~AtEnd(c)
    /\ ~BadColumns(c)
    /\ Goto(c, "guard")
    /\ UNCHANGED <<log, args, cursor, local>>

-----------------------------------------------------------------------------
(* The chunk handler, up to the Lance operation: which dataset version the *)
(* operation is prepared against, and the checks made on the way.          *)
(* lance_append looks for the dataset and Dataset::write opens it again;   *)
(* that is one step here, since a dataset that is there stays there.       *)

RejectedWrite(c) ==
    /\ first[c]
    /\ \/ args[c].op = "append" /\ log = <<>>
       \/ args[c].op = "create" /\ log # <<>>

\* Mutant of RejectedMerge: unknown keywords fall through to a default.
KeywordsUnchecked(c) ==
    handle[c] = 0 /\ (log = <<>> \/ args[c].fault \in {"server", "keys"})

\* lance_merge_insert looks at its keywords only here, with rows in hand, and
\* Lance refuses a merge that would do nothing.
RejectedMerge(c) ==
    \/ handle[c] = 0 /\ (log = <<>> \/ args[c].fault \in {"server", "keys"})
    \/ args[c].fault = "matched"
    \/ args[c].matched = "nothing" /\ args[c].unmatched = "nothing"

RejectedChunk(c) == IF Merges(c) THEN RejectedMerge(c) ELSE RejectedWrite(c)

\* Mutant of BaseVersion: the version the operation is going to make.
UncommittedBase(c) ==
    IF Merges(c) /\ handle[c] # 0 THEN handle[c] ELSE Latest(log) + 1

\* A merge after its first chunk goes on from the dataset the last merge
\* returned; every other operation opens the latest version.
BaseVersion(c) ==
    IF Merges(c) /\ handle[c] # 0 THEN handle[c] ELSE Latest(log)

PrepareChunk(c) ==
    /\ pc[c] = "handle"
    /\ ~RejectedChunk(c)
    /\ readv'  = [readv EXCEPT ![c] = BaseVersion(c)]
    /\ handle' = [handle EXCEPT ![c] = 0]                 \* dataset.take()
    /\ Goto(c, "commit")
    /\ UNCHANGED <<log, args, cursor, first, txns>>

HandleRejected(c) ==
    /\ pc[c] = "handle"
    /\ RejectedChunk(c)
    /\ Goto(c, "error")
    /\ UNCHANGED <<log, args, cursor, local>>

-----------------------------------------------------------------------------
(* The Lance operation commits its version, is rebased on the versions     *)
(* committed since it was prepared, or is refused because of them.         *)

\* Mutant of Chunk: the batches of earlier chunks are still in hand.
BatchesKept(c) == Positions(0, total[c])

\* The batches in hand, the rows the operation reads, and those it lands on.
Chunk(c) == Positions(done[c], total[c])
Base(c)  == RowsAt(log, readv[c])
Newest   == RowsAt(log, Latest(log))

RowsWritten(c) ==
    (IF WriteMode(c) = "append" THEN Newest ELSE {})
        \union Inserted(Source(c), Chunk(c), c, Latest(log) + 1)

\* The rows a merge replaces, and the rows it brings, computed on its base.
Removed(c) ==
    IF args[c].matched = "update"
    THEN Rewritten(Base(c), Source(c), Chunk(c)) ELSE {}

Added(c) ==
    (IF args[c].matched = "update"
       THEN Updated(Base(c), Source(c), Chunk(c), c) ELSE {})
    \union
    (IF args[c].unmatched = "insert"
       THEN Inserted(Source(c), Unmatched(Base(c), Source(c), Chunk(c)),
                     c, Latest(log) + 1)
       ELSE {})

Refused(c) ==
    CASE WriteMode(c) = "create"    -> log # <<>>
      [] WriteMode(c) = "overwrite" -> FALSE
      [] WriteMode(c) = "append"    -> ReplacedSince(log, readv[c])
      [] WriteMode(c) = "merge"     ->
           \/ ReplacedSince(log, readv[c])
           \/ args[c].matched = "update"
                /\ Ambiguous(Base(c), Source(c), Chunk(c))

\* A row the merge replaces was changed by a commit since: it starts over.
Contended(c) == Merges(c) /\ ~(Removed(c) \subseteq Newest)

\* Mutant of MergedDataset: the dataset the merge was built on is kept.
KeptDataset(c) == readv[c]

\* The dataset the merge returns: the version it commits.
MergedDataset(c) == Latest(log) + 1

Entry(c, rows) ==
    [op |-> WriteMode(c), by |-> c, read |-> readv[c],
     lo |-> done[c], hi |-> total[c], rows |-> rows]

CommitWrite(c) ==
    /\ pc[c] = "commit" /\ ~Merges(c)
    /\ ~Refused(c)
    /\ log'   = Append(log, Entry(c, RowsWritten(c)))
    /\ done'  = [done EXCEPT ![c] = total[c]]
    /\ first' = [first EXCEPT ![c] = FALSE]
    /\ Goto(c, "fetch")
    /\ UNCHANGED <<args, total, handle, readv, txns>>

CommitMerge(c) ==
    /\ pc[c] = "commit" /\ Merges(c)
    /\ ~Refused(c) /\ ~Contended(c)
    /\ log'    = Append(log, Entry(c, (Newest \ Removed(c)) \union Added(c)))
    /\ done'   = [done EXCEPT ![c] = total[c]]
    /\ handle' = [handle EXCEPT ![c] = MergedDataset(c)]
    /\ txns'   = [txns EXCEPT ![c] = @ + 1]
    /\ Goto(c, "fetch")
    /\ UNCHANGED <<args, total, first, readv>>

\* Lance executes the merge again, on the latest version.
RetryMerge(c) ==
    /\ pc[c] = "commit"
    /\ ~Refused(c) /\ Contended(c)
    /\ readv' = [readv EXCEPT ![c] = Latest(log)]
    /\ UNCHANGED <<log, args, pc, cursor, first, handle, txns>>

\* Mutant of CommitRefused: the result of the operation is not looked at.
RefusalIgnored(c) ==
    /\ pc[c] = "commit"
    /\ Refused(c)
    /\ Goto(c, "fetch")
    /\ UNCHANGED <<log, args, cursor, local>>

\* Mutant of CommitRefused: the chunk is handled again from the top.
RefusalRetried(c) ==
    /\ pc[c] = "commit"
    /\ Refused(c)
    /\ Goto(c, "handle")
    /\ UNCHANGED <<log, args, cursor, local>>

\* The error of the operation ends the call.
CommitRefused(c) ==
    /\ pc[c] = "commit"
    /\ Refused(c)
    /\ Goto(c, "error")
    /\ UNCHANGED <<log, args, cursor, local>>

\* Anything else that ends a call before its time: a source or storage error,
\* a statement cancel, the retries of a merge used up, the backend killed.  The
\* call's memory is gone; the dataset stays as it is.
Interrupted(c) ==
    /\ Running(c)
    /\ Goto(c, "error")
    /\ UNCHANGED <<log, args, cursor, local>>

-----------------------------------------------------------------------------
\* What a running call does by itself.
Progress(c) ==
    \/ FetchChunk(c) \/ FetchEmpty(c) \/ FetchRejected(c)
    \/ PrepareChunk(c) \/ HandleRejected(c)
    \/ CommitWrite(c) \/ CommitMerge(c) \/ RetryMerge(c) \/ CommitRefused(c)

Step(c) == Start(c) \/ Progress(c) \/ GuardAborts(c) \/ Interrupted(c)

\* No call is left to run.
Finished == (\A c \in Calls : Ended(c)) /\ UNCHANGED vars

Next == (\E c \in Calls : Step(c)) \/ Finished

Spec == Init /\ [][Next]_vars

\* A backend that runs a call keeps running it; that a call is issued, fails
\* or is interrupted is never required.
FairSpec == Spec /\ \A c \in Calls : WF_vars(Progress(c))

-----------------------------------------------------------------------------
(* Properties.                                                             *)

Row == [id: Nat \X Nat, key: Key, by: Calls \union {NoCall}, pos: Nat]

Version ==
    [op: Modes \union {"merge"}, by: Calls \union {NoCall}, read: Nat,
     lo: Nat, hi: Nat, rows: SUBSET Row]

\* Every variable keeps to the values the code can give it.
TypeOK ==
    /\ log \in Seq(Version)
    /\ args \in [Calls -> CallArgs]
    /\ pc \in [Calls -> {"new", "fetch", "handle", "commit",
                         "ok", "error", "guard"}]
    /\ total \in [Calls -> Nat]
    /\ done \in [Calls -> Nat]
    /\ first \in [Calls -> BOOLEAN]
    /\ handle \in [Calls -> 0 .. Len(log)]
    /\ readv \in [Calls -> 0 .. Len(log)]
    /\ txns \in [Calls -> Nat]

\* The versions call c committed.
Mine(c) == { v \in DOMAIN log : log[v].by = c }

\* The source rows version v applied.
Applied(v) == Positions(log[v].lo, log[v].hi)

\* However calls interleave and wherever one stops, the commits of a call are
\* an initial segment of its source, each row applied once and in order, and a
\* call that returns normally has applied all of it (for_each_spi_chunk counts
\* the rows of a chunk before the handler has committed them).
AppliedInOrder ==
    \A c \in Calls :
        /\ \A v \in Mine(c) : Applied(v) \subseteq 1 .. done[c]
        /\ \A p \in 1 .. done[c] : \E v \in Mine(c) : p \in Applied(v)
        /\ \A v, w \in Mine(c) : v < w => log[v].hi <= log[w].lo
        /\ done[c] <= total[c] /\ total[c] <= Len(Source(c))
        /\ pc[c] = "ok" => done[c] = Len(Source(c))

\* With lance.write_chunk_rows = 0 a call is all or nothing: it makes one
\* commit, of its whole source, or none (README: "strict all-or-nothing
\* semantics").
AllOrNothing ==
    \A c \in Calls : args[c].chunk = 0 =>
        \A v \in Mine(c) : /\ Applied(v) = 1 .. Len(Source(c))
                           /\ Mine(c) = {v}

\* A call that is wrong in itself commits nothing, although lance_merge_insert
\* checks its keywords only after it has fetched rows, and it returns normally
\* only if its source was empty.
RejectedNeverCommits ==
    \A c \in Calls : args[c].fault # "none" =>
        /\ Mine(c) = {}
        /\ pc[c] = "ok" => Source(c) = <<>>

\* A merge in flight was prepared against a version that has all the commits
\* its call made before, whatever others did to the dataset in between ("so the
\* next chunk sees prior changes", merge_insert.rs).
MergeSeesOwnWrites ==
    \A c \in Calls : Merges(c) /\ pc[c] = "commit" =>
        \A v \in Mine(c) : v <= readv[c]

\* Two source rows with the same key are in chunks of their own.
DistinctInChunks(a) ==
    \A p, q \in DOMAIN a.source :
        p < q /\ a.source[p] = a.source[q] =>
            /\ a.chunk # 0
            /\ (p - 1) \div a.chunk # (q - 1) \div a.chunk

\* One merge call inserts a key at most once, even when other backends commit
\* between its chunks (13_write_merge_insert.slt: "No duplicate keys despite
\* per-chunk commits").
InsertsEachKeyOnce ==
    \A c \in Calls : Merges(c) /\ DistinctInChunks(args[c]) =>
        \A r, s \in { x \in Newest : x.id[1] \in Mine(c) } :
            r.key = s.key => r = s

\* Rows that lance_append wrote stay, each exactly once, until somebody
\* replaces the table or merges into it: concurrent appends lose nothing.
AppendedRowsStay ==
    \A c \in Calls : ~Merges(c) =>
        LET rows == { r \in Newest : r.by = c } IN
        (\A v \in Mine(c) : \A w \in v + 1 .. Len(log) :
             log[w].op = "append")
        => /\ { r.pos : r \in rows } = 1 .. done[c]
           /\ Cardinality(rows) = done[c]

\* Nothing brings back a row that was in the table when an overwrite replaced
\* it, whoever wrote or last updated it: not the later chunks of the call, not
\* an append or merge that read the table before.  The rows in the table have
\* the ids of commits since the call's first.
OverwriteReplaces ==
    \A c \in Calls : args[c].op = "overwrite" =>
        \A v \in Mine(c) : (\A u \in Mine(c) : v <= u) =>
            \A r \in Newest : r.id[1] >= v
=============================================================================
