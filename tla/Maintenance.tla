---------------------------- MODULE Maintenance -----------------------------
(***************************************************************************)
(* The calls that maintain a Lance dataset and report on it: lance_delete, *)
(* lance_optimize, the index functions, lance_vacuum, lance_cleanup_plan,  *)
(* lance_table_info and lance_fragment_stats, with the appends that add to *)
(* the dataset and the foreign scans that read a version of it.            *)
(*                                                                         *)
(* Each function opens the latest version of the dataset and makes one     *)
(* call of Lance on it.  Backends share nothing but the dataset, so others *)
(* commit between the opening and the commit or the answer; the Cutoff of  *)
(* a cleanup is fixed even before the opening.                             *)
(*                                                                         *)
(* A version is a set of fragments, each with one data file that is never  *)
(* changed, the rows its deletion files mark as deleted, and its indexes   *)
(* with the fragments each of them covers.  A version is in use as long as *)
(* its manifest is there; the files it names can be deleted only by vacuum.*)
(***************************************************************************)
EXTENDS Integers, Sequences, FiniteSets

CONSTANTS
    Backend, Row, Index,
    Requests,                 \* calls with their arguments
    Seed,                     \* the rows of the fragments of version 1
    SeedCover,                \* its indexes, and the fragments they cover
    None,                     \* an argument that is NULL, a count that is unknown
    Unrecorded,               \* <<"physical" or "deleted", v, f>>: version v does
                              \* not record how many rows the data file, or the
                              \* deletion file, of its fragment f has
    MaxVersions, MaxFiles,    \* how many commits and data files, at most
    MaxTime, MaxCalls, MaxTags

\* Arguments: what to append; the rows a predicate matches; rewrite_all and
\* max_source_fragments; index_name and replace; index_names, {} for all;
\* older_than_seconds, before_version, delete_unverified and
\* error_if_tagged_old_versions.
Request ==
    [op: {"append", "delete"}, rows: SUBSET Row]
    \union [op: {"optimize"}, all: BOOLEAN, cap: Int \union {None}]
    \union [op: {"create_index"}, index: Index, replace: BOOLEAN]
    \union [op: {"drop_index"}, index: Index]
    \union [op: {"optimize_indices"}, names: SUBSET Index]
    \union [op: {"vacuum", "plan"}, older: Int \union {None},
            before: Int \union {None}, unverified: BOOLEAN, strict: BOOLEAN]
    \union [op: {"info", "stats", "list", "scan"}]

ASSUME RequestAssumption == Requests \subseteq Request
ASSUME SeedAssumption    ==
    /\ Seed \in Seq(SUBSET Row)
    /\ SeedCover \subseteq Index \X DOMAIN Seed
\* A row is in one fragment of a version: Lance gives every row an id of its own.
ASSUME ApartAssumption   ==
    \A f, g \in DOMAIN Seed : f # g => Seed[f] \intersect Seed[g] = {}
\* A call appends finitely many rows and names finitely many indexes.
ASSUME FiniteAssumption  ==
    /\ \A f \in DOMAIN Seed : IsFiniteSet(Seed[f])
    /\ \A r \in Requests : /\ r.op = "append" => IsFiniteSet(r.rows)
                           /\ r.op = "optimize_indices" => IsFiniteSet(r.names)
ASSUME NoneAssumption    == None \notin Int
ASSUME RecordAssumption  == Unrecorded \subseteq {"physical", "deleted"} \X Nat \X Nat
ASSUME BoundAssumption   ==
    /\ MaxVersions \in Nat /\ MaxFiles \in Nat
    /\ MaxTime \in Nat /\ MaxCalls \in Nat /\ MaxTags \in Nat

VARIABLES
    log,        \* the versions committed so far
    stored,     \* the data files written so far: the rows each one holds
    manifests,  \* the versions whose manifest is there
    files,      \* the data files that are there
    tags,       \* the versions that have a tag
    now,
    calls,      \* how many calls were made
    call,       \* the call each backend runs or last ran
    pc,         \* where it is
    base,       \* the version it opened
    seen,       \* the version its commit is prepared against
    cut,        \* before_timestamp of a cleanup; None for no bound
    mine,       \* the data file it has written, 0 for none
    work,       \* fragments it rewrites, has yet to read, or files to remove
    doomed,     \* manifests to remove
    got,        \* the rows a scan has read, or a report has counted
    reply,      \* what the last call returned
    condemned,  \* history: the versions vacuums set out to remove, and the calls
    blind,      \* history: files that delete_unverified let them remove though no
                \* version named them (yet)
    late        \* history: versions that were tagged when a vacuum had already
                \* set out to remove them

history == <<condemned, blind, late>>
storage == <<log, stored, manifests, files, tags, history>>
local   == <<base, seen, cut, mine, work, doomed, got, reply>>
vars    == <<storage, now, calls, call, pc, local>>

-----------------------------------------------------------------------------
(* Versions.                                                               *)

Latest == Len(log)
Frags(v) == log[v].frags

\* The rows of fragment f that version v shows.
Live(v, f) == {r \in stored[f] : <<f, r>> \notin log[v].dead}
RowsAt(v)  == UNION { Live(v, f) : f \in Frags(v) }

Within(pairs, F) == {p \in pairs : p[1] \in F}
DeadIn(v, F)     == Within(log[v].dead, F)

\* The fragments F are in version v as they were in version u.
Unchanged(F, u, v) ==
    /\ F \subseteq Frags(v)
    /\ DeadIn(v, F) = DeadIn(u, F)

Version1 ==
    [op |-> "append", read |-> 0, frags |-> DOMAIN Seed, dead |-> {},
     idx |-> {p[1] : p \in SeedCover}, cover |-> SeedCover, at |-> 0]

NoCall  == [op |-> "info"]
NoReply == [op |-> "none"]

Init ==
    /\ log = <<Version1>>
    /\ stored = Seed
    /\ manifests = {1}
    /\ files = DOMAIN Seed
    /\ tags = {}
    /\ now = 0
    /\ calls = 0
    /\ call   = [b \in Backend |-> NoCall]
    /\ pc     = [b \in Backend |-> "idle"]
    /\ base   = [b \in Backend |-> 1]
    /\ seen   = [b \in Backend |-> 1]
    /\ cut    = [b \in Backend |-> None]
    /\ mine   = [b \in Backend |-> 0]
    /\ work   = [b \in Backend |-> {}]
    /\ doomed = [b \in Backend |-> {}]
    /\ got    = [b \in Backend |-> {}]
    /\ reply  = [b \in Backend |-> NoReply]
    /\ condemned = {}
    /\ blind = {}
    /\ late = {}

-----------------------------------------------------------------------------
(* A call begins.                                                          *)

Negative(n) == n # None /\ n < 0

\* optional_u64, optional_usize, and what optimize and cleanup_policy refuse.
Invalid(r) ==
    CASE r.op \in {"vacuum", "plan"} -> Negative(r.older) \/ Negative(r.before)
      [] r.op = "optimize" -> Negative(r.cap) \/ (r.all /\ r.cap # None)
      [] OTHER -> FALSE

\* Mutant of Cutoff: no older_than_seconds is taken for 0.
CutoffNow(r) ==
    IF r.op \in {"vacuum", "plan"}
    THEN now - (IF r.older = None THEN 0 ELSE r.older) ELSE None

\* before_timestamp: the time of the call less older_than_seconds.
Cutoff(r) ==
    IF r.op \in {"vacuum", "plan"} /\ r.older # None THEN now - r.older ELSE None

\* Appended rows are new rows.
Fresh(R) ==
    /\ \A f \in DOMAIN stored : stored[f] \intersect R = {}
    /\ \A b \in Backend :
         pc[b] \in {"open", "run"} /\ call[b].op = "append"
            => call[b].rows \intersect R = {}

Returns(b, answer) ==
    /\ reply'  = [reply EXCEPT ![b] = answer]
    /\ call'   = [call EXCEPT ![b] = NoCall]
    /\ pc'     = [pc EXCEPT ![b] = "idle"]
    /\ base'   = [base EXCEPT ![b] = 1]
    /\ seen'   = [seen EXCEPT ![b] = 1]
    /\ cut'    = [cut EXCEPT ![b] = None]
    /\ mine'   = [mine EXCEPT ![b] = 0]
    /\ work'   = [work EXCEPT ![b] = {}]
    /\ doomed' = [doomed EXCEPT ![b] = {}]
    /\ got'    = [got EXCEPT ![b] = {}]

Error == [op |-> "error"]

Start(b, r) ==
    /\ pc[b] = "idle"
    /\ ~Invalid(r)
    /\ calls < MaxCalls
    /\ r.op = "append" => Fresh(r.rows)
    /\ calls' = calls + 1
    /\ call'  = [call EXCEPT ![b] = r]
    /\ cut'   = [cut EXCEPT ![b] = Cutoff(r)]
    /\ pc'    = [pc EXCEPT ![b] = "open"]
    /\ reply' = [reply EXCEPT ![b] = NoReply]
    /\ UNCHANGED <<storage, now, base, seen, mine, work, doomed, got>>

\* The arguments are refused before anything is opened.
Refuse(b, r) ==
    /\ pc[b] = "idle"
    /\ Invalid(r)
    /\ calls < MaxCalls
    /\ calls' = calls + 1
    /\ Returns(b, Error)
    /\ UNCHANGED <<storage, now>>

\* open_dataset: the latest version.
Open(b) ==
    /\ pc[b] = "open"
    /\ base' = [base EXCEPT ![b] = Latest]
    /\ seen' = [seen EXCEPT ![b] = Latest]
    /\ work' = [work EXCEPT ![b] = IF call[b].op = "scan" THEN Frags(Latest) ELSE {}]
    /\ pc'   = [pc EXCEPT ![b] = "run"]
    /\ UNCHANGED <<storage, now, calls, call, cut, mine, doomed, got, reply>>

\* The dataset cannot be opened, Lance fails or refuses the operation, or the
\* statement is cancelled.  Files that were written stay where they are.
Fail(b) ==
    /\ pc[b] # "idle"
    /\ Returns(b, Error)
    /\ UNCHANGED <<storage, now, calls>>

Runs(b, op) == pc[b] = "run" /\ call[b].op = op

\* A version is committed: its manifest is written.
Commit(version) ==
    /\ log' = Append(log, version)
    /\ manifests' = manifests \union {Latest + 1}

Current == log[Latest]

-----------------------------------------------------------------------------
(* Writes.  The data file is there before the version that names it.       *)

WriteFile(b, rows) ==
    /\ Len(stored) < MaxFiles
    /\ stored' = Append(stored, rows)
    /\ files'  = files \union {Len(stored) + 1}
    /\ mine'   = [mine EXCEPT ![b] = Len(stored) + 1]
    /\ UNCHANGED <<log, manifests, tags, history, now, calls,
                   call, pc, base, seen, cut, doomed, got, reply>>

AppendFile(b) ==
    /\ Runs(b, "append")
    /\ mine[b] = 0
    /\ WriteFile(b, call[b].rows)
    /\ UNCHANGED work

AppendCommit(b) ==
    /\ Runs(b, "append")
    /\ mine[b] # 0
    /\ Latest < MaxVersions
    /\ Commit([Current EXCEPT !.op = "append", !.read = seen[b], !.at = now,
                              !.frags = @ \union {mine[b]}])
    /\ Returns(b, [op |-> "append", at |-> Latest + 1])
    /\ UNCHANGED <<stored, files, tags, history, now, calls>>

\* Coverage is of fragments of the version.
Covering(cover, F) == {p \in cover : p[2] \in F}

\* What a delete prepared against version v marks, and the fragments it is in.
Hits(v, P)    == {p \in Frags(v) \X P : p[2] \in Live(v, p[1])}
Touched(v, P) == {p[1] : p \in Hits(v, P)}

\* A fragment all of whose rows are deleted leaves the version.
Emptied(v, P) == {f \in Touched(v, P) : Live(v, f) \subseteq P}

\* Mutants of FragmentsRemoved: the second count is of the version that was
\* opened; the difference is not floored.
StaleCount(b, left) == 0

Unfloored(b, left) == Cardinality(Frags(base[b])) - Cardinality(left)

\* fragments_removed: two counts on the handle, which the delete has moved
\* from the version that was opened to the one it committed.
FragmentsRemoved(b, left) ==
    LET removed == Cardinality(Frags(base[b])) - Cardinality(left)
    IN  IF removed > 0 THEN removed ELSE 0

DeleteCommit(b) ==
    LET P    == call[b].rows
        left == Current.frags \ Emptied(seen[b], P)
    IN  /\ Runs(b, "delete")
        /\ Unchanged(Touched(seen[b], P), seen[b], Latest)
        /\ Latest < MaxVersions
        /\ Commit([Current EXCEPT !.op = "delete", !.read = seen[b], !.at = now,
                                  !.frags = left,
                                  !.dead  = Within(@ \union Hits(seen[b], P), left),
                                  !.cover = Covering(@, left)])
        /\ Returns(b, [op |-> "delete", read |-> base[b], at |-> Latest + 1,
                       removed |-> FragmentsRemoved(b, left)])
        /\ UNCHANGED <<stored, files, tags, history, now, calls>>

\* Another commit changed the fragments: Lance prepares the delete again.
DeleteAgain(b) ==
    /\ Runs(b, "delete")
    /\ ~Unchanged(Touched(seen[b], call[b].rows), seen[b], Latest)
    /\ seen' = [seen EXCEPT ![b] = Latest]
    /\ UNCHANGED <<storage, now, calls, call, pc, base, cut, mine, work, doomed, got, reply>>

-----------------------------------------------------------------------------
(* lance_optimize.                                                         *)

\* The tasks: RewriteAllPlanner makes one of all fragments; Lance's own
\* planner chooses, at most max_source_fragments of them.
Planned(b) ==
    IF call[b].all THEN {Frags(base[b])}
    ELSE {S \in SUBSET Frags(base[b]) :
            call[b].cap # None => Cardinality(S) <= call[b].cap}

\* Nothing to rewrite: no version is committed.
NothingToOptimize(b) ==
    /\ Runs(b, "optimize")
    /\ mine[b] = 0
    /\ {} \in Planned(b)
    /\ Returns(b, [op |-> "optimize", at |-> 0, removed |-> 0, added |-> 0])
    /\ UNCHANGED <<storage, now, calls>>

RewriteFragments(b) ==
    /\ Runs(b, "optimize")
    /\ mine[b] = 0
    /\ \E S \in Planned(b) \ {{}} :
         /\ work' = [work EXCEPT ![b] = S]
         /\ WriteFile(b, UNION { Live(base[b], f) : f \in S })

\* Mutant of ReadVersion: the plan claims to be of the latest version.
LatestRead(b) == Latest

\* read_version of the plan: what the commit is checked against.
ReadVersion(b) == base[b]

\* The new fragment is covered by the indexes that cover all it replaces.
Remapped(cover, S, f) ==
    {p \in cover : p[2] \notin S}
    \union {<<i, f>> : i \in {j \in Index : \A g \in S : <<j, g>> \in cover}}

OptimizeCommit(b) ==
    /\ Runs(b, "optimize")
    /\ mine[b] # 0
    /\ Unchanged(work[b], ReadVersion(b), Latest)
    /\ Latest < MaxVersions
    /\ Commit([Current EXCEPT !.op = "optimize", !.read = base[b], !.at = now,
                              !.frags = (@ \ work[b]) \union {mine[b]},
                              !.dead  = @ \ DeadIn(Latest, work[b]),
                              !.cover = Remapped(@, work[b], mine[b])])
    /\ Returns(b, [op |-> "optimize", at |-> Latest + 1,
                   removed |-> Cardinality(work[b]), added |-> 1])
    /\ UNCHANGED <<stored, files, tags, history, now, calls>>

-----------------------------------------------------------------------------
(* Indexes.                                                                *)

\* Coverage of the indexes I, built on the version that was opened.
Built(b, I) == I \X (Frags(base[b]) \intersect Current.frags)

IndexCommit(b, idx, cover, answer) ==
    /\ Latest < MaxVersions
    /\ Commit([Current EXCEPT !.op = call[b].op, !.read = base[b], !.at = now,
                              !.idx = idx, !.cover = cover])
    /\ Returns(b, answer)
    /\ UNCHANGED <<stored, files, tags, history, now, calls>>

Without(cover, I) == {p \in cover : p[1] \notin I}

\* create_index refuses a name that is taken, unless told to replace.
CreateIndex(b) ==
    LET i == call[b].index IN
    /\ Runs(b, "create_index")
    /\ i \notin log[base[b]].idx \union Current.idx \/ call[b].replace
    /\ IndexCommit(b, Current.idx \union {i},
                   Without(Current.cover, {i}) \union Built(b, {i}),
                   [op |-> "create_index", at |-> Latest + 1])

\* The indexes it knows, and that are still there.
Known(b) == log[base[b]].idx \intersect Current.idx

DropIndex(b) ==
    LET i == call[b].index IN
    /\ Runs(b, "drop_index")
    /\ i \in Known(b)
    /\ IndexCommit(b, Current.idx \ {i}, Without(Current.cover, {i}),
                   [op |-> "drop_index", at |-> Latest + 1])

\* Mutant of Chosen: no names means no index.
NamedOnly(b) == Known(b) \intersect call[b].names

\* No names means all indexes.
Chosen(b) ==
    IF call[b].names = {} THEN Known(b) ELSE Known(b) \intersect call[b].names

\* optimized_index_count is the number of names given, 0 for all indexes.
OptimizeIndices(b) ==
    /\ Runs(b, "optimize_indices")
    /\ IndexCommit(b, Current.idx, Current.cover \union Built(b, Chosen(b)),
                   [op |-> "optimize_indices", read |-> base[b], at |-> Latest + 1,
                    names |-> call[b].names, count |-> Cardinality(call[b].names)])
-----------------------------------------------------------------------------
(* lance_vacuum and lance_cleanup_plan.                                    *)

\* CleanupPolicy: either limit makes a version old.
Old(b, v) ==
    \/ cut[b] # None /\ log[v].at < cut[b]
    \/ call[b].before # None /\ v < call[b].before

\* The version that was opened and the later ones are kept in any case.
Expired(b) == {v \in manifests : v < base[b] /\ Old(b, v)}

NamedBy(V) == UNION { Frags(v) : v \in V }

\* Mutant of Unverified: the policy always has delete_unverified.
AlwaysUnverified(b) == TRUE

Unverified(b) == call[b].unverified

\* Mutant of Garbage: what other versions name as well is not looked at.
GarbageOfExpired(b) ==
    files \intersect
        ( NamedBy(Expired(b) \ tags)
          \union (IF Unverified(b) THEN files \ NamedBy(manifests) ELSE {}) )

\* Files only expired versions name; with delete_unverified, also those that
\* no version names (yet).
Garbage(b) ==
    LET gone == Expired(b) \ tags IN
    files \intersect
        ( (NamedBy(gone) \ NamedBy(manifests \ gone))
          \union (IF Unverified(b) THEN files \ NamedBy(manifests) ELSE {}) )

Permitted(b) == call[b].strict => Expired(b) \intersect tags = {}

Survey(b) ==
    /\ Runs(b, "vacuum")
    /\ Permitted(b)
    /\ pc' = [pc EXCEPT ![b] = "sweep"]
    /\ doomed' = [doomed EXCEPT ![b] = Expired(b) \ tags]
    /\ work'   = [work EXCEPT ![b] = Garbage(b)]
    /\ UNCHANGED <<storage, now, calls, call, base, seen, cut, mine, got, reply>>

Remove(b, F, V) ==
    /\ files'     = files \ F
    /\ manifests' = manifests \ V
    /\ condemned' = condemned \union (doomed[b] \X {call[b]})
    /\ blind'     = blind \union
                      (IF call[b].unverified THEN F \ NamedBy(doomed[b]) ELSE {})
    /\ UNCHANGED <<log, stored, tags, late, now, calls>>

Sweep(b) ==
    /\ pc[b] = "sweep"
    /\ Remove(b, work[b], doomed[b])
    /\ Returns(b, [op |-> "vacuum", versions |-> doomed[b], files |-> work[b]])

\* Cleanup stops in the middle.
SweepFails(b) ==
    /\ pc[b] = "sweep"
    /\ \E F \in SUBSET work[b], V \in SUBSET doomed[b] : Remove(b, F, V)
    /\ Returns(b, Error)

\* explain: the same survey, and nothing is removed.
Explain(b) ==
    /\ Runs(b, "plan")
    /\ Permitted(b)
    /\ Returns(b, [op |-> "plan", unverified |-> call[b].unverified,
                   versions |-> Expired(b) \ tags, files |-> Garbage(b)])
    /\ UNCHANGED <<storage, now, calls>>

-----------------------------------------------------------------------------
(* Reports.                                                                *)

\* lance_table_info counts rows before it asks for the latest version.
CountRows(b) ==
    /\ Runs(b, "info")
    /\ got' = [got EXCEPT ![b] = RowsAt(base[b])]
    /\ pc'  = [pc EXCEPT ![b] = "counted"]
    /\ UNCHANGED <<storage, now, calls, call, base, seen, cut, mine, work, doomed, reply>>

\* Mutant of Opened: the report is of the latest version.
Refreshed(b) == Latest

\* The version the rest of the report is of: the one that was opened.
Opened(b) == base[b]

TableInfo(b) ==
    /\ pc[b] = "counted"
    /\ Returns(b, [op |-> "info", version |-> Opened(b), latest |-> Latest,
                   rows |-> Cardinality(got[b]),
                   fragments |-> Cardinality(Frags(Opened(b)))])
    /\ UNCHANGED <<storage, now, calls>>

\* What version v records of its fragment f (physical_rows, num_rows): the rows
\* of the data file, and these less the marked ones; None if it is not known.
PhysicalRows(v, f) ==
    IF <<"physical", v, f>> \in Unrecorded THEN None ELSE Cardinality(stored[f])

NumRows(v, f) ==
    IF PhysicalRows(v, f) = None
         \/ (DeadIn(v, {f}) # {} /\ <<"deleted", v, f>> \in Unrecorded)
    THEN None ELSE Cardinality(Live(v, f))

\* The rows in the data files of the fragments F, and those that are live.
Physical(F)  == {p \in F \X Row : p[2] \in stored[p[1]]}
RowsIn(v, F) == UNION { Live(v, f) : f \in F }

\* Counts that are not known are left out of the sums.
FragmentStats(b) ==
    LET v        == Opened(b)
        physical == Cardinality(Physical({f \in Frags(v) : PhysicalRows(v, f) # None}))
        logical  == Cardinality(RowsIn(v, {f \in Frags(v) : NumRows(v, f) # None}))
    IN  /\ Runs(b, "stats")
        /\ Returns(b, [op |-> "stats", version |-> v,
                       fragments |-> Cardinality(Frags(v)),
                       physical |-> physical, logical |-> logical,
                       deleted |-> physical - logical])
        /\ UNCHANGED <<storage, now, calls>>

\* One row of lance_list_fragments.
FragmentRow(v, f) ==
    [id |-> f, physical |-> PhysicalRows(v, f), logical |-> NumRows(v, f),
     deletions |-> DeadIn(v, {f}) # {}]

ListFragments(b) ==
    /\ Runs(b, "list")
    /\ Returns(b, [op |-> "fragments", version |-> Opened(b),
                   list |-> {FragmentRow(Opened(b), f) : f \in Frags(Opened(b))}])
    /\ UNCHANGED <<storage, now, calls>>

\* lance_list_versions and lance_list_tags: what is there at that time.
ListVersions(b) ==
    /\ Runs(b, "list")
    /\ Returns(b, [op |-> "versions", versions |-> manifests, tags |-> tags])
    /\ UNCHANGED <<storage, now, calls>>

\* lance_list_indices, lance_index_stats: the indexes and the fragments each
\* leaves to be searched row by row.
ListIndices(b) ==
    /\ Runs(b, "list")
    /\ Returns(b, [op |-> "indices", version |-> Opened(b), idx |-> log[Opened(b)].idx,
                   unindexed |-> (log[Opened(b)].idx \X Frags(Opened(b)))
                                   \ log[Opened(b)].cover])
    /\ UNCHANGED <<storage, now, calls>>

\* A foreign scan reads the fragments of the version it is pinned to.
ReadFragment(b) ==
    /\ Runs(b, "scan")
    /\ \E f \in work[b] \intersect files :
         /\ got'  = [got EXCEPT ![b] = @ \union Live(base[b], f)]
         /\ work' = [work EXCEPT ![b] = @ \ {f}]
    /\ UNCHANGED <<storage, now, calls, call, pc, base, seen, cut, mine, doomed, reply>>

ScanDone(b) ==
    /\ Runs(b, "scan")
    /\ work[b] = {}
    /\ Returns(b, [op |-> "scan", version |-> base[b], rows |-> got[b]])
    /\ UNCHANGED <<storage, now, calls>>

-----------------------------------------------------------------------------
\* The versions vacuums have set out to remove, those in progress included.
Condemned == {p[1] : p \in condemned}
Doomed    == UNION { doomed[b] : b \in Backend }

\* Somebody tags a version that is there.  A vacuum has read the tags when it
\* surveyed the dataset.
Tag ==
    /\ Cardinality(tags) < MaxTags
    /\ \E v \in manifests :
         /\ tags' = tags \union {v}
         /\ late' = late \union ({v} \intersect (Condemned \union Doomed))
    /\ UNCHANGED <<log, stored, manifests, files, condemned, blind,
                   now, calls, call, pc, local>>

TimePasses ==
    /\ now < MaxTime
    /\ now' = now + 1
    /\ UNCHANGED <<storage, calls, call, pc, local>>

Step(b) ==
    \/ Open(b) \/ Fail(b)
    \/ AppendFile(b) \/ AppendCommit(b)
    \/ DeleteCommit(b) \/ DeleteAgain(b)
    \/ NothingToOptimize(b) \/ RewriteFragments(b) \/ OptimizeCommit(b)
    \/ CreateIndex(b) \/ DropIndex(b) \/ OptimizeIndices(b)
    \/ Survey(b) \/ Sweep(b) \/ SweepFails(b) \/ Explain(b)
    \/ CountRows(b) \/ TableInfo(b) \/ FragmentStats(b)
    \/ ListFragments(b) \/ ListVersions(b) \/ ListIndices(b)
    \/ ReadFragment(b) \/ ScanDone(b)

Next ==
    \/ \E b \in Backend : Step(b) \/ \E r \in Requests : Start(b, r) \/ Refuse(b, r)
    \/ Tag
    \/ TimePasses

Spec == Init /\ [][Next]_vars

-----------------------------------------------------------------------------
(* Properties.                                                             *)

Version ==
    [op: {"append", "delete", "optimize", "create_index", "drop_index",
          "optimize_indices"},
     read: Nat, frags: SUBSET Nat, dead: SUBSET (Nat \X Row),
     idx: SUBSET Index, cover: SUBSET (Index \X Nat), at: Nat]

Reply ==
    [op: {"none", "error"}]
    \union [op: {"append", "create_index", "drop_index"}, at: Nat]
    \union [op: {"delete"}, read: Nat, at: Nat, removed: Nat]
    \union [op: {"optimize"}, at: Nat, removed: Nat, added: Nat]
    \union [op: {"optimize_indices"}, read: Nat, at: Nat,
            names: SUBSET Index, count: Nat]
    \union [op: {"vacuum"}, versions: SUBSET Nat, files: SUBSET Nat]
    \union [op: {"plan"}, unverified: BOOLEAN, versions: SUBSET Nat,
            files: SUBSET Nat]
    \union [op: {"info"}, version: Nat, latest: Nat, rows: Nat, fragments: Nat]
    \union [op: {"stats"}, version: Nat, fragments: Nat, physical: Nat,
            logical: Nat, deleted: Nat]
    \union [op: {"fragments"}, version: Nat,
            list: SUBSET [id: Nat, physical: Nat \union {None},
                          logical: Nat \union {None}, deletions: BOOLEAN]]
    \union [op: {"versions"}, versions: SUBSET Nat, tags: SUBSET Nat]
    \union [op: {"indices"}, version: Nat, idx: SUBSET Index,
            unindexed: SUBSET (Index \X Nat)]
    \union [op: {"scan"}, version: Nat, rows: SUBSET Row]

\* The types of the variables; the counts a call returns are never negative.
TypeOK ==
    /\ log \in Seq(Version) /\ stored \in Seq(SUBSET Row)
    /\ manifests \subseteq Nat /\ files \subseteq Nat /\ tags \subseteq Nat
    /\ now \in Nat /\ calls \in Nat
    /\ call  \in [Backend -> Requests \union {NoCall}]
    /\ pc    \in [Backend -> {"idle", "open", "run", "counted", "sweep"}]
    /\ base  \in [Backend -> Nat] /\ seen \in [Backend -> Nat]
    /\ cut   \in [Backend -> Int \union {None}]
    /\ mine  \in [Backend -> Nat] /\ work \in [Backend -> SUBSET Nat]
    /\ doomed \in [Backend -> SUBSET Nat] /\ got \in [Backend -> SUBSET Row]
    /\ reply \in [Backend -> Reply]
    /\ condemned \subseteq Nat \X Requests /\ blind \subseteq Nat /\ late \subseteq Nat

\* A version that no vacuum set out to remove can be opened and keeps all its
\* files, whatever commits, fails or is vacuumed meanwhile.  The one exception
\* are files that delete_unverified removed before they were named.
OnlyCondemnedVersionsLoseFiles ==
    \A v \in 1 .. Latest \ Condemned :
        v \in manifests /\ Frags(v) \ files \subseteq blind

\* Vacuum never sets out to remove the latest version, nor one that has a tag by
\* then, only versions that are past a limit its own caller asked for; and a
\* file that no condemned version names is removed by delete_unverified only.
CondemnedAreOld ==
    /\ Latest \notin Condemned
    /\ Condemned \intersect tags \subseteq late
    /\ \A p \in condemned : LET v == p[1]
                               r == p[2] IN
         \/ r.older # None /\ log[v].at < now - r.older
         \/ r.before # None /\ v < r.before
    /\ \A f \in DOMAIN stored \ files :
         f \in blind \/ \E v \in Condemned : f \in Frags(v)

\* What a cleanup plan lists stays garbage: no version that is kept names one
\* of its files, nor does a later commit.  A plan with delete_unverified
\* promises no such thing.
PlannedStaysGarbage ==
    \A b \in Backend :
        reply[b].op = "plan" /\ ~reply[b].unverified
            => NamedBy(1 .. Latest \ (reply[b].versions \union Condemned))
                 \intersect reply[b].files = {}

\* The fragments of a version whose rows are known, and of those the ones whose
\* deletion file is there but not counted.
Sized(v)     == {f \in Frags(v) : <<"physical", v, f>> \notin Unrecorded}
Uncounted(v) == {f \in Sized(v) : /\ DeadIn(v, {f}) # {}
                                  /\ <<"deleted", v, f>> \in Unrecorded}

\* The numbers of a report are of one version of the dataset though they are
\* asked for one by one while others commit; latest_version is not older than
\* it.  What is deleted is what deletion files mark, except that all rows of a
\* fragment with an uncounted deletion file pass for deleted; and the list has
\* a row for every fragment, with NULL for what the version does not record.
ReportsAreOfOneVersion ==
    \A b \in Backend : LET a == reply[b]
                           v == reply[b].version IN
        /\ a.op = "info" =>
             /\ a.rows = Cardinality(RowsAt(v))
             /\ a.fragments = Cardinality(Frags(v))
             /\ v <= a.latest /\ a.latest <= Latest
        /\ a.op = "stats" =>
             /\ a.fragments = Cardinality(Frags(v))
             /\ a.logical = Cardinality(RowsIn(v, Sized(v) \ Uncounted(v)))
             /\ a.deleted = Cardinality(DeadIn(v, Sized(v)))
                              + Cardinality(RowsIn(v, Uncounted(v)))
        /\ a.op = "fragments" =>
             /\ \A f \in a.list :
                  /\ f.physical = None <=> f.id \notin Sized(v)
                  /\ f.logical = None <=> f.id \notin Sized(v) \ Uncounted(v)
                  /\ f.logical # None =>
                       /\ f.deletions <=> f.logical < f.physical
                       /\ f.physical - f.logical = Cardinality(DeadIn(v, {f.id}))
             /\ {f.id : f \in a.list} = Frags(v)
        /\ a.op = "scan" => a.rows = RowsAt(v)

\* fragments_removed of lance_delete: with no other commit in between it is the
\* number of fragments the delete emptied; it never exceeds the number of
\* fragments that are gone since the dataset was opened.
DeleteCountsItsFragments ==
    \A b \in Backend : reply[b].op = "delete" =>
        LET gone == Frags(reply[b].read) \ Frags(reply[b].at)
        IN  /\ reply[b].removed <= Cardinality(gone)
            /\ reply[b].at = reply[b].read + 1 => reply[b].removed = Cardinality(gone)

\* After lance_optimize_indices, the chosen indexes cover every fragment that
\* was there when it opened the dataset and still is; and no index ever covers
\* a fragment that has left the version, so what a report calls unindexed and
\* what is covered are together all fragments.
IndexesCatchUp ==
    /\ \A v \in 1 .. Latest : log[v].cover \subseteq log[v].idx \X Frags(v)
    /\ \A b \in Backend : LET a == reply[b] IN
          a.op = "optimize_indices" =>
            LET idx == log[a.read].idx \intersect log[a.at].idx
            IN  (IF a.names = {} THEN idx ELSE idx \intersect a.names)
                  \X (Frags(a.read) \intersect Frags(a.at)) \subseteq log[a.at].cover
=============================================================================
