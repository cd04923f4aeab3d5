--------------------------- MODULE NamespaceSync ---------------------------
(***************************************************************************)
(* lance_attach_namespace and lance_sync_namespace: a backend lists a      *)
(* remote namespace, gives every table a local name, and creates, drops    *)
(* and recreates foreign tables so that the catalog follows the listing.   *)
(*                                                                         *)
(* The namespace is not transactional: it may change between any two       *)
(* requests.  The catalog is: what a call has changed is locked until its  *)
(* transaction ends and is undone when it aborts, but everything else may  *)
(* be changed by another session between two statements of the call.       *)
(* What a statement of the call sees depends on the transaction: as long   *)
(* as it has no id, a SELECT of the call (pgrx runs it read-only) sees the *)
(* snapshot of the calling statement, taken before the namespace is listed;*)
(* afterwards, or if it had one before, a SELECT sees what is there.  The  *)
(* look-up of attach_one and the commands always see what is there.        *)
(*                                                                         *)
(* Abstractions.  A slot is a (local schema, local table) pair.  The       *)
(* columns of a dataset are flat, what column names and type names show,   *)
(* and nested, the fields of its struct column if it has one; the          *)
(* composite type of that column is named after the slot.                  *)
(***************************************************************************)
EXTENDS Naturals, Sequences

CONSTANTS
    TableId,    \* tables of the remote namespace, paths of names
    Namespace,  \* namespaces, paths of names
    RootNs,     \* root_namespace_id
    Children,   \* what list_namespaces answers for each namespace
    Slot,       \* local (schema, table) names
    Rank,       \* their order
    SlotOf,     \* schema_and_table_for_table_id
    TypeName,   \* names of composite types
    TypeOf,     \* composite_type_name, for the struct column of a slot
    Flat, Struct,
    NoStruct, Absent, NoSlot, NoRel, OtherRel, NoId, BadId, Untouched,
    Args,       \* the calls that are made
    OtherRels,  \* relations other sessions create
    InitRemote, InitCatalog,
    MaxChanges  \* how often the namespace or another session interferes

Call    == [op: {"attach", "sync"}, drop: BOOLEAN, recreate: BOOLEAN, dry: BOOLEAN]
Layout  == [flat: Flat, nested: Struct \union {NoStruct}]
Foreign == [server: {"this", "other"}, id: TableId \union {NoId, BadId},
            flat: Flat, nested: BOOLEAN]
Rel     == Foreign \union {OtherRel}

HasPrefix(id, ns) == Len(ns) <= Len(id) /\ SubSeq(id, 1, Len(ns)) = ns
Parent(id)        == SubSeq(id, 1, Len(id) - 1)

ASSUME PathAssumption ==
    /\ TableId \subseteq Seq(STRING) \ {<<>>}
    /\ Namespace \subseteq Seq(STRING)
    /\ RootNs \in Namespace
    /\ Children \in [Namespace -> Seq(Namespace)]

\* The namespaces do not change, a child has the id of its parent before its
\* name, and walking down from the root finds every one below it.
ASSUME TreeAssumption ==
    /\ \A id \in TableId : HasPrefix(id, RootNs) => Parent(id) \in Namespace
    /\ \A ns \in Namespace : \A i \in DOMAIN Children[ns] : HasPrefix(Children[ns][i], ns)
    /\ \A ns, below \in Namespace : HasPrefix(below, ns) =>
          \/ below = ns
          \/ \E i \in DOMAIN Children[ns] : HasPrefix(below, Children[ns][i])

\* No table has the path of the root namespace: has_prefix would take it for
\* a table under the root, where it is never listed.
ASSUME RootAssumption == RootNs \notin TableId

ASSUME SlotAssumption ==
    /\ SlotOf \in [TableId -> Slot]
    /\ TypeOf \in [Slot -> TypeName]
    /\ Rank \in [Slot -> Nat]
    /\ \A s, t \in Slot : Rank[s] = Rank[t] => s = t
    /\ \A S \in (SUBSET Slot) \ {{}} : \E s \in S : \A t \in S : Rank[t] <= Rank[s]
ASSUME MarkerAssumption ==
    /\ NoRel \notin Rel
    /\ Untouched \notin Rel \union {NoRel}
    /\ OtherRel \notin Foreign
    /\ NoSlot \notin Slot
    /\ Absent \notin Layout
    /\ {NoId, BadId} \intersect TableId = {}
ASSUME CallAssumption ==
    /\ Args \subseteq { a \in Call : a.op = "attach" => ~a.drop /\ ~a.recreate }
    /\ OtherRels \subseteq Rel
    /\ InitRemote \subseteq [TableId -> Layout \union {Absent}]
    /\ InitCatalog \subseteq [Slot -> Rel \union {NoRel}]
    /\ MaxChanges \in Nat

VARIABLES
    remote,   \* the datasets of the namespace
    cat,      \* the relations of the catalog
    types,    \* the composite types of the catalog
    snap,     \* the catalog in the snapshot the introspection reads
    fresh,    \* the transaction has an id: a SELECT takes a new snapshot
    arg,      \* the arguments of the call
    pc,       \* where it is
    queue,    \* list_table_ids: the namespaces still to list
    listed,   \* the table ids listed so far
    localOf,  \* local_by_id: where each id was found attached
    todo,     \* the slots the loop at hand has still to visit
    rows,     \* the rows to be returned
    undo,     \* what the slots the transaction has changed held before
    made,     \* the composite types the transaction has created
    steady,   \* the ids whose dataset has not changed since the call began
    meddled,  \* another session has changed the catalog since then
    gone,     \* the slots whose relation it has dropped since that snapshot
    settled,  \* nothing has changed since a full sync that met no failure
    changes   \* how many changes the call's environment has made

catalog == <<cat, types, undo, made>>
reading == <<snap, fresh>>
call    == <<arg, queue, listed, localOf>>
world   == <<remote, steady, meddled, gone, settled, changes>>
vars    == <<catalog, reading, call, world, pc, todo, rows>>

-----------------------------------------------------------------------------
Syncs   == arg.op = "sync"
Listing == pc \in {"tables", "namespaces"}

Row(id, s, action, status) ==
    [id |-> id, slot |-> s, action |-> action, status |-> status]
Emit(id, s, action, status) == rows' = rows \union {Row(id, s, action, status)}

\* The only listed id of a slot: an entry of the mapping.
IdsAt(s)    == {id \in listed : SlotOf[id] = s}
IdFor(s)    == CHOOSE id \in listed : SlotOf[id] = s
Mapped      == {s \in Slot : \E id \in listed : IdsAt(s) = {id}}

\* The next entry of a loop that goes in the order of the names.
IsNext(s) == s \in todo /\ \A t \in todo : Rank[s] <= Rank[t]

\* Mutant of UnderRoot: the root is not looked at.
Anywhere(id)  == id \in TableId

UnderRoot(id) == id \in TableId /\ HasPrefix(id, RootNs)

Attached(r, id) == r \in Foreign /\ r.server = "this" /\ r.id = id

-----------------------------------------------------------------------------
(* introspect_local_namespace_tables.  The query joins the option          *)
(* ns.table_id, so a table without one is not seen.                        *)

\* The catalog as a SELECT of the call sees it.
Seen == IF fresh THEN cat ELSE snap

FoundAt(id)  == {s \in Slot : UnderRoot(id) /\ Attached(Seen[s], id)}
\* A later table with the same id takes the place of an earlier one.
LastFound(id) == CHOOSE s \in FoundAt(id) : \A t \in FoundAt(id) : Rank[t] <= Rank[s]
Local == [id \in TableId |-> IF FoundAt(id) = {} THEN NoSlot ELSE LastFound(id)]

ConflictRows ==
    { Row(id, SlotOf[id], "error", "failed") : id \in {i \in listed : SlotOf[i] \notin Mapped} }
BadIdRows ==
    { Row(BadId, s, "error", "failed") : s \in {t \in Slot : Attached(Seen[t], BadId)} }
DuplicateRows ==
    UNION { { Row(id, s, "error", "failed") :
                s \in {t \in FoundAt(id) : \E u \in FoundAt(id) : Rank[u] < Rank[t]} } :
            id \in TableId }

LocalOnly == { s \in Slot : \E id \in TableId : localOf[id] = s /\ id \notin listed }
LocalId(s) == CHOOSE id \in TableId : localOf[id] = s

-----------------------------------------------------------------------------
(* The catalog, and what the transaction remembers of it.                  *)

Touched(s) == undo[s] # Untouched
Keep(s)    == undo' = [undo EXCEPT ![s] = IF Touched(s) THEN undo[s] ELSE cat[s]]

\* The transaction ends: its locks and the locals of the call go.
EndCall ==
    /\ pc' = "idle"
    /\ undo' = [s \in Slot |-> Untouched]
    /\ made' = {}
    /\ queue' = <<>>
    /\ listed' = {}
    /\ localOf' = [id \in TableId |-> NoSlot]
    /\ todo' = {}
    /\ rows' = {}
    /\ steady' = TableId
    /\ meddled' = FALSE
    /\ gone' = {}
    /\ snap' = [s \in Slot |-> NoRel]
    /\ fresh' = FALSE
    /\ UNCHANGED <<remote, arg, changes>>

\* The statement fails: everything it did is rolled back.
Abort ==
    /\ cat' = [s \in Slot |-> IF Touched(s) THEN undo[s] ELSE cat[s]]
    /\ types' = [t \in TypeName |-> IF t \in made THEN NoStruct ELSE types[t]]
    /\ EndCall
    /\ UNCHANGED settled

\* DROP FOREIGN TABLE, which goes by the name.
Drop(s) ==
    /\ cat[s] \in Foreign
    /\ cat' = [cat EXCEPT ![s] = NoRel]
    /\ Keep(s)
    /\ UNCHANGED <<types, made>>

\* DROP FOREIGN TABLE fails: another session has dropped the table, or has
\* put another kind of relation in its place.
DropFails(s) == cat[s] \notin Foreign /\ Abort

\* The columns that detect_schema_drift compares: the field names of a
\* struct column are not among them, only the name of its type.
SameColumns(r, l) ==
    /\ r \in Foreign
    /\ r.flat = l.flat
    /\ r.nested = (l.nested # NoStruct)

\* The columns of the relation that was found, looked up by its oid: what is
\* in its slot now is another relation if it was dropped since.
FoundColumns(s) == IF fresh /\ s \in gone THEN NoRel ELSE Seen[s]

\* Mutant of UpToDate: a qualified type name never equals an unqualified one.
QualifiedNames(s, l) == SameColumns(FoundColumns(s), l) /\ l.flat # CHOOSE f \in Flat : TRUE

\* Mutant of UpToDate: only the number of columns is compared.
CountsOnly(s, l) == FoundColumns(s) \in Foreign

UpToDate(s, l) == SameColumns(FoundColumns(s), l)

\* CREATE TYPE and CREATE FOREIGN TABLE leave alone what is there already.
Create(id, s) ==
    LET l == remote[id] IN
    LET new == l.nested # NoStruct /\ types[TypeOf[s]] = NoStruct IN
    /\ types' = IF new THEN [types EXCEPT ![TypeOf[s]] = l.nested] ELSE types
    /\ made'  = IF new THEN made \union {TypeOf[s]} ELSE made
    /\ IF cat[s] = NoRel
       THEN /\ cat' = [cat EXCEPT ![s] =
                        [server |-> "this", id |-> id, flat |-> l.flat,
                         nested |-> l.nested # NoStruct]]
            /\ Keep(s)
       ELSE UNCHANGED <<cat, undo>>

-----------------------------------------------------------------------------
Init ==
    /\ remote \in InitRemote
    /\ cat \in InitCatalog
    /\ types \in [TypeName -> Struct \union {NoStruct}]
    /\ \A s \in Slot :
         cat[s] \in Foreign /\ cat[s].nested => types[TypeOf[s]] # NoStruct
    /\ arg \in Args
    /\ pc = "idle"
    /\ queue = <<>>
    /\ listed = {}
    /\ localOf = [id \in TableId |-> NoSlot]
    /\ todo = {}
    /\ rows = {}
    /\ undo = [s \in Slot |-> Untouched]
    /\ made = {}
    /\ steady = TableId
    /\ meddled = FALSE
    /\ gone = {}
    /\ snap = [s \in Slot |-> NoRel]
    /\ fresh = FALSE
    /\ settled = FALSE
    /\ changes = 0

\* Whether the transaction has an id already is up to what it did before.
Begin(a) ==
    /\ pc = "idle"
    /\ arg' = a
    /\ pc' = "tables"
    /\ queue' = <<RootNs>>
    /\ snap' = cat
    /\ fresh' \in BOOLEAN
    /\ UNCHANGED <<catalog, world, listed, localOf, todo, rows>>

-----------------------------------------------------------------------------
(* list_table_ids: for each namespace first the pages of its tables, then  *)
(* its child namespaces.                                                   *)

Pending == { id \in TableId :
               Parent(id) = Head(queue) /\ remote[id] # Absent } \ listed

\* Mutant of MoreTables: the page token is not followed.
FirstPageOnly(page) == FALSE

MoreTables(page) == page # Pending

ListTables ==
    /\ pc = "tables"
    /\ \E page \in SUBSET Pending :
         /\ page # {} \/ Pending = {}
         /\ listed' = listed \union page
         /\ pc' = IF MoreTables(page) THEN "tables" ELSE "namespaces"
    /\ UNCHANGED <<catalog, reading, world, arg, queue, localOf, todo, rows>>

\* Mutant of ChildIds: the names are not put after the id of their parent.
BareNames(ns) ==
    [i \in DOMAIN Children[ns] |->
        SubSeq(Children[ns][i], Len(Children[ns][i]), Len(Children[ns][i]))]

ChildIds(ns) == Children[ns]

ListNamespaces ==
    /\ pc = "namespaces"
    /\ queue' = Tail(queue) \o ChildIds(Head(queue))
    /\ pc' = IF queue' = <<>> THEN "map" ELSE "tables"
    /\ UNCHANGED <<catalog, reading, world, arg, listed, localOf, todo, rows>>

\* Connecting to the namespace fails, or one of the requests.
ListFails ==
    /\ Listing
    /\ Abort

-----------------------------------------------------------------------------
(* build_mapping and, in a sync, introspect_local_namespace_tables.        *)

BuildMapping ==
    /\ pc = "map"
    /\ todo' = Mapped
    /\ IF Syncs
       THEN /\ localOf' = Local
            /\ rows' = ConflictRows \union BadIdRows \union DuplicateRows
       ELSE /\ UNCHANGED localOf
            /\ rows' = ConflictRows
    /\ pc' = "reconcile"
    /\ snap' = Seen
    /\ gone' = IF fresh THEN {} ELSE gone
    /\ UNCHANGED <<catalog, fresh, remote, steady, meddled, settled, changes,
                   arg, queue, listed>>

-----------------------------------------------------------------------------
(* The loop over the mapping.                                              *)

Visiting(s) == pc = "reconcile" /\ IsNext(s)
Leave(s)    == todo' = todo \ {s} /\ pc' = "reconcile"
Missing(s)  == localOf[IdFor(s)] = NoSlot
Misplaced(s) == localOf[IdFor(s)] \notin {NoSlot, s}
InPlace(s)  == localOf[IdFor(s)] = s

\* How a failing attach_one is reported.  Mutant of Failure: the report of
\* the first loop arm is used for the second as well.
FailureOfAttach ==
    IF Syncs THEN "create_table" ELSE "error"

Failure == IF ~Syncs THEN "error"
           ELSE IF pc = "recreate" THEN "recreate_table" ELSE "create_table"

\* The look-up of attach_one, and every command, gives the transaction an id.
Refreshed == fresh' = TRUE /\ UNCHANGED snap

\* attach_one finds a relation in the slot.
AttachExisting(s) ==
    /\ Visiting(s)
    /\ Missing(s)
    /\ cat[s] # NoRel
    /\ IF Attached(cat[s], IdFor(s))
       THEN Emit(IdFor(s), s, "skip_existing", "skipped")
       ELSE Emit(IdFor(s), s, Failure, "failed")
    /\ Leave(s)
    /\ Refreshed
    /\ UNCHANGED <<catalog, call, world>>

\* Mutant of DryRun: attach_one is given dry_run = false, as in line 153.
NeverDry == FALSE

DryRun == arg.dry

\* attach_one finds none, and goes on to load the dataset.
AttachNew(s) ==
    /\ Visiting(s)
    /\ Missing(s)
    /\ cat[s] = NoRel
    /\ IF DryRun
       THEN Emit(IdFor(s), s, "create_table", "skipped") /\ Leave(s)
       ELSE pc' = "create" /\ UNCHANGED <<todo, rows>>
    /\ Refreshed
    /\ UNCHANGED <<catalog, call, world>>

Creating(s) == pc \in {"create", "recreate"} /\ IsNext(s)

CreateTable(s) ==
    /\ Creating(s)
    /\ remote[IdFor(s)] # Absent
    /\ Create(IdFor(s), s)
    /\ Emit(IdFor(s), s, IF pc = "recreate" THEN "recreate_table" ELSE "create_table", "ok")
    /\ Leave(s)
    /\ UNCHANGED <<reading, call, world>>

\* The dataset is gone, or cannot be loaded now.
CreateFails(s) ==
    /\ Creating(s)
    /\ Emit(IdFor(s), s, Failure, "failed")
    /\ Leave(s)
    /\ UNCHANGED <<catalog, reading, call, world>>

\* An SQL statement of attach_one fails: that is an error of PostgreSQL and
\* not a result that attach_one could return.
CreateRejected(s) == Creating(s) /\ Abort

ReportMisplaced(s) ==
    /\ Visiting(s)
    /\ Misplaced(s)
    /\ Emit(IdFor(s), s, "drift", "ok")
    /\ Leave(s)
    /\ UNCHANGED <<catalog, reading, call, world>>

ReportDrift(s) ==
    LET id == IdFor(s) IN
    /\ Visiting(s)
    /\ InPlace(s)
    /\ remote[id] # Absent
    /\ \/ UpToDate(s, remote[id]) /\ Emit(id, s, "in_sync", "ok")
       \/ /\ ~UpToDate(s, remote[id])
          /\ ~arg.recreate
          /\ Emit(id, s, "drift", "ok")
       \/ /\ ~UpToDate(s, remote[id])
          /\ arg.recreate
          /\ DryRun
          /\ Emit(id, s, "recreate_table", "skipped")
    /\ Leave(s)
    /\ UNCHANGED <<catalog, reading, call, world>>

Drifted(s) ==
    /\ Visiting(s)
    /\ InPlace(s)
    /\ remote[IdFor(s)] # Absent
    /\ ~UpToDate(s, remote[IdFor(s)])
    /\ arg.recreate
    /\ ~DryRun

DropDrifted(s) ==
    /\ Drifted(s)
    /\ Drop(s)
    /\ pc' = "recreate"
    /\ Refreshed
    /\ UNCHANGED <<call, world, todo, rows>>

\* The dataset cannot be loaded to compare: unlike a failing attach_one,
\* this ends the call.
DriftUnknown(s) ==
    /\ Visiting(s)
    /\ InPlace(s)
    /\ Abort

DropDriftedFails(s) == Drifted(s) /\ DropFails(s)

EndReconcile ==
    /\ pc = "reconcile"
    /\ todo = {}
    /\ IF Syncs
       THEN pc' = "missing" /\ todo' = LocalOnly
       ELSE pc' = "done" /\ UNCHANGED todo
    /\ UNCHANGED <<catalog, reading, call, world, rows>>

-----------------------------------------------------------------------------
(* The loop over the foreign tables the listing does not have.             *)

Removing(s) == pc = "missing" /\ IsNext(s)
LeaveMissing(s) == todo' = todo \ {s} /\ UNCHANGED pc

ReportMissing(s) ==
    /\ Removing(s)
    /\ \/ ~arg.drop /\ Emit(LocalId(s), s, "drift", "ok")
       \/ arg.drop /\ DryRun /\ Emit(LocalId(s), s, "drop_table", "skipped")
    /\ LeaveMissing(s)
    /\ UNCHANGED <<catalog, reading, call, world>>

DropMissing(s) ==
    /\ Removing(s)
    /\ arg.drop /\ ~DryRun
    /\ Drop(s)
    /\ Emit(LocalId(s), s, "drop_table", "ok")
    /\ LeaveMissing(s)
    /\ Refreshed
    /\ UNCHANGED <<call, world>>

DropMissingFails(s) ==
    /\ Removing(s)
    /\ arg.drop /\ ~DryRun
    /\ DropFails(s)

EndMissing ==
    /\ pc = "missing"
    /\ todo = {}
    /\ pc' = "done"
    /\ UNCHANGED <<catalog, reading, call, world, todo, rows>>

-----------------------------------------------------------------------------
(* The transaction of the statement ends.                                  *)

FullRun ==
    /\ Syncs /\ arg.drop /\ arg.recreate /\ ~arg.dry
    /\ steady = TableId /\ ~meddled
    /\ \A r \in rows : r.status # "failed"

Commit ==
    /\ pc = "done"
    /\ settled' = \/ FullRun
                  \/ settled /\ \A s \in Slot : ~Touched(s)
    /\ EndCall
    /\ UNCHANGED <<cat, types>>

RollBack == pc = "done" /\ Abort

-----------------------------------------------------------------------------
(* The environment.  Bound: it makes MaxChanges changes in all.            *)

RemoteChanges(id) ==
    /\ changes < MaxChanges
    /\ changes' = changes + 1
    /\ \E l \in Layout \union {Absent} :
         l # remote[id] /\ remote' = [remote EXCEPT ![id] = l]
    /\ steady' = IF pc = "idle" THEN steady ELSE steady \ {id}
    /\ settled' = FALSE
    /\ UNCHANGED <<catalog, reading, call, pc, todo, rows, meddled, gone>>

OtherSession(s) ==
    /\ changes < MaxChanges
    /\ changes' = changes + 1
    /\ meddled' = (pc # "idle")
    /\ settled' = FALSE
    /\ ~Touched(s)
    /\ \/ cat[s] # NoRel /\ cat' = [cat EXCEPT ![s] = NoRel]
          /\ gone' = IF pc = "idle" THEN gone ELSE gone \union {s}
       \/ /\ cat[s] = NoRel
          /\ \E r \in OtherRels : cat' = [cat EXCEPT ![s] = r]
          /\ UNCHANGED gone
    /\ UNCHANGED <<types, undo, made, reading, call, pc, todo, rows, remote, steady>>

-----------------------------------------------------------------------------
Step(s) ==
    \/ AttachExisting(s) \/ AttachNew(s) \/ CreateTable(s) \/ CreateFails(s)
    \/ CreateRejected(s) \/ ReportMisplaced(s) \/ ReportDrift(s) \/ DropDrifted(s)
    \/ DriftUnknown(s) \/ DropDriftedFails(s)
    \/ ReportMissing(s) \/ DropMissing(s) \/ DropMissingFails(s)

Progress ==
    \/ ListTables \/ ListNamespaces \/ ListFails \/ BuildMapping
    \/ (\E s \in Slot : Step(s))
    \/ EndReconcile \/ EndMissing \/ Commit \/ RollBack

Next ==
    \/ (\E a \in Args : Begin(a))
    \/ Progress
    \/ (\E id \in TableId : RemoteChanges(id))
    \/ (\E s \in Slot : OtherSession(s))

Spec == Init /\ [][Next]_vars

-----------------------------------------------------------------------------
TypeOK ==
    /\ remote \in [TableId -> Layout \union {Absent}]
    /\ cat \in [Slot -> Rel \union {NoRel}]
    /\ types \in [TypeName -> Struct \union {NoStruct}]
    /\ arg \in Args
    /\ pc \in {"idle", "tables", "namespaces", "map", "reconcile", "create",
               "recreate", "missing", "done"}
    /\ queue \in Seq(Namespace)
    /\ listed \subseteq TableId
    /\ localOf \in [TableId -> Slot \union {NoSlot}]
    /\ todo \subseteq Slot
    /\ rows \subseteq
         [id: TableId \union {BadId}, slot: Slot,
          action: {"error", "create_table", "skip_existing", "drift", "in_sync",
                   "recreate_table", "drop_table"},
          status: {"ok", "skipped", "failed"}]
    /\ undo \in [Slot -> Rel \union {NoRel, Untouched}]
    /\ made \subseteq TypeName
    /\ steady \subseteq TableId
    /\ meddled \in BOOLEAN
    /\ gone \subseteq Slot
    /\ snap \in [Slot -> Rel \union {NoRel}]
    /\ fresh \in BOOLEAN
    /\ settled \in BOOLEAN
    /\ changes \in 0..MaxChanges

Own(r) == \E id \in TableId : HasPrefix(id, RootNs) /\ Attached(r, id)

\* A call never changes a relation that is not a foreign table of its own
\* server whose table id is under the root namespace: tables of other
\* servers, tables imported by URI, ordinary tables and tables attached from
\* elsewhere keep their slots (the server and prefix filters of the
\* introspection, the lookup of attach_one).  Tables are dropped by name, so
\* this is sure of what the introspection saw there, and cannot hold for a
\* slot that another session has emptied since the snapshot it reads and may
\* have filled with a table of its own: for a transaction without an id that
\* is the snapshot of the calling statement, taken before the listing.
OnlyOwnTables ==
    \A s \in Slot : Touched(s) /\ undo[s] # NoRel =>
        /\ Own(snap[s])
        /\ s \notin gone => Own(undo[s])

\* A dry run changes nothing.  Otherwise a table is only dropped for a cause
\* the caller named: recreate_changed for one that was listed, and then only
\* in the slot its id maps to; drop_missing for one that was not.
DropsHaveCause ==
    \A s \in Slot : Touched(s) =>
        /\ ~arg.dry
        /\ undo[s] \in Foreign /\ s \notin gone =>
             IF undo[s].id \in listed
             THEN arg.recreate /\ SlotOf[undo[s].id] = s
             ELSE arg.drop

\* drop_missing never drops a table whose dataset was in the namespace all
\* the time of the call: paging, the breadth-first walk and the conflicts of
\* the mapping do not make a table that is there look missing.
PresentNeverDropped ==
    \A s \in Slot \ gone : Touched(s) /\ undo[s] \in Foreign /\ ~arg.recreate =>
        ~(undo[s].id \in steady /\ remote[undo[s].id] # Absent)

Reported(s, action, status) ==
    \E r \in rows : r.slot = s /\ r.action = action /\ r.status = status
Lost(s) == Touched(s) /\ undo[s] # NoRel /\ cat[s] = NoRel

\* The rows tell what became of the catalog: a table is lost exactly when
\* the rows say it was dropped or could not be recreated, one is there anew
\* exactly when they say it was created or recreated.  (A creation that finds
\* the slot taken by another session is reported as one, and a slot another
\* session has emptied may be dropped by name: see NamespaceClaims.)
RowsTellTheCatalog ==
    pc = "done" => \A s \in Slot \ gone :
        /\ Lost(s) <=> \/ Reported(s, "drop_table", "ok")
                       \/ Reported(s, "recreate_table", "failed")
        /\ Touched(s) /\ undo[s] # NoRel /\ cat[s] # NoRel
             <=> Reported(s, "recreate_table", "ok")
        /\ Touched(s) /\ undo[s] = NoRel => Reported(s, "create_table", "ok")
        /\ Reported(s, "create_table", "ok") => Touched(s) \/ meddled

Follows(s) ==
    LET present == {id \in TableId : HasPrefix(id, RootNs) /\ remote[id] # Absent /\ SlotOf[id] = s}
    IN  IF present = {}
        THEN ~ \E id \in TableId : HasPrefix(id, RootNs) /\ Attached(cat[s], id)
        ELSE \E id \in present :
                /\ present = {id}
                /\ Attached(cat[s], id)
                /\ SameColumns(cat[s], remote[id])

\* A sync that may drop and recreate, that nothing interfered with and that
\* reports neither a failure nor a drift leaves exactly the foreign tables
\* of the namespace, each in its slot and with the columns of its dataset.
SyncConverges ==
    pc = "done" /\ FullRun /\ (\A r \in rows : r.action # "drift") =>
        \A s \in Slot : Follows(s)

\* After a full sync without failures, and until something changes, another
\* sync changes nothing.
SecondSyncIsQuiet ==
    settled /\ Syncs => \A s \in Slot : ~Touched(s)
=============================================================================
