------------------------ MODULE NamespaceSync_proofs ------------------------
(***************************************************************************)
(* Proofs about attach and sync, for any namespace, any catalog and any    *)
(* interference.                                                           *)
(***************************************************************************)
EXTENDS NamespaceSync, SequenceTheorems, TLAPS

(* The inductive invariant.                                                *)

Early == pc \in {"idle", "tables", "namespaces", "map"}

\* What the loops have left to visit comes from the mapping and from the
\* introspection; nothing is changed before they start, nor by a dry run.
PhaseInv ==
    /\ Early => /\ \A s \in Slot : ~Touched(s)
                /\ \A id \in TableId : localOf[id] = NoSlot
    /\ pc \in {"reconcile", "create", "recreate"} => todo \subseteq Mapped
    /\ pc \in {"create", "recreate"} => ~arg.dry
    /\ pc = "missing" => todo \subseteq LocalOnly

\* What a slot held before the call, as far as the call changed it.
Before(s) == IF Touched(s) THEN undo[s] ELSE cat[s]

\* The snapshot the introspection reads shows what the slots held before the
\* call, but for what another session has done since.
SnapInv ==
    pc # "idle" => \A s \in Slot :
        /\ s \notin gone /\ snap[s] # NoRel => Before(s) = snap[s]
        /\ ~meddled => Before(s) = snap[s]

\* A table the introspection found is under the root, and in its snapshot.
LocalInv ==
    \A id \in TableId : \A s \in Slot : localOf[id] = s =>
        HasPrefix(id, RootNs) /\ Attached(snap[s], id)

\* A dataset that has been there all the time is listed, or is still below a
\* namespace of the queue.
Waits(id) == \E i \in DOMAIN queue : HasPrefix(Parent(id), queue[i])
Steady(id) == id \in steady /\ remote[id] # Absent /\ HasPrefix(id, RootNs)

ListingInv ==
    \A id \in TableId : Steady(id) /\ id \notin listed =>
        /\ pc \in {"idle", "tables", "namespaces"}
        /\ pc \in {"tables", "namespaces"} => Waits(id)
        /\ pc = "namespaces" => Parent(id) # Head(queue)

QueueInv == pc \in {"tables", "namespaces"} => queue # <<>>

IInv ==
    /\ TypeOK
    /\ PhaseInv
    /\ SnapInv
    /\ LocalInv
    /\ ListingInv
    /\ QueueInv
    /\ OnlyOwnTables
    /\ DropsHaveCause

-----------------------------------------------------------------------------
(* Facts about the operators.                                              *)

\* What is below the root has its parent at the root or below it.
LEMMA ParentBelowRoot ==
    ASSUME NEW id \in TableId, HasPrefix(id, RootNs)
    PROVE  HasPrefix(Parent(id), RootNs)
<1>1. id \in Seq(STRING) /\ id # <<>> /\ RootNs \in Seq(STRING) /\ id # RootNs
  BY PathAssumption, RootAssumption
<1>2. PICK n \in Nat, m \in Nat : n = Len(id) /\ m = Len(RootNs) /\ n > 0
  BY <1>1
<1>3. m # n
  <2>1. SUFFICES ASSUME Len(RootNs) = Len(id) PROVE FALSE
    BY <1>2
  <2>2. SubSeq(id, 1, Len(id)) = id
    BY <1>1
  <2> QED
    BY <1>1, <2>1, <2>2 DEF HasPrefix
<1>4. m <= n - 1 /\ SubSeq(id, 1, m) = RootNs
  <2>1. Len(RootNs) <= Len(id) /\ SubSeq(id, 1, Len(RootNs)) = RootNs
    BY DEF HasPrefix
  <2>2. m <= n
    BY <1>2, <2>1
  <2> QED
    BY <1>2, <1>3, <2>1, <2>2
<1>5. Parent(id) = SubSeq(id, 1, n - 1) /\ Len(Parent(id)) = n - 1
  BY <1>2 DEF Parent
<1>6. CASE m = 0
  <2>1. RootNs = <<>>
    BY <1>1, <1>2, <1>6, EmptySeq
  <2>2. SubSeq(Parent(id), 1, 0) = <<>>
    BY SubSeqEmpty
  <2> QED
    BY <1>2, <1>4, <1>5, <1>6, <2>1, <2>2 DEF HasPrefix
<1>7. CASE m # 0
  <2>1. m \in 1 .. n - 1 /\ n - 1 \in 1 .. n /\ 1 \in 1 .. n /\ 1 \in 1 .. n - 1
    BY <1>2, <1>4, <1>7
  <2>2. Parent(id) \in Seq(STRING)
    BY <1>1, <1>2, <1>5, <2>1
  <2>3. SubSeq(Parent(id), 1, m) = SubSeq(id, 1, m)
    BY <1>1, <1>2, <1>4, <1>5, <2>1, <2>2
  <2> QED
    BY <1>2, <1>4, <1>5, <2>3 DEF HasPrefix
<1> QED
  BY <1>6, <1>7

\* A slot of the mapping has a listed id, and IdFor finds it.
LEMMA IdForIsListed ==
    ASSUME TypeOK, NEW s \in Mapped
    PROVE  IdFor(s) \in TableId /\ IdFor(s) \in listed /\ SlotOf[IdFor(s)] = s
BY DEF TypeOK, Mapped, IdsAt, IdFor

\* LocalId finds the id that put a slot among the local ones.
LEMMA LocalIdIsLocal ==
    ASSUME NEW s \in LocalOnly
    PROVE  LocalId(s) \in TableId /\ localOf[LocalId(s)] = s
BY DEF LocalOnly, LocalId

\* The introspection puts down only tables that are there and under the root.
LEMMA LocalIsFound ==
    ASSUME TypeOK, NEW id \in TableId
    PROVE  /\ Local[id] \in Slot \union {NoSlot}
           /\ Local[id] \in Slot =>
                HasPrefix(id, RootNs) /\ Attached(Seen[Local[id]], id)
<1>1. CASE FoundAt(id) = {}
  BY <1>1, MarkerAssumption DEF Local
<1>2. CASE FoundAt(id) # {}
  <2>1. FoundAt(id) \in (SUBSET Slot) \ {{}}
    BY <1>2 DEF FoundAt
  <2>2. \E s \in FoundAt(id) : \A t \in FoundAt(id) : Rank[t] <= Rank[s]
    BY <2>1, SlotAssumption
  <2>3. LastFound(id) \in FoundAt(id)
    BY <2>2 DEF LastFound
  <2> QED
    BY <1>2, <2>3 DEF Local, FoundAt, UnderRoot
<1> QED
  BY <1>1, <1>2
-----------------------------------------------------------------------------
(* Steps that have much in common.                                         *)

\* Outside the loops, and outside of attach_one, nothing of the catalog and
\* of what the call found changes; a row is added, an entry is left.
ReportStep(s) ==
    \/ AttachExisting(s) \/ AttachNew(s) \/ CreateFails(s)
    \/ ReportMisplaced(s) \/ ReportDrift(s) \/ ReportMissing(s)

\* The phases of the two loops.
Late == pc \in {"reconcile", "create", "recreate", "missing", "done"}

LEMMA ReportStepIsQuiet ==
    ASSUME NEW s \in Slot, ReportStep(s)
    PROVE  /\ UNCHANGED <<catalog, call, world>>
           /\ snap' = snap /\ fresh' \in {fresh, TRUE}
           /\ Late /\ Late'
           /\ todo' \subseteq todo
           /\ pc' = pc \/ (pc = "reconcile" /\ pc' = "create" /\ ~arg.dry)
              \/ (pc \in {"create", "recreate"} /\ pc' = "reconcile")
BY DEF ReportStep, AttachExisting, AttachNew, CreateFails, ReportMisplaced,
       ReportDrift, ReportMissing, Late, Visiting, Creating, Removing, Leave,
       LeaveMissing, IsNext, DryRun, Refreshed, reading

\* Every step is of one of these kinds.
LEMMA StepKinds ==
    ASSUME [Next]_vars
    PROVE  \/ \E a \in Args : Begin(a)
           \/ ListTables
           \/ ListNamespaces
           \/ BuildMapping
           \/ \E s \in Slot : ReportStep(s)
           \/ \E s \in Slot : CreateTable(s)
           \/ \E s \in Slot : DropDrifted(s)
           \/ \E s \in Slot : DropMissing(s)
           \/ EndReconcile
           \/ EndMissing
           \/ Abort
           \/ Commit
           \/ \E id \in TableId : RemoteChanges(id)
           \/ \E s \in Slot : OtherSession(s)
           \/ UNCHANGED vars
BY DEF Next, Progress, Step, ReportStep, ListFails, CreateRejected,
       DriftUnknown, DropDriftedFails, DropMissingFails, DropFails, RollBack
-----------------------------------------------------------------------------
(* Types.                                                                  *)

LEMMA InitType == Init => TypeOK
<1> SUFFICES ASSUME Init PROVE TypeOK
  OBVIOUS
<1>1. /\ remote \in [TableId -> Layout \union {Absent}]
      /\ cat \in [Slot -> Rel \union {NoRel}]
      /\ changes \in 0 .. MaxChanges
  BY CallAssumption DEF Init
<1>2. queue \in Seq(Namespace)
  BY EmptySeq DEF Init
<1>3. undo \in [Slot -> Rel \union {NoRel, Untouched}]
  BY DEF Init
<1> QED
  BY <1>1, <1>2, <1>3 DEF Init, TypeOK

LEMMA AbortType == TypeOK /\ Abort => TypeOK'
<1> SUFFICES ASSUME TypeOK, Abort PROVE TypeOK'
  OBVIOUS
<1> USE DEF TypeOK, Abort, EndCall
<1>1. cat' \in [Slot -> Rel \union {NoRel}]
  BY MarkerAssumption DEF Touched
<1>2. types' \in [TypeName -> Struct \union {NoStruct}]
  OBVIOUS
<1>3. /\ remote' = remote /\ arg' = arg /\ changes' = changes /\ settled' = settled
      /\ pc' = "idle" /\ undo' = [s \in Slot |-> Untouched] /\ made' = {}
      /\ queue' = <<>> /\ listed' = {} /\ todo' = {} /\ rows' = {}
      /\ localOf' = [id \in TableId |-> NoSlot]
      /\ steady' = TableId /\ meddled' = FALSE /\ gone' = {}
      /\ snap' = [s \in Slot |-> NoRel] /\ fresh' = FALSE
  OBVIOUS
<1>4. queue' \in Seq(Namespace)
  BY <1>3, EmptySeq
<1>5. undo' \in [Slot -> Rel \union {NoRel, Untouched}]
  BY <1>3
<1>6. rows' \subseteq {} /\ made' \subseteq {} /\ todo' \subseteq {} /\ listed' \subseteq {}
  BY <1>3
<1> QED
  BY <1>1, <1>2, <1>3, <1>4, <1>5, <1>6

LEMMA KeepType ==
    ASSUME TypeOK, NEW s \in Slot, Keep(s)
    PROVE  undo' \in [Slot -> Rel \union {NoRel, Untouched}]
BY DEF TypeOK, Keep

LEMMA DropType ==
    ASSUME TypeOK, NEW s \in Slot, Drop(s)
    PROVE  /\ cat' \in [Slot -> Rel \union {NoRel}]
           /\ undo' \in [Slot -> Rel \union {NoRel, Untouched}]
           /\ types' = types /\ made' = made
BY KeepType DEF TypeOK, Drop

LEMMA CreateType ==
    ASSUME TypeOK, NEW s \in Slot, NEW id \in TableId, remote[id] # Absent,
           Create(id, s)
    PROVE  /\ cat' \in [Slot -> Rel \union {NoRel}]
           /\ undo' \in [Slot -> Rel \union {NoRel, Untouched}]
           /\ types' \in [TypeName -> Struct \union {NoStruct}]
           /\ made' \subseteq TypeName
<1>1. remote[id] \in Layout
  BY DEF TypeOK
<1>2. remote[id].flat \in Flat /\ remote[id].nested \in Struct \union {NoStruct}
  BY <1>1 DEF Layout
<1>3. TypeOf[s] \in TypeName
  BY SlotAssumption
<1>4. types' \in [TypeName -> Struct \union {NoStruct}] /\ made' \subseteq TypeName
  BY <1>2, <1>3 DEF TypeOK, Create
<1>5. CASE cat[s] = NoRel
  <2>1. [server |-> "this", id |-> id, flat |-> remote[id].flat,
         nested |-> remote[id].nested # NoStruct] \in Rel
    BY <1>2 DEF Rel, Foreign
  <2>2. Keep(s)
    BY <1>5 DEF Create
  <2>3. cat' = [cat EXCEPT ![s] =
                 [server |-> "this", id |-> id, flat |-> remote[id].flat,
                  nested |-> remote[id].nested # NoStruct]]
    BY <1>5 DEF Create
  <2> QED
    BY <1>4, <2>1, <2>2, <2>3, KeepType DEF TypeOK
<1>6. CASE cat[s] # NoRel
  BY <1>4, <1>6 DEF TypeOK, Create
<1> QED
  BY <1>5, <1>6

RowSet ==
    [id: TableId \union {BadId}, slot: Slot,
     action: {"error", "create_table", "skip_existing", "drift", "in_sync",
              "recreate_table", "drop_table"},
     status: {"ok", "skipped", "failed"}]

LEMMA EmitType ==
    ASSUME TypeOK, NEW id \in TableId, NEW s \in Slot,
           NEW action \in {"error", "create_table", "skip_existing", "drift",
                           "in_sync", "recreate_table", "drop_table"},
           NEW status \in {"ok", "skipped", "failed"},
           Emit(id, s, action, status)
    PROVE  rows' \subseteq RowSet
BY DEF TypeOK, Emit, Row, RowSet

LEMMA ReportRows ==
    ASSUME TypeOK, PhaseInv, NEW s \in Slot, ReportStep(s)
    PROVE  rows' \subseteq RowSet
<1>1. CASE ReportMissing(s)
  <2>1. LocalId(s) \in TableId
    BY <1>1, LocalIdIsLocal DEF ReportMissing, Removing, IsNext, PhaseInv
  <2> QED
    BY <1>1, <2>1, EmitType DEF ReportMissing
<1>2. CASE AttachExisting(s) \/ AttachNew(s) \/ CreateFails(s)
           \/ ReportMisplaced(s) \/ ReportDrift(s)
  <2>1. s \in Mapped
    BY <1>2 DEF AttachExisting, AttachNew, CreateFails, ReportMisplaced,
                ReportDrift, Visiting, Creating, IsNext, PhaseInv
  <2>2. IdFor(s) \in TableId
    BY <2>1, IdForIsListed
  <2>3. Failure \in {"error", "create_table", "recreate_table"}
    BY DEF Failure
  <2>4. CASE AttachExisting(s)
    BY <2>2, <2>3, <2>4, EmitType DEF AttachExisting
  <2>5. CASE AttachNew(s)
    BY <2>2, <2>5, EmitType DEF AttachNew, TypeOK, RowSet
  <2>6. CASE CreateFails(s)
    BY <2>2, <2>3, <2>6, EmitType DEF CreateFails
  <2>7. CASE ReportMisplaced(s)
    BY <2>2, <2>7, EmitType DEF ReportMisplaced
  <2>8. CASE ReportDrift(s)
    BY <2>2, <2>8, EmitType DEF ReportDrift
  <2> QED
    BY <1>2, <2>4, <2>5, <2>6, <2>7, <2>8
<1> QED
  BY <1>1, <1>2 DEF ReportStep

LEMMA TypeStep == TypeOK /\ PhaseInv /\ QueueInv /\ [Next]_vars => TypeOK'
<1> SUFFICES ASSUME TypeOK, PhaseInv, QueueInv, [Next]_vars PROVE TypeOK'
  OBVIOUS
<1>1. ASSUME NEW a \in Args, Begin(a) PROVE TypeOK'
  <2>1. queue' \in Seq(Namespace)
    BY <1>1, PathAssumption DEF Begin
  <2> QED
    BY <1>1, <2>1 DEF TypeOK, Begin, catalog, reading, world
<1>2. CASE ListTables
  <2>1. listed' \subseteq TableId
    BY <1>2 DEF ListTables, Pending, TypeOK
  <2> QED
    BY <1>2, <2>1 DEF TypeOK, ListTables, catalog, reading, world
<1>3. CASE ListNamespaces
  <2>1. queue # <<>> /\ queue \in Seq(Namespace)
    BY <1>3 DEF ListNamespaces, QueueInv, TypeOK
  <2>2. Head(queue) \in Namespace /\ Tail(queue) \in Seq(Namespace)
    BY <2>1
  <2>3. Children[Head(queue)] \in Seq(Namespace)
    BY <2>2, PathAssumption
  <2>4. queue' \in Seq(Namespace)
    BY <1>3, <2>2, <2>3 DEF ListNamespaces, ChildIds
  <2> QED
    BY <1>3, <2>4 DEF TypeOK, ListNamespaces, catalog, reading, world
<1>4. CASE BuildMapping
  <2>1. localOf' \in [TableId -> Slot \union {NoSlot}]
    BY <1>4, LocalIsFound DEF BuildMapping, TypeOK, Local
  <2>2. ConflictRows \subseteq RowSet
    BY SlotAssumption DEF ConflictRows, Row, RowSet, TypeOK
  <2>3. BadIdRows \subseteq RowSet
    BY DEF BadIdRows, Row, RowSet
  <2>4. DuplicateRows \subseteq RowSet
    BY DEF DuplicateRows, FoundAt, Row, RowSet
  <2>5. rows' \subseteq RowSet
    BY <1>4, <2>2, <2>3, <2>4 DEF BuildMapping
  <2>6. todo' \subseteq Slot
    BY <1>4 DEF BuildMapping, Mapped
  <2> QED
    <3>1. snap' \in [Slot -> Rel \union {NoRel}] /\ gone' \subseteq Slot
      BY <1>4 DEF BuildMapping, Seen, TypeOK
    <3> QED
      BY <1>4, <2>1, <2>5, <2>6, <3>1 DEF TypeOK, BuildMapping, catalog, RowSet
<1>5. ASSUME NEW s \in Slot, ReportStep(s) PROVE TypeOK'
  <2>1. rows' \subseteq RowSet
    BY <1>5, ReportRows
  <2>2. /\ UNCHANGED <<catalog, call, world>> /\ fresh' \in {fresh, TRUE} /\ snap' = snap
        /\ todo' \subseteq todo
        /\ pc' \in {pc, "create", "reconcile"}
    BY <1>5, ReportStepIsQuiet
  <2>3. fresh' \in BOOLEAN
    BY <2>2 DEF TypeOK
  <2> QED
    BY <2>1, <2>2, <2>3 DEF TypeOK, catalog, call, world, RowSet
<1>6. ASSUME NEW s \in Slot, CreateTable(s) PROVE TypeOK'
  <2>1. s \in Mapped
    BY <1>6 DEF CreateTable, Creating, IsNext, PhaseInv
  <2>2. IdFor(s) \in TableId
    BY <2>1, IdForIsListed
  <2>3. /\ cat' \in [Slot -> Rel \union {NoRel}]
        /\ undo' \in [Slot -> Rel \union {NoRel, Untouched}]
        /\ types' \in [TypeName -> Struct \union {NoStruct}]
        /\ made' \subseteq TypeName
    BY <1>6, <2>2, CreateType DEF CreateTable
  <2>4. rows' \subseteq RowSet
    BY <1>6, <2>2, EmitType DEF CreateTable
  <2>5. todo' \subseteq Slot
    BY <1>6 DEF CreateTable, Leave, TypeOK
  <2> QED
    BY <1>6, <2>3, <2>4, <2>5 DEF TypeOK, CreateTable, Leave, reading, call, world, RowSet
<1>7. ASSUME NEW s \in Slot, DropDrifted(s) PROVE TypeOK'
  BY <1>7, DropType DEF TypeOK, DropDrifted, Refreshed, call, world
<1>8. ASSUME NEW s \in Slot, DropMissing(s) PROVE TypeOK'
  <2>1. LocalId(s) \in TableId
    BY <1>8, LocalIdIsLocal DEF DropMissing, Removing, IsNext, PhaseInv
  <2>2. rows' \subseteq RowSet
    BY <1>8, <2>1, EmitType DEF DropMissing
  <2> QED
    BY <1>8, <2>2, DropType DEF TypeOK, DropMissing, LeaveMissing, Refreshed, call, world, RowSet
<1>9. CASE EndReconcile
  <2>1. LocalOnly \subseteq Slot
    BY DEF LocalOnly
  <2> QED
    BY <1>9, <2>1 DEF TypeOK, EndReconcile, catalog, reading, call, world
<1>10. CASE EndMissing
  BY <1>10 DEF TypeOK, EndMissing, catalog, reading, call, world
<1>11. CASE Abort
  BY <1>11, AbortType
<1>12. CASE Commit
  <2>1. /\ remote' = remote /\ arg' = arg /\ changes' = changes
        /\ cat' = cat /\ types' = types /\ settled' \in BOOLEAN
        /\ pc' = "idle" /\ undo' = [s \in Slot |-> Untouched] /\ made' = {}
        /\ queue' = <<>> /\ listed' = {} /\ todo' = {} /\ rows' = {}
        /\ localOf' = [id \in TableId |-> NoSlot]
        /\ steady' = TableId /\ meddled' = FALSE /\ gone' = {}
        /\ snap' = [s \in Slot |-> NoRel] /\ fresh' = FALSE
    BY <1>12 DEF Commit, EndCall, TypeOK
  <2>2. queue' \in Seq(Namespace)
    BY <2>1, EmptySeq
  <2>3. undo' \in [Slot -> Rel \union {NoRel, Untouched}]
    BY <2>1
  <2>4. rows' \subseteq {} /\ made' \subseteq {} /\ todo' \subseteq {} /\ listed' \subseteq {}
    BY <2>1
  <2> QED
    BY <2>1, <2>2, <2>3, <2>4 DEF TypeOK
<1>13. ASSUME NEW id \in TableId, RemoteChanges(id) PROVE TypeOK'
  <2>1. changes' \in 0 .. MaxChanges
    BY <1>13, CallAssumption DEF RemoteChanges, TypeOK
  <2>2. remote' \in [TableId -> Layout \union {Absent}]
    BY <1>13 DEF RemoteChanges, TypeOK
  <2> QED
    BY <1>13, <2>1, <2>2 DEF TypeOK, RemoteChanges, catalog, reading, call
<1>14. ASSUME NEW s \in Slot, OtherSession(s) PROVE TypeOK'
  <2>1. changes' \in 0 .. MaxChanges
    BY <1>14, CallAssumption DEF OtherSession, TypeOK
  <2>2. cat' \in [Slot -> Rel \union {NoRel}]
    BY <1>14, CallAssumption DEF OtherSession, TypeOK
  <2>3. gone' \subseteq Slot
    BY <1>14 DEF OtherSession, TypeOK
  <2>4. /\ types' = types /\ undo' = undo /\ made' = made /\ pc' = pc
        /\ todo' = todo /\ rows' = rows /\ remote' = remote
        /\ steady' = steady /\ meddled' \in BOOLEAN /\ settled' \in BOOLEAN
        /\ call' = call /\ reading' = reading
    BY <1>14 DEF OtherSession
  <2> QED
    BY <2>1, <2>2, <2>3, <2>4 DEF TypeOK, reading, call
<1>15. CASE UNCHANGED vars
  BY <1>15 DEF TypeOK, vars, catalog, reading, call, world
<1> QED
  BY <1>1, <1>2, <1>3, <1>4, <1>5, <1>6, <1>7, <1>8, <1>9, <1>10, <1>11,
     <1>12, <1>13, <1>14, <1>15, StepKinds
-----------------------------------------------------------------------------
(* What the slots held before the call.                                    *)

\* What a creation does to the catalog.
LEMMA Created ==
    ASSUME TypeOK, NEW s \in Slot, CreateTable(s)
    PROVE  /\ UNCHANGED <<call, world>>
           /\ Creating(s) /\ todo' = todo \ {s} /\ pc' = "reconcile"
           /\ remote[IdFor(s)] # Absent
           /\ \A t \in Slot \ {s} : cat'[t] = cat[t] /\ undo'[t] = undo[t]
           /\ cat[s] # NoRel => UNCHANGED <<cat, undo>>
           /\ cat[s] = NoRel =>
                /\ cat'[s] = [server |-> "this", id |-> IdFor(s), flat |-> remote[IdFor(s)].flat,
                              nested |-> remote[IdFor(s)].nested # NoStruct]
                /\ undo'[s] = IF Touched(s) THEN undo[s] ELSE NoRel
BY DEF CreateTable, Create, Keep, Leave, TypeOK

\* What a drop does to it.
LEMMA Dropped ==
    ASSUME TypeOK, NEW s \in Slot, Drop(s)
    PROVE  /\ \A t \in Slot \ {s} : cat'[t] = cat[t] /\ undo'[t] = undo[t]
           /\ cat[s] \in Foreign /\ cat'[s] = NoRel
           /\ undo'[s] = Before(s) /\ undo'[s] # Untouched
BY MarkerAssumption DEF Drop, Keep, TypeOK, Before, Touched, Rel

\* What a slot held before the call is not changed by the call, nor by undoing
\* it; the end of a call forgets it.
LEMMA BeforeSame ==
    ASSUME TypeOK, [Next]_vars, NEW s \in Slot
    PROVE  \/ Before(s)' = Before(s)
           \/ Commit /\ Before(s)' = cat[s] /\ cat' = cat
           \/ OtherSession(s) /\ undo' = undo /\ ~Touched(s)
<1>1. ASSUME UNCHANGED <<cat, undo>> PROVE Before(s)' = Before(s)
  BY <1>1 DEF Before, Touched
<1>2. CASE (\E a \in Args : Begin(a)) \/ ListTables \/ ListNamespaces \/ BuildMapping
           \/ EndReconcile \/ EndMissing \/ UNCHANGED vars
  BY <1>1, <1>2 DEF Begin, ListTables, ListNamespaces, BuildMapping, EndReconcile,
                    EndMissing, vars, catalog
<1>3. ASSUME NEW t \in Slot, ReportStep(t) PROVE Before(s)' = Before(s)
  BY <1>1, <1>3, ReportStepIsQuiet DEF catalog
<1>4. ASSUME NEW t \in Slot, CreateTable(t) PROVE Before(s)' = Before(s)
  <2>1. CASE cat[t] # NoRel \/ s # t
    BY <1>4, <2>1, Created DEF Before, Touched
  <2>2. CASE cat[t] = NoRel /\ s = t
    BY <1>4, <2>2, Created, MarkerAssumption DEF Before, Touched
  <2> QED
    BY <2>1, <2>2
<1>5. ASSUME NEW t \in Slot, Drop(t) PROVE Before(s)' = Before(s)
  BY <1>5, Dropped DEF Before, Touched
<1>6. CASE Abort
  BY <1>6 DEF Abort, EndCall, Before, Touched
<1>7. CASE Commit
  <2>1. cat' = cat /\ undo' = [t \in Slot |-> Untouched]
    BY <1>7 DEF Commit, EndCall
  <2> QED
    BY <1>7, <2>1 DEF Before, Touched
<1>8. ASSUME NEW id \in TableId, RemoteChanges(id) PROVE Before(s)' = Before(s)
  BY <1>1, <1>8 DEF RemoteChanges, catalog
<1>9. ASSUME NEW t \in Slot, OtherSession(t), t # s PROVE Before(s)' = Before(s)
  BY <1>9 DEF OtherSession, Before, Touched, TypeOK
<1>10. ASSUME OtherSession(s) PROVE undo' = undo /\ ~Touched(s)
  BY <1>10 DEF OtherSession
<1> QED
  BY <1>2, <1>3, <1>4, <1>5, <1>6, <1>7, <1>8, <1>9, <1>10, StepKinds
     DEF DropDrifted, DropMissing

-----------------------------------------------------------------------------
(* The phases of a call.                                                   *)

\* What a step of the loops leaves to visit is still in the mapping, or
\* among the local tables, since neither has changed.
LEMMA SameMapping ==
    ASSUME UNCHANGED call
    PROVE  Mapped' = Mapped /\ LocalOnly' = LocalOnly
BY DEF call, Mapped, IdsAt, LocalOnly

LEMMA EndCallPhase ==
    ASSUME TypeOK, EndCall
    PROVE  PhaseInv' /\ QueueInv' /\ SnapInv' /\ LocalInv'
<1>1. /\ pc' = "idle" /\ undo' = [s \in Slot |-> Untouched]
      /\ localOf' = [id \in TableId |-> NoSlot]
  BY DEF EndCall
<1>2. PhaseInv'
  BY <1>1 DEF PhaseInv, Early, Touched
<1>3. LocalInv'
  BY <1>1, MarkerAssumption DEF LocalInv
<1> QED
  BY <1>1, <1>2, <1>3 DEF QueueInv, SnapInv

LEMMA PhaseStep == TypeOK /\ PhaseInv /\ [Next]_vars => PhaseInv'
<1> SUFFICES ASSUME TypeOK, PhaseInv, [Next]_vars PROVE PhaseInv'
  OBVIOUS
<1>1. ASSUME NEW a \in Args, Begin(a) PROVE PhaseInv'
  BY <1>1 DEF Begin, PhaseInv, Early, Touched, catalog
<1>2. CASE ListTables
  BY <1>2 DEF ListTables, PhaseInv, Early, Touched, catalog
<1>3. CASE ListNamespaces
  BY <1>3 DEF ListNamespaces, PhaseInv, Early, Touched, catalog
<1>4. CASE BuildMapping
  <2>1. pc' = "reconcile" /\ todo' = Mapped /\ listed' = listed
    BY <1>4 DEF BuildMapping
  <2>2. Mapped' = Mapped
    BY <2>1 DEF Mapped, IdsAt
  <2> QED
    BY <2>1, <2>2 DEF PhaseInv, Early
<1>5. ASSUME NEW s \in Slot, ReportStep(s) PROVE PhaseInv'
  <2>1. /\ UNCHANGED <<catalog, call, world>> /\ Late /\ Late' /\ todo' \subseteq todo
        /\ pc' = pc \/ (pc = "reconcile" /\ pc' = "create" /\ ~arg.dry)
           \/ (pc \in {"create", "recreate"} /\ pc' = "reconcile")
    BY <1>5, ReportStepIsQuiet
  <2>2. Mapped' = Mapped /\ LocalOnly' = LocalOnly /\ arg' = arg
    BY <2>1, SameMapping DEF call
  <2> QED
    BY <2>1, <2>2 DEF PhaseInv, Early, Late
<1>6. ASSUME NEW s \in Slot, CreateTable(s) PROVE PhaseInv'
  <2>1. Mapped' = Mapped
    BY <1>6, SameMapping DEF CreateTable
  <2> QED
    BY <1>6, <2>1 DEF CreateTable, Creating, Leave, PhaseInv, Early
<1>7. ASSUME NEW s \in Slot, DropDrifted(s) PROVE PhaseInv'
  <2>1. Mapped' = Mapped
    BY <1>7, SameMapping DEF DropDrifted
  <2> QED
    BY <1>7, <2>1 DEF DropDrifted, Drifted, Visiting, DryRun, PhaseInv, Early, call
<1>8. ASSUME NEW s \in Slot, DropMissing(s) PROVE PhaseInv'
  <2>1. LocalOnly' = LocalOnly
    BY <1>8, SameMapping DEF DropMissing
  <2> QED
    BY <1>8, <2>1 DEF DropMissing, Removing, LeaveMissing, PhaseInv, Early
<1>9. CASE EndReconcile
  <2>1. LocalOnly' = LocalOnly
    BY <1>9, SameMapping DEF EndReconcile
  <2> QED
    BY <1>9, <2>1 DEF EndReconcile, PhaseInv, Early
<1>10. CASE EndMissing
  BY <1>10 DEF EndMissing, PhaseInv, Early
<1>11. CASE Abort \/ Commit
  BY <1>11, EndCallPhase DEF Abort, Commit
<1>12. ASSUME NEW id \in TableId, RemoteChanges(id) PROVE PhaseInv'
  <2>1. Mapped' = Mapped /\ LocalOnly' = LocalOnly
    BY <1>12, SameMapping DEF RemoteChanges
  <2> QED
    BY <1>12, <2>1 DEF RemoteChanges, PhaseInv, Early, Touched, catalog, call
<1>13. ASSUME NEW s \in Slot, OtherSession(s) PROVE PhaseInv'
  <2>1. Mapped' = Mapped /\ LocalOnly' = LocalOnly
    BY <1>13, SameMapping DEF OtherSession
  <2> QED
    BY <1>13, <2>1 DEF OtherSession, PhaseInv, Early, Touched, call
<1>14. CASE UNCHANGED vars
  <2>1. Mapped' = Mapped /\ LocalOnly' = LocalOnly
    BY <1>14, SameMapping DEF vars
  <2> QED
    BY <1>14, <2>1 DEF vars, catalog, call, PhaseInv, Early, Touched
<1> QED
  BY <1>1, <1>2, <1>3, <1>4, <1>5, <1>6, <1>7, <1>8, <1>9, <1>10, <1>11,
     <1>12, <1>13, <1>14, StepKinds

LEMMA QueueStep == TypeOK /\ QueueInv /\ [Next]_vars => QueueInv'
<1> SUFFICES ASSUME TypeOK, QueueInv, [Next]_vars, pc' \in {"tables", "namespaces"}
             PROVE  queue' # <<>>
  BY DEF QueueInv
<1>1. ASSUME NEW a \in Args, Begin(a) PROVE queue' # <<>>
  BY <1>1 DEF Begin
<1>2. CASE ListTables
  BY <1>2 DEF ListTables, QueueInv
<1>3. CASE ListNamespaces
  BY <1>3 DEF ListNamespaces
<1>4. CASE BuildMapping \/ EndReconcile \/ EndMissing \/ Abort \/ Commit
  BY <1>4 DEF BuildMapping, EndReconcile, EndMissing, Abort, Commit, EndCall
<1>5. ASSUME NEW s \in Slot, ReportStep(s) PROVE queue' # <<>>
  BY <1>5, ReportStepIsQuiet DEF Late
<1>6. ASSUME NEW s \in Slot, CreateTable(s) \/ DropDrifted(s) \/ DropMissing(s)
      PROVE  queue' # <<>>
  BY <1>6 DEF CreateTable, DropDrifted, DropMissing, Leave, LeaveMissing, Removing
<1>7. ASSUME NEW id \in TableId, RemoteChanges(id) PROVE queue' # <<>>
  BY <1>7 DEF RemoteChanges, QueueInv, call
<1>8. ASSUME NEW s \in Slot, OtherSession(s) PROVE queue' # <<>>
  BY <1>8 DEF OtherSession, QueueInv, call
<1>9. CASE UNCHANGED vars
  BY <1>9 DEF vars, call, QueueInv
<1> QED
  BY <1>1, <1>2, <1>3, <1>4, <1>5, <1>6, <1>7, <1>8, <1>9, StepKinds
-----------------------------------------------------------------------------
(* What the introspection found.                                           *)

LEMMA SnapStep == TypeOK /\ PhaseInv /\ SnapInv /\ [Next]_vars => SnapInv'
<1> SUFFICES ASSUME TypeOK, PhaseInv, SnapInv, [Next]_vars, pc' # "idle", NEW s \in Slot
             PROVE  /\ s \notin gone' /\ snap'[s] # NoRel => Before(s)' = snap'[s]
                    /\ ~meddled' => Before(s)' = snap'[s]
  BY DEF SnapInv
<1> DEFINE Goal == /\ s \notin gone' /\ snap'[s] # NoRel => Before(s)' = snap'[s]
                   /\ ~meddled' => Before(s)' = snap'[s]
<1>1. ASSUME pc # "idle", UNCHANGED <<snap, gone, meddled>>, Before(s)' = Before(s)
      PROVE  Goal
  BY <1>1 DEF SnapInv
<1>2. ASSUME NEW a \in Args, Begin(a) PROVE Goal
  BY <1>2 DEF Begin, PhaseInv, Early, catalog, Before, Touched
<1>3. CASE BuildMapping
  <2>1. Before(s)' = cat[s] /\ Before(s) = cat[s] /\ meddled' = meddled /\ pc # "idle"
    BY <1>3 DEF BuildMapping, PhaseInv, Early, catalog, Before, Touched
  <2>2. snap' = Seen /\ gone' = IF fresh THEN {} ELSE gone
    BY <1>3 DEF BuildMapping
  <2> QED
    BY <2>1, <2>2 DEF SnapInv, Seen
<1>4. CASE ListTables \/ ListNamespaces \/ EndReconcile \/ EndMissing \/ UNCHANGED vars
  <2>1. pc # "idle" /\ UNCHANGED <<snap, gone, meddled, cat, undo>>
    BY <1>4 DEF ListTables, ListNamespaces, EndReconcile, EndMissing, vars, catalog,
                reading, world
  <2> QED
    BY <1>1, <2>1 DEF Before, Touched
<1>5. ASSUME NEW t \in Slot, ReportStep(t) PROVE Goal
  <2>1. pc # "idle" /\ UNCHANGED <<snap, gone, meddled, cat, undo>>
    BY <1>5, ReportStepIsQuiet DEF Late, catalog, world
  <2> QED
    BY <1>1, <2>1 DEF Before, Touched
<1>6. ASSUME NEW t \in Slot, CreateTable(t) \/ DropDrifted(t) \/ DropMissing(t) PROVE Goal
  <2>1. pc \notin {"idle", "done"} /\ UNCHANGED <<snap, gone, meddled, changes>>
    BY <1>6 DEF CreateTable, Creating, DropDrifted, Drifted, Visiting, DropMissing,
                Removing, Refreshed, reading, world
  <2>2. ~Commit
    BY <2>1 DEF Commit
  <2>3. ~OtherSession(s)
    BY <2>1 DEF OtherSession, TypeOK
  <2> QED
    BY <1>1, <2>1, <2>2, <2>3, BeforeSame
<1>7. ASSUME NEW id \in TableId, RemoteChanges(id) PROVE Goal
  <2>1. pc # "idle" /\ UNCHANGED <<snap, gone, meddled, cat, undo>>
    BY <1>7 DEF RemoteChanges, catalog, reading
  <2> QED
    BY <1>1, <2>1 DEF Before, Touched
<1>8. ASSUME NEW t \in Slot, OtherSession(t) PROVE Goal
  <2>1. pc # "idle" /\ snap' = snap /\ meddled' /\ undo' = undo
    BY <1>8 DEF OtherSession, reading
  <2>2. CASE cat[t] # NoRel
    BY <1>8, <2>1, <2>2 DEF OtherSession, SnapInv, Before, Touched, TypeOK
  <2>3. CASE cat[t] = NoRel
    <3>1. gone' = gone /\ ~Touched(t) /\ \A u \in Slot \ {t} : cat'[u] = cat[u]
      BY <1>8, <2>3 DEF OtherSession, TypeOK
    <3>2. Before(t) = NoRel /\ \A u \in Slot \ {t} : Before(u)' = Before(u)
      BY <2>1, <2>3, <3>1 DEF Before, Touched
    <3> QED
      BY <2>1, <3>1, <3>2 DEF SnapInv
  <2> QED
    BY <2>2, <2>3
<1>9. CASE Abort \/ Commit
  BY <1>9 DEF Abort, Commit, EndCall
<1> QED
  BY <1>2, <1>3, <1>4, <1>5, <1>6, <1>7, <1>8, <1>9, StepKinds

LEMMA LocalStep == TypeOK /\ PhaseInv /\ LocalInv /\ [Next]_vars => LocalInv'
<1> SUFFICES ASSUME TypeOK, PhaseInv, LocalInv, [Next]_vars,
                    NEW id \in TableId, NEW t \in Slot, localOf'[id] = t
             PROVE  HasPrefix(id, RootNs) /\ Attached(snap'[t], id)
  BY DEF LocalInv
<1> DEFINE Goal == HasPrefix(id, RootNs) /\ Attached(snap'[t], id)
<1>1. CASE UNCHANGED <<snap, localOf>>
  BY <1>1 DEF LocalInv
<1>2. CASE BuildMapping
  <2>1. CASE Syncs
    <3>1. localOf' = Local /\ snap' = Seen
      BY <1>2, <2>1 DEF BuildMapping
    <3> QED
      BY <3>1, LocalIsFound
  <2>2. CASE ~Syncs
    BY <1>2, <2>2, MarkerAssumption DEF BuildMapping, PhaseInv, Early
  <2> QED
    BY <2>1, <2>2
<1>3. ASSUME NEW a \in Args, Begin(a) PROVE Goal
  BY <1>3, MarkerAssumption DEF Begin, PhaseInv, Early
<1>4. ASSUME NEW s \in Slot, CreateTable(s) \/ DropDrifted(s) \/ DropMissing(s) PROVE Goal
  BY <1>1, <1>4 DEF CreateTable, DropDrifted, DropMissing, Refreshed, reading, call
<1>5. CASE EndCall
  BY <1>5, MarkerAssumption DEF EndCall
<1>6. ASSUME NEW s \in Slot, OtherSession(s) PROVE Goal
  BY <1>1, <1>6 DEF OtherSession, reading, call
<1>7. ASSUME NEW s \in Slot, ReportStep(s) PROVE Goal
  BY <1>1, <1>7, ReportStepIsQuiet DEF call
<1>8. CASE ListTables \/ ListNamespaces \/ EndReconcile \/ EndMissing \/ UNCHANGED vars
  BY <1>1, <1>8 DEF ListTables, ListNamespaces, EndReconcile, EndMissing, vars,
                    reading, call
<1>9. ASSUME NEW i \in TableId, RemoteChanges(i) PROVE Goal
  BY <1>1, <1>9 DEF RemoteChanges, reading, call
<1>11. CASE Abort \/ Commit
  BY <1>5, <1>11 DEF Abort, Commit
<1> QED
  BY <1>2, <1>3, <1>4, <1>6, <1>7, <1>8, <1>9, <1>11, StepKinds

-----------------------------------------------------------------------------
(* The listing is complete.                                                *)

\* Steps that leave the listing and the namespace alone.
LEMMA ListingKept ==
    ASSUME ListingInv, UNCHANGED <<remote, steady, listed, queue, pc>>
    PROVE  ListingInv'
BY DEF ListingInv, Steady, Waits

\* Walking on from a namespace keeps what is waiting below it waiting.
LEMMA WaitsOn ==
    ASSUME TypeOK, QueueInv, ListNamespaces, NEW id \in TableId,
           HasPrefix(id, RootNs), Waits(id), Parent(id) # Head(queue)
    PROVE  Waits(id)' /\ queue' # <<>>
<1>1. queue \in Seq(Namespace) /\ queue # <<>>
  BY DEF TypeOK, QueueInv, ListNamespaces
<1>2. /\ Head(queue) \in Namespace /\ Head(queue) = queue[1]
      /\ Tail(queue) \in Seq(Namespace) /\ Len(Tail(queue)) = Len(queue) - 1
      /\ \A i \in 1 .. Len(queue) - 1 : Tail(queue)[i] = queue[i + 1]
  BY <1>1
<1> DEFINE below == Children[Head(queue)]
           rest  == Tail(queue)
<1>3. below \in Seq(Namespace) /\ queue' = rest \o below
  BY <1>2, PathAssumption DEF ListNamespaces, ChildIds
<1>4. /\ Len(queue') = Len(rest) + Len(below)
      /\ \A i \in 1 .. Len(rest) : queue'[i] = rest[i]
      /\ \A i \in 1 .. Len(below) : queue'[Len(rest) + i] = below[i]
      /\ DOMAIN queue' = 1 .. Len(queue')
      /\ Len(rest) \in Nat /\ Len(below) \in Nat /\ Len(queue) \in Nat
  BY <1>1, <1>2, <1>3
<1>5. PICK i \in 1 .. Len(queue) : HasPrefix(Parent(id), queue[i])
  BY <1>1 DEF Waits
<1>6. \E j \in DOMAIN queue' : HasPrefix(Parent(id), queue'[j])
  <2>1. CASE i = 1
    <3>1. Parent(id) \in Namespace
      BY TreeAssumption
    <3>2. PICK k \in DOMAIN below : HasPrefix(Parent(id), below[k])
      BY <1>2, <1>5, <2>1, <3>1, TreeAssumption
    <3>3. k \in 1 .. Len(below)
      BY <1>3, <3>2
    <3>4. PICK a \in Nat, b \in Nat : a = Len(rest) /\ b = Len(below)
      BY <1>4
    <3>5. k \in 1 .. b /\ DOMAIN queue' = 1 .. a + b
      BY <1>4, <3>3, <3>4
    <3>6. a + k \in DOMAIN queue'
      BY <3>5
    <3>7. queue'[a + k] = below[k]
      BY <1>4, <3>3, <3>4
    <3> QED
      BY <3>2, <3>6, <3>7
  <2>2. CASE i # 1
    <3>1. i - 1 \in 1 .. Len(rest)
      BY <1>2, <1>4, <1>5, <2>2
    <3>2. rest[i - 1] = queue[i]
      BY <1>2, <1>4, <3>1
    <3>3. queue'[i - 1] = queue[i]
      BY <1>4, <3>1, <3>2
    <3>4. PICK a \in Nat, b \in Nat : a = Len(rest) /\ b = Len(below)
      BY <1>4
    <3>5. i - 1 \in 1 .. a /\ DOMAIN queue' = 1 .. a + b
      BY <1>4, <3>1, <3>4
    <3>6. i - 1 \in DOMAIN queue'
      BY <3>5
    <3> QED
      BY <1>5, <3>3, <3>6
  <2> QED
    BY <2>1, <2>2
<1>7. queue' # <<>>
  BY <1>6
<1> QED
  BY <1>6, <1>7 DEF Waits

LEMMA ListingStep ==
    TypeOK /\ PhaseInv /\ QueueInv /\ ListingInv /\ [Next]_vars => ListingInv'
<1> SUFFICES ASSUME TypeOK, PhaseInv, QueueInv, ListingInv, [Next]_vars
             PROVE  ListingInv'
  OBVIOUS
<1>1. ASSUME NEW a \in Args, Begin(a) PROVE ListingInv'
  <2>1. SUFFICES ASSUME NEW id \in TableId, HasPrefix(id, RootNs)
                 PROVE  Waits(id)'
    BY <1>1 DEF Begin, ListingInv, Steady
  <2>2. queue' = <<RootNs>> /\ HasPrefix(Parent(id), RootNs)
    BY <1>1, <2>1, ParentBelowRoot DEF Begin
  <2>3. 1 \in DOMAIN queue' /\ queue'[1] = RootNs
    BY <2>2
  <2> QED
    BY <2>2, <2>3 DEF Waits
<1>2. CASE ListTables
  <2>1. SUFFICES ASSUME NEW id \in TableId, Steady(id)', id \notin listed'
                 PROVE  /\ Waits(id)'
                        /\ pc' = "namespaces" => Parent(id) # Head(queue')
    BY <1>2 DEF ListTables, ListingInv
  <2>2. /\ Steady(id) /\ id \notin listed /\ queue' = queue /\ pc = "tables"
        /\ pc' = "namespaces" => listed' = listed \union Pending
    BY <1>2, <2>1 DEF ListTables, Steady, world, MoreTables
  <2>3. Waits(id)
    BY <2>2 DEF ListingInv
  <2>4. pc' = "namespaces" => Parent(id) # Head(queue')
    BY <2>1, <2>2 DEF Pending, Steady
  <2> QED
    BY <2>2, <2>3, <2>4 DEF Waits
<1>3. CASE ListNamespaces
  <2>1. SUFFICES ASSUME NEW id \in TableId, Steady(id)', id \notin listed'
                 PROVE  Waits(id)' /\ pc' = "tables"
    BY <1>3 DEF ListingInv
  <2>2. Steady(id) /\ id \notin listed /\ pc = "namespaces"
    BY <1>3, <2>1 DEF ListNamespaces, Steady, world
  <2>3. Waits(id) /\ Parent(id) # Head(queue)
    BY <2>2 DEF ListingInv
  <2>4. Waits(id)' /\ queue' # <<>>
    BY <1>3, <2>2, <2>3, WaitsOn DEF Steady
  <2> QED
    BY <1>3, <2>4 DEF ListNamespaces
<1>4. CASE BuildMapping \/ EndReconcile \/ EndMissing
  BY <1>4 DEF BuildMapping, EndReconcile, EndMissing, ListingInv, Steady,
              catalog, call, world
<1>5. ASSUME NEW s \in Slot, ReportStep(s) PROVE ListingInv'
  <2>1. Late /\ UNCHANGED <<remote, steady, listed>>
    BY <1>5, ReportStepIsQuiet DEF call, world
  <2> QED
    BY <2>1 DEF Late, ListingInv, Steady
<1>6. ASSUME NEW s \in Slot, CreateTable(s) \/ DropDrifted(s) \/ DropMissing(s)
      PROVE  ListingInv'
  <2>1. pc \in {"create", "recreate", "reconcile", "missing"}
    BY <1>6 DEF CreateTable, Creating, DropDrifted, Drifted, Visiting,
                DropMissing, Removing
  <2>2. UNCHANGED <<remote, steady, listed>>
    BY <1>6 DEF CreateTable, DropDrifted, DropMissing, call, world
  <2> QED
    BY <2>1, <2>2 DEF ListingInv, Steady
<1>7. CASE Abort \/ Commit
  BY <1>7 DEF Abort, Commit, EndCall, ListingInv
<1>8. ASSUME NEW i \in TableId, RemoteChanges(i) PROVE ListingInv'
  <2>1. CASE pc = "idle"
    BY <1>8, <2>1 DEF RemoteChanges, ListingInv
  <2>2. CASE pc # "idle"
    <3>1. \A id \in TableId : Steady(id)' => Steady(id)
      BY <1>8, <2>2 DEF RemoteChanges, Steady, TypeOK
    <3>2. UNCHANGED <<pc, queue, listed>>
      BY <1>8 DEF RemoteChanges, call
    <3> QED
      BY <3>1, <3>2 DEF ListingInv, Waits
  <2> QED
    BY <2>1, <2>2
<1>9. ASSUME NEW s \in Slot, OtherSession(s) PROVE ListingInv'
  BY <1>9, ListingKept DEF OtherSession, call
<1>10. CASE UNCHANGED vars
  BY <1>10, ListingKept DEF vars, call, world
<1> QED
  BY <1>1, <1>2, <1>3, <1>4, <1>5, <1>6, <1>7, <1>8, <1>9, <1>10, StepKinds
-----------------------------------------------------------------------------
(* What the transaction has changed.                                       *)

\* A slot is changed by a creation that finds it empty, or by one of the two
\* drops; otherwise what was noted about it stays until the call ends.
LEMMA UndoStep ==
    ASSUME TypeOK, PhaseInv, [Next]_vars, NEW s \in Slot
    PROVE  \/ undo'[s] = Untouched
           \/ /\ undo'[s] = undo[s]
              /\ Touched(s) => UNCHANGED <<arg, listed, snap>> /\ (s \in gone => s \in gone')
           \/ /\ undo'[s] = NoRel
              /\ CreateTable(s)
           \/ /\ ~Touched(s)
              /\ undo'[s] = cat[s]
              /\ DropDrifted(s) \/ DropMissing(s)
<1> DEFINE Stays == /\ undo'[s] = undo[s]
                    /\ Touched(s) => UNCHANGED <<arg, listed, snap>> /\ (s \in gone => s \in gone')
<1>1. CASE (\E a \in Args : Begin(a)) \/ ListTables \/ BuildMapping
  BY <1>1 DEF Begin, ListTables, BuildMapping, PhaseInv, Early, catalog
<1>2. CASE ListNamespaces \/ EndReconcile \/ EndMissing \/ UNCHANGED vars
  BY <1>2 DEF ListNamespaces, EndReconcile, EndMissing, vars,
              catalog, reading, call, world
<1>3. ASSUME NEW t \in Slot, ReportStep(t) PROVE Stays
  BY <1>3, ReportStepIsQuiet DEF catalog, call, world
<1>4. ASSUME NEW t \in Slot, CreateTable(t)
      PROVE  Stays \/ (undo'[s] = NoRel /\ CreateTable(s))
  <2>1. UNCHANGED <<arg, listed, gone, snap>>
    BY <1>4 DEF CreateTable, reading, call, world
  <2>2. CASE cat[t] # NoRel
    BY <1>4, <2>1, <2>2 DEF CreateTable, Create
  <2>3. CASE cat[t] = NoRel
    <3>1. undo' = [undo EXCEPT ![t] = IF Touched(t) THEN undo[t] ELSE NoRel]
      BY <1>4, <2>3 DEF CreateTable, Create, Keep
    <3> QED
      BY <1>4, <2>1, <3>1 DEF TypeOK
  <2> QED
    BY <2>2, <2>3
<1>5. ASSUME NEW t \in Slot, DropDrifted(t) \/ DropMissing(t)
      PROVE  \/ Stays
             \/ ~Touched(s) /\ undo'[s] = cat[s] /\ (DropDrifted(s) \/ DropMissing(s))
  <2>1. UNCHANGED <<arg, listed, gone, snap>>
    BY <1>5 DEF DropDrifted, DropMissing, Refreshed, call, world
  <2>2. undo' = [undo EXCEPT ![t] = IF Touched(t) THEN undo[t] ELSE cat[t]]
    BY <1>5 DEF DropDrifted, DropMissing, Drop, Keep
  <2>3. CASE s = t /\ ~Touched(s)
    BY <1>5, <2>2, <2>3 DEF TypeOK
  <2>4. CASE s # t \/ Touched(s)
    BY <2>1, <2>2, <2>4 DEF TypeOK
  <2> QED
    BY <2>3, <2>4
<1>6. CASE Abort \/ Commit
  BY <1>6 DEF Abort, Commit, EndCall
<1>7. ASSUME NEW id \in TableId, RemoteChanges(id) PROVE Stays
  BY <1>7 DEF RemoteChanges, catalog, reading, call
<1>8. ASSUME NEW t \in Slot, OtherSession(t) PROVE Stays
  BY <1>8 DEF OtherSession, reading, call
<1> QED
  BY <1>1, <1>2, <1>3, <1>4, <1>5, <1>6, <1>7, <1>8, StepKinds

\* A table that is dropped for drift is the one the introspection found for
\* the listed id of its slot.
LEMMA DriftedIsOwn ==
    ASSUME TypeOK, PhaseInv, SnapInv, LocalInv, NEW s \in Slot, DropDrifted(s)
    PROVE  /\ IdFor(s) \in TableId /\ IdFor(s) \in listed /\ SlotOf[IdFor(s)] = s
           /\ HasPrefix(IdFor(s), RootNs) /\ Attached(snap[s], IdFor(s))
           /\ s \notin gone /\ ~Touched(s) =>
                cat[s].id = IdFor(s) /\ Attached(cat[s], IdFor(s))
           /\ arg.recreate /\ ~arg.dry /\ UNCHANGED <<arg, listed, gone, snap>>
<1>1. /\ s \in Mapped /\ localOf[IdFor(s)] = s /\ arg.recreate /\ ~arg.dry
      /\ pc # "idle"
  BY DEF DropDrifted, Drifted, Visiting, IsNext, InPlace, DryRun, PhaseInv
<1>2. IdFor(s) \in TableId /\ IdFor(s) \in listed /\ SlotOf[IdFor(s)] = s
  BY <1>1, IdForIsListed
<1>3. HasPrefix(IdFor(s), RootNs) /\ Attached(snap[s], IdFor(s))
  BY <1>1, <1>2 DEF LocalInv
<1>4. s \notin gone /\ ~Touched(s) => cat[s] = snap[s]
  BY <1>1, <1>3, MarkerAssumption DEF SnapInv, Before, Attached, Rel
<1> QED
  BY <1>1, <1>2, <1>3, <1>4 DEF Attached, DropDrifted, Refreshed, call, world

\* A table that is dropped as missing is one the introspection found for an
\* id the listing does not have.
LEMMA MissingIsOwn ==
    ASSUME TypeOK, PhaseInv, SnapInv, LocalInv, NEW s \in Slot, DropMissing(s)
    PROVE  /\ \E id \in TableId :
                 /\ id \notin listed
                 /\ HasPrefix(id, RootNs) /\ Attached(snap[s], id)
                 /\ s \notin gone /\ ~Touched(s) => cat[s].id = id /\ Attached(cat[s], id)
           /\ arg.drop /\ ~arg.dry /\ UNCHANGED <<arg, listed, gone, snap>>
<1>1. s \in LocalOnly /\ arg.drop /\ ~arg.dry /\ pc # "idle"
  BY DEF DropMissing, Removing, IsNext, DryRun, PhaseInv
<1>2. PICK id \in TableId : localOf[id] = s /\ id \notin listed
  BY <1>1 DEF LocalOnly
<1>3. HasPrefix(id, RootNs) /\ Attached(snap[s], id)
  BY <1>2 DEF LocalInv
<1>4. s \notin gone /\ ~Touched(s) => cat[s] = snap[s]
  BY <1>1, <1>3, MarkerAssumption DEF SnapInv, Before, Attached, Rel
<1> QED
  BY <1>1, <1>2, <1>3, <1>4 DEF Attached, DropMissing, Refreshed, call, world

LEMMA OwnStep ==
    TypeOK /\ PhaseInv /\ SnapInv /\ LocalInv /\ OnlyOwnTables /\ [Next]_vars => OnlyOwnTables'
<1> SUFFICES ASSUME TypeOK, PhaseInv, SnapInv, LocalInv, OnlyOwnTables, [Next]_vars,
                    NEW s \in Slot, Touched(s)', undo'[s] # NoRel
             PROVE  Own(snap'[s]) /\ (s \notin gone' => Own(undo'[s]))
  BY DEF OnlyOwnTables
<1>1. undo'[s] # Untouched
  BY DEF Touched
<1>2. CASE /\ undo'[s] = undo[s]
           /\ Touched(s) => UNCHANGED <<arg, listed, snap>> /\ (s \in gone => s \in gone')
  BY <1>1, <1>2 DEF OnlyOwnTables, Touched
<1>3. CASE ~Touched(s) /\ undo'[s] = cat[s] /\ DropDrifted(s)
  BY <1>3, DriftedIsOwn DEF Own
<1>4. CASE ~Touched(s) /\ undo'[s] = cat[s] /\ DropMissing(s)
  BY <1>4, MissingIsOwn DEF Own
<1> QED
  BY <1>1, <1>2, <1>3, <1>4, UndoStep

LEMMA CauseStep ==
    TypeOK /\ PhaseInv /\ SnapInv /\ LocalInv /\ DropsHaveCause /\ [Next]_vars => DropsHaveCause'
<1> DEFINE Caused(s) == /\ ~arg.dry
                        /\ undo[s] \in Foreign /\ s \notin gone =>
                             IF undo[s].id \in listed
                             THEN arg.recreate /\ SlotOf[undo[s].id] = s
                             ELSE arg.drop
<1> SUFFICES ASSUME TypeOK, PhaseInv, SnapInv, LocalInv, DropsHaveCause, [Next]_vars,
                    NEW s \in Slot, Touched(s)'
             PROVE  Caused(s)'
  BY DEF DropsHaveCause
<1>1. undo'[s] # Untouched
  BY DEF Touched
<1>2. CASE /\ undo'[s] = undo[s]
           /\ Touched(s) => UNCHANGED <<arg, listed, snap>> /\ (s \in gone => s \in gone')
  <2>1. Touched(s)
    BY <1>1, <1>2 DEF Touched
  <2> QED
    BY <1>2, <2>1 DEF DropsHaveCause
<1>3. CASE undo'[s] = NoRel /\ CreateTable(s)
  <2>1. undo'[s] \notin Foreign
    BY <1>3, MarkerAssumption DEF Rel
  <2>2. ~arg'.dry
    BY <1>3 DEF CreateTable, Creating, PhaseInv, call
  <2> QED
    BY <2>1, <2>2
<1>4. CASE ~Touched(s) /\ undo'[s] = cat[s] /\ DropDrifted(s)
  <2>1. ~arg'.dry
    BY <1>4 DEF DropDrifted, Drifted, DryRun, call
  <2>2. CASE s \in gone
    BY <1>4, <2>1, <2>2 DEF DropDrifted, world
  <2>3. CASE s \notin gone
    BY <1>4, <2>1, <2>3, DriftedIsOwn
  <2> QED
    BY <2>2, <2>3
<1>5. CASE ~Touched(s) /\ undo'[s] = cat[s] /\ DropMissing(s)
  <2>1. ~arg'.dry
    BY <1>5 DEF DropMissing, DryRun, call
  <2>2. CASE s \in gone
    BY <1>5, <2>1, <2>2 DEF DropMissing, world
  <2>3. CASE s \notin gone
    BY <1>5, <2>1, <2>3, MissingIsOwn
  <2> QED
    BY <2>2, <2>3
<1> QED
  BY <1>1, <1>2, <1>3, <1>4, <1>5, UndoStep

\* What is listed is not dropped without recreate_changed, and when the
\* listing is over every dataset that has been there all the time is listed.
LEMMA PresentFollows == IInv => PresentNeverDropped
<1> SUFFICES ASSUME IInv, NEW s \in Slot, s \notin gone, Touched(s),
                    undo[s] \in Foreign, ~arg.recreate,
                    undo[s].id \in steady, remote[undo[s].id] # Absent
             PROVE  FALSE
  BY DEF PresentNeverDropped
<1>1. PICK id \in TableId : HasPrefix(id, RootNs) /\ Attached(undo[s], id)
  BY MarkerAssumption DEF IInv, OnlyOwnTables, Own, Rel
<1>2. id = undo[s].id /\ Steady(id)
  BY <1>1 DEF Attached, Steady
<1>3. id \notin listed
  BY <1>2 DEF IInv, DropsHaveCause
<1>4. Early
  BY <1>2, <1>3 DEF IInv, ListingInv, Early
<1> QED
  BY <1>4 DEF IInv, PhaseInv
-----------------------------------------------------------------------------
(* The theorems.                                                           *)

LEMMA InitIInv == Init => IInv
<1> SUFFICES ASSUME Init PROVE IInv
  OBVIOUS
<1>1. TypeOK
  BY InitType
<1>2. /\ pc = "idle" /\ undo = [s \in Slot |-> Untouched]
      /\ localOf = [id \in TableId |-> NoSlot]
  BY DEF Init
<1>3. \A s \in Slot : ~Touched(s)
  BY <1>2 DEF Touched
<1>4. PhaseInv /\ SnapInv /\ LocalInv /\ ListingInv /\ QueueInv
  BY <1>2, <1>3, MarkerAssumption DEF PhaseInv, SnapInv, LocalInv, ListingInv, QueueInv, Early
<1>5. OnlyOwnTables /\ DropsHaveCause
  BY <1>3 DEF OnlyOwnTables, DropsHaveCause
<1> QED
  BY <1>1, <1>4, <1>5 DEF IInv

LEMMA IInvStep == IInv /\ [Next]_vars => IInv'
BY TypeStep, PhaseStep, SnapStep, LocalStep, ListingStep, QueueStep, OwnStep, CauseStep DEF IInv

LEMMA Inductive == Spec => []IInv
BY InitIInv, IInvStep, PTL DEF Spec

\* Every variable keeps its type, for any namespace, catalog and calls.
THEOREM SyncTypeCorrect == Spec => []TypeOK
<1>1. IInv => TypeOK
  BY DEF IInv
<1> QED
  BY <1>1, Inductive, PTL

\* attach and sync drop no relation but foreign tables of their own server
\* with an id under the root (introspection filters, attach_one's lookup): in
\* every slot they drop, the snapshot the introspection read shows one, and
\* it is the one dropped unless another session has emptied the slot since.
THEOREM OnlyOwnTablesCorrect == Spec => []OnlyOwnTables
<1>1. IInv => OnlyOwnTables
  BY DEF IInv
<1> QED
  BY <1>1, Inductive, PTL

\* A dry run changes nothing; a listed table is dropped only for
\* recreate_changed and in its own slot, an unlisted one for drop_missing.
THEOREM DropsHaveCauseCorrect == Spec => []DropsHaveCause
<1>1. IInv => DropsHaveCause
  BY DEF IInv
<1> QED
  BY <1>1, Inductive, PTL

\* list_table_ids finds every dataset that is there during the whole walk,
\* whatever the pages and whatever else changes, so drop_missing never drops
\* the foreign table of one.
THEOREM PresentNeverDroppedCorrect == Spec => []PresentNeverDropped
BY Inductive, PresentFollows, PTL
-----------------------------------------------------------------------------
(***************************************************************************)
(* The run of a call, from the introspection to the end of its loops: a    *)
(* second inductive invariant, on top of IInv.  A slot is compared with    *)
(* what it held before the call.                                           *)
(***************************************************************************)

\* The dataset of a table is there, under the root.
There(id) == HasPrefix(id, RootNs) /\ remote[id] # Absent

NoFailure == \A r \in rows : r.status # "failed"

\* What the call saw of its environment is still so, unless it is marked.
MarksInv ==
    /\ ~meddled => gone = {}
    /\ pc = "idle" => listed = {} /\ steady = TableId /\ ~meddled
    /\ pc = "recreate" => arg.recreate
    /\ pc = "missing" => Syncs
    /\ pc = "done" => todo = {}

\* The listing is of tables under the root that were there.
ListedInv ==
    /\ \A i \in DOMAIN queue : HasPrefix(queue[i], RootNs)
    /\ \A id \in listed : HasPrefix(id, RootNs) /\ (id \in steady => remote[id] # Absent)

\* The introspection: what was found is what the slot held before the call, and
\* nothing that is there was overlooked.
OriginInv ==
    \A id \in TableId : \A s \in Slot : localOf[id] = s /\ s \notin gone =>
        Attached(Before(s), id)
ExactInv ==
    Late /\ Syncs /\ ~meddled =>
        \A id \in TableId : \A s \in Slot :
            HasPrefix(id, RootNs) /\ Attached(Before(s), id) =>
                localOf[id] # NoSlot /\ (NoFailure => localOf[id] = s)
MappingInv == Late /\ NoFailure => \A id \in listed : SlotOf[id] \in Mapped

\* The loops: a slot is changed when it is visited.
VisitInv ==
    /\ pc \in {"reconcile", "create"} => \A s \in todo : ~Touched(s)
    /\ pc = "create" => \A s \in todo : IsNext(s) =>
         Missing(s) /\ (cat[s] = NoRel \/ meddled)
    /\ pc = "recreate" => \A s \in todo :
         IF IsNext(s)
         THEN InPlace(s) /\ Touched(s) /\ undo[s] # NoRel /\ cat[s] = NoRel
         ELSE ~Touched(s)
    /\ pc = "missing" => \A s \in todo \ gone : ~Touched(s)

\* Who is changed by the first loop, and what stands where a table was made.
TouchInv ==
    /\ pc \in {"reconcile", "create", "recreate"} =>
         \A s \in Slot : Touched(s) => s \in Mapped /\ (undo[s] = NoRel \/ InPlace(s))
    /\ \A s \in Slot : Touched(s) /\ cat[s] # NoRel =>
         s \in Mapped /\ Attached(cat[s], IdFor(s)) /\ (Missing(s) \/ InPlace(s))

\* The rows tell, at any time of the loops, what became of the catalog.
Changed(s) == Touched(s) /\ undo[s] # NoRel /\ cat[s] # NoRel
Dropping(s) == pc = "recreate" /\ IsNext(s)
SaysLost(s) == Reported(s, "drop_table", "ok") \/ Reported(s, "recreate_table", "failed")
TellsOf(s) ==
    /\ SaysLost(s) => Lost(s)
    /\ Lost(s) => SaysLost(s) \/ Dropping(s)
    /\ Changed(s) <=> Reported(s, "recreate_table", "ok")
    /\ Touched(s) /\ undo[s] = NoRel => Reported(s, "create_table", "ok")
    /\ Reported(s, "create_table", "ok") => Touched(s) \/ meddled
    /\ Dropping(s) => ~SaysLost(s)
TellInv == Late => \A s \in Slot \ gone : TellsOf(s)

\* A full sync that is not interfered with: a slot that has been visited is
\* as it should be, or it was reported to be elsewhere.
FullSync == Syncs /\ arg.drop /\ arg.recreate /\ ~arg.dry
Calm     == steady = TableId /\ ~meddled /\ NoFailure
Settles(s) ==
    \/ Misplaced(s) /\ \E r \in rows : r.action = "drift"
    \/ /\ Attached(cat[s], IdFor(s)) /\ SameColumns(cat[s], remote[IdFor(s)])
       /\ InPlace(s) \/ Before(s) = NoRel
SettlesInv ==
    Late /\ FullSync /\ Calm =>
        \A s \in Mapped : s \notin todo \/ pc \in {"missing", "done"} => Settles(s)
DropsInv ==
    pc \in {"missing", "done"} /\ Syncs /\ arg.drop /\ ~arg.dry =>
        \A s \in LocalOnly \ todo : Touched(s)

\* A catalog that a full sync has nothing to do about.
HasColumns(r, l) == r.flat = l.flat /\ r.nested = (l.nested # NoStruct)
Quiet ==
    /\ \A id \in TableId : \A s \in Slot :
         HasPrefix(id, RootNs) /\ Attached(Before(s), id) =>
            There(id) /\ \A t \in Slot : Attached(Before(t), id) => t = s
    /\ \A id \in TableId : There(id) =>
         \/ LET r == Before(SlotOf[id]) IN Attached(r, id) /\ HasColumns(r, remote[id])
         \/ \E s \in Slot \ {SlotOf[id]} : Attached(Before(s), id)
SettledInv ==
    settled =>
        /\ Quiet
        /\ steady = TableId /\ ~meddled
        /\ Syncs => pc \notin {"create", "recreate"} /\ \A s \in Slot : ~Touched(s)

RunInv ==
    /\ MarksInv /\ ListedInv /\ ExactInv /\ MappingInv
    /\ VisitInv /\ TouchInv /\ TellInv /\ SettlesInv /\ DropsInv /\ SettledInv
-----------------------------------------------------------------------------
(* Ids under the root.                                                     *)

LEMMA PrefixOfPrefix ==
    ASSUME NEW a \in Seq(STRING), NEW b \in Seq(STRING), NEW c \in Seq(STRING),
           HasPrefix(a, b), HasPrefix(b, c)
    PROVE  HasPrefix(a, c)
<1>1. PICK k \in Nat, m \in Nat, n \in Nat : k = Len(c) /\ m = Len(b) /\ n = Len(a)
  OBVIOUS
<1>2. k <= m /\ m <= n /\ SubSeq(a, 1, m) = b /\ SubSeq(b, 1, k) = c
  BY <1>1 DEF HasPrefix
<1>3. CASE k = 0
  <2>1. c = <<>>
    BY <1>1, <1>3, EmptySeq
  <2>2. SubSeq(a, 1, 0) = <<>>
    BY SubSeqEmpty
  <2> QED
    BY <1>1, <1>2, <1>3, <2>1, <2>2 DEF HasPrefix
<1>4. CASE k # 0
  <2>1. /\ Len(SubSeq(a, 1, k)) = k
        /\ \A i \in 1 .. k : SubSeq(a, 1, k)[i] = a[i]
        /\ SubSeq(a, 1, k) \in Seq(STRING)
    BY <1>1, <1>2, <1>4
  <2>2. \A i \in 1 .. m : b[i] = a[i]
    BY <1>1, <1>2, <1>4
  <2>3. \A i \in 1 .. k : c[i] = b[i]
    BY <1>1, <1>2, <1>4
  <2>4. \A i \in 1 .. k : SubSeq(a, 1, k)[i] = c[i]
    BY <1>2, <2>1, <2>2, <2>3
  <2>5. SubSeq(a, 1, k) = c
    BY <1>1, <2>1, <2>4, SeqEqual
  <2> QED
    BY <1>1, <1>2, <2>5 DEF HasPrefix
<1> QED
  BY <1>3, <1>4

LEMMA BelowParent ==
    ASSUME NEW id \in TableId, HasPrefix(Parent(id), RootNs)
    PROVE  HasPrefix(id, RootNs)
<1>1. id \in Seq(STRING) /\ id # <<>> /\ RootNs \in Seq(STRING)
  BY PathAssumption
<1>2. PICK n \in Nat : n = Len(id) /\ n > 0
  BY <1>1
<1>3. Parent(id) = SubSeq(id, 1, n - 1)
  BY <1>2 DEF Parent
<1>4. Parent(id) \in Seq(STRING) /\ Len(Parent(id)) = n - 1
  <2>1. CASE n = 1
    <3>1. SubSeq(id, 1, 0) = <<>>
      BY SubSeqEmpty
    <3> QED
      BY <1>3, <2>1, <3>1
  <2>2. CASE n # 1
    <3>1. n - 1 \in 1 .. Len(id) /\ 1 \in 1 .. Len(id)
      BY <1>2, <2>2
    <3> QED
      BY <1>1, <1>2, <1>3, <3>1
  <2> QED
    BY <2>1, <2>2
<1>5. HasPrefix(id, Parent(id))
  BY <1>2, <1>3, <1>4 DEF HasPrefix
<1> QED
  BY <1>1, <1>4, <1>5, PrefixOfPrefix
-----------------------------------------------------------------------------
(* Steps of a run.                                                         *)

LEMMA NextIsOne ==
    ASSUME TypeOK, NEW s \in Slot, NEW t \in Slot, IsNext(s), IsNext(t)
    PROVE  s = t
<1>1. Rank[s] <= Rank[t] /\ Rank[t] <= Rank[s]
  BY DEF IsNext
<1>2. Rank[s] \in Nat /\ Rank[t] \in Nat
  BY SlotAssumption
<1> QED
  BY <1>1, <1>2, SlotAssumption

\* What depends on the arguments, the listing and the introspection alone.
LEMMA SameCall ==
    ASSUME UNCHANGED call
    PROVE  /\ Mapped' = Mapped /\ LocalOnly' = LocalOnly /\ Syncs' = Syncs
           /\ \A s : /\ IdFor(s)' = IdFor(s)
                     /\ Missing(s)' = Missing(s)
                     /\ Misplaced(s)' = Misplaced(s)
                     /\ InPlace(s)' = InPlace(s)
           /\ arg' = arg /\ listed' = listed /\ localOf' = localOf
<1>1. arg' = arg /\ listed' = listed /\ localOf' = localOf
  BY DEF call
<1>2. Mapped' = Mapped /\ LocalOnly' = LocalOnly
  BY SameMapping
<1>3. \A s : IdFor(s)' = IdFor(s)
  BY <1>1 DEF IdFor
<1> QED
  BY <1>1, <1>2, <1>3 DEF Syncs, Missing, Misplaced, InPlace

\* What happens between the mapping and the end of the call.
LateStep ==
    \/ \E s \in Slot : ReportStep(s)
    \/ \E s \in Slot : CreateTable(s)
    \/ \E s \in Slot : DropDrifted(s)
    \/ \E s \in Slot : DropMissing(s)
    \/ EndReconcile
    \/ EndMissing
    \/ \E id \in TableId : RemoteChanges(id)
    \/ \E s \in Slot : OtherSession(s)
    \/ UNCHANGED vars

LEMMA LateKinds ==
    ASSUME [Next]_vars, Late'
    PROVE  \/ BuildMapping
           \/ Late /\ UNCHANGED call /\ rows \subseteq rows' /\ LateStep
<1>1. ASSUME NEW s \in Slot, ReportStep(s)
      PROVE  Late /\ UNCHANGED call /\ rows \subseteq rows'
  BY <1>1, ReportStepIsQuiet
     DEF ReportStep, AttachExisting, AttachNew, CreateFails, ReportMisplaced,
         ReportDrift, ReportMissing, Emit
<1>2. ASSUME NEW s \in Slot, CreateTable(s) \/ DropDrifted(s) \/ DropMissing(s)
      PROVE  Late /\ UNCHANGED call /\ rows \subseteq rows'
  BY <1>2 DEF CreateTable, DropDrifted, DropMissing, Creating, Drifted, Visiting,
              Removing, Emit, Late
<1>3. CASE EndReconcile \/ EndMissing \/ UNCHANGED vars
  BY <1>3 DEF EndReconcile, EndMissing, vars, Late, LateStep
<1>4. ASSUME NEW id \in TableId, RemoteChanges(id)
      PROVE  Late /\ UNCHANGED call /\ rows \subseteq rows'
  BY <1>4 DEF RemoteChanges, Late
<1>5. ASSUME NEW s \in Slot, OtherSession(s)
      PROVE  Late /\ UNCHANGED call /\ rows \subseteq rows'
  BY <1>5 DEF OtherSession, Late
<1>6. CASE (\E a \in Args : Begin(a)) \/ ListTables \/ Abort \/ Commit
  BY <1>6 DEF Begin, ListTables, Abort, Commit, EndCall, Late
<1>7. CASE ListNamespaces
  BY <1>7 DEF ListNamespaces, Late
<1> QED
  BY <1>1, <1>2, <1>3, <1>4, <1>5, <1>6, <1>7, StepKinds DEF LateStep

\* A failure that has been reported stays so.
LEMMA FailuresStay ==
    ASSUME rows \subseteq rows', NoFailure'
    PROVE  NoFailure
BY DEF NoFailure

-----------------------------------------------------------------------------
(* One lemma for each part of the invariant.                               *)

LEMMA MarksStep ==
    ASSUME TypeOK, MarksInv, [Next]_vars
    PROVE  MarksInv'
<1>1. CASE (\E a \in Args : Begin(a)) \/ ListTables \/ ListNamespaces \/ BuildMapping
  BY <1>1 DEF Begin, ListTables, ListNamespaces, BuildMapping, MarksInv, Early,
              catalog, world
<1>2. ASSUME NEW s \in Slot, ReportStep(s) PROVE MarksInv'
  <2>1. /\ UNCHANGED <<gone, meddled, arg>> /\ Late /\ Late'
        /\ pc' # "recreate" \/ pc' = pc
        /\ pc' # "missing" \/ pc' = pc
        /\ pc' # "done" \/ (pc' = pc /\ todo' \subseteq todo)
    BY <1>2, ReportStepIsQuiet DEF call, world
  <2> QED
    BY <2>1 DEF MarksInv, Early, Late, Syncs
<1>3. ASSUME NEW s \in Slot, CreateTable(s) PROVE MarksInv'
  BY <1>3, Created DEF MarksInv, Early, world
<1>4. ASSUME NEW s \in Slot, DropDrifted(s) PROVE MarksInv'
  BY <1>4 DEF DropDrifted, Drifted, MarksInv, Early, world, call
<1>5. ASSUME NEW s \in Slot, DropMissing(s) PROVE MarksInv'
  BY <1>5 DEF DropMissing, Removing, LeaveMissing, MarksInv, Early, world, call, Syncs
<1>6. CASE EndReconcile \/ EndMissing
  BY <1>6 DEF EndReconcile, EndMissing, MarksInv, Early, world, call, Syncs
<1>7. CASE Abort \/ Commit
  BY <1>7 DEF Abort, Commit, EndCall, MarksInv
<1>8. ASSUME NEW id \in TableId, RemoteChanges(id) PROVE MarksInv'
  BY <1>8 DEF RemoteChanges, MarksInv, Early, call, Syncs
<1>9. ASSUME NEW s \in Slot, OtherSession(s) PROVE MarksInv'
  BY <1>9 DEF OtherSession, MarksInv, Early, call, Syncs
<1>10. CASE UNCHANGED vars
  BY <1>10 DEF vars, catalog, call, world, MarksInv, Early, Syncs
<1> QED
  BY <1>1, <1>2, <1>3, <1>4, <1>5, <1>6, <1>7, <1>8, <1>9, <1>10, StepKinds

LEMMA ListedStep ==
    ASSUME TypeOK, QueueInv, MarksInv, ListedInv, [Next]_vars
    PROVE  ListedInv'
<1>1. ASSUME NEW a \in Args, Begin(a) PROVE ListedInv'
  <2>1. HasPrefix(RootNs, RootNs)
    BY PathAssumption DEF HasPrefix
  <2> QED
    BY <1>1, <2>1 DEF Begin, ListedInv, world
<1>2. CASE ListTables
  <2>1. HasPrefix(Head(queue), RootNs)
    BY <1>2 DEF ListTables, QueueInv, ListedInv, TypeOK
  <2>2. PICK page \in SUBSET Pending : listed' = listed \union page
    BY <1>2 DEF ListTables
  <2>3. \A id \in page : HasPrefix(id, RootNs) /\ remote[id] # Absent
    BY <2>1, <2>2, BelowParent DEF Pending
  <2> QED
    BY <1>2, <2>2, <2>3 DEF ListTables, ListedInv, world
<1>3. CASE ListNamespaces
  <2>1. queue \in Seq(Namespace) /\ queue # <<>>
    BY <1>3 DEF ListNamespaces, QueueInv, TypeOK
  <2>2. Head(queue) \in Namespace /\ HasPrefix(Head(queue), RootNs)
    BY <2>1 DEF ListedInv
  <2>3. \A i \in DOMAIN Children[Head(queue)] : HasPrefix(Children[Head(queue)][i], RootNs)
    BY <2>2, TreeAssumption, PathAssumption, PrefixOfPrefix
  <2>4. Children[Head(queue)] \in Seq(Namespace)
    BY <2>2, PathAssumption
  <2>5. Tail(queue) \in Seq(Namespace)
        /\ \A i \in DOMAIN Tail(queue) : HasPrefix(Tail(queue)[i], RootNs)
    BY <2>1 DEF ListedInv
  <2>6. \A i \in DOMAIN queue' : HasPrefix(queue'[i], RootNs)
    BY <1>3, <2>3, <2>4, <2>5 DEF ListNamespaces, ChildIds
  <2> QED
    BY <1>3, <2>6 DEF ListNamespaces, ListedInv, world
<1>4. CASE UNCHANGED <<queue, listed, remote, steady>>
  BY <1>4 DEF ListedInv
<1>5. CASE BuildMapping \/ EndReconcile \/ EndMissing \/ UNCHANGED vars
  BY <1>4, <1>5 DEF BuildMapping, EndReconcile, EndMissing, vars, call, world
<1>6. ASSUME NEW s \in Slot, ReportStep(s) PROVE ListedInv'
  BY <1>4, <1>6, ReportStepIsQuiet DEF call, world
<1>7. ASSUME NEW s \in Slot, CreateTable(s) \/ DropDrifted(s) \/ DropMissing(s)
      PROVE  ListedInv'
  BY <1>4, <1>7 DEF CreateTable, DropDrifted, DropMissing, call, world
<1>8. CASE Abort \/ Commit
  <2>1. queue' = <<>> /\ listed' = {}
    BY <1>8 DEF Abort, Commit, EndCall
  <2>2. \A i \in DOMAIN queue' : FALSE
    BY <2>1
  <2> QED
    BY <2>1, <2>2 DEF ListedInv
<1>9. ASSUME NEW id \in TableId, RemoteChanges(id) PROVE ListedInv'
  BY <1>9 DEF RemoteChanges, ListedInv, MarksInv, call, TypeOK
<1>10. ASSUME NEW s \in Slot, OtherSession(s) PROVE ListedInv'
  BY <1>4, <1>10 DEF OtherSession, call
<1> QED
  BY <1>1, <1>2, <1>3, <1>5, <1>6, <1>7, <1>8, <1>9, <1>10, StepKinds

\* What was found is what its slot held before the call.
LEMMA OriginHolds ==
    ASSUME IInv
    PROVE  OriginInv
<1> USE DEF IInv
<1> SUFFICES ASSUME NEW id \in TableId, NEW s \in Slot, localOf[id] = s, s \notin gone
             PROVE  Attached(Before(s), id)
  BY DEF OriginInv
<1>1. Attached(snap[s], id) /\ snap[s] # NoRel
  BY MarkerAssumption DEF LocalInv, Attached, Rel
<1>2. pc # "idle"
  BY MarkerAssumption DEF PhaseInv, Early
<1> QED
  BY <1>1, <1>2 DEF SnapInv

LEMMA FoundBetween ==
    ASSUME NEW id \in TableId, NEW s \in FoundAt(id), Local[id] # s
    PROVE  Row(id, Local[id], "error", "failed") \in DuplicateRows
<1>1. FoundAt(id) \in (SUBSET Slot) \ {{}}
  BY DEF FoundAt
<1>2. LastFound(id) \in FoundAt(id) /\ \A t \in FoundAt(id) : Rank[t] <= Rank[LastFound(id)]
  BY <1>1, SlotAssumption DEF LastFound
<1>3. Local[id] = LastFound(id)
  BY <1>1 DEF Local
<1>4. Rank[s] < Rank[Local[id]]
  <2>1. s \in Slot /\ Local[id] \in Slot
    BY <1>1, <1>2, <1>3
  <2>2. Rank[s] \in Nat /\ Rank[Local[id]] \in Nat /\ Rank[s] # Rank[Local[id]]
    BY <2>1, SlotAssumption
  <2> QED
    BY <1>2, <1>3, <2>2
<1>5. Row(id, Local[id], "error", "failed") \in
        { Row(id, t, "error", "failed") :
            t \in {t \in FoundAt(id) : \E u \in FoundAt(id) : Rank[u] < Rank[t]} }
  BY <1>2, <1>3, <1>4
<1> QED
  BY <1>5 DEF DuplicateRows

\* Every kind of step of the loops, when nobody interferes, leaves what was before.
LEMMA LateBefore ==
    ASSUME TypeOK, [Next]_vars, LateStep, Late, ~meddled', NEW s \in Slot
    PROVE  Before(s)' = Before(s) /\ ~meddled
<1>1. \A t \in Slot : ~OtherSession(t)
  BY DEF OtherSession, Late
<1>2. ASSUME NEW t \in Slot, ReportStep(t) PROVE Before(s)' = Before(s) /\ ~meddled
  BY <1>2, ReportStepIsQuiet DEF catalog, world, Before, Touched
<1>3. ASSUME NEW t \in Slot, CreateTable(t) \/ DropDrifted(t) \/ DropMissing(t)
      PROVE  ~Commit /\ ~meddled
  <2>1. pc # "done"
    BY <1>3 DEF CreateTable, DropDrifted, DropMissing, Creating, Drifted, Visiting,
                Removing
  <2>2. UNCHANGED meddled
    BY <1>3 DEF CreateTable, DropDrifted, DropMissing, world
  <2> QED
    BY <2>1, <2>2 DEF Commit
<1>4. CASE EndReconcile \/ EndMissing \/ UNCHANGED vars
  BY <1>4 DEF EndReconcile, EndMissing, vars, catalog, world, Before, Touched
<1>5. ASSUME NEW id \in TableId, RemoteChanges(id) PROVE Before(s)' = Before(s) /\ ~meddled
  BY <1>5 DEF RemoteChanges, catalog, Before, Touched
<1> QED
  BY <1>1, <1>2, <1>3, <1>4, <1>5, BeforeSame DEF LateStep

LEMMA ExactStep ==
    ASSUME TypeOK, PhaseInv, SnapInv, ExactInv, [Next]_vars
    PROVE  ExactInv'
<1> SUFFICES ASSUME Late', Syncs', ~meddled', NEW id \in TableId, NEW s \in Slot,
                    HasPrefix(id, RootNs), Attached(Before(s)', id)
             PROVE  localOf'[id] # NoSlot /\ (NoFailure' => localOf'[id] = s)
  BY DEF ExactInv
<1>1. CASE BuildMapping
  <2>1. Seen[s] = Before(s)' /\ Syncs
    <3>1. Before(s)' = cat[s] /\ Before(s) = cat[s] /\ Syncs /\ ~meddled /\ pc # "idle"
      BY <1>1 DEF BuildMapping, PhaseInv, Early, catalog, Before, Touched, Syncs
    <3> QED
      BY <3>1 DEF SnapInv, Seen
  <2>2. localOf' = Local /\ DuplicateRows \subseteq rows'
    BY <1>1, <2>1 DEF BuildMapping
  <2>3. s \in FoundAt(id)
    BY <2>1 DEF FoundAt, UnderRoot
  <2>4. Local[id] # NoSlot
    <3>1. FoundAt(id) \in (SUBSET Slot) \ {{}}
      BY <2>3 DEF FoundAt
    <3>2. LastFound(id) \in FoundAt(id)
      BY <3>1, SlotAssumption DEF LastFound
    <3> QED
      BY <3>1, <3>2, MarkerAssumption DEF Local
  <2>5. ASSUME Local[id] # s PROVE ~NoFailure'
    BY <2>2, <2>3, <2>5, FoundBetween DEF NoFailure, Row
  <2> QED
    BY <2>2, <2>4, <2>5
<1>2. CASE Late /\ UNCHANGED call /\ rows \subseteq rows' /\ LateStep
  <2>1. Before(s)' = Before(s) /\ ~meddled
    BY <1>2, LateBefore
  <2>2. localOf' = localOf /\ Syncs /\ (NoFailure' => NoFailure)
    BY <1>2, SameCall, FailuresStay
  <2> QED
    BY <1>2, <2>1, <2>2 DEF ExactInv
<1> QED
  BY <1>1, <1>2, LateKinds

LEMMA MappingStep ==
    ASSUME TypeOK, MappingInv, [Next]_vars
    PROVE  MappingInv'
<1> SUFFICES ASSUME Late', NoFailure', NEW id \in listed'
             PROVE  SlotOf[id] \in Mapped'
  BY DEF MappingInv
<1>1. CASE BuildMapping
  <2>1. ConflictRows \subseteq rows' /\ listed' = listed /\ Mapped' = Mapped
    BY <1>1 DEF BuildMapping, Mapped, IdsAt
  <2>2. ASSUME SlotOf[id] \notin Mapped
        PROVE  Row(id, SlotOf[id], "error", "failed") \in ConflictRows
    BY <2>1, <2>2 DEF ConflictRows
  <2> QED
    BY <2>1, <2>2 DEF NoFailure, Row
<1>2. CASE Late /\ UNCHANGED call /\ rows \subseteq rows' /\ LateStep
  BY <1>2, SameCall, FailuresStay DEF MappingInv
<1> QED
  BY <1>1, <1>2, LateKinds

\* The order of the loop only depends on what is left to visit.
LEMMA SameNext ==
    ASSUME todo' = todo
    PROVE  \A s : IsNext(s)' = IsNext(s)
BY DEF IsNext

LEMMA BuildTouch ==
    ASSUME PhaseInv, BuildMapping
    PROVE  /\ \A s \in Slot : ~Touched(s) /\ ~Touched(s)'
           /\ pc' = "reconcile"
BY DEF BuildMapping, PhaseInv, Early, catalog, Touched

LEMMA VisitStep ==
    ASSUME TypeOK, PhaseInv, MarksInv, OriginInv, VisitInv, TouchInv, [Next]_vars
    PROVE  VisitInv'
<1> SUFFICES ASSUME Late' PROVE VisitInv'
  BY DEF VisitInv, Late
<1>1. CASE BuildMapping
  <2>1. todo' \subseteq Slot
    BY <1>1 DEF BuildMapping, Mapped
  <2> QED
    BY <1>1, <2>1, BuildTouch DEF VisitInv
<1>2. ASSUME NEW s \in Slot, ReportStep(s) PROVE VisitInv'
  <2>1. UNCHANGED <<cat, undo, call, gone, meddled>> /\ \A t : Touched(t)' = Touched(t)
    BY <1>2, ReportStepIsQuiet DEF catalog, world, Touched
  <2>2. \A t : Missing(t)' = Missing(t)
    BY <2>1, SameCall
  <2>3. CASE AttachNew(s) /\ ~DryRun
    <3>1. /\ pc = "reconcile" /\ pc' = "create" /\ todo' = todo
          /\ IsNext(s) /\ Missing(s) /\ cat[s] = NoRel
      BY <2>3 DEF AttachNew, Visiting
    <3>2. \A t \in todo' : ~Touched(t)'
      BY <2>1, <3>1 DEF VisitInv
    <3>3. ASSUME NEW t \in todo', IsNext(t)' PROVE Missing(t)' /\ cat'[t] = NoRel
      <4>1. IsNext(t) /\ t \in Slot
        BY <3>1, <3>3, SameNext DEF TypeOK
      <4>2. t = s
        BY <3>1, <4>1, NextIsOne
      <4> QED
        BY <2>1, <2>2, <3>1, <4>2
    <3> QED
      BY <3>1, <3>2, <3>3 DEF VisitInv
  <2>4. CASE ReportMissing(s)
    <3>1. pc = "missing" /\ pc' = "missing" /\ todo' \subseteq todo
      BY <2>4 DEF ReportMissing, Removing, LeaveMissing
    <3> QED
      BY <2>1, <3>1 DEF VisitInv
  <2>5. CASE \/ AttachExisting(s) \/ (AttachNew(s) /\ DryRun) \/ CreateFails(s)
             \/ ReportMisplaced(s) \/ ReportDrift(s)
    <3>1. /\ IsNext(s) /\ pc \in {"reconcile", "create", "recreate"}
          /\ pc' = "reconcile" /\ todo' = todo \ {s}
      BY <2>5 DEF AttachExisting, AttachNew, CreateFails, ReportMisplaced, ReportDrift,
                  Visiting, Creating, Leave
    <3>2. \A t \in todo \ {s} : ~Touched(t)
      BY <3>1, NextIsOne DEF VisitInv, TypeOK
    <3> QED
      BY <2>1, <3>1, <3>2 DEF VisitInv
  <2> QED
    BY <1>2, <2>3, <2>4, <2>5 DEF ReportStep
<1>3. ASSUME NEW s \in Slot, CreateTable(s) PROVE VisitInv'
  <2>1. /\ pc \in {"create", "recreate"} /\ IsNext(s)
        /\ pc' = "reconcile" /\ todo' = todo \ {s}
        /\ \A t \in Slot \ {s} : undo'[t] = undo[t]
    BY <1>3, Created DEF Creating
  <2>2. \A t \in todo \ {s} : ~Touched(t)
    BY <2>1, NextIsOne DEF VisitInv, TypeOK
  <2>3. \A t \in todo \ {s} : ~Touched(t)'
    BY <2>1, <2>2 DEF TypeOK, Touched
  <2> QED
    BY <2>1, <2>3 DEF VisitInv
<1>4. ASSUME NEW s \in Slot, DropDrifted(s) PROVE VisitInv'
  <2>1. /\ pc = "reconcile" /\ pc' = "recreate" /\ IsNext(s) /\ InPlace(s)
        /\ Drop(s) /\ todo' = todo /\ UNCHANGED call
    BY <1>4 DEF DropDrifted, Drifted, Visiting
  <2>2. ~Touched(s) /\ s \in todo
    BY <2>1 DEF VisitInv, IsNext
  <2>3. /\ undo'[s] \in Foreign /\ undo'[s] # NoRel /\ Touched(s)' /\ cat'[s] = NoRel
        /\ \A t \in Slot \ {s} : undo'[t] = undo[t]
    BY <2>1, <2>2, Dropped, MarkerAssumption DEF Before, Touched, Rel
  <2>4. InPlace(s)'
    BY <2>1, SameCall
  <2>5. ASSUME NEW t \in todo', t # s PROVE ~Touched(t)' /\ ~IsNext(t)'
    <3>1. t \in Slot /\ ~Touched(t)
      BY <2>1, <2>5 DEF VisitInv, TypeOK
    <3>2. ~IsNext(t)
      BY <2>1, <2>5, <3>1, NextIsOne
    <3> QED
      BY <2>1, <2>3, <2>5, <3>1, <3>2, SameNext DEF Touched
  <2>6. IsNext(s)'
    BY <2>1, SameNext
  <2> QED
    BY <2>1, <2>3, <2>4, <2>5, <2>6 DEF VisitInv
<1>5. ASSUME NEW s \in Slot, DropMissing(s) PROVE VisitInv'
  <2>1. /\ pc = "missing" /\ pc' = "missing" /\ todo' = todo \ {s}
        /\ Drop(s) /\ UNCHANGED gone
    BY <1>5 DEF DropMissing, Removing, LeaveMissing, world
  <2>2. \A t \in Slot \ {s} : undo'[t] = undo[t]
    BY <2>1, Dropped
  <2>3. \A t \in todo' \ gone' : ~Touched(t)'
    BY <2>1, <2>2 DEF VisitInv, TypeOK, Touched
  <2> QED
    BY <2>1, <2>3 DEF VisitInv
<1>6. CASE EndReconcile
  <2>1. CASE Syncs
    <3>1. /\ pc' = "missing" /\ todo' = LocalOnly /\ UNCHANGED <<undo, gone>>
          /\ pc = "reconcile"
      BY <1>6, <2>1 DEF EndReconcile, catalog, world
    <3>2. ASSUME NEW s \in LocalOnly \ gone, Touched(s) PROVE FALSE
      <4>1. PICK id \in TableId : localOf[id] = s /\ id \notin listed /\ s \in Slot
        BY <3>2 DEF LocalOnly
      <4>2. Attached(undo[s], id)
        BY <3>2, <4>1 DEF OriginInv, Before
      <4>3. s \in Mapped /\ InPlace(s)
        BY <3>1, <3>2, <4>1, <4>2, MarkerAssumption DEF TouchInv, Attached, Rel
      <4>4. IdFor(s) \in TableId /\ IdFor(s) \in listed /\ localOf[IdFor(s)] = s
        BY <4>3, IdForIsListed DEF InPlace
      <4>5. Attached(undo[s], IdFor(s))
        BY <3>2, <4>1, <4>4 DEF OriginInv, Before
      <4> QED
        BY <4>1, <4>2, <4>4, <4>5 DEF Attached
    <3>3. \A s \in todo' \ gone' : ~Touched(s)'
      BY <3>1, <3>2 DEF Touched
    <3> QED
      BY <3>1, <3>3 DEF VisitInv
  <2>2. CASE ~Syncs
    BY <1>6, <2>2 DEF EndReconcile, VisitInv
  <2> QED
    BY <2>1, <2>2
<1>7. CASE EndMissing
  BY <1>7 DEF EndMissing, VisitInv
<1>8. ASSUME NEW id \in TableId, RemoteChanges(id) PROVE VisitInv'
  <2>1. UNCHANGED <<cat, undo, call, gone, meddled, pc, todo>>
    BY <1>8 DEF RemoteChanges, catalog
  <2>2. \A s : Missing(s)' = Missing(s) /\ InPlace(s)' = InPlace(s)
    BY <2>1, SameCall
  <2> QED
    BY <2>1, <2>2, SameNext DEF VisitInv, Touched
<1>9. ASSUME NEW s \in Slot, OtherSession(s) PROVE VisitInv'
  <2>1. UNCHANGED <<undo, call, pc, todo>> /\ ~Touched(s) /\ gone \subseteq gone'
    BY <1>9 DEF OtherSession
  <2>2. \A t : Missing(t)' = Missing(t) /\ InPlace(t)' = InPlace(t)
    BY <2>1, SameCall
  <2>3. \A t \in Slot : Touched(t) => cat'[t] = cat[t]
    BY <1>9, <2>1 DEF OtherSession, TypeOK
  <2>4. pc = "create" => meddled'
    BY <1>9 DEF OtherSession
  <2>5. \A t : Touched(t)' = Touched(t) /\ IsNext(t)' = IsNext(t)
    BY <2>1, SameNext DEF Touched
  <2>6. todo \subseteq Slot
    BY DEF TypeOK
  <2> QED
    BY <2>1, <2>2, <2>3, <2>4, <2>5, <2>6 DEF VisitInv
<1>10. CASE UNCHANGED vars
  <2>1. UNCHANGED <<cat, undo, call, gone, meddled, pc, todo>>
    BY <1>10 DEF vars, catalog, world
  <2>2. \A s : Missing(s)' = Missing(s) /\ InPlace(s)' = InPlace(s)
    BY <2>1, SameCall
  <2> QED
    BY <2>1, <2>2, SameNext DEF VisitInv, Touched
<1> QED
  BY <1>1, <1>2, <1>3, <1>4, <1>5, <1>6, <1>7, <1>8, <1>9, <1>10, LateKinds DEF LateStep

\* What another session does, it does to slots the call has not changed.
LEMMA TouchStep ==
    ASSUME TypeOK, PhaseInv, QueueInv, VisitInv, TouchInv, [Next]_vars
    PROVE  TouchInv'
<1>1. CASE Early'
  <2>1. \A s \in Slot : ~Touched(s)'
    BY <1>1, PhaseStep DEF PhaseInv
  <2> QED
    BY <1>1, <2>1 DEF TouchInv
<1>2. CASE BuildMapping
  BY <1>2, BuildTouch DEF TouchInv
<1>3. ASSUME UNCHANGED <<cat, undo, call>>,
             pc' \in {"reconcile", "create", "recreate"}
                => pc \in {"reconcile", "create", "recreate"}
      PROVE  TouchInv'
  BY <1>3, SameCall DEF TouchInv, Touched
<1>4. ASSUME NEW s \in Slot, ReportStep(s) PROVE TouchInv'
  BY <1>3, <1>4, ReportStepIsQuiet DEF catalog
<1>5. ASSUME NEW s \in Slot, CreateTable(s) PROVE TouchInv'
  <2>1. /\ UNCHANGED call /\ pc \in {"create", "recreate"} /\ IsNext(s) /\ s \in todo
        /\ \A t \in Slot \ {s} : cat'[t] = cat[t] /\ undo'[t] = undo[t]
    BY <1>5, Created DEF Creating, IsNext
  <2>2. s \in Mapped
    BY <2>1 DEF PhaseInv
  <2>3. CASE cat[s] # NoRel
    BY <1>3, <1>5, <2>1, <2>3, Created
  <2>4. CASE cat[s] = NoRel
    <3>1. Attached(cat'[s], IdFor(s))
      <4>1. IdFor(s) \in TableId /\ remote[IdFor(s)] # Absent
        BY <1>5, <2>2, Created, IdForIsListed
      <4>2. remote[IdFor(s)] \in Layout
        BY <4>1 DEF TypeOK
      <4>3. remote[IdFor(s)].flat \in Flat
        BY <4>2 DEF Layout
      <4>4. cat'[s] = [server |-> "this", id |-> IdFor(s), flat |-> remote[IdFor(s)].flat,
                       nested |-> remote[IdFor(s)].nested # NoStruct]
        BY <1>5, <2>4, Created
      <4> QED
        BY <4>1, <4>3, <4>4 DEF Attached, Foreign
    <3>2. undo'[s] = IF Touched(s) THEN undo[s] ELSE NoRel
      BY <1>5, <2>4, Created
    <3>3. Missing(s) \/ InPlace(s)
      BY <2>1 DEF VisitInv
    <3>4. undo'[s] = NoRel \/ InPlace(s)
      BY <2>1, <3>2 DEF TouchInv
    <3> QED
      BY <2>1, <2>2, <3>1, <3>3, <3>4, SameCall DEF TouchInv, Touched
  <2> QED
    BY <2>3, <2>4
<1>6. ASSUME NEW s \in Slot, DropDrifted(s) PROVE TouchInv'
  <2>1. UNCHANGED call /\ pc = "reconcile" /\ s \in todo /\ InPlace(s) /\ Drop(s)
    BY <1>6 DEF DropDrifted, Drifted, Visiting, IsNext
  <2>2. s \in Mapped
    BY <2>1 DEF PhaseInv
  <2> QED
    BY <2>1, <2>2, Dropped, SameCall DEF TouchInv, Touched
<1>7. ASSUME NEW s \in Slot, DropMissing(s) PROVE TouchInv'
  <2>1. UNCHANGED call /\ pc' = "missing" /\ Drop(s)
    BY <1>7 DEF DropMissing, LeaveMissing, Removing
  <2> QED
    BY <2>1, Dropped, SameCall DEF TouchInv, Touched
<1>8. CASE EndReconcile \/ EndMissing \/ UNCHANGED vars
  BY <1>3, <1>8 DEF EndReconcile, EndMissing, vars, catalog
<1>9. ASSUME NEW id \in TableId, RemoteChanges(id) PROVE TouchInv'
  BY <1>3, <1>9 DEF RemoteChanges, catalog
<1>10. ASSUME NEW s \in Slot, OtherSession(s) PROVE TouchInv'
  <2>1. UNCHANGED <<undo, call, pc>>
        /\ \A t \in Slot : Touched(t) => cat'[t] = cat[t]
    BY <1>10 DEF OtherSession, TypeOK
  <2> QED
    BY <2>1, SameCall DEF TouchInv, Touched
<1>11. Early' \/ Late'
  BY TypeStep DEF TypeOK, Early, Late
<1> QED
  BY <1>1, <1>2, <1>4, <1>5, <1>6, <1>7, <1>8, <1>9, <1>10, <1>11, LateKinds DEF LateStep
-----------------------------------------------------------------------------
(* The rows and the catalog.                                               *)

\* The rows that speak of a change of the catalog.
Telling(action, status) ==
    \/ action \in {"drop_table", "create_table", "recreate_table"} /\ status = "ok"
    \/ action = "recreate_table" /\ status = "failed"

LEMMA EmitReported ==
    ASSUME NEW id, NEW s, NEW action, NEW status, Emit(id, s, action, status)
    PROVE  \A t, a, b : Reported(t, a, b)' <=>
              Reported(t, a, b) \/ (t = s /\ a = action /\ b = status)
<1> TAKE t, a, b
<1> DEFINE new == Row(id, s, action, status)
<1>1. rows' = rows \union {new}
  BY DEF Emit
<1>2. new.slot = s /\ new.action = action /\ new.status = status
  BY DEF Row
<1> HIDE DEF new
<1>3. ASSUME Reported(t, a, b)'
      PROVE  Reported(t, a, b) \/ (t = s /\ a = action /\ b = status)
  BY <1>1, <1>2, <1>3 DEF Reported
<1>4. ASSUME Reported(t, a, b) \/ (t = s /\ a = action /\ b = status)
      PROVE  Reported(t, a, b)'
  BY <1>1, <1>2, <1>4 DEF Reported
<1> QED
  BY <1>3, <1>4

\* What the rows tell of a slot that is left alone.
LEMMA TellsKept ==
    ASSUME NEW t \in Slot, TellsOf(t), undo'[t] = undo[t],
           Touched(t) => cat'[t] = cat[t], meddled => meddled',
           Dropping(t)' <=> Dropping(t),
           \A a, b : Telling(a, b) => (Reported(t, a, b)' <=> Reported(t, a, b))
    PROVE  TellsOf(t)'
<1>1. /\ Touched(t)' <=> Touched(t)
      /\ Lost(t)' <=> Lost(t)
      /\ Changed(t)' <=> Changed(t)
  BY DEF Touched, Lost, Changed
<1>2. /\ SaysLost(t)' <=> SaysLost(t)
      /\ Reported(t, "recreate_table", "ok")' <=> Reported(t, "recreate_table", "ok")
      /\ Reported(t, "create_table", "ok")' <=> Reported(t, "create_table", "ok")
  BY DEF Telling, SaysLost
<1> QED
  BY <1>1, <1>2 DEF TellsOf

\* A report that changes nothing is not one of a change, but for a table that
\* could not be made again after it was dropped.
LEMMA ReportTells ==
    ASSUME TypeOK, MarksInv, NEW s \in Slot, ReportStep(s), NEW t \in Slot,
           NEW a, NEW b, Telling(a, b)
    PROVE  Reported(t, a, b)' <=>
             \/ Reported(t, a, b)
             \/ t = s /\ CreateFails(s) /\ pc = "recreate" /\ a = "recreate_table" /\ b = "failed"
<1>1. CASE CreateFails(s)
  <2>1. pc = "recreate" => Failure = "recreate_table"
    BY CallAssumption DEF MarksInv, TypeOK, Failure, Syncs, Call
  <2>2. pc # "recreate" => Failure \in {"error", "create_table"}
    BY DEF Failure
  <2>3. Reported(t, a, b)' <=>
           Reported(t, a, b) \/ (t = s /\ a = Failure /\ b = "failed")
    BY <1>1, EmitReported DEF CreateFails
  <2> QED
    BY <1>1, <2>1, <2>2, <2>3 DEF Telling
<1>2. CASE AttachExisting(s)
  <2>1. Failure \in {"error", "create_table"}
    BY <1>2 DEF AttachExisting, Visiting, Failure
  <2>2. ~CreateFails(s)
    BY <1>2 DEF AttachExisting, Visiting, CreateFails, Creating
  <2> QED
    BY <1>2, <2>1, <2>2, EmitReported DEF AttachExisting, Telling
<1>3. CASE AttachNew(s)
  <2>1. CASE DryRun
    BY <1>3, <2>1, EmitReported DEF AttachNew, Telling, Visiting, CreateFails, Creating
  <2>2. CASE ~DryRun
    BY <1>3, <2>2 DEF AttachNew, Visiting, CreateFails, Creating, Reported
  <2> QED
    BY <2>1, <2>2
<1>4. CASE ReportMisplaced(s)
  BY <1>4, EmitReported DEF ReportMisplaced, Visiting, CreateFails, Creating, Telling
<1>5. CASE ReportDrift(s)
  BY <1>5, EmitReported DEF ReportDrift, Visiting, CreateFails, Creating, Telling
<1>6. CASE ReportMissing(s)
  BY <1>6, EmitReported DEF ReportMissing, Removing, CreateFails, Creating, Telling
<1> QED
  BY <1>1, <1>2, <1>3, <1>4, <1>5, <1>6 DEF ReportStep

LEMMA TellStep ==
    ASSUME TypeOK, PhaseInv, MarksInv, VisitInv, TellInv, [Next]_vars
    PROVE  TellInv'
<1> SUFFICES ASSUME Late', NEW t \in Slot, t \notin gone' PROVE TellsOf(t)'
  BY DEF TellInv
<1>1. CASE BuildMapping
  <2>1. rows' \subseteq ConflictRows \union BadIdRows \union DuplicateRows
    BY <1>1 DEF BuildMapping
  <2>2. \A r \in rows' : r.action = "error"
    BY <2>1 DEF ConflictRows, BadIdRows, DuplicateRows, Row
  <2>3. /\ ~Reported(t, "drop_table", "ok")' /\ ~Reported(t, "recreate_table", "failed")'
        /\ ~Reported(t, "recreate_table", "ok")' /\ ~Reported(t, "create_table", "ok")'
    BY <2>2 DEF Reported
  <2>4. ~Touched(t)' /\ ~Dropping(t)'
    BY <1>1, BuildTouch DEF Dropping
  <2> QED
    BY <2>3, <2>4 DEF TellsOf, SaysLost, Lost, Changed
<1>2. ASSUME NEW s \in Slot, ReportStep(s), Late PROVE TellsOf(t)'
  <2>1. UNCHANGED <<cat, undo, gone, meddled>>
    BY <1>2, ReportStepIsQuiet DEF catalog, world
  <2>2. TellsOf(t)
    BY <1>2, <2>1 DEF TellInv
  <2>3. pc' # "recreate"
    BY <1>2 DEF ReportStep, AttachExisting, AttachNew, CreateFails, ReportMisplaced,
                ReportDrift, ReportMissing, Leave, LeaveMissing, Removing
  <2>4. ASSUME ~(t = s /\ CreateFails(s) /\ pc = "recreate") PROVE TellsOf(t)'
    <3>1. \A a, b : Telling(a, b) => (Reported(t, a, b)' <=> Reported(t, a, b))
      BY <1>2, <2>4, ReportTells
    <3>2. ~Dropping(t)
      <4>1. CASE CreateFails(s)
        BY <2>4, <4>1, NextIsOne DEF Dropping, CreateFails, Creating
      <4>2. CASE ~CreateFails(s)
        BY <1>2, <4>2 DEF ReportStep, AttachExisting, AttachNew, ReportMisplaced,
                ReportDrift, ReportMissing, Visiting, Removing, Dropping
      <4> QED
        BY <4>1, <4>2
    <3>3. ~Dropping(t)'
      BY <2>3 DEF Dropping
    <3> QED
      BY <2>1, <2>2, <3>1, <3>2, <3>3, TellsKept
  <2>5. CASE t = s /\ CreateFails(s) /\ pc = "recreate"
    <3>1. IsNext(s) /\ s \in todo
      BY <2>5 DEF CreateFails, Creating, IsNext
    <3>2. Touched(s) /\ undo[s] # NoRel /\ cat[s] = NoRel
      BY <2>5, <3>1 DEF VisitInv
    <3>3. Lost(t)' /\ ~Changed(t)' /\ Touched(t)' /\ undo'[t] # NoRel /\ Lost(t) /\ ~Changed(t)
      BY <2>1, <2>5, <3>2 DEF Lost, Changed, Touched
    <3>4. SaysLost(t)'
      BY <1>2, <2>5, ReportTells DEF Telling, SaysLost
    <3>5. Reported(t, "recreate_table", "ok")' <=> Reported(t, "recreate_table", "ok")
      BY <1>2, ReportTells DEF Telling
    <3>6. ~Dropping(t)'
      BY <2>3 DEF Dropping
    <3> QED
      BY <2>2, <3>3, <3>4, <3>5, <3>6 DEF TellsOf
  <2> QED
    BY <2>4, <2>5
<1>3. ASSUME NEW s \in Slot, CreateTable(s), Late PROVE TellsOf(t)'
  <2>1. /\ UNCHANGED <<gone, meddled>> /\ pc \in {"create", "recreate"} /\ pc' = "reconcile"
        /\ IsNext(s) /\ s \in todo
        /\ t # s => cat'[t] = cat[t] /\ undo'[t] = undo[t]
    BY <1>3, Created DEF world, Creating, IsNext
  <2>2. TellsOf(t)
    BY <1>3, <2>1 DEF TellInv
  <2>3. /\ ~Dropping(t)'
        /\ Dropping(t) <=> t = s /\ pc = "recreate"
    BY <2>1, NextIsOne DEF Dropping
  <2>4. \A a, b : Reported(t, a, b)' <=>
           \/ Reported(t, a, b)
           \/ t = s /\ a = (IF pc = "recreate" THEN "recreate_table" ELSE "create_table") /\ b = "ok"
    BY <1>3, EmitReported DEF CreateTable
  <2>5. CASE t # s
    BY <2>1, <2>2, <2>3, <2>4, <2>5, TellsKept
  <2>6. CASE t = s /\ pc = "recreate"
    <3>1. Touched(s) /\ undo[s] # NoRel /\ cat[s] = NoRel
      BY <2>1, <2>6 DEF VisitInv
    <3>2. /\ undo'[s] = undo[s]
          /\ cat'[s] = [server |-> "this", id |-> IdFor(s), flat |-> remote[IdFor(s)].flat,
                        nested |-> remote[IdFor(s)].nested # NoStruct]
      BY <1>3, <3>1, Created
    <3>3. cat'[s] # NoRel
      <4>1. cat'[s] \in Foreign
        <5>1. s \in Mapped
          BY <2>1 DEF PhaseInv
        <5>2. IdFor(s) \in TableId /\ remote[IdFor(s)] # Absent
          BY <1>3, <5>1, Created, IdForIsListed
        <5>3. remote[IdFor(s)] \in Layout
          BY <5>2 DEF TypeOK
        <5>4. remote[IdFor(s)].flat \in Flat
          BY <5>3 DEF Layout
        <5> QED
          BY <3>2, <5>2, <5>4 DEF Foreign
      <4> QED
        BY <4>1, MarkerAssumption DEF Rel
    <3>4. Changed(t)' /\ ~Lost(t)' /\ Touched(t)' /\ undo'[t] # NoRel
      BY <2>6, <3>1, <3>2, <3>3 DEF Changed, Lost, Touched
    <3>5. Reported(t, "recreate_table", "ok")'
      BY <2>4, <2>6
    <3>6. ~SaysLost(t)
      BY <2>2, <2>3, <2>6 DEF TellsOf
    <3>7. ~SaysLost(t)'
      BY <2>4, <2>6, <3>6 DEF SaysLost
    <3> QED
      BY <2>3, <3>4, <3>5, <3>7 DEF TellsOf
  <2>7. CASE t = s /\ pc = "create"
    <3>1. ~Touched(s) /\ (cat[s] = NoRel \/ meddled)
      BY <2>1, <2>7 DEF VisitInv
    <3>2. ~Lost(t) /\ ~Changed(t)
      BY <2>7, <3>1 DEF Lost, Changed
    <3>3. ~SaysLost(t) /\ ~Reported(t, "recreate_table", "ok")
      BY <2>2, <3>2 DEF TellsOf
    <3>4. ~SaysLost(t)' /\ ~Reported(t, "recreate_table", "ok")'
          /\ Reported(t, "create_table", "ok")'
      BY <2>4, <2>7, <3>3 DEF SaysLost
    <3>5. ~Lost(t)' /\ ~Changed(t)' /\ (Touched(t)' \/ meddled')
      <4>1. CASE cat[s] = NoRel
        <5>1. undo'[s] = NoRel
          BY <1>3, <3>1, <4>1, Created
        <5> QED
          BY <2>7, <5>1, MarkerAssumption DEF Lost, Changed, Touched
      <4>2. CASE cat[s] # NoRel
        <5>1. undo'[s] = undo[s]
          BY <1>3, <4>2, Created
        <5> QED
          BY <2>1, <2>7, <3>1, <4>2, <5>1 DEF Lost, Changed, Touched
      <4> QED
        BY <4>1, <4>2
    <3> QED
      BY <2>3, <3>4, <3>5 DEF TellsOf
  <2> QED
    BY <2>1, <2>5, <2>6, <2>7
<1>4. ASSUME NEW s \in Slot, DropDrifted(s), Late PROVE TellsOf(t)'
  <2>1. /\ UNCHANGED <<gone, meddled, rows, todo>> /\ pc = "reconcile" /\ pc' = "recreate"
        /\ IsNext(s) /\ s \in todo /\ Drop(s)
    BY <1>4 DEF DropDrifted, Drifted, Visiting, IsNext, world
  <2>2. TellsOf(t)
    BY <1>4, <2>1 DEF TellInv
  <2>3. \A a, b : Reported(t, a, b)' <=> Reported(t, a, b)
    BY <2>1 DEF Reported
  <2>4. IsNext(t)' <=> t = s
    BY <2>1, SameNext, NextIsOne
  <2>5. CASE t # s
    <3>1. cat'[t] = cat[t] /\ undo'[t] = undo[t]
      BY <2>1, <2>5, Dropped
    <3>2. ~Dropping(t) /\ ~Dropping(t)'
      BY <2>1, <2>4, <2>5 DEF Dropping
    <3> QED
      BY <2>1, <2>2, <2>3, <3>1, <3>2, TellsKept
  <2>6. CASE t = s
    <3>1. ~Touched(s)
      BY <2>1 DEF VisitInv
    <3>2. undo'[s] \in Foreign /\ undo'[s] # NoRel /\ undo'[s] # Untouched /\ cat'[s] = NoRel
      BY <2>1, <3>1, Dropped, MarkerAssumption DEF Before, Rel
    <3>3. ~SaysLost(t) /\ ~Reported(t, "recreate_table", "ok")
      BY <2>2, <2>6, <3>1 DEF TellsOf, Lost, Changed
    <3>4. ~SaysLost(t)' /\ ~Reported(t, "recreate_table", "ok")'
      BY <2>3, <3>3 DEF SaysLost
    <3>5. Dropping(t)' /\ Touched(t)' /\ ~Changed(t)'
      BY <2>1, <2>4, <2>6, <3>2 DEF Dropping, Touched, Changed
    <3> QED
      BY <2>6, <3>2, <3>4, <3>5 DEF TellsOf
  <2> QED
    BY <2>5, <2>6
<1>5. ASSUME NEW s \in Slot, DropMissing(s), Late PROVE TellsOf(t)'
  <2>1. /\ UNCHANGED <<gone, meddled>> /\ pc = "missing" /\ pc' = "missing"
        /\ s \in todo /\ Drop(s)
    BY <1>5 DEF DropMissing, Removing, LeaveMissing, IsNext, world
  <2>2. TellsOf(t) /\ ~Dropping(t) /\ ~Dropping(t)'
    BY <1>5, <2>1 DEF TellInv, Dropping
  <2>3. \A a, b : Reported(t, a, b)' <=>
           Reported(t, a, b) \/ (t = s /\ a = "drop_table" /\ b = "ok")
    BY <1>5, EmitReported DEF DropMissing
  <2>4. CASE t # s
    <3>1. cat'[t] = cat[t] /\ undo'[t] = undo[t]
      BY <2>1, <2>4, Dropped
    <3> QED
      BY <2>1, <2>2, <2>3, <2>4, <3>1, TellsKept
  <2>5. CASE t = s
    <3>1. ~Touched(s)
      BY <2>1, <2>5 DEF VisitInv
    <3>2. undo'[s] \in Foreign /\ undo'[s] # NoRel /\ undo'[s] # Untouched /\ cat'[s] = NoRel
      BY <2>1, <3>1, Dropped, MarkerAssumption DEF Before, Rel
    <3>3. ~Reported(t, "recreate_table", "ok")
      BY <2>2, <2>5, <3>1 DEF TellsOf, Changed
    <3>4. SaysLost(t)' /\ ~Reported(t, "recreate_table", "ok")'
      BY <2>3, <2>5, <3>3 DEF SaysLost
    <3>5. Lost(t)' /\ Touched(t)' /\ ~Changed(t)'
      BY <2>5, <3>2 DEF Lost, Touched, Changed
    <3> QED
      BY <2>2, <2>5, <3>2, <3>4, <3>5 DEF TellsOf
  <2> QED
    BY <2>4, <2>5
<1>6. CASE Late /\ (EndReconcile \/ EndMissing \/ UNCHANGED vars)
  <2>1. UNCHANGED <<cat, undo, gone, meddled, rows>>
    BY <1>6 DEF EndReconcile, EndMissing, vars, catalog, world
  <2>2. Dropping(t)' <=> Dropping(t)
    BY <1>6, SameNext DEF EndReconcile, EndMissing, vars, Dropping
  <2>3. TellsOf(t)
    BY <1>6, <2>1 DEF TellInv
  <2> QED
    BY <2>1, <2>2, <2>3, TellsKept DEF Reported
<1>7. ASSUME NEW id \in TableId, RemoteChanges(id), Late PROVE TellsOf(t)'
  <2>1. UNCHANGED <<cat, undo, gone, meddled, rows, pc, todo>>
    BY <1>7 DEF RemoteChanges, catalog
  <2>2. Dropping(t)' <=> Dropping(t)
    BY <2>1, SameNext DEF Dropping
  <2>3. TellsOf(t)
    BY <1>7, <2>1 DEF TellInv
  <2> QED
    BY <2>1, <2>2, <2>3, TellsKept DEF Reported
<1>8. ASSUME NEW s \in Slot, OtherSession(s), Late PROVE TellsOf(t)'
  <2>1. UNCHANGED <<undo, rows, pc, todo>> /\ gone \subseteq gone' /\ meddled'
        /\ (Touched(t) => cat'[t] = cat[t])
    BY <1>8 DEF OtherSession, TypeOK, Late
  <2>2. Dropping(t)' <=> Dropping(t)
    BY <2>1, SameNext DEF Dropping
  <2>3. TellsOf(t)
    BY <1>8, <2>1 DEF TellInv
  <2> QED
    BY <2>1, <2>2, <2>3, TellsKept DEF Reported
<1> QED
  BY <1>1, <1>2, <1>3, <1>4, <1>5, <1>6, <1>7, <1>8, LateKinds DEF LateStep

LEMMA TellDone ==
    ASSUME TellInv
    PROVE  RowsTellTheCatalog
BY DEF TellInv, TellsOf, Late, Dropping, SaysLost, Changed, RowsTellTheCatalog
-----------------------------------------------------------------------------
(* A full sync that nobody interferes with.                                *)

LEMMA UntouchedIsBefore ==
    ASSUME NEW s \in Slot, ~Touched(s)
    PROVE  Before(s) = cat[s]
BY DEF Before

\* A call that nothing has interfered with compares what is there.
LEMMA FoundIsThere ==
    ASSUME SnapInv, pc # "idle", ~meddled, gone = {}, NEW s \in Slot, ~Touched(s)
    PROVE  FoundColumns(s) = cat[s]
BY UntouchedIsBefore DEF SnapInv, FoundColumns, Seen

\* The one id of a mapped slot.
LEMMA IdForIsOne ==
    ASSUME TypeOK, NEW s \in Mapped, NEW id \in listed, SlotOf[id] = s
    PROVE  IdFor(s) = id
<1>1. PICK x \in listed : IdsAt(s) = {x}
  BY DEF Mapped
<1>2. IdFor(s) \in IdsAt(s) /\ id \in IdsAt(s)
  BY IdForIsListed DEF IdsAt
<1> QED
  BY <1>1, <1>2

\* What the call has created has the columns of its dataset.
LEMMA CreatedIsAttached ==
    ASSUME TypeOK, NEW s \in Mapped, CreateTable(s), cat[s] = NoRel
    PROVE  Attached(cat'[s], IdFor(s)) /\ SameColumns(cat[s], remote[IdFor(s)])'
<1>1. s \in Slot
  BY DEF Mapped
<1>2. IdFor(s) \in TableId /\ remote[IdFor(s)] # Absent
  BY <1>1, Created, IdForIsListed
<1>3. remote[IdFor(s)] \in Layout
  BY <1>2 DEF TypeOK
<1>4. remote[IdFor(s)].flat \in Flat
  BY <1>3 DEF Layout
<1>5. cat'[s] = [server |-> "this", id |-> IdFor(s), flat |-> remote[IdFor(s)].flat,
                 nested |-> remote[IdFor(s)].nested # NoStruct]
  BY <1>1, Created
<1>6. remote' = remote /\ IdFor(s)' = IdFor(s)
  BY <1>1, Created, SameCall DEF world
<1> QED
  BY <1>2, <1>4, <1>5, <1>6 DEF Attached, Foreign, SameColumns

\* While a call is calm nobody else acts.
LEMMA CalmSteps ==
    ASSUME TypeOK, [Next]_vars, LateStep, Late, rows \subseteq rows', Calm'
    PROVE  /\ Calm /\ remote' = remote
           /\ \A s \in Slot : ~OtherSession(s)
           /\ \A id \in TableId : ~RemoteChanges(id)
<1>1. ~meddled'
  BY DEF Calm
<1>2. \A s \in Slot : ~OtherSession(s)
  BY <1>1 DEF OtherSession, Late
<1>3. \A id \in TableId : ~RemoteChanges(id)
  BY DEF RemoteChanges, Calm, Late
<1>4. NoFailure
  BY FailuresStay DEF Calm
<1>5. UNCHANGED <<remote, steady, meddled>>
  <2>1. ASSUME NEW s \in Slot, ReportStep(s) PROVE UNCHANGED <<remote, steady, meddled>>
    BY <2>1, ReportStepIsQuiet DEF world
  <2>2. ASSUME NEW s \in Slot, CreateTable(s) \/ DropDrifted(s) \/ DropMissing(s)
        PROVE  UNCHANGED <<remote, steady, meddled>>
    BY <2>2 DEF CreateTable, DropDrifted, DropMissing, world
  <2>3. CASE EndReconcile \/ EndMissing \/ UNCHANGED vars
    BY <2>3 DEF EndReconcile, EndMissing, vars, world
  <2> QED
    BY <1>2, <1>3, <2>1, <2>2, <2>3 DEF LateStep
<1>6. steady = TableId /\ ~meddled
  BY <1>5 DEF Calm
<1> QED
  BY <1>2, <1>3, <1>4, <1>5, <1>6 DEF Calm

\* A row is there once it is emitted.
LEMMA EmitRow ==
    ASSUME NEW id, NEW s, NEW action, NEW status, Emit(id, s, action, status)
    PROVE  \E r \in rows' : r.action = action /\ r.status = status
<1>1. Reported(s, action, status)'
  BY EmitReported
<1> QED
  BY <1>1 DEF Reported

LEMMA SettlesKept ==
    ASSUME NEW s \in Slot, Settles(s), cat'[s] = cat[s], remote' = remote,
           UNCHANGED call, rows \subseteq rows', Before(s)' = Before(s)
    PROVE  Settles(s)'
<1>1. IdFor(s)' = IdFor(s) /\ (Misplaced(s)' <=> Misplaced(s)) /\ (InPlace(s)' <=> InPlace(s))
  BY SameCall
<1> QED
  BY <1>1 DEF Settles, SameColumns

LEMMA SettlesStep ==
    ASSUME TypeOK, PhaseInv, SnapInv, MarksInv, ListedInv, OriginInv, ExactInv,
           VisitInv, SettlesInv, [Next]_vars
    PROVE  SettlesInv'
<1> SUFFICES ASSUME Late', FullSync', Calm', NEW s \in Mapped',
                    s \notin todo' \/ pc' \in {"missing", "done"}
             PROVE  Settles(s)'
  BY DEF SettlesInv
<1>1. ~BuildMapping
  <2>1. ASSUME BuildMapping PROVE Mapped' = Mapped
    BY <2>1 DEF BuildMapping, Mapped, IdsAt
  <2> QED
    BY <2>1 DEF BuildMapping
<1>2. Late /\ UNCHANGED call /\ rows \subseteq rows' /\ LateStep
  BY <1>1, LateKinds
<1>3. /\ Calm /\ remote' = remote
      /\ \A t \in Slot : ~OtherSession(t)
      /\ \A id \in TableId : ~RemoteChanges(id)
  BY <1>2, CalmSteps
<1>4. /\ s \in Mapped /\ s \in Slot /\ FullSync /\ gone = {} /\ ~meddled /\ Syncs
      /\ NoFailure' /\ Before(s)' = Before(s)
  <2>1. s \in Mapped /\ FullSync
    BY <1>2, SameCall DEF FullSync
  <2>2. s \in Slot
    BY <2>1 DEF Mapped
  <2>3. Before(s)' = Before(s)
    BY <1>2, <2>2, LateBefore DEF Calm
  <2> QED
    BY <1>3, <2>1, <2>2, <2>3 DEF Calm, MarksInv, FullSync
<1>5. IdFor(s) \in TableId /\ IdFor(s) \in listed /\ SlotOf[IdFor(s)] = s
      /\ HasPrefix(IdFor(s), RootNs)
  BY <1>4, IdForIsListed DEF ListedInv
<1>6. ASSUME s \notin todo \/ pc \in {"missing", "done"} PROVE Settles(s)
  BY <1>2, <1>3, <1>4, <1>6 DEF SettlesInv
<1>7. ASSUME NEW v \in Slot, ReportStep(v) PROVE Settles(s)'
  <2>1. UNCHANGED cat
    BY <1>7, ReportStepIsQuiet DEF catalog
  <2>2. CASE s \notin todo \/ pc \in {"missing", "done"}
    BY <1>2, <1>3, <1>4, <1>6, <2>1, <2>2, SettlesKept
  <2>3. CASE s \in todo /\ pc \notin {"missing", "done"}
    <3>1. s \notin todo' /\ pc # "missing"
      BY <1>7, <2>3, ReportStepIsQuiet
    <3>2. s = v
      BY <1>7, <2>3, <3>1 DEF ReportStep, AttachExisting, AttachNew, CreateFails,
         ReportMisplaced, ReportDrift, ReportMissing, Leave, Removing
    <3>3. ~CreateFails(s)
      BY <1>4, EmitRow DEF CreateFails, NoFailure
    <3>4. ASSUME AttachExisting(s) PROVE FALSE
      <4>1. pc = "reconcile" /\ Missing(s) /\ ~Touched(s)
        BY <2>3, <3>4 DEF AttachExisting, Visiting, VisitInv
      <4>2. Attached(cat[s], IdFor(s))
        BY <1>4, <3>4, EmitRow DEF AttachExisting, NoFailure
      <4>3. Attached(Before(s), IdFor(s))
        BY <1>4, <4>1, <4>2, UntouchedIsBefore
      <4>4. localOf[IdFor(s)] # NoSlot
        BY <1>2, <1>4, <1>5, <4>3 DEF ExactInv
      <4> QED
        BY <4>1, <4>4 DEF Missing
    <3>5. ~AttachNew(s)
      BY <1>4, <2>3, <3>1 DEF AttachNew, DryRun, FullSync
    <3>6. CASE ReportMisplaced(s)
      <4>1. Misplaced(s)'
        BY <1>2, <3>6, SameCall DEF ReportMisplaced
      <4>2. \E r \in rows' : r.action = "drift"
        BY <3>6, EmitRow DEF ReportMisplaced
      <4> QED
        BY <4>1, <4>2 DEF Settles
    <3>7. CASE ReportDrift(s)
      <4>1. pc = "reconcile" /\ InPlace(s) /\ ~Touched(s)
        BY <2>3, <3>7 DEF ReportDrift, Visiting, VisitInv
      <4>2. SameColumns(cat[s], remote[IdFor(s)])
        BY <1>4, <3>7, <4>1, FoundIsThere DEF ReportDrift, DryRun, FullSync, UpToDate
      <4>3. Attached(cat[s], IdFor(s))
        BY <1>4, <1>5, <4>1, UntouchedIsBefore DEF OriginInv, InPlace
      <4>4. Settles(s)
        BY <4>1, <4>2, <4>3 DEF Settles
      <4> QED
        BY <1>2, <1>3, <1>4, <2>1, <4>4, SettlesKept
    <3>8. ~ReportMissing(s)
      BY <3>1 DEF ReportMissing, Removing
    <3> QED
      BY <1>7, <3>2, <3>3, <3>4, <3>5, <3>6, <3>7, <3>8 DEF ReportStep
  <2> QED
    BY <2>2, <2>3
<1>8. ASSUME NEW v \in Slot, CreateTable(v) PROVE Settles(s)'
  <2>1. /\ pc \in {"create", "recreate"} /\ IsNext(v) /\ v \in todo
        /\ todo' = todo \ {v} /\ pc' = "reconcile"
    BY <1>8, Created DEF Creating, IsNext
  <2>2. CASE s # v
    <3>1. cat'[s] = cat[s]
      BY <1>4, <1>8, <2>2, Created
    <3>2. Settles(s)
      BY <1>6, <2>1, <2>2
    <3> QED
      BY <1>2, <1>3, <1>4, <3>1, <3>2, SettlesKept
  <2>3. CASE s = v
    <3>1. cat[s] = NoRel /\ (InPlace(s) \/ Before(s) = NoRel)
      BY <1>4, <2>1, <2>3, UntouchedIsBefore DEF VisitInv
    <3>2. Attached(cat'[s], IdFor(s)) /\ SameColumns(cat[s], remote[IdFor(s)])'
      BY <1>4, <1>8, <2>3, <3>1, CreatedIsAttached
    <3>3. IdFor(s)' = IdFor(s) /\ (InPlace(s)' <=> InPlace(s))
      BY <1>2, SameCall
    <3> QED
      BY <1>4, <3>1, <3>2, <3>3 DEF Settles
  <2> QED
    BY <2>2, <2>3
<1>9. ASSUME NEW v \in Slot, DropDrifted(v) PROVE Settles(s)'
  <2>1. /\ pc = "reconcile" /\ pc' = "recreate" /\ v \in todo /\ todo' = todo /\ Drop(v)
    BY <1>9 DEF DropDrifted, Drifted, Visiting, IsNext
  <2>2. s # v /\ Settles(s)
    BY <1>6, <2>1
  <2>3. cat'[s] = cat[s]
    BY <1>4, <2>1, <2>2, Dropped
  <2> QED
    BY <1>2, <1>3, <1>4, <2>2, <2>3, SettlesKept
<1>10. ASSUME NEW v \in Slot, DropMissing(v) PROVE Settles(s)'
  <2>1. pc = "missing" /\ v \in todo /\ Drop(v)
    BY <1>10 DEF DropMissing, Removing, IsNext
  <2>2. Settles(s)
    BY <1>6, <2>1
  <2>3. CASE s # v
    <3>1. cat'[s] = cat[s]
      BY <1>4, <2>1, <2>3, Dropped
    <3> QED
      BY <1>2, <1>3, <1>4, <2>2, <3>1, SettlesKept
  <2>4. CASE s = v
    <3>1. ~Touched(s)
      BY <1>4, <2>1, <2>4 DEF VisitInv
    <3>2. PICK id \in TableId : localOf[id] = s /\ id \notin listed
      BY <2>1, <2>4 DEF PhaseInv, LocalOnly
    <3>3. ~InPlace(s)
      <4>1. SUFFICES ASSUME InPlace(s) PROVE FALSE
        OBVIOUS
      <4>2. Attached(Before(s), id) /\ Attached(Before(s), IdFor(s))
        BY <1>4, <1>5, <3>2, <4>1 DEF OriginInv, InPlace
      <4> QED
        BY <1>5, <3>2, <4>2 DEF Attached
    <3>4. Before(s) # NoRel
      BY <1>4, <2>1, <2>4, <3>1, UntouchedIsBefore, MarkerAssumption DEF Drop, Rel
    <3>5. Misplaced(s) /\ \E r \in rows : r.action = "drift"
      BY <2>2, <3>3, <3>4 DEF Settles
    <3>6. Misplaced(s)' /\ \E r \in rows' : r.action = "drift"
      BY <1>2, <3>5, SameCall
    <3> QED
      BY <3>6 DEF Settles
  <2> QED
    BY <2>3, <2>4
<1>11. CASE EndReconcile \/ EndMissing \/ UNCHANGED vars
  <2>1. cat' = cat
    BY <1>11 DEF EndReconcile, EndMissing, vars, catalog
  <2>2. s \notin todo \/ pc \in {"missing", "done"}
    BY <1>11 DEF EndReconcile, EndMissing, vars
  <2> QED
    BY <1>2, <1>3, <1>4, <1>6, <2>1, <2>2, SettlesKept
<1> QED
  BY <1>2, <1>3, <1>7, <1>8, <1>9, <1>10, <1>11 DEF LateStep

\* A slot the call has changed is marked until it ends.
LEMMA TouchedStays ==
    ASSUME TypeOK, PhaseInv, [Next]_vars, Late, Late', LateStep,
           NEW s \in Slot, Touched(s)
    PROVE  Touched(s)'
<1>1. ASSUME NEW t \in Slot, ReportStep(t) PROVE Touched(s)'
  BY <1>1, ReportStepIsQuiet DEF catalog, Touched
<1>2. ASSUME NEW t \in Slot, CreateTable(t) PROVE Touched(s)'
  BY <1>2, Created DEF Touched
<1>3. ASSUME NEW t \in Slot, Drop(t) PROVE Touched(s)'
  BY <1>3, Dropped DEF Touched
<1>4. CASE EndReconcile \/ EndMissing \/ UNCHANGED vars
  BY <1>4 DEF EndReconcile, EndMissing, vars, catalog, Touched
<1>5. ASSUME NEW id \in TableId, RemoteChanges(id) PROVE Touched(s)'
  BY <1>5 DEF RemoteChanges, catalog, Touched
<1>6. ASSUME NEW t \in Slot, OtherSession(t) PROVE Touched(s)'
  BY <1>6 DEF OtherSession, Touched
<1> QED
  BY <1>1, <1>2, <1>3, <1>4, <1>5, <1>6 DEF LateStep, DropDrifted, DropMissing

LEMMA DropsStep ==
    ASSUME TypeOK, PhaseInv, DropsInv, [Next]_vars
    PROVE  DropsInv'
<1> SUFFICES ASSUME pc' \in {"missing", "done"}, Syncs', arg'.drop, ~arg'.dry,
                    NEW s \in LocalOnly', s \notin todo'
             PROVE  Touched(s)'
  BY DEF DropsInv
<1>1. Late' /\ ~BuildMapping
  BY DEF Late, BuildMapping
<1>2. Late /\ UNCHANGED call /\ LateStep
  BY <1>1, LateKinds
<1>3. s \in LocalOnly /\ s \in Slot /\ Syncs /\ arg.drop /\ ~arg.dry
  BY <1>2, SameCall DEF LocalOnly
<1>4. ASSUME pc \in {"missing", "done"}, s \notin todo PROVE Touched(s)'
  BY <1>1, <1>2, <1>3, <1>4, TouchedStays DEF DropsInv
<1>5. ASSUME NEW t \in Slot, ReportStep(t) PROVE Touched(s)'
  <2>1. ~ReportMissing(t)
    BY <1>3 DEF ReportMissing, DryRun
  <2> QED
    BY <1>5, <2>1 DEF ReportStep, AttachExisting, AttachNew, CreateFails, ReportMisplaced,
                      ReportDrift, Leave, Visiting, Creating
<1>6. ASSUME NEW t \in Slot, CreateTable(t) \/ DropDrifted(t) PROVE FALSE
  BY <1>6 DEF CreateTable, DropDrifted, Leave
<1>7. ASSUME NEW t \in Slot, DropMissing(t) PROVE Touched(s)'
  <2>1. pc = "missing" /\ todo' = todo \ {t} /\ Drop(t)
    BY <1>7 DEF DropMissing, Removing, LeaveMissing
  <2> QED
    BY <1>4, <2>1, Dropped DEF Touched
<1>8. CASE EndReconcile
  BY <1>2, <1>3, <1>8, SameCall DEF EndReconcile
<1>9. CASE EndMissing \/ UNCHANGED vars
  BY <1>4, <1>9 DEF EndMissing, vars
<1>10. ASSUME NEW id \in TableId, RemoteChanges(id) PROVE Touched(s)'
  BY <1>4, <1>10 DEF RemoteChanges
<1>11. ASSUME NEW t \in Slot, OtherSession(t) PROVE Touched(s)'
  BY <1>4, <1>11 DEF OtherSession
<1> QED
  BY <1>2, <1>5, <1>6, <1>7, <1>8, <1>9, <1>10, <1>11 DEF LateStep
-----------------------------------------------------------------------------
(* What a full sync leaves.                                                *)

FullyDone == pc = "done" /\ FullRun

\* An undisturbed full sync is over: the facts about it.
LEMMA DoneFacts ==
    ASSUME IInv, RunInv, FullyDone
    PROVE  /\ Late /\ FullSync /\ Calm /\ gone = {} /\ todo = {} /\ Syncs
           /\ \A s \in Mapped : Settles(s)
           /\ \A s \in LocalOnly : Touched(s)
           /\ \A id \in TableId : There(id) <=> id \in listed
           /\ \A id \in listed : SlotOf[id] \in Mapped /\ IdFor(SlotOf[id]) = id
<1>1. Late /\ FullSync /\ Calm /\ gone = {} /\ todo = {} /\ Syncs
  BY DEF FullyDone, FullRun, Late, FullSync, Calm, NoFailure, RunInv, MarksInv
<1>2. \A s \in Mapped : Settles(s)
  BY <1>1 DEF FullyDone, RunInv, SettlesInv
<1>3. \A s \in LocalOnly : Touched(s)
  BY <1>1 DEF FullyDone, RunInv, DropsInv, FullSync
<1>4. ASSUME NEW id \in TableId, There(id) PROVE id \in listed
  <2>1. Steady(id)
    BY <1>1, <1>4 DEF Steady, There, Calm
  <2> QED
    BY <2>1 DEF FullyDone, IInv, ListingInv
<1>5. ASSUME NEW id \in listed PROVE There(id) /\ id \in TableId
  BY <1>1, <1>5 DEF RunInv, ListedInv, IInv, TypeOK, Calm, There
<1>6. ASSUME NEW id \in listed PROVE SlotOf[id] \in Mapped /\ IdFor(SlotOf[id]) = id
  <2>1. SlotOf[id] \in Mapped
    BY <1>1 DEF RunInv, MappingInv, Calm
  <2> QED
    BY <2>1, IdForIsOne DEF IInv
<1> QED
  BY <1>1, <1>2, <1>3, <1>4, <1>5, <1>6

\* A table that stands at the end was found where it stands, or was made in
\* the slot of its id; either way its dataset is there.
LEMMA StandingIsListed ==
    ASSUME IInv, RunInv, FullyDone, NEW id \in TableId, NEW s \in Slot,
           HasPrefix(id, RootNs), Attached(cat[s], id)
    PROVE  /\ There(id) /\ id \in listed
           /\ \/ localOf[id] = s
              \/ localOf[id] = NoSlot /\ SlotOf[id] = s
<1>1. CASE ~Touched(s)
  <2>1. Attached(Before(s), id)
    BY <1>1, UntouchedIsBefore
  <2>2. localOf[id] = s
    BY <2>1, DoneFacts DEF RunInv, ExactInv, Calm
  <2>3. id \in listed
    BY <1>1, <2>2, DoneFacts DEF LocalOnly
  <2> QED
    BY <2>2, <2>3, DoneFacts
<1>2. CASE Touched(s)
  <2>1. cat[s] # NoRel
    BY MarkerAssumption DEF Attached, Rel
  <2>2. s \in Mapped /\ Attached(cat[s], IdFor(s)) /\ (Missing(s) \/ InPlace(s))
    BY <1>2, <2>1 DEF RunInv, TouchInv
  <2>3. id = IdFor(s)
    BY <2>2 DEF Attached
  <2>4. id \in listed /\ SlotOf[id] = s
    BY <2>2, <2>3, IdForIsListed DEF IInv
  <2> QED
    BY <2>2, <2>3, <2>4, DoneFacts DEF Missing, InPlace
<1> QED
  BY <1>1, <1>2

LEMMA StandsOnce ==
    ASSUME IInv, RunInv, FullyDone, NEW id \in TableId, NEW s \in Slot, NEW t \in Slot,
           HasPrefix(id, RootNs), Attached(cat[s], id), Attached(cat[t], id)
    PROVE  s = t
<1>1. localOf[id] = s \/ (localOf[id] = NoSlot /\ SlotOf[id] = s)
  BY StandingIsListed
<1>2. localOf[id] = t \/ (localOf[id] = NoSlot /\ SlotOf[id] = t)
  BY StandingIsListed
<1> QED
  BY <1>1, <1>2, MarkerAssumption

\* A dataset that is there has its table in its slot and with its columns, or
\* where it was found and reported.
LEMMA ThereStands ==
    ASSUME IInv, RunInv, FullyDone, NEW id \in TableId, There(id)
    PROVE  \/ /\ Attached(cat[SlotOf[id]], id)
              /\ SameColumns(cat[SlotOf[id]], remote[id])
           \/ /\ \E s \in Slot \ {SlotOf[id]} : Attached(cat[s], id)
              /\ \E r \in rows : r.action = "drift"
<1>1. PICK u \in Mapped : u = SlotOf[id] /\ IdFor(u) = id /\ id \in listed
  BY DoneFacts
<1>2. Settles(u) /\ u \in Slot
  BY <1>1, DoneFacts DEF Mapped
<1>3. CASE Attached(cat[u], IdFor(u)) /\ SameColumns(cat[u], remote[IdFor(u)])
  BY <1>1, <1>3
<1>4. CASE Misplaced(u) /\ \E r \in rows : r.action = "drift"
  <2>1. PICK w \in Slot : localOf[id] = w /\ w # u
    BY <1>1, <1>4 DEF Misplaced, IInv, TypeOK
  <2>2. Attached(Before(w), id)
    BY <2>1, DoneFacts, OriginHolds DEF RunInv, OriginInv
  <2>3. ~Touched(w)
    <3>1. SUFFICES ASSUME Touched(w) PROVE FALSE
      OBVIOUS
    <3>2. undo[w] \in Foreign /\ undo[w].id = id
      BY <2>2, <3>1 DEF Before, Attached
    <3>3. SlotOf[id] = w
      BY <1>1, <3>1, <3>2, DoneFacts DEF IInv, DropsHaveCause
    <3> QED
      BY <1>1, <2>1, <3>3
  <2>4. Attached(cat[w], id)
    BY <2>2, <2>3, UntouchedIsBefore
  <2> QED
    BY <1>1, <1>4, <2>1, <2>4
<1> QED
  BY <1>2, <1>3, <1>4 DEF Settles

LEMMA DoneConverges ==
    ASSUME IInv, RunInv
    PROVE  SyncConverges
<1> SUFFICES ASSUME FullyDone, \A r \in rows : r.action # "drift", NEW s \in Slot
             PROVE  Follows(s)
  BY DEF SyncConverges, FullyDone
<1> DEFINE present == {id \in TableId : HasPrefix(id, RootNs) /\ remote[id] # Absent /\ SlotOf[id] = s}
<1>1. \A id \in present : id \in TableId /\ There(id) /\ SlotOf[id] = s /\ id \in listed
  BY DoneFacts DEF There
<1>2. \A id \in present : Attached(cat[s], id) /\ SameColumns(cat[s], remote[id])
  BY <1>1, ThereStands
<1>3. \A id, jd \in present : id = jd
  BY <1>1, DoneFacts
<1>4. CASE present = {}
  <2>1. SUFFICES ASSUME NEW id \in TableId, HasPrefix(id, RootNs), Attached(cat[s], id)
                 PROVE  FALSE
    BY <1>4 DEF Follows
  <2>2. There(id)
    BY <2>1, StandingIsListed
  <2>3. Attached(cat[SlotOf[id]], id)
    BY <2>2, ThereStands
  <2>4. SlotOf[id] = s
    BY <2>1, <2>3, StandsOnce, SlotAssumption
  <2> QED
    BY <1>4, <2>2, <2>4 DEF There
<1>5. CASE present # {}
  <2>1. PICK id \in present : TRUE
    BY <1>5
  <2>2. present = {id}
    BY <1>3, <2>1
  <2> QED
    BY <1>2, <1>5, <2>1, <2>2 DEF Follows
<1> QED
  BY <1>4, <1>5

\* The catalog a full sync leaves gives the next one nothing to do.
LEMMA DoneIsQuiet ==
    ASSUME IInv, RunInv, FullyDone
    PROVE  /\ \A id \in TableId : \A s \in Slot :
                HasPrefix(id, RootNs) /\ Attached(cat[s], id) =>
                   There(id) /\ \A t \in Slot : Attached(cat[t], id) => t = s
           /\ \A id \in TableId : There(id) =>
                \/ LET r == cat[SlotOf[id]] IN Attached(r, id) /\ HasColumns(r, remote[id])
                \/ \E s \in Slot \ {SlotOf[id]} : Attached(cat[s], id)
<1>1. ASSUME NEW id \in TableId, NEW s \in Slot, HasPrefix(id, RootNs), Attached(cat[s], id)
      PROVE  There(id) /\ \A t \in Slot : Attached(cat[t], id) => t = s
  BY <1>1, StandingIsListed, StandsOnce
<1>2. ASSUME NEW id \in TableId, There(id)
      PROVE  \/ LET r == cat[SlotOf[id]] IN Attached(r, id) /\ HasColumns(r, remote[id])
             \/ \E s \in Slot \ {SlotOf[id]} : Attached(cat[s], id)
  BY <1>2, ThereStands DEF SameColumns, HasColumns
<1> QED
  BY <1>1, <1>2

\* Nothing changes what a quiet catalog is but another session and the namespace.
LEMMA QuietKept ==
    ASSUME Quiet, remote' = remote, \A s \in Slot : Before(s)' = Before(s)
    PROVE  Quiet'
<1>1. \A id \in TableId : There(id)' <=> There(id)
  BY DEF There
<1>2. ASSUME NEW id \in TableId, NEW s \in Slot, HasPrefix(id, RootNs), Attached(Before(s)', id)
      PROVE  There(id)' /\ \A t \in Slot : Attached(Before(t)', id) => t = s
  BY <1>1, <1>2 DEF Quiet
<1>3. ASSUME NEW id \in TableId, There(id)'
      PROVE  \/ /\ Attached(Before(SlotOf[id])', id)
                /\ HasColumns(Before(SlotOf[id])', remote'[id])
             \/ \E s \in Slot \ {SlotOf[id]} : Attached(Before(s)', id)
  <2>1. SlotOf[id] \in Slot
    BY SlotAssumption
  <2>2. Before(SlotOf[id])' = Before(SlotOf[id])
    BY <2>1
  <2>3. There(id)
    BY <1>1, <1>3
  <2>4. CASE Attached(Before(SlotOf[id]), id) /\ HasColumns(Before(SlotOf[id]), remote[id])
    BY <2>2, <2>4
  <2>5. CASE \E s \in Slot \ {SlotOf[id]} : Attached(Before(s), id)
    BY <2>5
  <2> QED
    BY <2>3, <2>4, <2>5 DEF Quiet
<1> QED
  BY <1>2, <1>3 DEF Quiet

\* A sync has nothing to create in a quiet catalog,
LEMMA NothingMissing ==
    ASSUME IInv, RunInv, settled, Syncs, NEW s \in Slot
    PROVE  ~AttachNew(s)
<1> SUFFICES ASSUME AttachNew(s) PROVE FALSE
  OBVIOUS
<1>1. pc = "reconcile" /\ Late /\ s \in todo /\ Missing(s) /\ cat[s] = NoRel
  BY DEF AttachNew, Visiting, IsNext, Late
<1>2. s \in Mapped
  BY <1>1 DEF IInv, PhaseInv
<1>3. PICK id \in TableId : id = IdFor(s) /\ id \in listed /\ SlotOf[id] = s
  BY <1>2, IdForIsListed DEF IInv
<1>4. HasPrefix(id, RootNs) /\ There(id)
  BY <1>3 DEF RunInv, SettledInv, ListedInv, There
<1>5. Before(s) = NoRel
  BY <1>1, UntouchedIsBefore DEF RunInv, SettledInv
<1>6. ~Attached(Before(s), id)
  BY <1>5, MarkerAssumption DEF Attached, Rel
<1>7. PICK t \in Slot : Attached(Before(t), id)
  BY <1>3, <1>4, <1>6 DEF RunInv, SettledInv, Quiet
<1>8. localOf[id] # NoSlot
  BY <1>1, <1>4, <1>7 DEF RunInv, ExactInv, SettledInv
<1> QED
  BY <1>1, <1>3, <1>8 DEF Missing

\* no table whose columns differ,
LEMMA NothingDrifted ==
    ASSUME IInv, RunInv, settled, Syncs, NEW s \in Slot
    PROVE  ~DropDrifted(s)
<1> SUFFICES ASSUME DropDrifted(s) PROVE FALSE
  OBVIOUS
<1>1. /\ s \in todo /\ InPlace(s) /\ remote[IdFor(s)] # Absent
      /\ ~UpToDate(s, remote[IdFor(s)]) /\ pc = "reconcile"
  BY DEF DropDrifted, Drifted, Visiting, IsNext
<1>2. s \in Mapped
  BY <1>1 DEF IInv, PhaseInv
<1>3. PICK id \in TableId : id = IdFor(s) /\ id \in listed /\ SlotOf[id] = s
  BY <1>2, IdForIsListed DEF IInv
<1>4. HasPrefix(id, RootNs) /\ There(id)
  BY <1>1, <1>3 DEF RunInv, ListedInv, There
<1>5. gone = {} /\ Before(s) = cat[s] /\ ~Touched(s)
  BY UntouchedIsBefore DEF RunInv, SettledInv, MarksInv
<1>6. Attached(Before(s), id)
  BY <1>1, <1>3, <1>5, OriginHolds DEF InPlace, OriginInv
<1>7. \A t \in Slot : Attached(Before(t), id) => t = s
  BY <1>4, <1>6 DEF RunInv, SettledInv, Quiet
<1>8. HasColumns(Before(s), remote[id])
  BY <1>3, <1>4, <1>7 DEF RunInv, SettledInv, Quiet
<1>9. UpToDate(s, remote[id])
  <2>1. FoundColumns(s) = cat[s]
    BY <1>1, <1>5, FoundIsThere DEF IInv, RunInv, SettledInv
  <2> QED
    BY <1>5, <1>6, <1>8, <2>1 DEF HasColumns, UpToDate, SameColumns, Attached
<1> QED
  BY <1>1, <1>3, <1>9

\* and none that is not listed.
LEMMA NothingLeftOver ==
    ASSUME IInv, RunInv, settled, Syncs, NEW s \in Slot
    PROVE  ~DropMissing(s)
<1> SUFFICES ASSUME DropMissing(s) PROVE FALSE
  OBVIOUS
<1>1. s \in todo /\ pc = "missing"
  BY DEF DropMissing, Removing, IsNext
<1>2. PICK id \in TableId : localOf[id] = s /\ id \notin listed
  BY <1>1 DEF IInv, PhaseInv, LocalOnly
<1>3. gone = {} /\ steady = TableId
  BY DEF RunInv, SettledInv, MarksInv
<1>4. Attached(Before(s), id) /\ HasPrefix(id, RootNs)
  BY <1>2, <1>3, OriginHolds DEF OriginInv, IInv, LocalInv
<1>5. There(id)
  BY <1>4 DEF RunInv, SettledInv, Quiet
<1>6. Steady(id)
  BY <1>3, <1>5 DEF There, Steady
<1> QED
  BY <1>1, <1>2, <1>6 DEF IInv, ListingInv

LEMMA SettledStep ==
    ASSUME IInv, RunInv, [Next]_vars
    PROVE  SettledInv'
<1> DEFINE Still == /\ Syncs' => /\ pc' \notin {"create", "recreate"}
                                 /\ \A s \in Slot : ~Touched(s)'
<1> SUFFICES ASSUME settled'
             PROVE  Quiet' /\ steady' = TableId /\ ~meddled' /\ Still
  BY DEF SettledInv
<1> HIDE DEF Still
<1>1. /\ \A s \in Slot : ~OtherSession(s)
      /\ \A id \in TableId : ~RemoteChanges(id)
  BY DEF OtherSession, RemoteChanges
<1>2. TypeOK /\ PhaseInv
  BY DEF IInv
<1>3. CASE Commit
  <2>1. /\ cat' = cat /\ remote' = remote /\ undo' = [s \in Slot |-> Untouched]
        /\ pc' = "idle" /\ steady' = TableId /\ ~meddled' /\ pc = "done"
        /\ FullRun \/ (settled /\ \A s \in Slot : ~Touched(s))
    BY <1>3 DEF Commit, EndCall
  <2>2. \A s \in Slot : Before(s)' = cat[s] /\ ~Touched(s)'
    BY <2>1 DEF Before, Touched
  <2>3. Still
    BY <2>1, <2>2 DEF Still
  <2>4. CASE settled /\ \A s \in Slot : ~Touched(s)
    <3>1. \A s \in Slot : Before(s)' = Before(s)
      BY <2>2, <2>4, UntouchedIsBefore
    <3>2. Quiet
      BY <2>4 DEF RunInv, SettledInv
    <3>3. Quiet'
      BY <2>1, <3>1, <3>2, QuietKept
    <3> QED
      BY <2>1, <2>3, <3>3
  <2>5. CASE FullRun
    <3>1. FullyDone
      BY <2>1, <2>5 DEF FullyDone
    <3>2. \A id \in TableId : There(id)' <=> There(id)
      BY <2>1 DEF There
    <3>3. ASSUME NEW id \in TableId, NEW s \in Slot, HasPrefix(id, RootNs),
                 Attached(Before(s)', id)
          PROVE  There(id)' /\ \A t \in Slot : Attached(Before(t)', id) => t = s
      BY <2>2, <3>1, <3>2, <3>3, DoneIsQuiet
    <3>4. ASSUME NEW id \in TableId, There(id)'
          PROVE  \/ /\ Attached(Before(SlotOf[id])', id)
                    /\ HasColumns(Before(SlotOf[id])', remote'[id])
                 \/ \E s \in Slot \ {SlotOf[id]} : Attached(Before(s)', id)
      <4>1. Before(SlotOf[id])' = cat[SlotOf[id]]
        BY <2>2, SlotAssumption
      <4>2. There(id)
        BY <3>2, <3>4
      <4>3. \/ Attached(cat[SlotOf[id]], id) /\ HasColumns(cat[SlotOf[id]], remote[id])
            \/ \E s \in Slot \ {SlotOf[id]} : Attached(cat[s], id)
        BY <3>1, <4>2, DoneIsQuiet
      <4> QED
        BY <2>1, <2>2, <4>1, <4>3
    <3>5. Quiet'
      BY <3>3, <3>4 DEF Quiet
    <3> QED
      BY <2>1, <2>3, <3>5
  <2> QED
    BY <2>1, <2>4, <2>5
<1>4. CASE ~Commit
  <2>1. \A s \in Slot : Before(s)' = Before(s)
    BY <1>1, <1>2, <1>4, BeforeSame
  <2>2. CASE Abort
    <3>1. /\ settled /\ remote' = remote /\ undo' = [s \in Slot |-> Untouched]
          /\ pc' = "idle" /\ steady' = TableId /\ ~meddled'
      BY <2>2 DEF Abort, EndCall
    <3>2. Quiet'
      BY <2>1, <3>1, QuietKept DEF RunInv, SettledInv
    <3>3. Still
      BY <3>1 DEF Still, Touched
    <3> QED
      BY <3>1, <3>2, <3>3
  <2>3. ASSUME UNCHANGED <<remote, steady, meddled, settled>>, Still
        PROVE  Quiet' /\ steady' = TableId /\ ~meddled' /\ Still
    <3>1. settled /\ remote' = remote /\ UNCHANGED <<steady, meddled>>
      BY <2>3
    <3>2. Quiet'
      BY <2>1, <3>1, QuietKept DEF RunInv, SettledInv
    <3>3. steady = TableId /\ ~meddled
      BY <3>1 DEF RunInv, SettledInv
    <3> QED
      BY <2>3, <3>1, <3>2, <3>3
  <2>4. CASE (\E a \in Args : Begin(a)) \/ ListTables \/ ListNamespaces \/ BuildMapping
    <3>1. /\ UNCHANGED <<undo, remote, steady, meddled, settled>> /\ Early
          /\ pc' \in {"tables", "namespaces", "map", "reconcile"}
      BY <2>4 DEF Begin, ListTables, ListNamespaces, BuildMapping, Early, catalog, world
    <3>2. \A s \in Slot : ~Touched(s)'
      BY <1>2, <3>1 DEF PhaseInv, Touched
    <3>3. Still
      BY <3>1, <3>2 DEF Still
    <3> QED
      BY <2>3, <3>1, <3>3
  <2>5. ASSUME UNCHANGED <<undo, arg, world>>,
               Syncs /\ settled /\ pc' \in {"create", "recreate"} => pc \in {"create", "recreate"}
        PROVE  Quiet' /\ steady' = TableId /\ ~meddled' /\ Still
    <3>1. settled
      BY <2>5 DEF world
    <3>2. Still
      BY <2>5, <3>1 DEF RunInv, SettledInv, Still, Syncs, Touched
    <3>3. UNCHANGED <<remote, steady, meddled, settled>>
      BY <2>5 DEF world
    <3> QED
      BY <2>3, <3>2, <3>3
  <2>6. ASSUME NEW s \in Slot, ReportStep(s)
        PROVE  Quiet' /\ steady' = TableId /\ ~meddled' /\ Still
    <3>1. UNCHANGED <<undo, arg, world>>
      BY <2>6, ReportStepIsQuiet DEF catalog, call
    <3>2. ASSUME Syncs, settled, pc' \in {"create", "recreate"}
          PROVE  pc \in {"create", "recreate"}
      BY <2>6, <3>2, NothingMissing
         DEF ReportStep, AttachExisting, CreateFails, ReportMisplaced, ReportDrift,
             ReportMissing, Removing, Leave, LeaveMissing
    <3> QED
      BY <2>5, <3>1, <3>2
  <2>7. ASSUME NEW s \in Slot, CreateTable(s) \/ DropDrifted(s) \/ DropMissing(s)
        PROVE  Quiet' /\ steady' = TableId /\ ~meddled' /\ Still
    <3>1. UNCHANGED <<arg, world>>
      BY <2>7 DEF CreateTable, DropDrifted, DropMissing, call
    <3>2. settled
      BY <3>1 DEF world
    <3>3. ~Syncs
      <4>1. Syncs => ~CreateTable(s)
        BY <3>2 DEF RunInv, SettledInv, CreateTable, Creating
      <4> QED
        BY <2>7, <3>2, <4>1, NothingDrifted, NothingLeftOver
    <3>4. Still
      BY <3>1, <3>3 DEF Still, Syncs
    <3>5. UNCHANGED <<remote, steady, meddled, settled>>
      BY <3>1 DEF world
    <3> QED
      BY <2>3, <3>4, <3>5
  <2>8. CASE EndReconcile \/ EndMissing \/ UNCHANGED vars
    <3>1. UNCHANGED <<undo, arg, world>>
      BY <2>8 DEF EndReconcile, EndMissing, vars, catalog, call
    <3>2. pc' \in {"create", "recreate"} => pc \in {"create", "recreate"}
      BY <2>8 DEF EndReconcile, EndMissing, vars
    <3> QED
      BY <2>5, <3>1, <3>2
  <2> QED
    BY <1>1, <1>4, <2>2, <2>4, <2>6, <2>7, <2>8, StepKinds
<1> QED
  BY <1>3, <1>4

-----------------------------------------------------------------------------

LEMMA InitRunInv == Init => RunInv
<1> SUFFICES ASSUME Init PROVE RunInv
  OBVIOUS
<1>1. /\ pc = "idle" /\ queue = <<>> /\ listed = {} /\ todo = {} /\ gone = {}
      /\ localOf = [id \in TableId |-> NoSlot] /\ steady = TableId
      /\ ~meddled /\ ~settled /\ undo = [s \in Slot |-> Untouched]
  BY DEF Init
<1>2. \A s \in Slot : ~Touched(s)
  BY <1>1 DEF Touched
<1>3. \A i \in DOMAIN queue : FALSE
  BY <1>1
<1>4. MarksInv /\ ListedInv
  BY <1>1, <1>3 DEF MarksInv, ListedInv
<1>5. ExactInv /\ MappingInv /\ TellInv /\ SettlesInv /\ DropsInv /\ SettledInv
  BY <1>1, MarkerAssumption
     DEF ExactInv, MappingInv, TellInv, SettlesInv, DropsInv, SettledInv, Late
<1>6. VisitInv /\ TouchInv
  BY <1>1, <1>2 DEF VisitInv, TouchInv
<1> QED
  BY <1>4, <1>5, <1>6 DEF RunInv

LEMMA RunInvStep == IInv /\ RunInv /\ [Next]_vars => RunInv'
<1> SUFFICES ASSUME IInv, RunInv, [Next]_vars PROVE RunInv'
  OBVIOUS
<1>1. TypeOK /\ PhaseInv /\ QueueInv /\ SnapInv
  BY DEF IInv
<1>2. /\ MarksInv /\ ListedInv /\ OriginInv /\ ExactInv /\ MappingInv
      /\ VisitInv /\ TouchInv /\ TellInv /\ SettlesInv /\ DropsInv
  BY OriginHolds DEF RunInv
<1>3. MarksInv' /\ ListedInv' /\ ExactInv' /\ MappingInv'
  BY <1>1, <1>2, MarksStep, ListedStep, ExactStep, MappingStep
<1>4. VisitInv' /\ TouchInv' /\ TellInv' /\ SettlesInv' /\ DropsInv'
  BY <1>1, <1>2, VisitStep, TouchStep, TellStep, SettlesStep, DropsStep
<1>5. SettledInv'
  BY SettledStep
<1> QED
  BY <1>3, <1>4, <1>5 DEF RunInv

(***************************************************************************)
(* What a run of attach or sync has seen and done so far, at each point of *)
(* its two loops: the second inductive invariant.                          *)
(***************************************************************************)
THEOREM RunInvariant == Spec => []RunInv
<1>1. IInv /\ RunInv /\ [Next]_vars => RunInv'
  BY RunInvStep
<1> QED
  BY <1>1, InitRunInv, Inductive, PTL DEF Spec

\* At the end of a call the rows say of every slot, but those that another
\* session emptied, whether its table was dropped, made, made again or left
\* alone (attach_one and the two loops of sync, which push a row after the
\* DDL and go on after a failure).
THEOREM RowsTellCorrect == Spec => []RowsTellTheCatalog
<1>1. RunInv => RowsTellTheCatalog
  BY TellDone DEF RunInv
<1> QED
  BY <1>1, RunInvariant, PTL

\* A full sync that nothing interfered with and that reported no failure and
\* no drift leaves exactly one foreign table for every dataset under the
\* root, in its slot and with its columns, and none for any other.
THEOREM SyncConvergesCorrect == Spec => []SyncConverges
<1>1. IInv /\ RunInv => SyncConverges
  BY DoneConverges
<1> QED
  BY <1>1, Inductive, RunInvariant, PTL

\* After a full sync without failures, another sync of any kind changes
\* nothing until the namespace or another session does, also one that comes
\* after dry runs, attaches that found all in place and aborted calls.
THEOREM SecondSyncIsQuietCorrect == Spec => []SecondSyncIsQuiet
<1>1. RunInv => SecondSyncIsQuiet
  BY DEF RunInv, SettledInv, SecondSyncIsQuiet
<1> QED
  BY <1>1, RunInvariant, PTL
=============================================================================
