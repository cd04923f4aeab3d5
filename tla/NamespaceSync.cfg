SPECIFICATION Spec
CONSTANTS
    f1 = f1
    f2 = f2
    TableId <- MCTableId
    Namespace <- MCNamespace
    RootNs <- MCRootNs
    Children <- MCChildren
    Slot <- MCSlot
    Rank <- MCRank
    SlotOf <- MCSlotOf
    TypeName <- MCSlot
    TypeOf <- MCTypeOf
    Flat = {f1, f2}
    Struct = {}
    NoStruct = NoStruct
    Absent = Absent
    NoSlot = NoSlot
    NoRel = NoRel
    OtherRel = OtherRel
    NoId = NoId
    BadId = BadId
    Untouched = Untouched
    Args <- MCArgs
    OtherRels <- MCOtherRels
    InitRemote <- MCInitRemote
    InitCatalog <- MCInitCatalog
    MaxChanges = 2
INVARIANTS
    TypeOK
    OnlyOwnTables
    DropsHaveCause
    PresentNeverDropped
    RowsTellTheCatalog
    SyncConverges
    SecondSyncIsQuiet
