SPECIFICATION Spec
CONSTANTS
    f1 = f1
    st1 = st1
    st2 = st2
    TableId <- MCTableId
    Namespace <- MCNamespace
    RootNs <- MCRootNs
    Children <- MCChildren
    Slot <- MCSlot
    Rank <- MCRank
    SlotOf <- MCSlotOf
    TypeName <- MCSlot
    TypeOf <- MCTypeOf
    Flat = {f1}
    Struct = {st1}
    NoStruct = NoStruct
    Absent = Absent
    NoSlot = NoSlot
    NoRel = NoRel
    OtherRel = OtherRel
    NoId = NoId
    BadId = BadId
    Untouched = Untouched
    Args <- MCArgs
    OtherRels = {}
    InitRemote <- MCInitRemote
    InitCatalog <- MCInitCatalog
    MaxChanges = 1
INVARIANT
    CreatedIsAttached
