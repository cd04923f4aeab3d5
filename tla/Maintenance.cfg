SPECIFICATION Spec
CONSTANTS
  b1 = b1
  b2 = b2
  r1 = r1
  r2 = r2
  r3 = r3
  r4 = r4
  i1 = i1
  None = None
  Backend = {b1, b2}
  Row = {r1, r2, r3, r4}
  Index = {i1}
  Seed <- MCSeed
  SeedCover <- MCSeedCover
  Requests <- MCRequests
  Unrecorded <- MCUnrecorded
  MaxVersions = 4
  MaxFiles = 5
  MaxTime = 1
  MaxCalls = 3
  MaxTags = 1
CHECK_DEADLOCK FALSE
SYMMETRY Symmetry
INVARIANTS
  TypeOK
  OnlyCondemnedVersionsLoseFiles
  CondemnedAreOld
  PlannedStaysGarbage
  ReportsAreOfOneVersion
  DeleteCountsItsFragments
  IndexesCatchUp
PROPERTIES
  ImplementsTable
