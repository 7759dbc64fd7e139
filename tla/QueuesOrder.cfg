SPECIFICATION Spec
CONSTANTS
  Zones = {z1, z2}
  NumGroups = 1
  NumFbgs = 2
  DiesPerGroup = 2
  Planes = 1
  PgsPerBlk = 1
  OpenLimit = 1
  MaxOpened = 3
  Word = 8
  MayReopen = FALSE
  MayResetUnused = FALSE
  Reqs = {r1, r2}
  LbasPerPage = 1
  SecsPerPg = 1
  MaxNlb = 2
  StartUpReqs = 0
  RdLat = 1
  WrLat = 1
  ErLat = 2
  MayStayInPage = FALSE
  MayWriteUnopened = FALSE
  NoZone = NoZone
SYMMETRY QueueSymmetry
CHECK_DEADLOCK FALSE
INVARIANTS
  FtlTypeOK
  PendingHasWork
PROPERTIES
  WritesFindErasedBlocks
