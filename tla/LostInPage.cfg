SPECIFICATION Spec
CONSTANTS
  Zones = {z1, z2}
  NumGroups = 1
  NumFbgs = 2
  DiesPerGroup = 2
  Planes = 1
  PgsPerBlk = 2
  OpenLimit = 1
  MaxOpened = 3
  Word = 8
  MayReopen = FALSE
  MayResetUnused = FALSE
  Reqs = {r1, r2}
  LbasPerPage = 2
  SecsPerPg = 2
  MaxNlb = 6
  StartUpReqs = 0
  RdLat = 1
  WrLat = 1
  ErLat = 2
  MayStayInPage = TRUE
  MayWriteUnopened = FALSE
  NoZone = NoZone
SYMMETRY QueueSymmetry
CHECK_DEADLOCK FALSE
INVARIANTS
  PendingHasWork
