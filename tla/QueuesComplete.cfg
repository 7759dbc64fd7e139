SPECIFICATION Spec
CONSTANTS
  Zones = {z1}
  NumGroups = 1
  NumFbgs = 1
  DiesPerGroup = 2
  Planes = 1
  PgsPerBlk = 2
  OpenLimit = 1
  MaxOpened = 2
  Word = 8
  MayReopen = FALSE
  MayResetUnused = FALSE
  Reqs = {r1, r2}
  LbasPerPage = 2
  SecsPerPg = 2
  MaxNlb = 6
  StartUpReqs = 1
  RdLat = 1
  WrLat = 1
  ErLat = 2
  MayStayInPage = FALSE
  MayWriteUnopened = FALSE
  NoZone = NoZone
CHECK_DEADLOCK FALSE
INVARIANTS
  PagesReachTheirDies
PROPERTIES
  EveryRequestCompletes
