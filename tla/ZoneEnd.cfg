SPECIFICATION FSSpec
CONSTANTS
  Names = {a, b}
  Log = {b}
  Sst = {a}
  NrMeta = 3
  MetaCap = 4
  NrIO = 2
  IOCap = 2
  Direct = {TRUE}
  MaxFiles = 2
  MaxLen = 2
  MaxSeq = 3
  MaxFaults = 1
  MayFail = {}
  Exposed = {}
INVARIANT ActiveZoneLookedUp
CHECK_DEADLOCK FALSE
