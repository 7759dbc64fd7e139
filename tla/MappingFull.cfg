SPECIFICATION MappingSpec
CONSTANTS
  Zones = {z1, z2, z3, z4}
  NumGroups = 2
  NumFbgs = 2
  DiesPerGroup = 1
  Planes = 2
  PgsPerBlk = 2
  OpenLimit = 2
  MaxOpened = 3
  Word = 32
  MayReopen = FALSE
  MayResetUnused = FALSE
SYMMETRY ZonePermutations
CHECK_DEADLOCK FALSE
INVARIANTS
  MappingTypeOK
  BitmapCountsZones
  NoSharedBlocks
  RemainIsExact
  AddressesDistinct
  UsedCountsOpened
  StopsOnlyExhausted
