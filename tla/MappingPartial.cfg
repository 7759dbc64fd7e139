SPECIFICATION MappingSpec
CONSTANTS
  Zones = {z1, z2}
  NumGroups = 2
  NumFbgs = 2
  DiesPerGroup = 1
  Planes = 2
  PgsPerBlk = 2
  OpenLimit = 1
  MaxOpened = 2
  Word = 5
  MayReopen = FALSE
  MayResetUnused = FALSE
SYMMETRY ZonePermutations
CHECK_DEADLOCK FALSE
INVARIANTS
  AddressesDistinct
  BitmapCountsZones
