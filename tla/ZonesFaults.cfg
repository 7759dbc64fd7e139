\* Two zones; buffers may fail to map after blocks were reserved, and hosts
\* may append more than the zone has left.
CONSTANTS
  NumZones = 2
  ZoneSize = 2
  ZoneCap = 2
  TailBlocks = 0
  MaxOpen = 1
  MaxActive = 2
  Mdts = 2
  Zasl = 2
  ZdExt = TRUE
  CrossZoneRead = TRUE
  MaxNlb = 3
  DmaMayFail = TRUE
  AppendMayOverrun = TRUE
  WpBound = 4
SPECIFICATION Spec
PROPERTIES FailureKeepsZones RewindOnlyByReset ImplementsStateMachine
