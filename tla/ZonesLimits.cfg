\* Three zones of two writable blocks; open and active limits below the zone
\* count; data buffers can always be mapped and hosts append what fits.
CONSTANTS
  NumZones = 3
  ZoneSize = 3
  ZoneCap = 2
  TailBlocks = 1
  MaxOpen = 1
  MaxActive = 2
  Mdts = 2
  Zasl = 2
  ZdExt = TRUE
  CrossZoneRead = FALSE
  MaxNlb = 3
  DmaMayFail = FALSE
  AppendMayOverrun = FALSE
  WpBound = 3
SPECIFICATION Spec
INVARIANTS TypeOK ListsMatchStates CountersCountZones ShutdownProgress FullIffAtBoundary WpBehindReservation EmptyMeansUnwritten WritesWithinCapacity ReportConsistent BulkIsOneByOne
PROPERTIES FailureKeepsZones RewindOnlyByReset ExplicitStaysOpen ImplementsStateMachine
