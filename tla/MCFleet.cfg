SPECIFICATION FairSpec
CHECK_DEADLOCK FALSE
CONSTANTS
  a = a
  b = b
  c = c
  json = json
  sse = sse
  audio = audio
  None = None
  Instances <- MCInstances
  Sessions <- MCSessions
  InstanceOf <- MCInstanceOf
  KindOf <- MCKindOf
  OnDemand <- MCOnDemand
  Pinned = {}
  Files <- MCFiles
  ConfigOf <- MCConfigOf
  ModeOf <- MCModeOf
  DiskOf <- MCDiskOf
  Capacity = 300
  MinFootprint = 50
  PlanningContext = 4
  MinContext = 2
  PlanningPrefix = 2
  PlanningEntries = 1
  PlanningParallel = 2
  DefaultLimit = 2
  GlobalCap = 0
  CacheSize = 10
  MaxStarts = 1
  MaxAsks = 2
INVARIANTS
  ReservationsAreHeld
  EvictionsAreAcyclic
  HoldersAreCalls
  PlanCoversRequests
PROPERTIES
  BusyIsNotChosen
  SlotsComeBack
