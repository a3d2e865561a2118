SPECIFICATION Spec
CONSTANTS
  Places = {"p", "q"}
  HostMissions <- MCHostMissions
  GcsMissions <- MCGcsMissions
  MaxRows = 2
  Capacity = 2
  MaxLosses = 1
INVARIANTS
  TypeOK
  CacheIsFlown
  UploadIsWhole
PROPERTIES
  HostLandIsFlown
  UploadAnswered
