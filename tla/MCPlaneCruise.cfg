SPECIFICATION Spec
CONSTANTS
  ThrFailsafeValues = {"Enabled"}
  FsShortValues = {"Disabled"}
  FsLongValues = {"Rtl"}
  FsLatch = 2
  FsRecover = 1
  FreshAge = 0
  RcFsTimeout = 0
  LongTimeout = 0
  LockTicks = 0
  FlightModes <- MCFlightModes
  AuxFunctions <- MCAuxFunctions
  GcsModes <- MCGcsModes
  Missions <- MCMissions
CHECK_DEADLOCK TRUE
PROPERTY CruiseStartsUnlocked
