SPECIFICATION MCSpec
CONSTANTS
  ThrFailsafeValues = {"Enabled", "EnabledNoFS"}
  FsShortValues = {"BestGuess", "Fbwb", "Disabled"}
  FsLongValues = {"Rtl", "Glide", "Auto"}
  FsLatch = 4
  FsRecover = 1
  FreshAge = 0
  RcFsTimeout = 0
  LongTimeout = 4
  LockTicks = 0
  FlightModes <- MCFlightModes
  AuxFunctions <- MCAuxFunctions
  GcsModes <- MCGcsModes
  Missions <- MCMissions
CHECK_DEADLOCK TRUE
INVARIANTS
  TypeOK
  LevelFollowsLatch
  PendingOnlyInClimbOut
  OwnedModeIsConfigured
PROPERTIES
  RestoreOnlyInterrupted
  ImplementsFailsafe
  LatchFollowsStreaks
