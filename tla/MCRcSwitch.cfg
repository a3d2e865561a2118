SPECIFICATION MCSpec
CONSTANTS
  FlightModes <- MCFlightModes
  AuxOptions <- MCAuxOptions
  AuxPositions <- MCAuxPositions
  FailsafeModes <- MCFailsafeModes
  ChosenModes <- MCChosenModes
  Debounce = 1
  FreshAge = 0
CHECK_DEADLOCK TRUE
INVARIANTS
  TypeOK
  AuxModeIsHeld
PROPERTIES
  ReportWasHeld
  ArmNeedsGesture
  ModeSwitchPrevails
