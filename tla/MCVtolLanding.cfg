SPECIFICATION Spec
CONSTANTS
  RelaxTime = 1
  CompleteTime = 1
  FinalTime = 2
  MinAirbrake = 0
  ThrustLoss = 0
  Alts = {0, 2}
  GroundAlt = 0
  AltChange = 0
  FinalAlt = 1
  MaxChange = 1
  Drop = 1
  Steps = {1}
INVARIANTS
  TypeOK
  AbortClimbsBack
  PayloadFloor
PROPERTIES
  TouchdownIsReal
  TouchesDown
