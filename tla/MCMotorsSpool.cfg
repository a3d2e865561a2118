SPECIFICATION Spec
CONSTANTS
  Full = 4
  UpStep = 1
  DownStep = 2
  IdleRatio = 1
  SafeTime = 2
  IdleDelay = 2
  Limits = {3, 4}
INVARIANTS
  TypeOK
  CeilingNeedsSpin
  TakeoffChecked
PROPERTIES
  NoThrustJump
  SpoolsUp
  SpoolsDown
