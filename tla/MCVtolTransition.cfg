SPECIFICATION Spec
CONSTANTS
  TransTime = 2
  FailTimeout = 2
  Delay = 1
  Errors = {"alt"}
  Steps = {1, 2}
INVARIANTS
  TypeOK
  FailMeansTimedOut
PROPERTIES
  DoneNeedsCalm
  Completes
