SPECIFICATION Spec
CONSTANTS
  Table <- MCTable
  Width <- MCWidth
  Words = {"w0", "w1"}
  Default = "w0"
  AreaLengths <- MCAreaLengths
CHECK_DEADLOCK TRUE
INVARIANTS
  TypeOK
  LogEndsInSentinel
  WrittenIsLoaded
PROPERTIES
  ImplementsMap
