SPECIFICATION Spec
CONSTANTS
  p1 = p1
  p2 = p2
  Process <- MCProcess
  Kind <- MCKind
  Bytes <- MCBytes
  ScanLimit = 100
  Worlds <- MCTearing
CHECK_DEADLOCK FALSE
INVARIANTS AckedIsLoaded
