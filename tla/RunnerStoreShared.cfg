SPECIFICATION SessionSpec
CONSTANTS
  p1 = p1
  p2 = p2
  Process <- MCProcess
  Kind <- MCKind
  Bytes <- MCBytes
  ScanLimit = 100
  Worlds <- MCWorlds
CHECK_DEADLOCK FALSE
INVARIANTS TornTailIsHarmless
PROPERTIES StoresImplementLogs
