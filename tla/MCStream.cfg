SPECIFICATION StreamFairSpec
CONSTANTS
  Pieces <- MCPieces
  Capacity = 7
  Closing = TRUE
CHECK_DEADLOCK FALSE
INVARIANTS
  StreamTypeOK
  PiecesExact
PROPERTIES
  AllReceived
