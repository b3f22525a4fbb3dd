CONSTANTS
  MaxLen = 7
  NumBytes = 5
  Bytes <- MCBytes
  Newline <- MCNewline
  Pictures <- MCPictures
  NoByte = NoByte
SPECIFICATION TripSpec
CHECK_DEADLOCK FALSE
INVARIANTS
  TypeOK
  NothingLost
  Optimal
  EndToEnd
PROPERTIES
  Ends
