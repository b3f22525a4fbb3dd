SPECIFICATION TextsSpec
CHECK_DEADLOCK FALSE
CONSTANTS
  MaxUnsigned = 19
  MaxInteger = 15
  MaxExponent = 9
  MaxLexemes = 3
  MaxDigits = 3
  MaxPieces = 2
  BufferSize = 30
  Years = {1, 100, 400, 1970, 2000, 2020}
INVARIANTS
  Positions
  Understood
  TextTrip
  BinaryTrip
  PatchTrip
  CalendarRight
  DateTrip
