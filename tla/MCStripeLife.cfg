CONSTANTS
  MaxBits = 7
  MaxCalls = 4
  Words <- TheWords
  Endings <- TheEndings
  Images <- TheImages
  Codigotes <- BitStrings
SPECIFICATION MCSpec
INVARIANTS
  FilesExact
  ReadsBack
  ReadAsWritten
  ThrowsForUnderscore
  ReadsItsParts
PROPERTIES
  RestartKeeps
