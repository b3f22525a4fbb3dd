CONSTANTS
  NumNames = 2
  Payloads = {p1}
  FileOrder <- Reversed
  Hits <- OneHit
  Failures = "any"
  CrashAnywhere = TRUE
  DanglingTree = TRUE
  Reinsert = FALSE
  MaxFaults = 2
  NoFile = NoFile
  Junk = Junk
  NotFound = NotFound
  Failed = Failed
  Died = Died
  None = None
SPECIFICATION Spec
INVARIANTS
  TypeOK
  Spread
PROPERTIES
  RecoveryRight
  CallsEnd
  RebuildGivesUpRightly
