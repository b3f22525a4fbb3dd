CONSTANTS
  NumNames = 1
  Payloads = {p1}
  FileOrder <- Reversed
  Hits <- NoHits
  Failures = "cold"
  CrashAnywhere = TRUE
  DanglingTree = FALSE
  Reinsert = FALSE
  MaxFaults = 1
  NoFile = NoFile
  Junk = Junk
  NotFound = NotFound
  Failed = Failed
  Died = Died
  None = None
SPECIFICATION Spec
INVARIANTS
  InitializedIsWhole
