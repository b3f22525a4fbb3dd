CONSTANTS
  NumNames = 1
  Payloads = {p1, p2}
  FileOrder <- Reversed
  Hits <- NoHits
  Failures = "never"
  CrashAnywhere = TRUE
  DanglingTree = FALSE
  Reinsert = TRUE
  MaxFaults = 1
  NoFile = NoFile
  Junk = Junk
  NotFound = NotFound
  Failed = Failed
  Died = Died
  None = None
SPECIFICATION Spec
INVARIANTS
  ReadsStored
