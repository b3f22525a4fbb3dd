CONSTANTS
  NumNames = 4
  Payloads = {p1}
  FileOrder <- Reversed
  Hits <- NoHits
  Failures = "cold"
  CrashAnywhere = FALSE
  DanglingTree = FALSE
  Reinsert = FALSE
  MaxFaults = 0
  NoFile = NoFile
  Junk = Junk
  NotFound = NotFound
  Failed = Failed
  Died = Died
  None = None
SPECIFICATION Spec
INVARIANTS
  Recoverable
  ReadsStored
PROPERTIES
  BootHeals
  ImplementsStore
