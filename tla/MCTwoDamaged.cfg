CONSTANTS
  NumNames = 1
  Payloads = {p1}
  FileOrder <- Reversed
  Hits <- NoHits
  Failures = "idle"
  CrashAnywhere = FALSE
  DanglingTree = FALSE
  Reinsert = FALSE
  MaxFaults = 0
  NoFile = NoFile
  Junk = Junk
  NotFound = NotFound
  Failed = Failed
  Died = Died
  None = None
SPECIFICATION Spec
INVARIANTS
  NoRebuildOfTwo
