SPECIFICATION Spec
CONSTANTS
  b1 = b1  b2 = b2
  NumFiles = 2
  Backups <- MCBackups
  Releases <- MCReleases
  ClientWaits = TRUE
  MaxInstalls = 2
  MaxEdits = 1
  MaxFaults = 2
  MaxCrashes = 1
INVARIANTS TypeOK ManifestExact GapAtMostOne
PROPERTIES AtomicExchange PutBackExact RecordFollowsFiles
CHECK_DEADLOCK FALSE
