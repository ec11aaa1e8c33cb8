SPECIFICATION Spec
CONSTANTS
  gui = gui  tui = tui
  Clients <- MCClients
  Dialogs <- MCDialogs
  NumChunks = 2
  MaxWaits = 3
  MaxAttempts = 3
  MaxUpdates = 3
  MaxFaults = 1
INVARIANTS TypeOK ProtectionRestored
PROPERTIES InstalledIsWhole UpdateEnds
CHECK_DEADLOCK FALSE
