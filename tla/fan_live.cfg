SPECIFICATION FairSpec
CONSTANTS
  c2 = c2  c3 = c3  lo = lo  hi = hi
  Channels <- OneChannel
  Duties <- MCDuties
  Failsafe = hi
  Sessions = {s1}
  Daemons = {}
  Deckies = {d1}
  Svc = svc  Boot = boot  None = none  Firmware = fw  Held = held
  InitPolicies <- PolicyFromBoot
  SessionRequests <- Regulated
  DeckyRequests <- OneFanLow
  LockTimeouts = TRUE
  MaxOps = 2
  FaultKinds = {}
  MaxFaults = 0
CHECK_DEADLOCK FALSE
PROPERTIES PolicyReached EmergencyReached CommandsEnd
