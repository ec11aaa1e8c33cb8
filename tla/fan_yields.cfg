SPECIFICATION Spec
CONSTANTS
  c2 = c2  c3 = c3  lo = lo  hi = hi
  Channels <- OneChannel
  Duties <- MCDuties
  Failsafe = hi
  Sessions = {s1,s2}
  Daemons = {s2}
  Deckies = {d1}
  Svc = svc  Boot = boot  None = none  Firmware = fw  Held = held
  InitPolicies <- EitherBoot
  SessionRequests <- Sharing
  DeckyRequests <- OneFanLow
  LockTimeouts = FALSE
  MaxOps = 2
  FaultKinds = {"drift","refuse"}
  MaxFaults = 1
CHECK_DEADLOCK FALSE
INVARIANTS HandOverEndsService
PROPERTIES DaemonYields TakeoverSettles ExternalSettles
