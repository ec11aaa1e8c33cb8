SPECIFICATION Spec
CONSTANTS
  c2 = c2  c3 = c3  lo = lo  hi = hi
  Channels <- MCChannels
  Duties <- MCDuties
  Failsafe = hi
  Sessions = {s1}
  Daemons = {}
  Deckies = {d1}
  Svc = svc  Boot = boot  None = none  Firmware = fw  Held = held
  InitPolicies <- EitherBoot
  SessionRequests <- Lifecycle
  DeckyRequests <- Bank
  LockTimeouts = FALSE
  MaxOps = 2
  FaultKinds = {}
  MaxFaults = 0
CHECK_DEADLOCK FALSE
INVARIANTS TypeOK ReplayMirrorsHelper NothingLeftDriven
