SPECIFICATION Spec
CONSTANTS
  c2 = c2  c3 = c3  lo = lo  hi = hi
  Channels <- MCChannels
  Duties <- MCDuties
  Failsafe = hi
  Sessions = {s1}
  Daemons = {}
  Deckies = {d1}
  Svc = svc  Boot = boot  None = none  Firmware = fw  Held = held
  InitPolicies <- EitherBoot
  SessionRequests <- HandOvers
  DeckyRequests <- WholeBank
  LockTimeouts = FALSE
  MaxOps = 2
  FaultKinds = {"kill","reboot","error","refuse","stuck"}
  MaxFaults = 2
CHECK_DEADLOCK FALSE
INVARIANTS LockHeld BootHasOneOwner HeldOnlyIfTorn
