SPECIFICATION Spec
CONSTANTS
  NumWorkers = 2
  NumTokens = 2
  NumTerms = 2
  MaxRenewals = 1
  MaxRestarts = 1
INVARIANTS TypeOK OneJob JobPublished
PROPERTIES TrustKept
CHECK_DEADLOCK FALSE
