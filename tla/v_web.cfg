SPECIFICATION Spec
CONSTANTS
  NumWorkers = 2
  NumTokens = 1
  NumTerms = 1
  MaxRenewals = 0
  MaxRestarts = 1
PROPERTIES UpdateSparesJobs
CHECK_DEADLOCK FALSE
