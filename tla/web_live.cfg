SPECIFICATION Spec
CONSTANTS
  NumWorkers = 2
  NumTokens = 1
  NumTerms = 2
  MaxRenewals = 1
  MaxRestarts = 1
PROPERTIES JobsSettle LostTerminalsClose UpdateTaken
CHECK_DEADLOCK FALSE
