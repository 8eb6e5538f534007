SPECIFICATION Spec
CONSTANTS
  Users = {u1}
  NoUser = none
  MaxAge = 3
  ResetLifetime = 2
  SecurityLifetime = 3
  RetryDelays <- Delays
  ErrorPause = 1
  RetentionEvery = 2
  MaxLag = 1
  Prompt = TRUE
  Horizon = 3
  MaxRows = 2
  MaxTokens = 2
  MaxFaults = 1
INVARIANTS
  SleepCoversEveryRow
  RowsMatchFate
  DuplicateOnlyAfterLostOutcome
  OneUnusedToken
PROPERTIES
  AttemptsInOrder
  DeliveryPromise
  GivenUpLinkIsDead
CHECK_DEADLOCK FALSE
