SPECIFICATION FairSpec
CONSTANTS
  Users = {u1}
  NoUser = none
  MaxAge = 3
  ResetLifetime = 2
  SecurityLifetime = 3
  RetryDelays <- Delays
  ErrorPause = 1
  RetentionEvery = 9
  MaxLag = 0
  Prompt = TRUE
  Horizon = 3
  MaxRows = 2
  MaxTokens = 1
  MaxFaults = 1
PROPERTIES
  EveryMailSettled
CHECK_DEADLOCK FALSE
