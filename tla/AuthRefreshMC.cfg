\* As AuthStateMC, for the comment in scheduleAutoTokenRefreshWithDelay.
SPECIFICATION Spec
CONSTANTS
  ann = ann
  bob = bob
  NoUid = NoUid
  Never = Never
  Nobody = Nobody
  Uid <- MCUid
  MaxRetry = 1
  MaxUsers = 2
  MaxTokens = 2
  MaxPending = 2
  MaxTimers = 1
  MaxFetches = 1
  MaxFaults = 1
  MaxRestarts = 1
PROPERTIES
  StaleTaskReplaced
CHECK_DEADLOCK FALSE
