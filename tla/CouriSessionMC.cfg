\* One identity, one token, a keychain that works.
SPECIFICATION SessionSpec
CONSTANTS
  ann = ann
  NoUid = NoUid
  Never = Never
  Nobody = Nobody
  Uid <- MCUid
  MaxRetry = 1
  MaxUsers = 1
  MaxTokens = 1
  MaxPending = 2
  MaxTimers = 1
  MaxFetches = 1
  MaxFaults = 0
  MaxRestarts = 0
PROPERTIES
  SummonsLogin
CHECK_DEADLOCK FALSE
