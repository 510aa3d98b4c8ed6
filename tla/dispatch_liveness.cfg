SPECIFICATION FairSpec
CONSTANTS
  None = None
  Events = {e1, e2}
  Workers = {w1, w2}
  Malformed = {e2}
  MaximumAttempts = 2
  LeaseTime = 2
  RetryDelay = 1
  CooldownTime = 1
  FailureThreshold = 1
  BatchSize = 1
  Prompt = TRUE
  MaxCrashes = 1
CHECK_DEADLOCK FALSE
PROPERTY EventuallyHandled
