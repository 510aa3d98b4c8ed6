SPECIFICATION TransportSpec
CONSTANTS
  None = None
  Events = {e1, e2}
  Workers = {w1, w2}
  Malformed = {e2}
  MaximumAttempts = 2
  LeaseTime = 2
  RetryDelay = 1
  CooldownTime = 1
  FailureThreshold = 2
  BatchSize = 2
  Prompt = FALSE
  MaxCrashes = 0
  Nothing = Nothing
  Nonces = {n1, n2, n3}
  Keys = {k1}
  Bodies = {b1, b2}
  Window = 2
  MaxSkew = 1
  MaxTime = 4
  MaxAccepts = 2
SYMMETRY InterchangeableWorkers
CHECK_DEADLOCK FALSE
INVARIANTS TypeOK ReplayMemory EffectOnce
PROPERTIES LeaseRespected DeliversAtLeastOnce
