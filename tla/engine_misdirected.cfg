SPECIFICATION Spec
CONSTANTS
  None = None
  Devices = {d1}
  Subjects = {s1}
  KeyIds = {k1}
  PublicKeys = {p1}
  Tokens = {t1, t2}
  Transactions = {x1, x2}
  ChallengeIds = {t1, t2, x1, x2}
  Caps = {1}
  Amounts = {1}
  ProvisioningTtl = 2
  TransactionTtl = 1
  DayLength = 4
  MaxTime = 2
  MaxDeviceEvents = 2
  CallerClock = FALSE
CHECK_DEADLOCK FALSE
INVARIANT AcceptedByOwnChallenge
