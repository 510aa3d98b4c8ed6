SPECIFICATION Spec
CONSTANTS
  None = None
  Devices = {d1, d2}
  Subjects = {s1}
  KeyIds = {k1, k2}
  PublicKeys = {p1, p2}
  Tokens = {t1}
  Transactions = {x1, x2, x3}
  ChallengeIds = {t1, x1, x2, x3}
  Caps = {1}
  Amounts = {1}
  ProvisioningTtl = 1
  TransactionTtl = 1
  DayLength = 1
  MaxTime = 1
  MaxDeviceEvents = 3
  CallerClock = FALSE
SYMMETRY Interchangeable
CONSTRAINT SmallPopulation
CHECK_DEADLOCK FALSE
INVARIANTS TypeOK AggregatesLinked RestoreSpend SpendWithinCap RestoreDevices
  PendingIsCurrent RevokedIsQuiet OutcomesStand AuditExplainsState
PROPERTY OneShotChallenges
