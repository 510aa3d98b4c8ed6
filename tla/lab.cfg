SPECIFICATION Spec
CONSTANTS
  None = None
  Keys = {k1, k2}
  Processes = {p1, p2}
  InitialLabs <- MCInitialLabs
  MaxFaults = 1
SYMMETRY Interchangeable
CONSTRAINT Followed
CHECK_DEADLOCK FALSE
INVARIANTS MemorySound AnswersStand RefusedOnlyAfterDemonstration
PROPERTIES NoLostUpdate KeyedEffects
