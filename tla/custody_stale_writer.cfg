SPECIFICATION Spec
CONSTANTS
  None = None
  EventIds = {e1, e2, e3}
  KeyIds = {k1, k2}
  FirstKey = k1
  Processes = {p1, p2}
  Slots = {1, 2}
SYMMETRY Interchangeable
INVARIANT ChainVerifies
