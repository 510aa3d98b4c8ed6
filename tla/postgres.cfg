SPECIFICATION Spec
CONSTANTS
  None = None
  Clients = {c1, c2}
  Reservations = {r1, r2}
  Days = {d1}
  Amounts = {1, 2}
  Keys = {k1}
  Lease = 1
  MaxTime = 1
INVARIANT TablesAgree
PROPERTIES LedgerIsSerial KeyedEffects LeaseRespected TransactionsEnd
