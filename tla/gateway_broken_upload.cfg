SPECIFICATION GatewaySpec
CONSTANTS
  Nothing = Nothing
  alice = alice
  bob = bob
  tenantA = tenantA
  tenantB = tenantB
  Principals = {alice, bob}
  Tenants = {tenantA, tenantB}
  TenantOf <- MCTenantOf
  Connections = {r1, r2, r3}
  ClientKeys = {c1, c2}
  AbsoluteTtl = 2
  IdleTtl = 1
  MaxSessions = 2
  MaxSessionsPerPrincipal = 1
  Capacity = 1
  Refill = 1
  MaxClients = 1
  MaximumConcurrentRequests = 2
  MaximumConcurrentSseStreams = 1
  Lifetimes = {1}
  SseMaxTotal = 2
  SseMaxPerClient = 1
  MaxRequests = 4
  MaxClock = 1
SYMMETRY Interchangeable
CHECK_DEADLOCK FALSE
INVARIANT StatesApart
