SPECIFICATION ServerSpec
CONSTANTS
  None = None
  OnceOnly = OnceOnly
  home = home
  other = other
  d1 = d1
  Tenant = home
  Actors <- MCActors
  CaseTypes = {"device_loss", "account_recovery", "false_decline_review", "fraudulent_approval_dispute", "compromise_response"}
  CaseIds = {c1}
  OverrideIds = {o1, o2}
  DeviceIds = {d1}
  Keys = {k1}
  ProofMethods = {"existing_passkey"}
  Ttls = {1}
  MaxTtl = 1
  MaxOverrideTtl = 1
  MaxTime = 1
  MaxEvents = 6
  Nothing = Nothing
  alice = alice
  bob = bob
  tenantA = tenantA
  tenantB = tenantB
  Principals = {alice, bob}
  Tenants = {tenantA, tenantB}
  TenantOf <- MCTenantOf
  Connections = {r1, r2, r3}
  ClientKeys = {i1, i2}
  AbsoluteTtl = 2
  IdleTtl = 1
  MaxSessions = 2
  MaxSessionsPerPrincipal = 1
  Capacity = 1
  Refill = 1
  MaxClients = 1
  MaximumConcurrentRequests = 2
  MaximumConcurrentSseStreams = 1
  Lifetimes = {1}
  SseMaxTotal = 2
  SseMaxPerClient = 1
  MaxRequests = 4
  MaxClock = 1
SYMMETRY Interchangeable
CHECK_DEADLOCK FALSE
INVARIANTS IntentsAgree SnapshotRestores DualControl ResetOwnsItsCase
  CountersExact SelectionIsolates
PROPERTIES ClosedForGood KeyedEffects SessionLimits NeverRefunded
