------------------------------ MODULE GatewayProofs ------------------------------
(***************************************************************************)
(* For any tenants, principals, connections and limits: the gateway counts *)
(* its requests and streams exactly, keeps the tenants' states apart while *)
(* every handler that writes has selected its state, keeps the limits of   *)
(* the session table, and limits clients like a table of buckets that      *)
(* never forgets.                                                          *)
(***************************************************************************)
EXTENDS Gateway, FiniteSetTheorems, WellFoundedInduction, TLAPS

\* What the phase of a request says about what is known of it.
WellFormed(req) ==
  /\ req.phase = "idle" => req = Idle
  /\ req.phase \in {"streaming", "closed"} => ~req.held
  /\ req.phase \in {"uploading", "streaming"} => req.client \in ClientKeys
  /\ req.phase \in {"verifying", "uploading", "streaming"} => req.principal \in Principals
  /\ req.phase = "verifying" => req.token \in Token

\* The buckets of b were refilled in the past, and a client has one of them.
Fresh(b, now) == \A i \in DOMAIN b : b[i].updated <= now
OneEach(b) == \A i, j \in DOMAIN b : b[i].key = b[j].key => i = j

\* Types, and what the phases and the clock add to them.
Structure ==
  /\ GatewayTypeOK
  /\ \A r \in Connections : WellFormed(request[r])
  /\ Fresh(buckets, clock) /\ OneEach(buckets)

\* The sessions of s that authenticate respect both limits.
LiveOf(s, now, p) == {id \in Live(s, now) : s[id].principal = p}
Bounded(s, now) ==
  /\ Cardinality(Live(s, now)) <= MaxSessions
  /\ \A p \in Principals : Cardinality(LiveOf(s, now, p)) <= MaxSessionsPerPrincipal

SessionsBounded == Bounded(sessions, clock)

\* No two tenants have the same state object.
ObjectsApart ==
  \A t, u \in Tenants : lab.tenantStates[t] # Nothing /\ lab.tenantStates[t] = lab.tenantStates[u]
                          => t = u

\* Only the tenant's own requests wrote to its state.
WritesApart ==
  \A t \in Tenants :
    lab.tenantStates[t] # Nothing => lab.written[lab.tenantStates[t]] \subseteq {t}

Isolated == unselected \/ (ObjectsApart /\ WritesApart /\ ShownApart)

Counted == CountedOnce /\ AdmissionExact

\* The inductive invariant.
Inv == Structure /\ Counted /\ SessionsBounded /\ Isolated

\* A request newly refused for the session limit met live sessions that fill it.
RefusedWhenFull ==
  \A r \in Connections :
    (request'[r].limited /\ ~request[r].limited)
      => \/ Cardinality(Live(sessions, clock)) = MaxSessions
         \/ Cardinality(LiveOf(sessions, clock, request[r].principal)) = MaxSessionsPerPrincipal

-----------------------------------------------------------------------------
(* Smallest elements and cardinalities *)

\* Min finds the smallest of some numbers: one below whose set of predecessors
\* there is no smaller such set.
LEMMA Smallest ==
  ASSUME NEW n \in Nat, NEW S \in SUBSET (1 .. n), S # {}
  PROVE  Min(S) \in S /\ \A y \in S : Min(S) <= y
<1> DEFINE Below(y) == {x \in S : x <= y}
           Segments == {Below(y) : y \in S}
<1>1. IsFiniteSet(S)
  <2>1. IsFiniteSet(1 .. n)
    <3>1. 1 \in Int /\ n \in Int
      OBVIOUS
    <3>2. QED BY <3>1, FS_Interval
  <2>2. QED BY <2>1, FS_Subset
<1>2. PICK s \in Segments : \A t \in Segments : <<t, s>> \notin StrictSubsetOrdering(S)
  <2>1. IsWellFoundedOn(StrictSubsetOrdering(S), FiniteSubsetsOf(S))
    BY FS_StrictSubsetOrderingWellFounded
  <2>2. Segments \subseteq FiniteSubsetsOf(S)
    BY <1>1, FS_FiniteSubsetsOfFinite
  <2>3. Segments # {}
    OBVIOUS
  <2> HIDE DEF Segments
  <2>4. QED BY <2>1, <2>2, <2>3, WFMin
<1>3. PICK m \in S : s = Below(m)
  BY <1>2
<1>4. \A y \in S : m <= y
  <2>1. SUFFICES ASSUME NEW y \in S, y < m PROVE FALSE
    OBVIOUS
  <2>2. Below(y) \subseteq s /\ Below(y) # s
    <3>1. S \subseteq Nat /\ m \in Below(m) /\ m \notin Below(y)
      BY <2>1
    <3>2. \A x \in Below(y) : x \in Below(m)
      BY <2>1, <3>1
    <3>3. QED BY <1>3, <3>1, <3>2
  <2>3. Below(y) \in SUBSET S /\ s \in SUBSET S
    BY <1>3
  <2>4. <<Below(y), s>> \in StrictSubsetOrdering(S)
    <3> HIDE DEF Below
    <3> QED BY <2>2, <2>3 DEF StrictSubsetOrdering
  <2>5. QED BY <1>2, <2>4
<1>5. QED BY <1>4 DEF Min

\* Of two numbers.
LEMMA SmallerOfTwo ==
  ASSUME NEW a \in Nat, NEW b \in Nat
  PROVE  Min({a, b}) = IF a <= b THEN a ELSE b
BY DEF Min

One(b) == IF b THEN 1 ELSE 0

\* An element counts once.
LEMMA CountOf ==
  ASSUME NEW S, NEW x, IsFiniteSet(S \ {x})
  PROVE  /\ IsFiniteSet(S) /\ Cardinality(S \ {x}) \in Nat
         /\ Cardinality(S) = Cardinality(S \ {x}) + One(x \in S)
<1>1. Cardinality(S \ {x}) \in Nat
  BY FS_CardinalityType
<1>2. CASE x \in S
  <2>1. S = (S \ {x}) \cup {x} /\ x \notin S \ {x}
    BY <1>2
  <2>2. IsFiniteSet(S) /\ Cardinality(S) = Cardinality(S \ {x}) + 1
    BY <2>1, FS_AddElement
  <2>3. QED BY <1>1, <1>2, <2>2 DEF One
<1>3. CASE x \notin S
  <2>1. S \ {x} = S
    BY <1>3
  <2>2. IsFiniteSet(S) /\ Cardinality(S) = Cardinality(S \ {x})
    BY <2>1
  <2>3. One(x \in S) = 0
    BY <1>3 DEF One
  <2>4. QED BY <1>1, <2>2, <2>3
<1>4. QED BY <1>2, <1>3

\* A set that differs in one element has one more, one fewer, or as many.
LEMMA CountChanges ==
  ASSUME NEW S, IsFiniteSet(S), NEW T, NEW x, T \ {x} = S \ {x}
  PROVE  /\ IsFiniteSet(T) /\ Cardinality(S) \in Nat /\ Cardinality(T) \in Nat
         /\ Cardinality(T) + One(x \in S) = Cardinality(S) + One(x \in T)
<1>1. IsFiniteSet(S \ {x}) /\ IsFiniteSet(T \ {x})
  BY FS_RemoveElement
<1>2. /\ Cardinality(S) = Cardinality(S \ {x}) + One(x \in S)
      /\ Cardinality(T) = Cardinality(S \ {x}) + One(x \in T)
      /\ IsFiniteSet(T) /\ Cardinality(S \ {x}) \in Nat
  BY <1>1, CountOf
<1>3. One(x \in S) \in Nat /\ One(x \in T) \in Nat
  BY DEF One
<1>4. QED BY <1>2, <1>3

-----------------------------------------------------------------------------
(* Tenants' states *)

\* There is an object that neither the binding nor a tenant refers to.
LEMMA FreshObject ==
  ASSUME NEW l \in Lab
  PROVE  LET referred == {l.state} \cup {l.tenantStates[t] : t \in Tenants}
         IN /\ Min(Objects \ referred) \in Objects
            /\ Min(Objects \ referred) \notin referred
<1> DEFINE states == {l.tenantStates[t] : t \in Tenants}
           referred == {l.state} \cup states
           n == Cardinality(Tenants) + 2
<1>1. n \in Nat /\ Cardinality(Tenants) \in Nat
  BY GatewayAssumption, FS_CardinalityType
<1>2. IsFiniteSet(states) /\ Cardinality(states) <= Cardinality(Tenants)
  <2>1. l.tenantStates \in Surjection(Tenants, states)
    BY DEF Lab, Surjection
  <2>2. QED BY <2>1, GatewayAssumption, FS_Surjection
<1>3. IsFiniteSet(referred) /\ Cardinality(referred) <= Cardinality(Tenants) + 1
  <2>1. Cardinality(states) \in Nat
    BY <1>2, FS_CardinalityType
  <2>2. referred = states \cup {l.state}
    OBVIOUS
  <2> HIDE DEF states
  <2>3. /\ IsFiniteSet(states \cup {l.state})
        /\ Cardinality(states \cup {l.state}) \in Nat
        /\ Cardinality(states \cup {l.state}) <= Cardinality(states) + 1
    BY <1>2, <2>1, FS_AddElement
  <2> HIDE DEF referred
  <2>4. QED BY <1>1, <1>2, <2>1, <2>2, <2>3
<1>4. Cardinality(Objects) = n
  <2>1. 1 \in Int /\ n \in Int /\ ~(1 > n) /\ n - 1 + 1 = n
    BY <1>1
  <2>2. QED BY <2>1, FS_Interval DEF Objects
<1> HIDE DEF referred
<1>5. Objects \ referred # {}
  <2>1. SUFFICES ASSUME Objects \subseteq referred PROVE FALSE
    OBVIOUS
  <2>2. Cardinality(Objects) <= Cardinality(referred)
    BY <1>3, <2>1, FS_Subset
  <2>3. Cardinality(referred) \in Nat
    BY <1>3, FS_CardinalityType
  <2>4. QED BY <1>1, <1>3, <1>4, <2>2, <2>3
<1>6. Min(Objects \ referred) \in Objects \ referred
  <2>1. Objects \ referred \in SUBSET (1 .. n)
    BY DEF Objects
  <2> HIDE DEF n
  <2>2. QED BY <1>1, <1>5, <2>1, Smallest
<1>7. QED BY <1>6 DEF referred

\* The new state is an object of its own, and what is referred to stays.
LEMMA NewState ==
  ASSUME NEW l \in Lab, NEW contents \in SUBSET Writers
  PROVE  LET n == WithState(l, contents)
         IN /\ n \in Lab /\ n.tenantStates = l.tenantStates
            /\ n.state # l.state /\ \A t \in Tenants : n.state # l.tenantStates[t]
            /\ n.written[n.state] = contents
            /\ \A t \in Tenants : l.tenantStates[t] # Nothing =>
                 n.written[l.tenantStates[t]] = l.written[l.tenantStates[t]]
<1> DEFINE referred == {l.state} \cup {l.tenantStates[t] : t \in Tenants}
           new == Min(Objects \ referred)
           written == [o \in Objects |->
                         IF o = new THEN contents
                         ELSE IF o \in referred THEN l.written[o] ELSE {}]
<1>1. new \in Objects /\ new \notin referred
  BY FreshObject
<1>2. WithState(l, contents) = [l EXCEPT !.state = new, !.written = written]
  BY DEF WithState, Lab
<1> HIDE DEF new
<1>3. written \in [Objects -> SUBSET Writers]
  BY DEF Lab
<1>4. written[new] = contents
  BY <1>1
<1>5. \A t \in Tenants : l.tenantStates[t] # Nothing =>
                 written[l.tenantStates[t]] = l.written[l.tenantStates[t]]
  BY <1>1 DEF Lab
<1>6. new # l.state /\ \A t \in Tenants : new # l.tenantStates[t]
  BY <1>1
<1> HIDE DEF written
<1>7. QED BY <1>1, <1>2, <1>3, <1>4, <1>5, <1>6 DEF Lab

\* The tenants' states keep apart in l.
Apart(l) ==
  /\ \A t, u \in Tenants :
       l.tenantStates[t] # Nothing /\ l.tenantStates[t] = l.tenantStates[u] => t = u
  /\ \A t \in Tenants :
       l.tenantStates[t] # Nothing => l.written[l.tenantStates[t]] \subseteq {t}

\* The state that was selected is the tenant's own.
Own(l, t) == l.tenantStates[t] = l.state

\* Selecting a state keeps the tenants apart.
LEMMA Selects ==
  ASSUME NEW l \in Lab, NEW t \in Tenants
  PROVE  LET s == Selected(l, t)
         IN s \in Lab /\ Own(s, t) /\ (Apart(l) => Apart(s) /\ Contents(s) \subseteq {t})
<1>0. Nothing \notin Objects /\ l.state \in Objects
  BY GatewayAssumption, FS_CardinalityType DEF Objects, Lab
<1>1. CASE l.tenantStates[t] = Nothing
  <2> DEFINE n == WithState(l, {})
  <2>1. /\ n \in Lab /\ n.tenantStates = l.tenantStates
        /\ \A u \in Tenants : n.state # l.tenantStates[u]
        /\ n.written[n.state] = {}
        /\ \A u \in Tenants : l.tenantStates[u] # Nothing =>
                 n.written[l.tenantStates[u]] = l.written[l.tenantStates[u]]
    BY NewState
  <2>2. Selected(l, t) = [n EXCEPT !.tenantStates[t] = n.state]
    BY <1>1 DEF Selected
  <2> HIDE DEF n
  <2> DEFINE s == [n EXCEPT !.tenantStates[t] = n.state]
  <2>3. /\ s \in Lab /\ s.state = n.state /\ s.written = n.written
        /\ s.tenantStates[t] = n.state
        /\ \A u \in Tenants : u # t => s.tenantStates[u] = l.tenantStates[u]
    BY <2>1 DEF Lab
  <2> HIDE DEF s
  <2>4. Apart(l) => Apart(s) /\ Contents(s) \subseteq {t}
    BY <2>1, <2>3 DEF Apart, Contents
  <2>5. QED BY <2>2, <2>3, <2>4 DEF s, Own
<1>2. CASE l.tenantStates[t] # Nothing
  <2> DEFINE s == [l EXCEPT !.state = l.tenantStates[t]]
  <2>1. s \in Lab /\ s.tenantStates = l.tenantStates /\ s.written = l.written
        /\ s.state = l.tenantStates[t]
    BY <1>2 DEF Lab
  <2>2. Selected(l, t) = [s EXCEPT !.tenantStates[t] = s.state]
    BY <1>2 DEF Selected
  <2>3. [s EXCEPT !.tenantStates[t] = s.state] = s
    BY <2>1 DEF Lab
  <2> HIDE DEF s
  <2>4. QED BY <1>2, <2>1, <2>2, <2>3 DEF Own, Apart, Contents
<1>3. QED BY <1>1, <1>2

\* So does what a handler does to its tenant's state.
LEMMA Writes ==
  ASSUME NEW l \in Lab, NEW t \in Writers
  PROVE  LET w == Wrote(l, t)
         IN /\ w \in Lab /\ w.tenantStates = l.tenantStates /\ w.state = l.state
            /\ Contents(w) = Contents(l) \cup {t}
            /\ \A o \in Objects : o # l.state => w.written[o] = l.written[o]
BY DEF Wrote, Lab, Contents, Writers

LEMMA Finalizes ==
  ASSUME NEW l \in Lab, NEW t \in Tenants
  PROVE  LET f == Finalized(l, t)
         IN /\ f \in Lab /\ f.state = l.state /\ f.written = l.written
            /\ f.tenantStates[t] = l.state
            /\ \A u \in Tenants : u # t => f.tenantStates[u] = l.tenantStates[u]
BY DEF Finalized, Lab

\* Every route leaves the tenant a state of its own, which holds what the tenant
\* wrote and nothing else.
LEMMA RoutesKeep ==
  ASSUME NEW l \in Lab, NEW t \in Tenants, Own(l, t),
         NEW result \in RouteResults(l, t)
  PROVE  /\ result \in Lab /\ Finalized(result, t) \in Lab
         /\ Contents(result) \in SUBSET Writers
         /\ Apart(l) => Apart(Finalized(result, t)) /\ Contents(result) \subseteq {t}
<1>0. /\ Contents(l) \in SUBSET Writers /\ l.state \in Objects /\ Nothing \notin Objects
      /\ Apart(l) => Contents(l) \subseteq {t}
  BY GatewayAssumption, FS_CardinalityType DEF Objects, Lab, Contents, Apart, Own
<1>1. CASE result = Wrote(l, t)
  <2>1. /\ result \in Lab /\ result.tenantStates = l.tenantStates /\ result.state = l.state
        /\ Contents(result) = Contents(l) \cup {t}
        /\ \A o \in Objects : o # l.state => result.written[o] = l.written[o]
    BY <1>1, Writes DEF Writers
  <2> DEFINE f == Finalized(result, t)
  <2>2. /\ f \in Lab /\ f.written = result.written
        /\ \A u \in Tenants : f.tenantStates[u] = l.tenantStates[u]
    BY <2>1, Finalizes DEF Own
  <2> HIDE DEF f
  <2>3. Apart(l) => Apart(f)
    BY <1>0, <2>1, <2>2 DEF Apart, Own, Contents, Lab
  <2>4. QED BY <1>0, <2>1, <2>2, <2>3 DEF f, Writers
<1>2. ASSUME NEW n \in Lab,
             n.tenantStates = l.tenantStates, Contents(n) \subseteq {t},
             \A u \in Tenants : n.state # l.tenantStates[u],
             \A u \in Tenants : l.tenantStates[u] # Nothing =>
                 n.written[l.tenantStates[u]] = l.written[l.tenantStates[u]]
      PROVE  Apart(l) => Apart(Finalized(n, t))
  <2> DEFINE f == Finalized(n, t)
  <2>1. /\ f \in Lab /\ f.written = n.written /\ f.tenantStates[t] = n.state
        /\ \A u \in Tenants : u # t => f.tenantStates[u] = l.tenantStates[u]
    BY <1>2, Finalizes
  <2> HIDE DEF f
  <2>2. Apart(l) => Apart(f)
    BY <1>2, <2>1 DEF Apart, Contents
  <2>3. QED BY <2>2 DEF f
<1>3. CASE result = WithState(l, {})
  <2>1. result \in Lab /\ Contents(result) = {}
    BY <1>3, NewState DEF Contents
  <2>2. /\ result.tenantStates = l.tenantStates
        /\ \A u \in Tenants : result.state # l.tenantStates[u]
        /\ \A u \in Tenants : l.tenantStates[u] # Nothing =>
                 result.written[l.tenantStates[u]] = l.written[l.tenantStates[u]]
    BY <1>3, NewState
  <2>3. Apart(l) => Apart(Finalized(result, t))
    BY <1>2, <2>1, <2>2
  <2>4. Finalized(result, t) \in Lab
    BY <2>1, Finalizes
  <2>5. QED BY <2>1, <2>3, <2>4
<1>4. CASE result = Wrote(WithState(l, Contents(l)), t)
  <2> DEFINE n == WithState(l, Contents(l))
  <2>1. /\ n \in Lab /\ n.tenantStates = l.tenantStates /\ Contents(n) = Contents(l)
        /\ \A u \in Tenants : n.state # l.tenantStates[u]
        /\ \A u \in Tenants : l.tenantStates[u] # Nothing =>
                 n.written[l.tenantStates[u]] = l.written[l.tenantStates[u]]
    BY <1>0, NewState DEF Contents
  <2> HIDE DEF n
  <2>2. /\ result \in Lab /\ result.tenantStates = l.tenantStates /\ result.state = n.state
        /\ Contents(result) = Contents(l) \cup {t}
        /\ \A o \in Objects : o # n.state => result.written[o] = n.written[o]
    BY <1>4, <2>1, Writes DEF n, Writers
  <2>3. \A u \in Tenants : l.tenantStates[u] # Nothing =>
                 result.written[l.tenantStates[u]] = l.written[l.tenantStates[u]]
    BY <2>1, <2>2 DEF Lab
  <2>4. Apart(l) => Contents(result) \subseteq {t}
    BY <1>0, <2>2
  <2>5. \A u \in Tenants : result.state # l.tenantStates[u]
    BY <2>1, <2>2
  <2>6. Apart(l) => Apart(Finalized(result, t))
    BY <1>2, <2>2, <2>3, <2>4, <2>5
  <2>7. Finalized(result, t) \in Lab
    BY <2>2, Finalizes
  <2>8. QED BY <1>0, <2>2, <2>4, <2>6, <2>7 DEF Writers
<1>5. QED BY <1>1, <1>3, <1>4 DEF RouteResults

-----------------------------------------------------------------------------
(* Sessions *)

SessionTable == [SessionIds -> AuthenticatedSession \cup {Nothing}]

\* There are finitely many sessions.
LEMMA FiniteSessions ==
  ASSUME NEW S \in SUBSET SessionIds
  PROVE  IsFiniteSet(S) /\ Cardinality(S) \in Nat
<1>1. MaxSessions + 1 \in Int /\ 1 \in Int
  BY SessionAssumption
<1>2. IsFiniteSet(SessionIds)
  BY <1>1, FS_Interval DEF SessionIds
<1>3. QED BY <1>2, FS_Subset, FS_CardinalityType

\* Fewer live sessions of the same principals keep the limits.
LEMMA FewerLive ==
  ASSUME NEW s \in SessionTable, NEW now \in Nat, NEW t \in SessionTable, NEW later \in Nat,
         Bounded(s, now), Live(t, later) \subseteq Live(s, now),
         \A id \in Live(t, later) : t[id].principal = s[id].principal
  PROVE  Bounded(t, later)
<1>1. Live(s, now) \in SUBSET SessionIds /\ Live(t, later) \in SUBSET SessionIds
  BY DEF Live, SessionTable
<1>2. ASSUME NEW A \in SUBSET SessionIds, NEW B \in SUBSET A, NEW n \in Nat, Cardinality(A) <= n
      PROVE  Cardinality(B) <= n
  <2>1. IsFiniteSet(A) /\ Cardinality(A) \in Nat /\ Cardinality(B) \in Nat
    BY <1>2, FiniteSessions
  <2>2. Cardinality(B) <= Cardinality(A)
    BY <2>1, FS_Subset
  <2>3. QED BY <1>2, <2>1, <2>2
<1>3. MaxSessions \in Nat /\ MaxSessionsPerPrincipal \in Nat
  BY SessionAssumption
<1>4. Cardinality(Live(t, later)) <= MaxSessions
  BY <1>1, <1>2, <1>3 DEF Bounded
<1>5. ASSUME NEW p \in Principals
      PROVE  Cardinality(LiveOf(t, later, p)) <= MaxSessionsPerPrincipal
  <2>1. LiveOf(t, later, p) \subseteq LiveOf(s, now, p) /\ LiveOf(s, now, p) \subseteq SessionIds
    BY <1>1 DEF LiveOf
  <2>2. QED BY <1>2, <1>3, <2>1 DEF Bounded
<1>6. QED BY <1>4, <1>5 DEF Bounded

\* Time ends sessions.
LEMMA TimeEnds ==
  ASSUME NEW s \in SessionTable, NEW now \in Nat, Bounded(s, now)
  PROVE  Bounded(s, now + 1)
<1>1. Live(s, now + 1) \subseteq Live(s, now)
  BY SessionAssumption DEF Live, Expired, SessionTable, AuthenticatedSession
<1>2. QED BY <1>1, FewerLive

\* A presented session is seen or deleted.
LEMMA Authenticates ==
  ASSUME NEW s \in SessionTable, NEW now \in Nat, NEW id \in SessionIds
  PROVE  /\ Authenticate(s, id, now) \in SessionTable
         /\ Bounded(s, now) => Bounded(Authenticate(s, id, now), now)
<1> DEFINE a == Authenticate(s, id, now)
<1>1. a \in SessionTable
  BY DEF Authenticate, Live, SessionTable, AuthenticatedSession
<1>2. Live(a, now) \subseteq Live(s, now)
  BY <1>1 DEF Authenticate, Live, SessionTable, AuthenticatedSession
<1>3. \A i \in Live(a, now) : a[i].principal = s[i].principal
  BY <1>2 DEF Authenticate, Live, SessionTable, AuthenticatedSession
<1> HIDE DEF a
<1>4. QED BY <1>1, <1>2, <1>3, FewerLive DEF a

\* A logout ends the session.
LEMMA Revokes ==
  ASSUME NEW s \in SessionTable, NEW now \in Nat, NEW id \in SessionIds
  PROVE  /\ Revoke(s, id) \in SessionTable
         /\ Bounded(s, now) => Bounded(Revoke(s, id), now)
<1> DEFINE a == Revoke(s, id)
<1>1. a \in SessionTable
  BY DEF Revoke, SessionTable
<1>2. Live(a, now) \subseteq Live(s, now)
  BY <1>1 DEF Revoke, Live, SessionTable
<1>3. \A i \in Live(a, now) : a[i].principal = s[i].principal
  BY <1>2 DEF Revoke, Live, SessionTable
<1> HIDE DEF a
<1>4. QED BY <1>1, <1>2, <1>3, FewerLive DEF a

\* #pruneExpired leaves the live sessions.
LEMMA Prunes ==
  ASSUME NEW s \in SessionTable, NEW now \in Nat
  PROVE  /\ Prune(s, now) \in SessionTable
         /\ Known(Prune(s, now)) = Live(s, now)
         /\ Live(Prune(s, now), now) = Live(s, now)
         /\ \A id \in Live(s, now) : Prune(s, now)[id] = s[id]
         /\ \A id \in SessionIds \ Live(s, now) : Prune(s, now)[id] = Nothing
         /\ \A p : {id \in Known(Prune(s, now)) : Prune(s, now)[id].principal = p}
                     = LiveOf(s, now, p)
         /\ Bounded(s, now) => Bounded(Prune(s, now), now)
<1> DEFINE a == Prune(s, now)
<1>1. /\ a \in SessionTable
      /\ \A id \in Live(s, now) : a[id] = s[id]
      /\ \A id \in SessionIds \ Live(s, now) : a[id] = Nothing
  BY DEF Prune, Live, SessionTable
<1>2. Live(s, now) \subseteq SessionIds /\ \A id \in Live(s, now) : s[id] # Nothing
  BY DEF Live, SessionTable
<1> HIDE DEF a
<1>3. Known(a) = Live(s, now)
  BY <1>1, <1>2 DEF Known, SessionTable
<1>4. Live(a, now) = Live(s, now)
  BY <1>1, <1>2 DEF Live, SessionTable
<1>5. \A p : {id \in Known(a) : a[id].principal = p} = LiveOf(s, now, p)
  BY <1>1, <1>3 DEF LiveOf
<1>6. Bounded(s, now) => Bounded(a, now)
  BY <1>1, <1>4, FewerLive
<1>7. QED BY <1>1, <1>3, <1>4, <1>5, <1>6 DEF a

\* A session is issued under an id that is free, below both limits.
LEMMA Issues ==
  ASSUME NEW s \in SessionTable, NEW now \in Nat, NEW p \in Principals,
         NEW operator \in BOOLEAN, NEW end \in Nat,
         ~LimitReached(Prune(s, now), p)
  PROVE  LET pruned == Prune(s, now)
             free == Min({id \in SessionIds : pruned[id] = Nothing})
             t == Issue(pruned, free, p, operator, now, end)
         IN t \in SessionTable /\ (Bounded(s, now) => Bounded(t, now))
<1> DEFINE pruned == Prune(s, now)
           unused == {i \in SessionIds : pruned[i] = Nothing}
           free == Min(unused)
           t == Issue(pruned, free, p, operator, now, end)
           live == Live(s, now)
<1>1. /\ pruned \in SessionTable /\ Known(pruned) = live /\ Live(pruned, now) = live
      /\ \A id \in live : pruned[id] = s[id]
      /\ \A id \in SessionIds \ live : pruned[id] = Nothing
      /\ \A q : {id \in Known(pruned) : pruned[id].principal = q} = LiveOf(s, now, q)
      /\ live \subseteq SessionIds
  BY Prunes DEF Live, SessionTable
<1>2. ~(Cardinality(live) >= MaxSessions)
      /\ ~(Cardinality(LiveOf(s, now, p)) >= MaxSessionsPerPrincipal)
  BY <1>1 DEF LimitReached
<1>3. MaxSessions \in Nat /\ MaxSessionsPerPrincipal \in Nat /\ MaxSessions + 1 \in Nat
  BY SessionAssumption
<1> HIDE DEF pruned, live
<1>4. unused # {}
  <2>1. SUFFICES ASSUME unused = {} PROVE FALSE
    OBVIOUS
  <2>2. SessionIds = live
    BY <1>1, <2>1
  <2>3. Cardinality(SessionIds) = MaxSessions + 1
    <3>1. 1 \in Int /\ MaxSessions + 1 \in Int /\ ~(1 > MaxSessions + 1)
          /\ (MaxSessions + 1) - 1 + 1 = MaxSessions + 1
      BY <1>3
    <3>2. QED BY <3>1, FS_Interval DEF SessionIds
  <2>4. QED BY <1>2, <1>3, <2>2, <2>3
<1>5. free \in SessionIds /\ pruned[free] = Nothing
  <2>1. unused \in SUBSET (1 .. MaxSessions + 1)
    BY DEF SessionIds
  <2>2. free \in unused
    <3> HIDE DEF unused
    <3> QED BY <1>3, <1>4, <2>1, Smallest
  <2>3. QED BY <2>2
<1> HIDE DEF free
<1> DEFINE new == [principal |-> p, operator |-> operator, lastSeenAt |-> now,
                   expiresAt |-> ExpiresAt(now, end)]
<1>6. ExpiresAt(now, end) \in Nat
  <2>1. now + AbsoluteTtl \in Nat
    BY SessionAssumption
  <2>2. QED BY <2>1, SmallerOfTwo DEF ExpiresAt
<1>7. t = [pruned EXCEPT ![free] = new] /\ new \in AuthenticatedSession /\ new.principal = p
  BY <1>6 DEF Issue, AuthenticatedSession
<1> HIDE DEF t, new
<1>8. t \in SessionTable
  BY <1>1, <1>5, <1>7 DEF SessionTable
<1>9. t[free] = new /\ \A i \in SessionIds \ {free} : t[i] = pruned[i]
  BY <1>1, <1>5, <1>7 DEF SessionTable
<1>10. Live(t, now) \subseteq live \cup {free}
  <2>1. \A i \in Live(t, now) : i # free => i \in Live(pruned, now)
    BY <1>1, <1>8, <1>9 DEF Live, SessionTable
  <2>2. QED BY <1>1, <2>1
<1>11. ASSUME Bounded(s, now) PROVE Bounded(t, now)
  <2>1. ASSUME NEW A \in SUBSET SessionIds, NEW B \in SUBSET (A \cup {free}), NEW n \in Nat,
               ~(Cardinality(A) >= n)
        PROVE  Cardinality(B) <= n
    <3>1. IsFiniteSet(A) /\ Cardinality(A) \in Nat /\ Cardinality(A) + 1 <= n
      BY <2>1, FiniteSessions
    <3>2. IsFiniteSet(A \cup {free}) /\ Cardinality(A \cup {free}) <= n
          /\ Cardinality(A \cup {free}) \in Nat
      <4>1. /\ IsFiniteSet(A \cup {free})
            /\ \/ Cardinality(A \cup {free}) = Cardinality(A)
               \/ Cardinality(A \cup {free}) = Cardinality(A) + 1
        BY <3>1, FS_AddElement
      <4>2. QED BY <2>1, <3>1, <4>1
    <3>3. IsFiniteSet(B) /\ Cardinality(B) <= Cardinality(A \cup {free})
      BY <2>1, <3>2, FS_Subset
    <3>4. Cardinality(B) \in Nat
      BY <3>3, FS_CardinalityType
    <3>5. QED BY <2>1, <3>2, <3>3, <3>4
  <2>2. Cardinality(Live(t, now)) <= MaxSessions
    BY <1>1, <1>2, <1>3, <1>10, <2>1
  <2>3. ASSUME NEW q \in Principals
        PROVE  Cardinality(LiveOf(t, now, q)) <= MaxSessionsPerPrincipal
    <3>1. LiveOf(s, now, q) \in SUBSET SessionIds
      BY <1>1 DEF LiveOf, live
    <3>2. \A i \in Live(t, now) : i # free => i \in live /\ t[i] = s[i]
      BY <1>1, <1>9, <1>10
    <3>3. CASE q = p
      <4>1. LiveOf(t, now, q) \subseteq LiveOf(s, now, q) \cup {free}
        BY <3>2 DEF LiveOf, live
      <4>2. QED BY <1>2, <1>3, <2>1, <3>1, <3>3, <4>1
    <3>4. CASE q # p
      <4>1. LiveOf(t, now, q) \subseteq LiveOf(s, now, q)
        BY <1>7, <1>9, <3>2, <3>4 DEF LiveOf, live
      <4>2. /\ IsFiniteSet(LiveOf(s, now, q)) /\ Cardinality(LiveOf(s, now, q)) \in Nat
            /\ Cardinality(LiveOf(s, now, q)) <= MaxSessionsPerPrincipal
        BY <1>11, <3>1, FiniteSessions DEF Bounded
      <4>3. /\ Cardinality(LiveOf(t, now, q)) <= Cardinality(LiveOf(s, now, q))
            /\ Cardinality(LiveOf(t, now, q)) \in Nat
        BY <4>1, <4>2, FS_Subset, FS_CardinalityType
      <4>4. QED BY <1>3, <4>2, <4>3
    <3>5. QED BY <3>3, <3>4
  <2>4. QED BY <2>2, <2>3 DEF Bounded
<1>12. QED BY <1>8, <1>11 DEF t, free, pruned

-----------------------------------------------------------------------------
(* Buckets *)

\* A bucket refills up to its capacity.
LEMMA Refills ==
  ASSUME NEW b \in Bucket, NEW now \in Nat, b.updated <= now
  PROVE  /\ b.tokens + Refill * (now - b.updated) \in Nat
         /\ Refilled(b, now) = IF Capacity <= b.tokens + Refill * (now - b.updated) THEN Capacity
                               ELSE b.tokens + Refill * (now - b.updated)
         /\ Refilled(b, now) \in 0 .. Capacity
<1>1. Capacity \in Nat /\ Refill \in Nat
  BY LimiterAssumption
<1>2. b.tokens \in 0 .. Capacity /\ b.updated \in Nat
  BY DEF Bucket
<1>3. now - b.updated \in Nat
  BY <1>2
<1>4. Refill * (now - b.updated) \in Nat
  BY <1>1, <1>3
<1>5. b.tokens + Refill * (now - b.updated) \in Nat
  BY <1>1, <1>2, <1>4
<1>6. Refilled(b, now) = IF Capacity <= b.tokens + Refill * (now - b.updated) THEN Capacity
                         ELSE b.tokens + Refill * (now - b.updated)
  BY <1>1, <1>5, SmallerOfTwo DEF Refilled
<1>7. QED BY <1>1, <1>5, <1>6

\* One step of time refills a bucket by Refill, however long it was left alone.
LEMMA RefillsInSteps ==
  ASSUME NEW b \in Bucket, NEW now \in Nat, b.updated <= now,
         NEW later \in Nat, later = now + 1
  PROVE  Refilled(b, later) = Min({Capacity, Refilled(b, now) + Refill})
<1> DEFINE d == now - b.updated
           x == b.tokens + Refill * d
           y == b.tokens + Refill * (later - b.updated)
<1>1. Capacity \in Nat /\ Refill \in Nat /\ b.updated \in Nat /\ d \in Nat /\ b.tokens \in Nat
  BY LimiterAssumption DEF Bucket
<1>2. x \in Nat /\ Refilled(b, now) = IF Capacity <= x THEN Capacity ELSE x
  BY Refills
<1>3. y = x + Refill
  <2>1. later - b.updated = d + 1
    BY <1>1
  <2> HIDE DEF d
  <2>2. Refill * (d + 1) = Refill * d + Refill
    BY <1>1
  <2>3. Refill * d \in Nat
    BY <1>1
  <2>4. QED BY <1>1, <2>1, <2>2, <2>3
<1>4. Refilled(b, later) = IF Capacity <= y THEN Capacity ELSE y
  <2>1. b.updated <= later
    BY <1>1
  <2>2. QED BY <2>1, Refills
<1> HIDE DEF x, y
<1>5. Min({Capacity, Refilled(b, now) + Refill})
        = IF Capacity <= Refilled(b, now) + Refill THEN Capacity ELSE Refilled(b, now) + Refill
  <2>1. Refilled(b, now) + Refill \in Nat
    BY <1>1, <1>2
  <2>2. QED BY <1>1, <2>1, SmallerOfTwo
<1>6. QED BY <1>1, <1>2, <1>3, <1>4, <1>5

\* Map.delete: the buckets after it move up.
LEMMA Removal ==
  ASSUME NEW b \in Seq(Bucket), NEW i \in 1 .. Len(b)
  PROVE  /\ RemoveAt(b, i) \in Seq(Bucket)
         /\ Len(RemoveAt(b, i)) = Len(b) - 1
         /\ \A j \in 1 .. Len(b) - 1 : RemoveAt(b, i)[j] = IF j < i THEN b[j] ELSE b[j + 1]
<1> DEFINE front == SubSeq(b, 1, i - 1)
           back == SubSeq(b, i + 1, Len(b))
<1>1. /\ front \in Seq(Bucket) /\ Len(front) = i - 1
      /\ \A j \in 1 .. i - 1 : front[j] = b[j]
  OBVIOUS
<1>2. /\ back \in Seq(Bucket) /\ Len(back) = Len(b) - i
      /\ \A j \in 1 .. Len(b) - i : back[j] = b[i + j]
  OBVIOUS
<1>3. RemoveAt(b, i) = front \o back
  BY DEF RemoveAt
<1> HIDE DEF front, back
<1>4. front \o back \in Seq(Bucket) /\ Len(front \o back) = Len(b) - 1
  <2>0. front \in Seq(Bucket) /\ back \in Seq(Bucket)
    BY <1>1, <1>2
  <2>1. front \o back \in Seq(Bucket) /\ Len(front \o back) = Len(front) + Len(back)
    BY <2>0
  <2>2. (i - 1) + (Len(b) - i) = Len(b) - 1
    OBVIOUS
  <2>3. QED BY <1>1, <1>2, <2>1, <2>2
<1>5. ASSUME NEW j \in 1 .. Len(b) - 1
      PROVE  (front \o back)[j] = IF j < i THEN b[j] ELSE b[j + 1]
  <2>1. CASE j < i
    BY <1>1, <1>2, <2>1
  <2>2. CASE ~(j < i)
    <3>1. (front \o back)[j] = back[j - (i - 1)]
      BY <1>1, <1>2, <2>2
    <3>2. j - (i - 1) \in 1 .. Len(b) - i /\ i + (j - (i - 1)) = j + 1
      BY <2>2
    <3>3. QED BY <1>2, <2>2, <3>1, <3>2
  <2>3. QED BY <2>1, <2>2
<1>6. QED BY <1>3, <1>4, <1>5

\* A client's bucket is found wherever it stands.
LEMMA TokensAt ==
  ASSUME NEW b \in Seq(Bucket), OneEach(b), NEW now \in Nat, NEW i \in 1 .. Len(b)
  PROVE  /\ Tracked(b, b[i].key) /\ Place(b, b[i].key) = i
         /\ TokensOf(b, b[i].key, now) = Refilled(b[i], now)
<1>1. DOMAIN b = 1 .. Len(b)
  OBVIOUS
<1>2. Tracked(b, b[i].key)
  BY <1>1 DEF Tracked
<1>3. Place(b, b[i].key) = i
  <2>1. Place(b, b[i].key) \in DOMAIN b /\ b[Place(b, b[i].key)].key = b[i].key
    BY <1>1 DEF Place
  <2>2. QED BY <1>1, <2>1 DEF OneEach
<1>4. QED BY <1>2, <1>3 DEF TokensOf

\* The level of a client is between nothing and the capacity.
LEMMA Levels ==
  ASSUME NEW b \in Seq(Bucket), OneEach(b), NEW now \in Nat, Fresh(b, now), NEW key
  PROVE  TokensOf(b, key, now) \in 0 .. Capacity
<1>1. CASE Tracked(b, key)
  <2>1. PICK i \in 1 .. Len(b) : b[i].key = key
    BY <1>1 DEF Tracked
  <2>2. b[i] \in Bucket /\ b[i].updated <= now
    BY <2>1 DEF Fresh
  <2>3. QED BY <2>1, <2>2, TokensAt, Refills
<1>2. CASE ~Tracked(b, key)
  BY <1>2, LimiterAssumption DEF TokensOf
<1>3. QED BY <1>1, <1>2

\* Only the client whose bucket is removed notices.
LEMMA RemovalKeeps ==
  ASSUME NEW b \in Seq(Bucket), OneEach(b), NEW now \in Nat, Fresh(b, now),
         NEW i \in 1 .. Len(b)
  PROVE  LET r == RemoveAt(b, i)
         IN /\ r \in Seq(Bucket) /\ OneEach(r) /\ Fresh(r, now)
            /\ ~Tracked(r, b[i].key)
            /\ \A k : k # b[i].key =>
                 /\ Tracked(r, k) <=> Tracked(b, k)
                 /\ TokensOf(r, k, now) = TokensOf(b, k, now)
<1> DEFINE r == RemoveAt(b, i)
           From(j) == IF j < i THEN j ELSE j + 1
<1>1. /\ r \in Seq(Bucket) /\ Len(r) = Len(b) - 1
      /\ \A j \in 1 .. Len(r) : r[j] = b[From(j)]
      /\ \A j \in 1 .. Len(r) : From(j) \in 1 .. Len(b) /\ From(j) # i
      /\ \A j, k \in 1 .. Len(r) : From(j) = From(k) => j = k
      /\ \A m \in 1 .. Len(b) : m # i => \E j \in 1 .. Len(r) : From(j) = m
  <2>1. Len(b) \in Nat /\ i \in Nat /\ Len(r) = Len(b) - 1 /\ r \in Seq(Bucket)
    BY Removal
  <2>2. \A j \in 1 .. Len(r) : r[j] = b[From(j)]
    BY <2>1, Removal
  <2> HIDE DEF r
  <2>3. /\ \A j \in 1 .. Len(r) : From(j) \in 1 .. Len(b) /\ From(j) # i
        /\ \A j, k \in 1 .. Len(r) : From(j) = From(k) => j = k
    BY <2>1
  <2>4. ASSUME NEW m \in 1 .. Len(b), m # i
        PROVE  \E j \in 1 .. Len(r) : From(j) = m
    <3>1. CASE m < i
      BY <2>1, <3>1
    <3>2. CASE m > i
      <4>1. m - 1 \in 1 .. Len(r) /\ From(m - 1) = m
        BY <2>1, <3>2
      <4>2. QED BY <4>1
    <3>3. QED BY <2>1, <2>4, <3>1, <3>2
  <2>5. QED BY <2>1, <2>2, <2>3, <2>4
<1> HIDE DEF r, From
<1>2. DOMAIN r = 1 .. Len(r) /\ DOMAIN b = 1 .. Len(b)
  BY <1>1
<1>3. OneEach(r) /\ Fresh(r, now) /\ ~Tracked(r, b[i].key)
  <2>1. OneEach(r)
    <3>1. SUFFICES ASSUME NEW j \in 1 .. Len(r), NEW k \in 1 .. Len(r), r[j].key = r[k].key
                   PROVE  j = k
      BY <1>2 DEF OneEach
    <3>2. /\ b[From(j)].key = b[From(k)].key
          /\ From(j) \in DOMAIN b /\ From(k) \in DOMAIN b
      BY <1>1, <1>2, <3>1
    <3>3. From(j) = From(k)
      BY <3>2 DEF OneEach
    <3>4. QED BY <1>1, <3>3
  <2>2. Fresh(r, now)
    BY <1>1, <1>2 DEF Fresh
  <2>3. ~Tracked(r, b[i].key)
    <3>1. SUFFICES ASSUME NEW j \in 1 .. Len(r), r[j].key = b[i].key PROVE FALSE
      BY <1>2 DEF Tracked
    <3>2. From(j) \in DOMAIN b /\ From(j) # i /\ b[From(j)].key = b[i].key
      BY <1>1, <1>2, <3>1
    <3>3. QED BY <1>2, <3>2 DEF OneEach
  <2>4. QED BY <2>1, <2>2, <2>3
<1>4. ASSUME NEW k, k # b[i].key
      PROVE  /\ Tracked(r, k) <=> Tracked(b, k)
             /\ TokensOf(r, k, now) = TokensOf(b, k, now)
  <2>1. Tracked(r, k) <=> Tracked(b, k)
    <3>1. Tracked(r, k) => Tracked(b, k)
      BY <1>1, <1>2 DEF Tracked
    <3>2. ASSUME Tracked(b, k) PROVE Tracked(r, k)
      <4>1. PICK m \in 1 .. Len(b) : b[m].key = k
        BY <1>2, <3>2 DEF Tracked
      <4>2. m # i
        BY <1>4, <4>1
      <4>3. PICK j \in 1 .. Len(r) : From(j) = m
        BY <1>1, <4>2
      <4>4. QED BY <1>1, <1>2, <4>1, <4>3 DEF Tracked
    <3>3. QED BY <3>1, <3>2
  <2>2. CASE Tracked(r, k)
    <3>1. PICK j \in 1 .. Len(r) : r[j].key = k
      BY <1>2, <2>2 DEF Tracked
    <3>2. From(j) \in 1 .. Len(b) /\ b[From(j)] = r[j]
      BY <1>1, <3>1
    <3>3. TokensOf(r, k, now) = Refilled(r[j], now)
      BY <1>1, <1>3, <3>1, TokensAt
    <3>4. TokensOf(b, k, now) = Refilled(b[From(j)], now)
      BY <3>1, <3>2, TokensAt
    <3>5. QED BY <2>1, <3>2, <3>3, <3>4
  <2>3. CASE ~Tracked(r, k)
    BY <2>1, <2>3 DEF TokensOf
  <2>4. QED BY <2>1, <2>2, <2>3
<1>5. QED BY <1>1, <1>3, <1>4 DEF r

\* A bucket at the back of the table is the one bucket of its client.
LEMMA AppendKeeps ==
  ASSUME NEW b \in Seq(Bucket), OneEach(b), NEW now \in Nat, Fresh(b, now),
         NEW new \in Bucket, ~Tracked(b, new.key), new.updated <= now
  PROVE  LET a == Append(b, new)
         IN /\ a \in Seq(Bucket) /\ OneEach(a) /\ Fresh(a, now)
            /\ TokensOf(a, new.key, now) = Refilled(new, now)
            /\ \A k : k # new.key => TokensOf(a, k, now) = TokensOf(b, k, now)
<1> DEFINE a == Append(b, new)
<1>1. /\ a \in Seq(Bucket) /\ Len(a) = Len(b) + 1 /\ a[Len(b) + 1] = new
      /\ \A j \in 1 .. Len(b) : a[j] = b[j]
      /\ DOMAIN a = 1 .. Len(b) + 1 /\ DOMAIN b = 1 .. Len(b)
      /\ Len(b) \in Nat
  OBVIOUS
<1> HIDE DEF a
<1>2. \A j \in 1 .. Len(b) : b[j].key # new.key
  BY <1>1 DEF Tracked
<1>3. OneEach(a)
  <2>1. SUFFICES ASSUME NEW i \in 1 .. Len(b) + 1, NEW j \in 1 .. Len(b) + 1,
                        a[i].key = a[j].key
                 PROVE  i = j
    BY <1>1 DEF OneEach
  <2>2. CASE i \in 1 .. Len(b) /\ j \in 1 .. Len(b)
    BY <1>1, <2>1, <2>2 DEF OneEach
  <2>3. CASE i = Len(b) + 1 /\ j \in 1 .. Len(b)
    BY <1>1, <1>2, <2>1, <2>3
  <2>4. CASE i \in 1 .. Len(b) /\ j = Len(b) + 1
    BY <1>1, <1>2, <2>1, <2>4
  <2>5. CASE i = Len(b) + 1 /\ j = Len(b) + 1
    BY <2>5
  <2>6. \A n \in 1 .. Len(b) + 1 : n \in 1 .. Len(b) \/ n = Len(b) + 1
    BY <1>1
  <2>7. QED BY <2>2, <2>3, <2>4, <2>5, <2>6
<1>4. Fresh(a, now)
  <2>1. SUFFICES ASSUME NEW i \in 1 .. Len(b) + 1 PROVE a[i].updated <= now
    BY <1>1 DEF Fresh
  <2>2. CASE i = Len(b) + 1
    BY <1>1, <2>2
  <2>3. CASE i \in 1 .. Len(b)
    BY <1>1, <2>3 DEF Fresh
  <2>4. QED BY <1>1, <2>2, <2>3
<1>5. TokensOf(a, new.key, now) = Refilled(new, now)
  <2>1. Len(b) + 1 \in 1 .. Len(a)
    BY <1>1
  <2>2. QED BY <1>1, <1>3, <2>1, TokensAt
<1>6. ASSUME NEW k, k # new.key
      PROVE  TokensOf(a, k, now) = TokensOf(b, k, now)
  <2>1. CASE Tracked(b, k)
    <3>1. PICK i \in 1 .. Len(b) : b[i].key = k
      BY <1>1, <2>1 DEF Tracked
    <3>2. i \in 1 .. Len(a) /\ a[i] = b[i]
      BY <1>1
    <3>3. TokensOf(a, k, now) = Refilled(a[i], now)
      BY <1>1, <1>3, <3>1, <3>2, TokensAt
    <3>4. TokensOf(b, k, now) = Refilled(b[i], now)
      BY <3>1, TokensAt
    <3>5. QED BY <3>2, <3>3, <3>4
  <2>2. CASE ~Tracked(b, k)
    <3>1. ~Tracked(a, k)
      <4>1. SUFFICES ASSUME NEW i \in 1 .. Len(b) + 1, a[i].key = k PROVE FALSE
        BY <1>1 DEF Tracked
      <4>2. i \in 1 .. Len(b) \/ i = Len(b) + 1
        BY <1>1
      <4>3. QED BY <1>1, <1>6, <2>2, <4>1, <4>2 DEF Tracked
    <3>2. QED BY <2>2, <3>1 DEF TokensOf
  <2>3. QED BY <2>1, <2>2
<1>7. QED BY <1>1, <1>3, <1>4, <1>5, <1>6 DEF a

\* A table made ready for the client keeps every level: the bucket that is
\* evicted is full, and a client without a bucket has a full one.
LEMMA AdmittedKeeps ==
  ASSUME NEW b \in Seq(Bucket), OneEach(b), NEW now \in Nat, Fresh(b, now),
         NEW key, ~Refuses(b, key, now)
  PROVE  LET a == Admitted(b, key, now)
         IN /\ a \in Seq(Bucket) /\ OneEach(a) /\ Fresh(a, now)
            /\ \A k : TokensOf(a, k, now) = TokensOf(b, k, now)
<1>1. CASE Tracked(b, key) \/ Len(b) < MaxClients
  BY <1>1 DEF Admitted
<1>2. CASE ~(Tracked(b, key) \/ Len(b) < MaxClients)
  <2> DEFINE E == Evictable(b, now)
             i == Min(E)
  <2>1. E # {} /\ E \in SUBSET (1 .. Len(b)) /\ Len(b) \in Nat
    BY <1>2, LimiterAssumption DEF Refuses, Evictable
  <2>2. i \in E
    <3> HIDE DEF E
    <3> QED BY <2>1, Smallest
  <2>3. i \in 1 .. Len(b) /\ Refilled(b[i], now) >= Capacity
    BY <2>2 DEF Evictable
  <2>4. Admitted(b, key, now) = RemoveAt(b, i)
    BY <1>2 DEF Admitted
  <2> HIDE DEF i, E
  <2>5. b[i] \in Bucket /\ b[i].updated <= now
    BY <2>3 DEF Fresh
  <2>6. Refilled(b[i], now) = Capacity
    BY <2>3, <2>5, Refills, LimiterAssumption
  <2> DEFINE r == RemoveAt(b, i)
  <2>7. /\ r \in Seq(Bucket) /\ OneEach(r) /\ Fresh(r, now)
        /\ ~Tracked(r, b[i].key)
        /\ \A k : k # b[i].key => TokensOf(r, k, now) = TokensOf(b, k, now)
    BY <2>3, RemovalKeeps
  <2>8. TokensOf(r, b[i].key, now) = TokensOf(b, b[i].key, now)
    <3>1. TokensOf(r, b[i].key, now) = Capacity
      BY <2>7 DEF TokensOf
    <3>2. TokensOf(b, b[i].key, now) = Capacity
      BY <2>3, <2>6, TokensAt
    <3>3. QED BY <3>1, <3>2
  <2> HIDE DEF r
  <2>9. QED BY <2>4, <2>7, <2>8 DEF r
<1>3. QED BY <1>1, <1>2

\* Without a client's bucket the others' levels are as before.
LEMMA WithoutKeeps ==
  ASSUME NEW b \in Seq(Bucket), OneEach(b), NEW now \in Nat, Fresh(b, now), NEW key
  PROVE  LET w == Without(b, key)
         IN /\ w \in Seq(Bucket) /\ OneEach(w) /\ Fresh(w, now) /\ ~Tracked(w, key)
            /\ \A k : k # key => TokensOf(w, k, now) = TokensOf(b, k, now)
<1>1. CASE Tracked(b, key)
  <2>1. PICK i \in 1 .. Len(b) : b[i].key = key
    BY <1>1 DEF Tracked
  <2>2. Without(b, key) = RemoveAt(b, i)
    BY <1>1, <2>1, TokensAt DEF Without
  <2>3. QED BY <2>1, <2>2, RemovalKeeps
<1>2. CASE ~Tracked(b, key)
  BY <1>2 DEF Without
<1>3. QED BY <1>1, <1>2

\* take: the client pays with a token if there is one, and nobody else notices.
LEMMA Takes ==
  ASSUME NEW b \in Seq(Bucket), OneEach(b), NEW now \in Nat, Fresh(b, now),
         NEW key \in ClientKeys
  PROVE  LET t == Take(b, key, now)
         IN /\ t \in Seq(Bucket) /\ OneEach(t) /\ Fresh(t, now)
            /\ \A k : k # key => TokensOf(t, k, now) = TokensOf(b, k, now)
            /\ TokensOf(t, key, now) = IF Allows(b, key, now) THEN TokensOf(b, key, now) - 1
                                       ELSE TokensOf(b, key, now)
<1>1. CASE Refuses(b, key, now)
  BY <1>1 DEF Take, Allows
<1>2. CASE ~Refuses(b, key, now)
  <2> DEFINE tokens == TokensOf(b, key, now)
             left == IF tokens >= 1 THEN tokens - 1 ELSE tokens
             a == Admitted(b, key, now)
             rest == Without(a, key)
             new == [key |-> key, updated |-> now, tokens |-> left]
  <2>1. tokens \in 0 .. Capacity
    BY Levels
  <2>2. Take(b, key, now) = Append(rest, new)
    BY <1>2 DEF Take
  <2>3. Allows(b, key, now) <=> tokens >= 1
    BY <1>2 DEF Allows
  <2> HIDE DEF tokens
  <2>4. left \in 0 .. Capacity
    BY <2>1, LimiterAssumption
  <2>5. /\ new \in Bucket /\ new.key = key /\ new.updated = now /\ new.tokens = left
        /\ new.updated <= now
    BY <2>4 DEF Bucket
  <2>6. /\ a \in Seq(Bucket) /\ OneEach(a) /\ Fresh(a, now)
        /\ \A k : TokensOf(a, k, now) = TokensOf(b, k, now)
    BY <1>2, AdmittedKeeps
  <2> HIDE DEF a
  <2>7. /\ rest \in Seq(Bucket) /\ OneEach(rest) /\ Fresh(rest, now) /\ ~Tracked(rest, key)
        /\ \A k : k # key => TokensOf(rest, k, now) = TokensOf(a, k, now)
    BY <2>6, WithoutKeeps
  <2> HIDE DEF rest
  <2>8. Refilled(new, now) = left
    <3>1. Capacity \in Nat /\ Refill \in Nat /\ left \in Nat /\ left <= Capacity
      BY <2>4, LimiterAssumption
    <3>2. now - now = 0 /\ Refill * 0 = 0 /\ left + 0 = left
      BY <3>1
    <3>3. left + Refill * (now - now) = left
      BY <3>2
    <3> HIDE DEF new, left
    <3>4. Refilled(new, now) = IF Capacity <= left THEN Capacity ELSE left
      BY <2>5, <3>3, Refills
    <3>5. QED BY <3>1, <3>4
  <2> HIDE DEF new
  <2> DEFINE t == Append(rest, new)
  <2>9. /\ t \in Seq(Bucket) /\ OneEach(t) /\ Fresh(t, now)
        /\ TokensOf(t, key, now) = left
        /\ \A k : k # key => TokensOf(t, k, now) = TokensOf(rest, k, now)
    BY <2>5, <2>7, <2>8, AppendKeeps
  <2> HIDE DEF t
  <2>10. QED BY <2>2, <2>3, <2>6, <2>7, <2>9 DEF t, tokens
<1>3. QED BY <1>1, <1>2

\* Time fills every client's bucket, the ones that are not in the table too.
LEMMA TimeFills ==
  ASSUME NEW b \in Seq(Bucket), OneEach(b), NEW now \in Nat, Fresh(b, now), NEW key,
         NEW later \in Nat, later = now + 1
  PROVE  /\ Fresh(b, later)
         /\ TokensOf(b, key, later) = Min({Capacity, TokensOf(b, key, now) + Refill})
<1>1. Fresh(b, later)
  <2>1. SUFFICES ASSUME NEW i \in 1 .. Len(b) PROVE b[i].updated <= later
    BY DEF Fresh
  <2>2. b[i].updated \in Nat /\ b[i].updated <= now
    <3>1. b[i] \in Bucket /\ i \in DOMAIN b
      OBVIOUS
    <3>2. QED BY <3>1 DEF Bucket, Fresh
  <2>3. QED BY <2>2
<1>2. CASE Tracked(b, key)
  <2>1. PICK i \in 1 .. Len(b) : b[i].key = key
    BY <1>2 DEF Tracked
  <2>2. b[i] \in Bucket /\ b[i].updated <= now
    BY <2>1 DEF Fresh
  <2>3. /\ TokensOf(b, key, now) = Refilled(b[i], now)
        /\ TokensOf(b, key, later) = Refilled(b[i], later)
    BY <2>1, TokensAt
  <2>4. Refilled(b[i], later) = Min({Capacity, Refilled(b[i], now) + Refill})
    BY <2>2, RefillsInSteps
  <2>5. QED BY <1>1, <2>3, <2>4
<1>3. CASE ~Tracked(b, key)
  <2>1. TokensOf(b, key, now) = Capacity /\ TokensOf(b, key, later) = Capacity
    BY <1>3 DEF TokensOf
  <2>2. Capacity \in Nat /\ Capacity + Refill \in Nat /\ Capacity <= Capacity + Refill
    BY LimiterAssumption
  <2>3. Min({Capacity, Capacity + Refill}) = Capacity
    <3> DEFINE more == Capacity + Refill
    <3> HIDE DEF more
    <3>1. Min({Capacity, more}) = IF Capacity <= more THEN Capacity ELSE more
      BY <2>2, SmallerOfTwo DEF more
    <3>2. QED BY <2>2, <3>1 DEF more
  <2>4. QED BY <1>1, <2>1, <2>3
<1>4. QED BY <1>2, <1>3

-----------------------------------------------------------------------------
(* Requests *)

\* A request that has only been admitted, perhaps for a principal.
LEMMA Admissions ==
  /\ Idle \in Request /\ WellFormed(Idle) /\ ~Idle.held /\ Idle.phase = "idle"
  /\ Idle.shown = {} /\ ~Idle.limited
  /\ Admission \in Request /\ Admission.held /\ Admission.phase = "idle"
  /\ Admission.shown = {} /\ ~Admission.limited
BY DEF Idle, Request, WellFormed, Admission

LEMMA AdmissionFor ==
  ASSUME GatewayTypeOK, NEW id \in Live(sessions, clock)
  PROVE  /\ id \in SessionIds /\ sessions[id].principal \in Principals
         /\ TenantOfSession(id) \in Tenants
         /\ ForPrincipal(id) \in Request /\ ForPrincipal(id).held
         /\ ForPrincipal(id).shown = {} /\ ~ForPrincipal(id).limited
         /\ ForPrincipal(id).principal = sessions[id].principal
         /\ ForPrincipal(id).phase = "idle"
<1>1. id \in SessionIds /\ sessions[id] \in AuthenticatedSession
  BY DEF Live, GatewayTypeOK
<1>2. sessions[id].principal \in Principals
  BY <1>1 DEF AuthenticatedSession
<1>3. TenantOfSession(id) \in Tenants
  BY <1>2, GatewayAssumption DEF TenantOfSession
<1>4. QED BY <1>1, <1>2, <1>3, Admissions DEF ForPrincipal, Request

\* An answered request.
LEMMA Answers ==
  ASSUME NEW req \in Request, NEW shown \in SUBSET Writers
  PROVE  LET a == Answered(req, shown)
         IN /\ a \in Request /\ WellFormed(a) /\ a.phase = "answered"
            /\ a.held = req.held /\ a.shown = shown /\ a.limited = req.limited
            /\ a.principal = IF shown = {} THEN Nothing ELSE req.principal
BY DEF Answered, Request, WellFormed

\* The streams of a broadcast keep everything but what they show.
LEMMA Broadcasts ==
  ASSUME GatewayTypeOK, NEW l \in Lab, NEW t \in Tenants, Contents(l) \in SUBSET Writers,
         NEW r \in Connections
  PROVE  LET b == Broadcast(request, l, t)[r]
         IN /\ b \in Request /\ (WellFormed(request[r]) => WellFormed(b))
            /\ b.phase = request[r].phase /\ b.held = request[r].held
            /\ b.client = request[r].client /\ b.principal = request[r].principal
            /\ b.limited = request[r].limited
            /\ b.shown = IF ListenerFor(r, t) THEN Contents(l) ELSE request[r].shown
<1>1. request[r] \in Request
  BY DEF GatewayTypeOK
<1>2. CASE ListenerFor(r, t)
  <2>1. Broadcast(request, l, t)[r] = [request[r] EXCEPT !.shown = Contents(l)]
    BY <1>2 DEF Broadcast
  <2>2. request[r].phase = "streaming"
    BY <1>2 DEF ListenerFor
  <2>3. QED BY <1>1, <1>2, <2>1, <2>2 DEF Request, WellFormed, Idle
<1>3. CASE ~ListenerFor(r, t)
  <2>1. Broadcast(request, l, t)[r] = request[r]
    BY <1>3 DEF Broadcast
  <2>2. QED BY <1>1, <1>3, <2>1
<1>4. QED BY <1>2, <1>3

\* Contents are tenants.
LEMMA ContentsType ==
  ASSUME NEW l \in Lab
  PROVE  Contents(l) \in SUBSET Writers
BY DEF Contents, Lab

-----------------------------------------------------------------------------
(* Counters *)

Held == {r \in Connections : request[r].held}
ListenersOf(k) == {r \in Listeners : request[r].client = k}

\* The requests on other connections stay as they are, but for what is broadcast
\* to them.
OthersStay(r) ==
  /\ request' \in [Connections -> Request]
  /\ \A x \in Connections : WellFormed(request'[x])
  /\ \A x \in Connections \ {r} :
       /\ request'[x].held = request[x].held /\ request'[x].phase = request[x].phase
       /\ request'[x].client = request[x].client
       /\ request'[x].principal = request[x].principal
       /\ request'[x].limited = request[x].limited

\* One request at a time enters or leaves what is counted.
LEMMA CountStep ==
  ASSUME NEW r \in Connections, request \in [Connections -> Request], OthersStay(r)
  PROVE  /\ Cardinality(Held) \in Nat /\ Cardinality(Held)' \in Nat
         /\ Cardinality(Held)' + One(request[r].held) = Cardinality(Held) + One(request'[r].held)
         /\ Cardinality(Listeners) \in Nat /\ Cardinality(Listeners)' \in Nat
         /\ Cardinality(Listeners)' + One(request[r].phase = "streaming")
              = Cardinality(Listeners) + One(request'[r].phase = "streaming")
         /\ \A k : /\ Cardinality(ListenersOf(k)) \in Nat /\ Cardinality(ListenersOf(k)') \in Nat
                   /\ Cardinality(ListenersOf(k)')
                        + One(request[r].phase = "streaming" /\ request[r].client = k)
                      = Cardinality(ListenersOf(k))
                        + One(request'[r].phase = "streaming" /\ request'[r].client = k)
<1>1. ASSUME NEW S \in SUBSET Connections PROVE IsFiniteSet(S)
  BY GatewayAssumption, FS_Subset
<1>2. /\ Held \in SUBSET Connections /\ Held' \ {r} = Held \ {r}
      /\ r \in Held <=> request[r].held
      /\ r \in Held' <=> request'[r].held
  BY DEF Held, OthersStay
<1>3. /\ Listeners \in SUBSET Connections /\ Listeners' \ {r} = Listeners \ {r}
      /\ r \in Listeners <=> request[r].phase = "streaming"
      /\ r \in Listeners' <=> request'[r].phase = "streaming"
  BY DEF Listeners, OthersStay
<1>4. ASSUME NEW k
      PROVE  /\ ListenersOf(k) \in SUBSET Connections /\ ListenersOf(k)' \ {r} = ListenersOf(k) \ {r}
             /\ r \in ListenersOf(k) <=> request[r].phase = "streaming" /\ request[r].client = k
             /\ r \in ListenersOf(k)' <=> request'[r].phase = "streaming" /\ request'[r].client = k
  BY DEF Listeners, ListenersOf, OthersStay
<1>5. ASSUME NEW S \in SUBSET Connections, NEW T, T \ {r} = S \ {r}
      PROVE  /\ Cardinality(S) \in Nat /\ Cardinality(T) \in Nat
             /\ Cardinality(T) + One(r \in S) = Cardinality(S) + One(r \in T)
  BY <1>1, <1>5, CountChanges
<1>6. \A b, c \in BOOLEAN : (b <=> c) => One(b) = One(c)
  BY DEF One
<1>7. /\ Cardinality(Held) \in Nat /\ Cardinality(Held)' \in Nat
      /\ Cardinality(Held)' + One(request[r].held) = Cardinality(Held) + One(request'[r].held)
  BY <1>2, <1>5 DEF One
<1>8. /\ Cardinality(Listeners) \in Nat /\ Cardinality(Listeners)' \in Nat
      /\ Cardinality(Listeners)' + One(request[r].phase = "streaming")
              = Cardinality(Listeners) + One(request'[r].phase = "streaming")
  BY <1>3, <1>5 DEF One
<1>9. ASSUME NEW k
      PROVE  /\ Cardinality(ListenersOf(k)) \in Nat /\ Cardinality(ListenersOf(k)') \in Nat
             /\ Cardinality(ListenersOf(k)')
                  + One(request[r].phase = "streaming" /\ request[r].client = k)
                = Cardinality(ListenersOf(k))
                  + One(request'[r].phase = "streaming" /\ request'[r].client = k)
  BY <1>4, <1>5 DEF One
<1>10. QED BY <1>7, <1>8, <1>9

\* What Counted says, with names for the sets.
CountersAgree ==
    /\ arrived = metrics.requestsTotal + Cardinality(Held)
    /\ metrics.requestsTotal = metrics.recorded + metrics.overloadRejections
    /\ metrics.currentRequests = Cardinality(Held)
    /\ metrics.currentRequests <= MaximumConcurrentRequests
    /\ metrics.currentSseStreams = Cardinality(Listeners)
    /\ metrics.currentSseStreams <= SseMaxTotal
    /\ metrics.currentSseStreams <= MaximumConcurrentSseStreams
    /\ \A k \in ClientKeys :
         ssePerClient[k] = Cardinality(ListenersOf(k)) /\ ssePerClient[k] <= SseMaxPerClient

LEMMA CountedAs == (Counted <=> CountersAgree) /\ (Counted' <=> CountersAgree')
<1>1. Min({SseMaxTotal, MaximumConcurrentSseStreams})
        = IF SseMaxTotal <= MaximumConcurrentSseStreams THEN SseMaxTotal
          ELSE MaximumConcurrentSseStreams
  BY GatewayAssumption, TelemetryAssumption, SmallerOfTwo
<1>2. IsFiniteSet(Listeners) /\ IsFiniteSet(Listeners')
  BY GatewayAssumption, FS_Subset DEF Listeners
<1>3. Cardinality(Listeners) \in Nat /\ Cardinality(Listeners)' \in Nat
  BY <1>2, FS_CardinalityType
<1>4. SseMaxTotal \in Nat /\ MaximumConcurrentSseStreams \in Nat
  BY GatewayAssumption, TelemetryAssumption
<1>5. ASSUME NEW n \in Nat
      PROVE  n <= Min({SseMaxTotal, MaximumConcurrentSseStreams})
               <=> n <= SseMaxTotal /\ n <= MaximumConcurrentSseStreams
  BY <1>1, <1>4
<1>6. Counted <=> CountersAgree
  BY <1>3, <1>5 DEF Counted, CountedOnce, AdmissionExact, CountersAgree, Held, ListenersOf
<1>7. Counted' <=> CountersAgree'
  BY <1>3, <1>5 DEF Counted, CountedOnce, AdmissionExact, CountersAgree, Held, ListenersOf
<1>8. QED BY <1>6, <1>7

\* The counters of m have these values.
Reads(m, total, recorded, rejected, requests, streams) ==
  /\ m \in Metrics
  /\ m.requestsTotal = total /\ m.recorded = recorded /\ m.overloadRejections = rejected
  /\ m.currentRequests = requests /\ m.currentSseStreams = streams

\* What the operations of the telemetry do to its counters.
LEMMA Telemetry ==
  ASSUME NEW m \in Metrics
  PROVE  /\ Reads(EnterRequest(m), m.requestsTotal, m.recorded, m.overloadRejections,
                  m.currentRequests + 1, m.currentSseStreams)
         /\ Reads(EnterSse(m), m.requestsTotal, m.recorded, m.overloadRejections,
                  m.currentRequests, m.currentSseStreams + 1)
         /\ Reads(Overload(m), m.requestsTotal + 1, m.recorded, m.overloadRejections + 1,
                  m.currentRequests, m.currentSseStreams)
         /\ Reads(RecordRequest(m), m.requestsTotal + 1, m.recorded + 1, m.overloadRejections,
                  m.currentRequests, m.currentSseStreams)
         /\ m.currentRequests > 0 =>
              Reads(ReleaseRequest(m), m.requestsTotal, m.recorded, m.overloadRejections,
                    m.currentRequests - 1, m.currentSseStreams)
         /\ m.currentSseStreams > 0 =>
              Reads(ReleaseSse(m), m.requestsTotal, m.recorded, m.overloadRejections,
                    m.currentRequests, m.currentSseStreams - 1)
<1>1. Reads(EnterRequest(m), m.requestsTotal, m.recorded, m.overloadRejections,
            m.currentRequests + 1, m.currentSseStreams)
  BY DEF EnterRequest, Metrics, Reads
<1>2. Reads(EnterSse(m), m.requestsTotal, m.recorded, m.overloadRejections,
            m.currentRequests, m.currentSseStreams + 1)
  BY DEF EnterSse, Metrics, Reads
<1>3. Reads(Overload(m), m.requestsTotal + 1, m.recorded, m.overloadRejections + 1,
            m.currentRequests, m.currentSseStreams)
  <2> DEFINE one == [m EXCEPT !.overloadRejections = m.overloadRejections + 1]
  <2>1. one \in Metrics /\ one.requestsTotal = m.requestsTotal
    BY DEF Metrics
  <2>2. Overload(m) = [one EXCEPT !.requestsTotal = one.requestsTotal + 1]
    BY DEF Overload
  <2>3. Overload(m) \in Metrics
    <3> HIDE DEF one
    <3> QED BY <2>1, <2>2 DEF Metrics
  <2>4. QED BY <2>3 DEF Overload, Metrics, Reads
<1>4. Reads(RecordRequest(m), m.requestsTotal + 1, m.recorded + 1, m.overloadRejections,
            m.currentRequests, m.currentSseStreams)
  <2> DEFINE one == [m EXCEPT !.requestsTotal = m.requestsTotal + 1]
  <2>1. one \in Metrics /\ one.recorded = m.recorded
    BY DEF Metrics
  <2>2. RecordRequest(m) = [one EXCEPT !.recorded = one.recorded + 1]
    BY DEF RecordRequest
  <2>3. RecordRequest(m) \in Metrics
    <3> HIDE DEF one
    <3> QED BY <2>1, <2>2 DEF Metrics
  <2>4. QED BY <2>3 DEF RecordRequest, Metrics, Reads
<1>5. m.currentRequests > 0 =>
        Reads(ReleaseRequest(m), m.requestsTotal, m.recorded, m.overloadRejections,
              m.currentRequests - 1, m.currentSseStreams)
  BY DEF ReleaseRequest, Metrics, Reads
<1>6. m.currentSseStreams > 0 =>
        Reads(ReleaseSse(m), m.requestsTotal, m.recorded, m.overloadRejections,
              m.currentRequests, m.currentSseStreams - 1)
  BY DEF ReleaseSse, Metrics, Reads
<1>7. QED BY <1>1, <1>2, <1>3, <1>4, <1>5, <1>6

\* An admitted request is counted until it completes.
LEMMA EntersCounted ==
  ASSUME Structure, Counted, NEW r \in Connections, OthersStay(r), Arrives(r),
         metrics' = EnterRequest(metrics), UNCHANGED ssePerClient,
         request'[r].held, request'[r].phase # "streaming"
  PROVE  Counted' /\ metrics' \in Metrics /\ arrived' \in 0 .. MaxRequests
<1>1. request[r].phase = "idle" /\ ~request[r].held /\ request \in [Connections -> Request]
  BY DEF Structure, GatewayTypeOK, WellFormed, Arrives, Idle
<1>2. /\ Cardinality(Held) \in Nat /\ Cardinality(Held)' = Cardinality(Held) + 1
      /\ Cardinality(Listeners)' = Cardinality(Listeners)
      /\ \A k : Cardinality(ListenersOf(k)') = Cardinality(ListenersOf(k))
  BY <1>1, CountStep DEF One
<1>3. /\ metrics' \in Metrics
      /\ metrics'.requestsTotal = metrics.requestsTotal
      /\ metrics'.recorded = metrics.recorded
      /\ metrics'.overloadRejections = metrics.overloadRejections
      /\ metrics'.currentRequests = metrics.currentRequests + 1
      /\ metrics'.currentSseStreams = metrics.currentSseStreams
      /\ metrics \in Metrics
  <2>1. metrics \in Metrics
    BY DEF Structure, GatewayTypeOK
  <2>2. QED BY <2>1, Telemetry DEF Reads
<1>4. metrics.currentRequests + 1 <= MaximumConcurrentRequests
  BY <1>3, TelemetryAssumption DEF Arrives, AdmitsRequest, Metrics
<1>5. arrived' = arrived + 1 /\ arrived' \in 0 .. MaxRequests
  BY GatewayAssumption DEF Arrives, Structure, GatewayTypeOK
<1>6. CountersAgree
  BY CountedAs
<1>7. arrived' = metrics'.requestsTotal + Cardinality(Held)'
  BY <1>2, <1>3, <1>5, <1>6 DEF CountersAgree, Metrics
<1>8. QED BY <1>2, <1>3, <1>4, <1>5, <1>6, <1>7, CountedAs DEF CountersAgree

\* A request that goes on stays counted.
LEMMA ContinuesCounted ==
  ASSUME Structure, Counted, NEW r \in Connections, OthersStay(r),
         UNCHANGED <<arrived, metrics, ssePerClient>>, request'[r].held = request[r].held,
         request[r].phase # "streaming", request'[r].phase # "streaming"
  PROVE  Counted'
<1>1. request \in [Connections -> Request]
  BY DEF Structure, GatewayTypeOK
<1>2. request[r].held \in BOOLEAN
  BY <1>1 DEF Request
<1>3. /\ Cardinality(Held)' = Cardinality(Held)
      /\ Cardinality(Listeners)' = Cardinality(Listeners)
      /\ \A k : Cardinality(ListenersOf(k)') = Cardinality(ListenersOf(k))
  BY <1>1, <1>2, CountStep DEF One
<1>4. QED BY <1>3, CountedAs DEF CountersAgree

\* A request that is held has been counted by enterRequest.
LEMMA HeldCounts ==
  ASSUME Structure, Counted, NEW r \in Connections, request[r].held
  PROVE  metrics.currentRequests > 0 /\ metrics \in Metrics
<1>1. IsFiniteSet(Held) /\ r \in Held
  BY GatewayAssumption, FS_Subset DEF Held
<1>2. Cardinality(Held) \in Nat /\ Cardinality(Held) # 0
  BY <1>1, FS_EmptySet, FS_CardinalityType
<1>3. QED BY <1>2, CountedAs DEF CountersAgree, Structure, GatewayTypeOK

\* completeRequestObservation records a request once and gives its place back.
LEMMA CompletesCounted ==
  ASSUME Structure, Counted, NEW r \in Connections, OthersStay(r),
         UNCHANGED <<arrived, ssePerClient>>, metrics' = Completed(metrics, request[r]),
         ~request'[r].held,
         request[r].phase # "streaming", request'[r].phase # "streaming"
  PROVE  Counted' /\ metrics' \in Metrics
<1>1. request \in [Connections -> Request] /\ metrics \in Metrics
  BY DEF Structure, GatewayTypeOK
<1>2. request[r].held \in BOOLEAN
  BY <1>1 DEF Request
<1>3. CASE ~request[r].held
  <2>1. metrics' = metrics
    BY <1>3 DEF Completed
  <2>2. request'[r].held \in BOOLEAN
    BY DEF OthersStay, Request
  <2>3. QED BY <1>1, <1>2, <1>3, <2>1, <2>2, ContinuesCounted
<1>4. CASE request[r].held
  <2>1. /\ Cardinality(Held) \in Nat /\ Cardinality(Held)' \in Nat
        /\ Cardinality(Held)' + 1 = Cardinality(Held)
        /\ Cardinality(Listeners)' = Cardinality(Listeners)
        /\ \A k : Cardinality(ListenersOf(k)') = Cardinality(ListenersOf(k))
    BY <1>1, <1>4, CountStep DEF One
  <2> DEFINE m == ReleaseRequest(metrics)
  <2>2. Reads(m, metrics.requestsTotal, metrics.recorded, metrics.overloadRejections,
              metrics.currentRequests - 1, metrics.currentSseStreams)
    BY <1>4, HeldCounts, Telemetry
  <2>3. metrics' = RecordRequest(m)
    BY <1>4 DEF Completed
  <2> HIDE DEF m
  <2>4. Reads(metrics', metrics.requestsTotal + 1, metrics.recorded + 1,
              metrics.overloadRejections, metrics.currentRequests - 1,
              metrics.currentSseStreams)
    BY <2>2, <2>3, Telemetry DEF Reads
  <2>5. CountersAgree
    BY CountedAs
  <2>6. CountersAgree'
    <3>1. /\ metrics.requestsTotal \in Nat /\ metrics.recorded \in Nat
          /\ metrics.overloadRejections \in Nat
      BY <1>1 DEF Metrics
    <3>2. QED BY <2>1, <2>4, <2>5, <3>1, TelemetryAssumption DEF CountersAgree, Reads
  <2>7. QED BY <2>4, <2>6, CountedAs DEF Reads
<1>5. QED BY <1>2, <1>3, <1>4

\* A refused request is counted at once.
LEMMA OverloadCounted ==
  ASSUME Structure, Counted, arrived' = arrived + 1, metrics' = Overload(metrics),
         UNCHANGED <<request, ssePerClient>>
  PROVE  Counted' /\ metrics' \in Metrics
<1>1. metrics \in Metrics
  BY DEF Structure, GatewayTypeOK
<1>2. Reads(metrics', metrics.requestsTotal + 1, metrics.recorded,
            metrics.overloadRejections + 1, metrics.currentRequests, metrics.currentSseStreams)
  BY <1>1, Telemetry
<1>3. /\ Held' = Held /\ Listeners' = Listeners
      /\ \A k : ListenersOf(k)' = ListenersOf(k)
  BY DEF Held, Listeners, ListenersOf
<1>4. IsFiniteSet(Held)
  BY GatewayAssumption, FS_Subset DEF Held
<1>5. Cardinality(Held) \in Nat
  BY <1>4, FS_CardinalityType
<1>6. CountersAgree
  BY CountedAs
<1>7. CountersAgree'
  BY <1>1, <1>2, <1>3, <1>5, <1>6 DEF CountersAgree, Reads, Metrics
<1>8. QED BY <1>2, <1>7, CountedAs DEF Reads

\* A stream the telemetry refuses is counted as an overload, and its request is
\* given back.
LEMMA RefusedStreamCounted ==
  ASSUME Structure, Counted, NEW r \in Connections, OthersStay(r), Arrives(r),
         metrics' = Observed(EnterRequest(metrics)), UNCHANGED ssePerClient,
         ~request'[r].held, request'[r].phase # "streaming"
  PROVE  Counted' /\ metrics' \in Metrics
<1>1. /\ request[r].phase = "idle" /\ ~request[r].held /\ request \in [Connections -> Request]
      /\ metrics \in Metrics
  BY DEF Structure, GatewayTypeOK, WellFormed, Arrives, Idle
<1>2. /\ Cardinality(Held) \in Nat /\ Cardinality(Held)' = Cardinality(Held)
      /\ Cardinality(Listeners)' = Cardinality(Listeners)
      /\ \A k : Cardinality(ListenersOf(k)') = Cardinality(ListenersOf(k))
  BY <1>1, CountStep DEF One
<1> DEFINE e == EnterRequest(metrics)
           m == ReleaseRequest(e)
<1>3. Reads(e, metrics.requestsTotal, metrics.recorded, metrics.overloadRejections,
            metrics.currentRequests + 1, metrics.currentSseStreams)
  BY <1>1, Telemetry
<1>4. metrics.currentRequests \in Nat
  BY <1>1 DEF Metrics
<1> HIDE DEF e
<1>5. Reads(m, metrics.requestsTotal, metrics.recorded, metrics.overloadRejections,
            metrics.currentRequests, metrics.currentSseStreams)
  <2>1. e \in Metrics /\ e.currentRequests > 0
        /\ e.currentRequests - 1 = metrics.currentRequests
    BY <1>3, <1>4 DEF Reads
  <2>2. Reads(ReleaseRequest(e), e.requestsTotal, e.recorded, e.overloadRejections,
              e.currentRequests - 1, e.currentSseStreams)
    BY <2>1, Telemetry
  <2>3. QED BY <1>3, <2>1, <2>2 DEF Reads
<1>6. metrics' = Overload(m)
  BY DEF Observed, e
<1> HIDE DEF m
<1>7. Reads(metrics', metrics.requestsTotal + 1, metrics.recorded,
            metrics.overloadRejections + 1, metrics.currentRequests, metrics.currentSseStreams)
  BY <1>5, <1>6, Telemetry DEF Reads
<1>8. CountersAgree /\ arrived' = arrived + 1
  BY CountedAs DEF Arrives
<1>9. CountersAgree'
  BY <1>1, <1>2, <1>7, <1>8 DEF CountersAgree, Reads, Metrics
<1>10. QED BY <1>7, <1>9, CountedAs DEF Reads

\* A stream that is admitted is counted as a stream, and its request completes.
LEMMA StreamCounted ==
  ASSUME Structure, Counted, NEW r \in Connections, OthersStay(r), Arrives(r),
         NEW client \in ClientKeys, ~SseLimited(client), AdmitsSse(EnterRequest(metrics)),
         NEW req, req.held,
         metrics' = Completed(EnterSse(EnterRequest(metrics)), req),
         ssePerClient' = [ssePerClient EXCEPT ![client] = @ + 1],
         ~request'[r].held, request'[r].phase = "streaming", request'[r].client = client
  PROVE  Counted' /\ metrics' \in Metrics /\ ssePerClient' \in [ClientKeys -> Nat]
<1>1. /\ request[r].phase = "idle" /\ ~request[r].held /\ request \in [Connections -> Request]
      /\ metrics \in Metrics /\ ssePerClient \in [ClientKeys -> Nat]
  BY DEF Structure, GatewayTypeOK, WellFormed, Arrives, Idle
<1>2. /\ Cardinality(Held) \in Nat /\ Cardinality(Held)' = Cardinality(Held)
      /\ Cardinality(Listeners) \in Nat
      /\ Cardinality(Listeners)' = Cardinality(Listeners) + 1
      /\ \A k : /\ Cardinality(ListenersOf(k)) \in Nat
                /\ Cardinality(ListenersOf(k)') = Cardinality(ListenersOf(k)) + One(k = client)
  BY <1>1, CountStep DEF One
<1> DEFINE e == EnterRequest(metrics)
           f == EnterSse(e)
           g == ReleaseRequest(f)
<1>3. Reads(e, metrics.requestsTotal, metrics.recorded, metrics.overloadRejections,
            metrics.currentRequests + 1, metrics.currentSseStreams)
  BY <1>1, Telemetry
<1>4. metrics.currentRequests \in Nat
  BY <1>1 DEF Metrics
<1>5. metrics.currentSseStreams < MaximumConcurrentSseStreams
  BY <1>3 DEF AdmitsSse, Reads
<1> HIDE DEF e
<1>6. Reads(f, metrics.requestsTotal, metrics.recorded, metrics.overloadRejections,
            metrics.currentRequests + 1, metrics.currentSseStreams + 1)
  BY <1>3, Telemetry DEF Reads
<1> HIDE DEF f
<1>7. Reads(g, metrics.requestsTotal, metrics.recorded, metrics.overloadRejections,
            metrics.currentRequests, metrics.currentSseStreams + 1)
  <2>1. f \in Metrics /\ f.currentRequests > 0
        /\ f.currentRequests - 1 = metrics.currentRequests
    BY <1>6, <1>4 DEF Reads
  <2>2. Reads(ReleaseRequest(f), f.requestsTotal, f.recorded, f.overloadRejections,
              f.currentRequests - 1, f.currentSseStreams)
    BY <2>1, Telemetry
  <2>3. QED BY <1>6, <2>1, <2>2 DEF Reads
<1>8. metrics' = RecordRequest(g)
  BY DEF Completed, e, f
<1> HIDE DEF g
<1>9. Reads(metrics', metrics.requestsTotal + 1, metrics.recorded + 1,
            metrics.overloadRejections, metrics.currentRequests, metrics.currentSseStreams + 1)
  BY <1>7, <1>8, Telemetry DEF Reads
<1>10. CountersAgree /\ arrived' = arrived + 1
  BY CountedAs DEF Arrives
<1>11. /\ arrived' = metrics'.requestsTotal + Cardinality(Held)'
       /\ metrics'.requestsTotal = metrics'.recorded + metrics'.overloadRejections
       /\ metrics'.currentRequests = Cardinality(Held)'
       /\ metrics'.currentRequests <= MaximumConcurrentRequests
  BY <1>1, <1>2, <1>9, <1>10 DEF CountersAgree, Reads, Metrics
<1>12. /\ metrics'.currentSseStreams = Cardinality(Listeners)'
       /\ metrics'.currentSseStreams <= SseMaxTotal
       /\ metrics'.currentSseStreams <= MaximumConcurrentSseStreams
  <2>1. ~(Cardinality(Listeners) >= SseMaxTotal)
    BY DEF SseLimited
  <2>2. QED BY <1>1, <1>2, <1>5, <1>9, <1>10, <2>1, GatewayAssumption, TelemetryAssumption
            DEF CountersAgree, Reads, Metrics
<1>13. ssePerClient' \in [ClientKeys -> Nat]
       /\ \A k \in ClientKeys : ssePerClient'[k] = ssePerClient[k] + One(k = client)
  BY <1>1 DEF One
<1>14. ASSUME NEW k \in ClientKeys
       PROVE  ssePerClient'[k] = Cardinality(ListenersOf(k)') /\ ssePerClient'[k] <= SseMaxPerClient
  <2>1. ssePerClient[k] = Cardinality(ListenersOf(k)) /\ ssePerClient[k] <= SseMaxPerClient
        /\ ssePerClient[k] \in Nat /\ SseMaxPerClient \in Nat
    BY <1>1, <1>10, GatewayAssumption DEF CountersAgree
  <2>2. ssePerClient[client] < SseMaxPerClient
    BY <1>1, GatewayAssumption DEF SseLimited
  <2>3. QED BY <1>2, <1>13, <2>1, <2>2 DEF One
<1>15. CountersAgree'
  BY <1>11, <1>12, <1>14 DEF CountersAgree
<1>16. QED BY <1>9, <1>13, <1>15, CountedAs DEF Reads

\* A stream that ends is given back by its first cleanup.
LEMMA StreamEndsCounted ==
  ASSUME Structure, Counted, NEW r \in Connections, OthersStay(r),
         request[r].phase = "streaming", request'[r].phase # "streaming",
         request'[r].held = request[r].held,
         metrics' = ReleaseSse(metrics),
         ssePerClient' = [ssePerClient EXCEPT
               ![request[r].client] = IF @ > 0 THEN @ - 1 ELSE 0],
         UNCHANGED arrived
  PROVE  Counted' /\ metrics' \in Metrics /\ ssePerClient' \in [ClientKeys -> Nat]
<1> DEFINE client == request[r].client
<1>1. /\ request \in [Connections -> Request] /\ metrics \in Metrics
      /\ ssePerClient \in [ClientKeys -> Nat] /\ client \in ClientKeys
  BY DEF Structure, GatewayTypeOK, WellFormed
<1>2. request[r].held \in BOOLEAN
  BY <1>1 DEF Request
<1> HIDE DEF client
<1>3. /\ Cardinality(Held)' = Cardinality(Held)
      /\ Cardinality(Listeners) \in Nat /\ Cardinality(Listeners)' \in Nat
      /\ Cardinality(Listeners)' + 1 = Cardinality(Listeners)
      /\ \A k : /\ Cardinality(ListenersOf(k)') \in Nat /\ Cardinality(ListenersOf(k)) \in Nat
                /\ Cardinality(ListenersOf(k)') + One(k = client) = Cardinality(ListenersOf(k))
  BY <1>1, <1>2, CountStep DEF One, client
<1>4. CountersAgree
  BY CountedAs
<1>5. Reads(metrics', metrics.requestsTotal, metrics.recorded, metrics.overloadRejections,
            metrics.currentRequests, metrics.currentSseStreams - 1)
  BY <1>1, <1>3, <1>4, Telemetry DEF CountersAgree
<1>6. /\ ssePerClient' \in [ClientKeys -> Nat]
      /\ ssePerClient'[client] = IF ssePerClient[client] > 0 THEN ssePerClient[client] - 1 ELSE 0
      /\ \A k \in ClientKeys \ {client} : ssePerClient'[k] = ssePerClient[k]
  BY <1>1 DEF client
<1>7. ASSUME NEW k \in ClientKeys
      PROVE  ssePerClient'[k] = Cardinality(ListenersOf(k)') /\ ssePerClient'[k] <= SseMaxPerClient
  <2>1. ssePerClient[k] = Cardinality(ListenersOf(k)) /\ ssePerClient[k] <= SseMaxPerClient
        /\ ssePerClient[k] \in Nat /\ SseMaxPerClient \in Nat
    BY <1>1, <1>4, GatewayAssumption DEF CountersAgree
  <2>2. QED BY <1>1, <1>3, <1>6, <2>1 DEF One
<1>8. CountersAgree'
  BY <1>3, <1>4, <1>5, <1>7, GatewayAssumption, TelemetryAssumption DEF CountersAgree, Reads
<1>9. QED BY <1>5, <1>6, <1>8, CountedAs DEF Reads

-----------------------------------------------------------------------------
(* The parts of a step *)

\* What a request shows is its tenant's.
ShownOwn(req) ==
  req.shown \subseteq (IF req.principal = Nothing THEN {} ELSE {TenantOf[req.principal]})

LEMMA ApartAs ==
  /\ Isolated <=> (unselected \/ (Apart(lab) /\ \A r \in Connections : ShownOwn(request[r])))
  /\ Isolated' <=> (unselected' \/ (Apart(lab') /\ \A r \in Connections : ShownOwn(request'[r])))
BY DEF Isolated, ObjectsApart, WritesApart, ShownApart, Apart, ShownOwn

\* A step that changes the request on one connection.
LEMMA OneRequest ==
  ASSUME Structure, NEW r \in Connections, NEW q \in Request, WellFormed(q),
         request' = [request EXCEPT ![r] = q]
  PROVE  /\ OthersStay(r) /\ request'[r] = q
         /\ \A x \in Connections \ {r} : request'[x] = request[x]
         /\ (q.limited => request[r].limited) => RefusedWhenFull
<1>1. request \in [Connections -> Request] /\ \A x \in Connections : WellFormed(request[x])
  BY DEF Structure, GatewayTypeOK
<1>2. request'[r] = q /\ \A x \in Connections \ {r} : request'[x] = request[x]
  BY <1>1
<1>3. request' \in [Connections -> Request]
  BY <1>1
<1>4. OthersStay(r)
  BY <1>1, <1>2, <1>3 DEF OthersStay
<1>5. (q.limited => request[r].limited) => RefusedWhenFull
  BY <1>2 DEF RefusedWhenFull
<1>6. QED BY <1>2, <1>4, <1>5

\* The first turn of a handler whose request stays counted.
LEMMA ArrivalKeeps ==
  ASSUME Inv, NEW r \in Connections, Arrives(r), NEW q \in Request, WellFormed(q),
         ~q.limited, q.held, q.phase # "streaming",
         request' = [request EXCEPT ![r] = q], metrics' = EnterRequest(metrics),
         sessions' \in SessionTable, Bounded(sessions', clock),
         lab' \in Lab, Apart(lab) => Apart(lab') /\ ShownOwn(q),
         UNCHANGED <<buckets, ssePerClient, unselected>>
  PROVE  Inv' /\ RefusedWhenFull
<1>1. Structure /\ Counted /\ Isolated /\ clock' = clock
  BY DEF Inv, Arrives
<1>2. /\ OthersStay(r) /\ request'[r] = q /\ RefusedWhenFull
      /\ \A x \in Connections \ {r} : request'[x] = request[x]
  BY <1>1, OneRequest
<1>3. Counted' /\ metrics' \in Metrics /\ arrived' \in 0 .. MaxRequests
  BY <1>1, <1>2, EntersCounted
<1>4. Structure'
  BY <1>1, <1>2, <1>3 DEF Structure, GatewayTypeOK, OthersStay, SessionTable
<1>5. Isolated'
  BY <1>1, <1>2, ApartAs
<1>6. QED BY <1>1, <1>2, <1>3, <1>4, <1>5 DEF Inv, SessionsBounded

\* A later turn that ends with the answer.
LEMMA AnswerKeeps ==
  ASSUME Inv, NEW r \in Connections, NEW q \in Request, WellFormed(q),
         request[r].phase \in {"verifying", "uploading"},
         q.held = request[r].held, q.phase # "streaming",
         request' = [request EXCEPT ![r] = q],
         sessions' \in SessionTable, Bounded(sessions', clock),
         buckets' \in Seq(Bucket), Fresh(buckets', clock), OneEach(buckets'),
         lab' \in Lab, unselected' \in BOOLEAN,
         unselected' \/ (unselected' = unselected /\ (Apart(lab) => Apart(lab') /\ ShownOwn(q))),
         UNCHANGED <<clock, arrived, metrics, ssePerClient>>
  PROVE  Inv'
<1>1. Structure /\ Counted /\ Isolated
  BY DEF Inv
<1>2. /\ OthersStay(r) /\ request'[r] = q
      /\ \A x \in Connections \ {r} : request'[x] = request[x]
  BY <1>1, OneRequest
<1>3. Counted'
  BY <1>1, <1>2, ContinuesCounted
<1>4. Structure'
  BY <1>1, <1>2, <1>3 DEF Structure, GatewayTypeOK, OthersStay, SessionTable
<1>5. Isolated'
  BY <1>1, <1>2, ApartAs
<1>6. QED BY <1>1, <1>3, <1>4, <1>5 DEF Inv, SessionsBounded

\* The end of a request.
LEMMA EndKeeps ==
  ASSUME Inv, NEW r \in Connections, NEW q \in Request, WellFormed(q),
         request[r].phase \in {"verifying", "answered"},
         ~q.held, q.phase # "streaming", q.limited => request[r].limited,
         q = Idle \/ (q.shown = request[r].shown /\ q.principal = request[r].principal),
         request' = [request EXCEPT ![r] = q],
         metrics' = Completed(metrics, request[r]),
         UNCHANGED <<clock, arrived, sessions, buckets, lab, ssePerClient, unselected>>
  PROVE  Inv' /\ RefusedWhenFull
<1>1. Structure /\ Counted /\ Isolated
  BY DEF Inv
<1>2. /\ OthersStay(r) /\ request'[r] = q /\ RefusedWhenFull
      /\ \A x \in Connections \ {r} : request'[x] = request[x]
  BY <1>1, OneRequest
<1>3. Counted' /\ metrics' \in Metrics
  BY <1>1, <1>2, CompletesCounted
<1>4. Structure'
  BY <1>1, <1>2, <1>3 DEF Structure, GatewayTypeOK, OthersStay
<1>5. ShownOwn(request[r]) => ShownOwn(q)
  BY DEF ShownOwn, Idle
<1>6. Isolated'
  BY <1>1, <1>2, <1>5, ApartAs
<1>7. SessionsBounded'
  BY DEF Inv, SessionsBounded
<1>8. QED BY <1>2, <1>3, <1>4, <1>6, <1>7 DEF Inv

-----------------------------------------------------------------------------
(* The steps *)

\* What the invariant says of the tables.
LEMMA Tables ==
  ASSUME Inv
  PROVE  /\ GatewayTypeOK /\ clock \in Nat /\ sessions \in SessionTable /\ Bounded(sessions, clock)
         /\ buckets \in Seq(Bucket) /\ OneEach(buckets) /\ Fresh(buckets, clock)
         /\ lab \in Lab /\ request \in [Connections -> Request]
         /\ unselected \in BOOLEAN /\ metrics \in Metrics
         /\ \A r \in Connections : WellFormed(request[r])
BY GatewayAssumption DEF Inv, Structure, GatewayTypeOK, SessionTable, SessionsBounded

\* An answer that contains nothing of the state.
LEMMA EmptyAnswer ==
  ASSUME NEW req \in Request
  PROVE  LET a == Answered(req, {})
         IN /\ a \in Request /\ WellFormed(a) /\ a.held = req.held /\ a.phase # "streaming"
            /\ a.limited = req.limited /\ ShownOwn(a)
<1>1. {} \in SUBSET Writers
  OBVIOUS
<1>2. QED BY <1>1, Answers DEF ShownOwn

\* The request is refused at the limit of concurrent requests.
LEMMA OverloadedKeeps ==
  ASSUME Inv, NEW r \in Connections, Overloaded(r)
  PROVE  Inv' /\ RefusedWhenFull
<1>1. Structure /\ Counted
  BY DEF Inv
<1>2. Counted' /\ metrics' \in Metrics
  BY <1>1, OverloadCounted DEF Overloaded
<1>3. Structure'
  BY <1>1, <1>2, GatewayAssumption DEF Overloaded, Structure, GatewayTypeOK
<1>4. Isolated' /\ SessionsBounded' /\ RefusedWhenFull
  BY ApartAs DEF Inv, Overloaded, SessionsBounded, RefusedWhenFull
<1>5. QED BY <1>2, <1>3, <1>4 DEF Inv

\* Requests answered without a session.
LEMMA PlainKeeps ==
  ASSUME Inv, NEW r \in Connections, Plain(r)
  PROVE  Inv' /\ RefusedWhenFull
<1> DEFINE q == Answered(Admission, {})
<1>1. q \in Request /\ WellFormed(q) /\ q.held /\ q.phase # "streaming" /\ ~q.limited
      /\ ShownOwn(q)
  BY Admissions, EmptyAnswer
<1>2. request' = [request EXCEPT ![r] = q] /\ metrics' = EnterRequest(metrics) /\ Arrives(r)
      /\ UNCHANGED <<sessions, buckets, lab, ssePerClient, unselected>>
  BY DEF Plain
<1> HIDE DEF q
<1>3. QED BY <1>1, <1>2, Tables, ArrivalKeeps

\* A login waits for the verifier.
LEMMA LoginKeeps ==
  ASSUME Inv, NEW r \in Connections, NEW p \in Principals, NEW token \in Token,
         Login(r, p, token)
  PROVE  Inv' /\ RefusedWhenFull
<1> DEFINE q == [Admission EXCEPT !.phase = "verifying", !.principal = p, !.token = token]
<1>1. q \in Request /\ WellFormed(q) /\ q.held /\ q.phase # "streaming" /\ ~q.limited
      /\ ShownOwn(q)
  BY DEF Admission, Idle, Request, WellFormed, ShownOwn
<1>2. request' = [request EXCEPT ![r] = q] /\ metrics' = EnterRequest(metrics) /\ Arrives(r)
      /\ UNCHANGED <<sessions, buckets, lab, ssePerClient, unselected>>
  BY DEF Login
<1> HIDE DEF q
<1>3. QED BY <1>1, <1>2, Tables, ArrivalKeeps

\* The verifier has accepted the token: the limits are those of the sessions that
\* are live now.
LEMMA VerifiedKeeps ==
  ASSUME Inv, NEW r \in Connections, Verified(r)
  PROVE  Inv' /\ RefusedWhenFull
<1> DEFINE req == request[r]
           p == req.principal
           pruned == Prune(sessions, clock)
           full == LimitReached(pruned, p)
           q == [Answered(req, {}) EXCEPT !.limited = full]
<1>1. /\ req.phase = "verifying" /\ request' = [request EXCEPT ![r] = q]
      /\ UNCHANGED <<clock, arrived, buckets, metrics, lab, ssePerClient, unselected>>
  BY DEF Verified
<1>2. req \in Request /\ p \in Principals /\ req.token \in Token
  BY <1>1, Tables DEF WellFormed
<1>3. req.token.operator \in BOOLEAN /\ req.token.expiresAt \in Nat
  BY <1>2 DEF Token
<1>4. full \in BOOLEAN
  BY DEF LimitReached
<1> HIDE DEF full
<1>5. q \in Request /\ WellFormed(q) /\ q.held = req.held /\ q.phase # "streaming"
      /\ q.limited = full /\ ShownOwn(q)
  BY <1>2, <1>4, EmptyAnswer DEF Request, WellFormed, ShownOwn, Answered, Idle
<1>6. sessions' \in SessionTable /\ Bounded(sessions', clock)
  <2>1. CASE sessions' = pruned
    BY <2>1, Tables, Prunes
  <2>2. CASE ~full /\ sessions' = Issue(pruned, Min({id \in SessionIds : pruned[id] = Nothing}),
                            p, req.token.operator, clock, req.token.expiresAt)
    BY <1>2, <1>3, <2>2, Tables, Issues DEF full
  <2>3. QED BY <2>1, <2>2 DEF Verified, full
<1>7. Inv'
  <2> HIDE DEF q
  <2>1. unselected' = unselected /\ (Apart(lab) => Apart(lab') /\ ShownOwn(q))
    BY <1>1, <1>5
  <2>2. QED BY <1>1, <1>5, <1>6, <2>1, Tables, AnswerKeeps
<1>8. RefusedWhenFull
  <2>1. /\ request'[r] = q /\ \A x \in Connections \ {r} : request'[x] = request[x]
        /\ (q.limited => req.limited) => RefusedWhenFull
    <3> HIDE DEF q
    <3> QED BY <1>1, <1>5, OneRequest DEF Inv
  <2>2. CASE ~full
    BY <1>5, <2>1, <2>2
  <2>3. CASE full
    <3> DEFINE live == Live(sessions, clock)
               own == LiveOf(sessions, clock, p)
    <3>1. Cardinality(live) >= MaxSessions \/ Cardinality(own) >= MaxSessionsPerPrincipal
      BY <2>3, Tables, Prunes DEF full, LimitReached
    <3>2. Cardinality(live) <= MaxSessions /\ Cardinality(own) <= MaxSessionsPerPrincipal
      BY <1>2, Tables DEF Bounded
    <3>3. Cardinality(live) \in Nat /\ Cardinality(own) \in Nat
      <4>1. live \in SUBSET SessionIds /\ own \in SUBSET SessionIds
        BY Tables DEF Live, LiveOf, SessionTable
      <4>2. QED BY <4>1, FiniteSessions
    <3>4. MaxSessions \in Nat /\ MaxSessionsPerPrincipal \in Nat
      BY SessionAssumption
    <3>5. Cardinality(live) = MaxSessions \/ Cardinality(own) = MaxSessionsPerPrincipal
      BY <3>1, <3>2, <3>3, <3>4
    <3>6. QED BY <2>1, <3>5 DEF RefusedWhenFull
  <2>4. QED BY <2>2, <2>3
<1>9. QED BY <1>7, <1>8

\* The answer of a handler that was waiting, when it contains nothing.
LEMMA RespondKeeps ==
  ASSUME Inv, NEW r \in Connections, request[r].phase \in {"verifying", "uploading"},
         Respond(r, {}),
         lab' \in Lab, Apart(lab) => Apart(lab'),
         buckets' \in Seq(Bucket), Fresh(buckets', clock), OneEach(buckets'),
         UNCHANGED <<clock, arrived, sessions, metrics, ssePerClient, unselected>>
  PROVE  Inv' /\ RefusedWhenFull
<1> DEFINE q == Answered(request[r], {})
<1>1. request[r] \in Request
  BY Tables
<1>2. q \in Request /\ WellFormed(q) /\ q.held = request[r].held /\ q.phase # "streaming"
      /\ q.limited = request[r].limited /\ ShownOwn(q)
  BY <1>1, EmptyAnswer
<1>3. request' = [request EXCEPT ![r] = q]
  BY DEF Respond
<1> HIDE DEF q
<1>4. Inv'
  BY <1>2, <1>3, Tables, AnswerKeeps
<1>5. RefusedWhenFull
  BY <1>2, <1>3, OneRequest DEF Inv
<1>6. QED BY <1>4, <1>5

\* The token is refused.
LEMMA NotVerifiedKeeps ==
  ASSUME Inv, NEW r \in Connections, NotVerified(r)
  PROVE  Inv' /\ RefusedWhenFull
BY Tables, RespondKeeps DEF NotVerified

\* The body is refused.
LEMMA BodyRefusedKeeps ==
  ASSUME Inv, NEW r \in Connections, BodyRefused(r)
  PROVE  Inv' /\ RefusedWhenFull
BY Tables, RespondKeeps DEF BodyRefused

\* The verifier fails before a state was selected.
LEMMA VerifierThrowsKeeps ==
  ASSUME Inv, NEW r \in Connections, VerifierThrows(r)
  PROVE  Inv' /\ RefusedWhenFull
<1> DEFINE q == Answered(request[r], Contents(lab'))
<1>0. lab' \in Lab
  BY Tables, Writes DEF VerifierThrows, Writers
<1>1. request[r] \in Request /\ Contents(lab') \in SUBSET Writers
  BY <1>0, Tables, ContentsType
<1>2. q \in Request /\ WellFormed(q) /\ q.held = request[r].held /\ q.phase # "streaming"
      /\ q.limited = request[r].limited
  BY <1>1, Answers
<1>3. /\ request' = [request EXCEPT ![r] = q] /\ request[r].phase = "verifying"
      /\ unselected' = TRUE
      /\ UNCHANGED <<clock, arrived, sessions, buckets, metrics, ssePerClient>>
  BY DEF VerifierThrows, Respond
<1> HIDE DEF q
<1>4. Inv'
  BY <1>0, <1>2, <1>3, Tables, AnswerKeeps
<1>5. RefusedWhenFull
  BY <1>2, <1>3, OneRequest DEF Inv
<1>6. QED BY <1>4, <1>5

\* A request without a live session.
LEMMA UnauthenticatedKeeps ==
  ASSUME Inv, NEW r \in Connections, NEW id \in SessionIds, Unauthenticated(r, id)
  PROVE  Inv' /\ RefusedWhenFull
<1> DEFINE q == Answered(Admission, {})
<1>1. q \in Request /\ WellFormed(q) /\ q.held /\ q.phase # "streaming" /\ ~q.limited
      /\ ShownOwn(q)
  BY Admissions, EmptyAnswer
<1>2. request' = [request EXCEPT ![r] = q] /\ metrics' = EnterRequest(metrics) /\ Arrives(r)
      /\ sessions' = Authenticate(sessions, id, clock)
      /\ UNCHANGED <<buckets, lab, ssePerClient, unselected>>
  BY DEF Unauthenticated
<1>3. sessions' \in SessionTable /\ Bounded(sessions', clock)
  BY <1>2, Tables, Authenticates
<1> HIDE DEF q
<1>4. QED BY <1>1, <1>2, <1>3, Tables, ArrivalKeeps

\* The session is seen, or ends.
LEMMA SeenKeeps ==
  ASSUME Inv, NEW r \in Connections, NEW id \in SessionIds, Seen(r, id) \/ Logout(r, id)
  PROVE  Inv' /\ RefusedWhenFull
<1> DEFINE q == Answered(ForPrincipal(id), {})
<1>1. id \in Live(sessions, clock)
  BY DEF Seen, Logout, Authenticated
<1>2. q \in Request /\ WellFormed(q) /\ q.held /\ q.phase # "streaming" /\ ~q.limited
      /\ ShownOwn(q)
  BY <1>1, Tables, AdmissionFor, EmptyAnswer
<1>3. request' = [request EXCEPT ![r] = q] /\ metrics' = EnterRequest(metrics) /\ Arrives(r)
      /\ UNCHANGED <<buckets, lab, ssePerClient, unselected>>
  BY DEF Seen, Logout, Authenticated
<1>4. sessions' \in SessionTable /\ Bounded(sessions', clock)
  BY Tables, Authenticates, Revokes DEF Seen, Logout
<1> HIDE DEF q
<1>5. QED BY <1>2, <1>3, <1>4, Tables, ArrivalKeeps

\* The tenant's state is selected and shown.
LEMMA ReadStateKeeps ==
  ASSUME Inv, NEW r \in Connections, NEW id \in SessionIds, ReadState(r, id)
  PROVE  Inv' /\ RefusedWhenFull
<1> DEFINE t == TenantOfSession(id)
           q == Answered(ForPrincipal(id), Contents(lab'))
<1>1. id \in Live(sessions, clock)
  BY DEF ReadState, Authenticated
<1>2. /\ t \in Tenants /\ ForPrincipal(id) \in Request /\ ForPrincipal(id).held
      /\ ~ForPrincipal(id).limited
      /\ ForPrincipal(id).principal \in Principals
      /\ TenantOf[ForPrincipal(id).principal] = t
  BY <1>1, Tables, AdmissionFor DEF TenantOfSession
<1>3. /\ request' = [request EXCEPT ![r] = q] /\ metrics' = EnterRequest(metrics) /\ Arrives(r)
      /\ lab' = Selected(lab, t) /\ sessions' = Authenticate(sessions, id, clock)
      /\ UNCHANGED <<buckets, ssePerClient, unselected>>
  BY DEF ReadState, Authenticated
<1> HIDE DEF t
<1>4. lab' \in Lab /\ (Apart(lab) => Apart(lab') /\ Contents(lab') \subseteq {t})
  BY <1>2, <1>3, Tables, Selects
<1>5. Contents(lab') \in SUBSET Writers
  BY <1>4, ContentsType
<1>6. /\ q \in Request /\ WellFormed(q) /\ q.phase # "streaming" /\ q.held /\ ~q.limited
      /\ q.shown = Contents(lab')
      /\ q.principal = IF Contents(lab') = {} THEN Nothing ELSE ForPrincipal(id).principal
  BY <1>2, <1>5, Answers
<1>7. Apart(lab) => Apart(lab') /\ ShownOwn(q)
  BY <1>2, <1>4, <1>6, GatewayAssumption DEF ShownOwn
<1>8. sessions' \in SessionTable /\ Bounded(sessions', clock)
  BY <1>3, Tables, Authenticates
<1> HIDE DEF q
<1>9. QED BY <1>3, <1>4, <1>6, <1>7, <1>8, Tables, ArrivalKeeps

\* A mutation waits for its body.
LEMMA MutateKeeps ==
  ASSUME Inv, NEW r \in Connections, NEW id \in SessionIds, NEW client \in ClientKeys,
         Mutate(r, id, client)
  PROVE  Inv' /\ RefusedWhenFull
<1> DEFINE p == ForPrincipal(id)
           q == [p EXCEPT !.phase = "uploading", !.client = client]
<1>1. id \in Live(sessions, clock)
  BY DEF Mutate, Authenticated
<1>2. p \in Request /\ p.held /\ ~p.limited /\ p.shown = {} /\ p.principal \in Principals
  BY <1>1, Tables, AdmissionFor
<1>3. /\ request' = [request EXCEPT ![r] = q] /\ metrics' = EnterRequest(metrics) /\ Arrives(r)
      /\ sessions' = Authenticate(sessions, id, clock)
      /\ UNCHANGED <<buckets, lab, ssePerClient, unselected>>
  BY DEF Mutate, Authenticated
<1> HIDE DEF p
<1>4. /\ q \in Request /\ WellFormed(q) /\ q.held /\ q.phase # "streaming" /\ ~q.limited
      /\ ShownOwn(q)
  BY <1>2 DEF Request, WellFormed, ShownOwn
<1>5. sessions' \in SessionTable /\ Bounded(sessions', clock)
  BY <1>3, Tables, Authenticates
<1> HIDE DEF q
<1>6. QED BY <1>3, <1>4, <1>5, Tables, ArrivalKeeps

\* A stream is refused by its limits, by the telemetry, or opens.
LEMMA OpenStreamKeeps ==
  ASSUME Inv, NEW r \in Connections, NEW id \in SessionIds, NEW client \in ClientKeys,
         OpenStream(r, id, client)
  PROVE  Inv' /\ RefusedWhenFull
<1> DEFINE t == TenantOfSession(id)
           p == ForPrincipal(id)
           req == [p EXCEPT !.client = client]
           entered == EnterRequest(metrics)
           selected == Selected(lab, t)
<1>1. id \in Live(sessions, clock) /\ Arrives(r)
  BY DEF OpenStream, Authenticated
<1>2. /\ t \in Tenants /\ p \in Request /\ p.held /\ ~p.limited /\ p.shown = {}
      /\ p.principal \in Principals /\ TenantOf[p.principal] = t
  BY <1>1, Tables, AdmissionFor DEF TenantOfSession
<1>3. /\ sessions' = Authenticate(sessions, id, clock) /\ lab' = selected
      /\ UNCHANGED <<buckets, unselected>> /\ clock' = clock
  BY <1>1 DEF OpenStream, Arrives
<1>4. sessions' \in SessionTable /\ Bounded(sessions', clock)
  BY <1>3, Tables, Authenticates
<1>5. \/ /\ metrics' = entered
         /\ request' = [request EXCEPT ![r] = Answered(req, {})]
         /\ UNCHANGED ssePerClient
      \/ /\ metrics' = Observed(entered)
         /\ request' = [request EXCEPT ![r] = Answered([req EXCEPT !.held = FALSE], {})]
         /\ UNCHANGED ssePerClient
      \/ /\ ~SseLimited(client) /\ AdmitsSse(entered)
         /\ metrics' = Completed(EnterSse(entered), req)
         /\ request' = [request EXCEPT ![r] =
              [req EXCEPT !.phase = "streaming", !.held = FALSE, !.shown = Contents(selected)]]
         /\ ssePerClient' = [ssePerClient EXCEPT ![client] = @ + 1]
  BY DEF OpenStream
<1> HIDE DEF t, p
<1>6. lab' \in Lab /\ (Apart(lab) => Apart(lab') /\ Contents(lab') \subseteq {t})
  BY <1>2, <1>3, Tables, Selects
<1>7. Contents(lab') \in SUBSET Writers
  BY <1>6, ContentsType
<1>8. /\ req \in Request /\ req.held /\ ~req.limited /\ req.shown = {}
      /\ req.principal = p.principal /\ req.client = client
  BY <1>2 DEF Request
<1> HIDE DEF req
<1>9. CASE /\ metrics' = entered
           /\ request' = [request EXCEPT ![r] = Answered(req, {})]
           /\ UNCHANGED ssePerClient
  <2> DEFINE q == Answered(req, {})
  <2>1. q \in Request /\ WellFormed(q) /\ q.held /\ q.phase # "streaming" /\ ~q.limited
        /\ ShownOwn(q)
    BY <1>8, EmptyAnswer
  <2>2. request' = [request EXCEPT ![r] = q]
    BY <1>9
  <2> HIDE DEF q
  <2>3. QED BY <1>1, <1>3, <1>4, <1>6, <1>9, <2>1, <2>2, ArrivalKeeps
<1>10. Structure /\ Counted /\ Isolated
  BY DEF Inv
<1>11. ASSUME NEW q \in Request, WellFormed(q), ~q.limited, Apart(lab) => ShownOwn(q),
              request' = [request EXCEPT ![r] = q],
              Counted', metrics' \in Metrics, ssePerClient' \in [ClientKeys -> Nat]
       PROVE  Inv' /\ RefusedWhenFull
  <2>1. /\ OthersStay(r) /\ request'[r] = q /\ RefusedWhenFull
        /\ \A x \in Connections \ {r} : request'[x] = request[x]
    BY <1>10, <1>11, OneRequest
  <2>2. arrived' \in 0 .. MaxRequests
    BY <1>1, <1>10, GatewayAssumption DEF Arrives, Structure, GatewayTypeOK
  <2>3. Structure'
    BY <1>3, <1>4, <1>6, <1>10, <1>11, <2>1, <2>2 DEF Structure, GatewayTypeOK, OthersStay, SessionTable
  <2>4. Isolated'
    BY <1>3, <1>6, <1>10, <1>11, <2>1, ApartAs
  <2>5. QED BY <1>3, <1>4, <1>11, <2>1, <2>3, <2>4 DEF Inv, SessionsBounded
<1>12. CASE /\ metrics' = Observed(entered)
            /\ request' = [request EXCEPT ![r] = Answered([req EXCEPT !.held = FALSE], {})]
            /\ UNCHANGED ssePerClient
  <2> DEFINE free == [req EXCEPT !.held = FALSE]
             q == Answered(free, {})
  <2>1. free \in Request /\ ~free.held /\ ~free.limited
    BY <1>8 DEF Request
  <2> HIDE DEF free
  <2>2. q \in Request /\ WellFormed(q) /\ ~q.held /\ q.phase # "streaming" /\ ~q.limited
        /\ ShownOwn(q)
    BY <2>1, EmptyAnswer
  <2>3. request' = [request EXCEPT ![r] = q]
    BY <1>12 DEF free
  <2> HIDE DEF q
  <2>4. OthersStay(r) /\ request'[r] = q
    BY <1>10, <2>2, <2>3, OneRequest
  <2>5. Counted' /\ metrics' \in Metrics
    BY <1>1, <1>10, <1>12, <2>2, <2>4, RefusedStreamCounted
  <2>6. ssePerClient' \in [ClientKeys -> Nat]
    BY <1>10, <1>12 DEF Structure, GatewayTypeOK
  <2>7. QED BY <1>11, <2>2, <2>3, <2>5, <2>6
<1>13. CASE /\ ~SseLimited(client) /\ AdmitsSse(entered)
            /\ metrics' = Completed(EnterSse(entered), req)
            /\ request' = [request EXCEPT ![r] =
                 [req EXCEPT !.phase = "streaming", !.held = FALSE, !.shown = Contents(selected)]]
            /\ ssePerClient' = [ssePerClient EXCEPT ![client] = @ + 1]
  <2> DEFINE q == [req EXCEPT !.phase = "streaming", !.held = FALSE,
                              !.shown = Contents(selected)]
  <2>1. Contents(selected) = Contents(lab')
    BY <1>3
  <2> HIDE DEF selected
  <2>2. /\ q \in Request /\ ~q.held /\ q.phase = "streaming" /\ ~q.limited
        /\ q.client = client /\ q.principal = p.principal /\ q.shown = Contents(lab')
    BY <1>7, <1>8, <2>1 DEF Request
  <2>3. request' = [request EXCEPT ![r] = q]
    BY <1>13
  <2> HIDE DEF q
  <2>4. WellFormed(q)
    BY <1>2, <2>2 DEF WellFormed
  <2>5. Apart(lab) => ShownOwn(q)
    BY <1>2, <1>6, <2>2, GatewayAssumption DEF ShownOwn
  <2>6. OthersStay(r) /\ request'[r] = q
    BY <1>10, <2>2, <2>3, <2>4, OneRequest
  <2>7. Counted' /\ metrics' \in Metrics /\ ssePerClient' \in [ClientKeys -> Nat]
    BY <1>1, <1>8, <1>10, <1>13, <2>2, <2>6, StreamCounted
  <2>8. QED BY <1>11, <2>2, <2>3, <2>4, <2>5, <2>7
<1>14. QED BY <1>5, <1>9, <1>12, <1>13

\* A broadcast of what the request did leaves the other requests as they are, and
\* shows streams of the tenant what the tenant wrote.
LEMMA BroadcastStays ==
  ASSUME Inv, NEW r \in Connections, NEW l \in Lab, NEW t \in Tenants,
         NEW q \in Request, WellFormed(q), q.limited => request[r].limited,
         request' = [Broadcast(request, l, t) EXCEPT ![r] = q]
  PROVE  /\ OthersStay(r) /\ request'[r] = q /\ RefusedWhenFull
         /\ Contents(l) \subseteq {t} =>
              \A x \in Connections \ {r} : ShownOwn(request[x]) => ShownOwn(request'[x])
<1> DEFINE b == Broadcast(request, l, t)
<1>1. GatewayTypeOK /\ Contents(l) \in SUBSET Writers /\ \A x \in Connections : WellFormed(request[x])
  BY Tables, ContentsType
<1>2. ASSUME NEW x \in Connections
      PROVE  /\ b[x] \in Request /\ WellFormed(b[x])
             /\ b[x].phase = request[x].phase /\ b[x].held = request[x].held
             /\ b[x].client = request[x].client /\ b[x].principal = request[x].principal
             /\ b[x].limited = request[x].limited
             /\ b[x].shown = IF ListenerFor(x, t) THEN Contents(l) ELSE request[x].shown
  BY <1>1, Broadcasts
<1>3. b = [x \in Connections |-> b[x]]
  BY DEF Broadcast
<1> HIDE DEF b
<1>4. request' = [b EXCEPT ![r] = q]
  BY DEF b
<1>5. /\ request' \in [Connections -> Request] /\ request'[r] = q
      /\ \A x \in Connections \ {r} : request'[x] = b[x]
  BY <1>2, <1>3, <1>4
<1>6. OthersStay(r)
  BY <1>2, <1>5 DEF OthersStay
<1>7. RefusedWhenFull
  BY <1>2, <1>5 DEF RefusedWhenFull
<1>8. ASSUME Contents(l) \subseteq {t}, NEW x \in Connections \ {r}, ShownOwn(request[x])
      PROVE  ShownOwn(request'[x])
  <2>1. request'[x] = b[x]
    BY <1>5
  <2>2. CASE ListenerFor(x, t)
    <3>1. request[x].principal \in Principals /\ TenantOf[request[x].principal] = t
      BY <1>1, <2>2 DEF ListenerFor, WellFormed
    <3>2. b[x].shown = Contents(l) /\ b[x].principal = request[x].principal
      BY <1>2, <2>2
    <3>3. QED BY <1>8, <2>1, <3>1, <3>2, GatewayAssumption DEF ShownOwn
  <2>3. CASE ~ListenerFor(x, t)
    <3>1. b[x].shown = request[x].shown /\ b[x].principal = request[x].principal
      BY <1>2, <2>3
    <3>2. QED BY <1>8, <2>1, <3>1 DEF ShownOwn
  <2>4. QED BY <2>2, <2>3
<1>9. QED BY <1>5, <1>6, <1>7, <1>8

\* A waiting handler's request: its tenant and the client that pays.
LEMMA Uploading ==
  ASSUME Inv, NEW r \in Connections, request[r].phase = "uploading"
  PROVE  /\ request[r] \in Request /\ request[r].principal \in Principals
         /\ TenantOf[request[r].principal] \in Tenants /\ request[r].client \in ClientKeys
BY Tables, GatewayAssumption DEF WellFormed

\* The mutation runs on the state of its tenant, whatever handlers ran while its
\* body was read.
LEMMA BodyReadKeeps ==
  ASSUME Inv, NEW r \in Connections, BodyRead(r)
  PROVE  Inv' /\ RefusedWhenFull
<1> DEFINE req == request[r]
           t == TenantOf[req.principal]
           selected == Selected(lab, t)
           key == req.client
<1>1. /\ req.phase = "uploading"
      /\ UNCHANGED <<clock, arrived, sessions, metrics, ssePerClient, unselected>>
  BY DEF BodyRead
<1>2. req \in Request /\ req.principal \in Principals /\ t \in Tenants /\ key \in ClientKeys
  BY <1>1, Uploading
<1>3. /\ selected \in Lab /\ Own(selected, t) /\ (Apart(lab) => Apart(selected))
  BY <1>2, Tables, Selects
<1>4. /\ Take(buckets, key, clock) \in Seq(Bucket) /\ OneEach(Take(buckets, key, clock))
      /\ Fresh(Take(buckets, key, clock), clock)
  BY <1>2, Tables, Takes
<1>5. CASE lab' = selected /\ Respond(r, {})
           /\ (UNCHANGED buckets \/ buckets' = Take(buckets, key, clock))
  <2>1. lab' \in Lab /\ (Apart(lab) => Apart(lab'))
    BY <1>3, <1>5
  <2>2. buckets' \in Seq(Bucket) /\ Fresh(buckets', clock) /\ OneEach(buckets')
    BY <1>4, <1>5, Tables
  <2>3. QED BY <1>1, <1>5, <2>1, <2>2, RespondKeeps
<1>6. ASSUME buckets' = Take(buckets, key, clock), NEW result \in RouteResults(selected, t),
             lab' = Finalized(result, t),
             request' = [Broadcast(request, result, t) EXCEPT ![r] = Answered(@, Contents(result))]
      PROVE  Inv' /\ RefusedWhenFull
  <2>1. /\ result \in Lab /\ lab' \in Lab /\ Contents(result) \in SUBSET Writers
        /\ Apart(lab) => Apart(lab') /\ Contents(result) \subseteq {t}
    BY <1>2, <1>3, <1>6, RoutesKeep
  <2> DEFINE b == Broadcast(request, result, t)[r]
             q == Answered(b, Contents(result))
  <2>2. /\ b \in Request /\ b.held = req.held /\ b.limited = req.limited
        /\ b.principal = req.principal
    BY <1>2, <2>1, Tables, Broadcasts
  <2>3. request' = [Broadcast(request, result, t) EXCEPT ![r] = q]
    BY <1>6 DEF Broadcast
  <2> HIDE DEF b
  <2>4. /\ q \in Request /\ WellFormed(q) /\ q.phase # "streaming" /\ q.held = req.held
        /\ q.limited = req.limited /\ q.shown = Contents(result)
        /\ q.principal = IF Contents(result) = {} THEN Nothing ELSE req.principal
    BY <2>1, <2>2, Answers
  <2> HIDE DEF q
  <2>5. /\ OthersStay(r) /\ request'[r] = q /\ RefusedWhenFull
        /\ Contents(result) \subseteq {t} =>
              \A x \in Connections \ {r} : ShownOwn(request[x]) => ShownOwn(request'[x])
    BY <1>2, <2>1, <2>3, <2>4, BroadcastStays
  <2>6. Counted'
    BY <1>1, <2>4, <2>5, ContinuesCounted DEF Inv
  <2>7. Structure'
    BY <1>1, <1>4, <1>6, <2>1, <2>5 DEF Inv, Structure, GatewayTypeOK, OthersStay
  <2>8. Apart(lab) => ShownOwn(q)
    BY <1>2, <2>1, <2>4, GatewayAssumption DEF ShownOwn
  <2>9. Isolated'
    <3>1. Isolated /\ unselected' = unselected
      BY <1>1 DEF Inv
    <3>2. QED BY <2>1, <2>5, <2>8, <3>1, ApartAs
  <2>10. SessionsBounded'
    BY <1>1 DEF Inv, SessionsBounded
  <2>11. QED BY <2>5, <2>6, <2>7, <2>9, <2>10 DEF Inv
<1>7. QED BY <1>5, <1>6 DEF BodyRead

\* The read of the body throws: the error is written to whatever state is bound.
LEMMA BodyBrokenKeeps ==
  ASSUME Inv, NEW r \in Connections, BodyBroken(r)
  PROVE  Inv' /\ RefusedWhenFull
<1> DEFINE t == TenantOf[request[r].principal]
           blocked == Wrote(lab, t)
<1>1. /\ request[r].phase = "uploading" /\ metrics' = Completed(metrics, request[r])
      /\ lab' = Finalized(blocked, t) /\ unselected' = TRUE
      /\ request' = [Broadcast(request, blocked, t) EXCEPT ![r] = Idle]
      /\ UNCHANGED <<clock, arrived, sessions, buckets, ssePerClient>>
  BY DEF BodyBroken
<1>2. t \in Tenants
  BY <1>1, Uploading
<1> HIDE DEF t
<1>3. blocked \in Lab /\ lab' \in Lab
  BY <1>1, <1>2, Tables, Writes, Finalizes DEF Writers
<1>4. OthersStay(r) /\ request'[r] = Idle /\ RefusedWhenFull
  <2> HIDE DEF blocked
  <2>1. Idle \in Request /\ WellFormed(Idle) /\ (Idle.limited => request[r].limited)
    BY Admissions
  <2>2. request' = [Broadcast(request, blocked, t) EXCEPT ![r] = Idle] /\ blocked \in Lab
    BY <1>1, <1>3
  <2>3. QED BY <1>2, <2>1, <2>2, BroadcastStays
<1>5. Counted' /\ metrics' \in Metrics
  BY <1>1, <1>4, Admissions, CompletesCounted DEF Inv
<1>6. Structure'
  BY <1>1, <1>3, <1>4, <1>5 DEF Inv, Structure, GatewayTypeOK, OthersStay
<1>7. Isolated' /\ SessionsBounded'
  BY <1>1 DEF Inv, Isolated, SessionsBounded
<1>8. QED BY <1>4, <1>5, <1>6, <1>7 DEF Inv

\* The response is sent.
LEMMA FinishKeeps ==
  ASSUME Inv, NEW r \in Connections, Finish(r)
  PROVE  Inv' /\ RefusedWhenFull
BY Admissions, EndKeeps DEF Finish

\* The peer leaves.
LEMMA CloseKeeps ==
  ASSUME Inv, NEW r \in Connections, Close(r)
  PROVE  Inv' /\ RefusedWhenFull
<1> DEFINE left == [request[r] EXCEPT !.open = FALSE, !.held = FALSE]
<1>1. /\ request[r].phase \in {"verifying", "answered"}
      /\ metrics' = Completed(metrics, request[r])
      /\ UNCHANGED <<clock, arrived, sessions, buckets, lab, ssePerClient, unselected>>
      /\ request' = [request EXCEPT ![r] = IF request[r].phase = "answered" THEN Idle ELSE left]
  BY DEF Close
<1>2. request[r] \in Request /\ WellFormed(request[r])
  BY Tables
<1>3. CASE request[r].phase = "answered"
  <2>1. request' = [request EXCEPT ![r] = Idle]
    BY <1>1, <1>3
  <2>2. QED BY <1>1, <2>1, Admissions, EndKeeps
<1>4. CASE request[r].phase = "verifying"
  <2>1. request' = [request EXCEPT ![r] = left]
    BY <1>1, <1>4
  <2>2. /\ left \in Request /\ ~left.held /\ left.phase = "verifying"
        /\ left.limited = request[r].limited /\ left.shown = request[r].shown
        /\ left.principal = request[r].principal /\ left.token = request[r].token
    BY <1>2, <1>4 DEF Request
  <2> HIDE DEF left
  <2>3. WellFormed(left)
    BY <1>2, <1>4, <2>2 DEF WellFormed
  <2>4. QED BY <1>1, <2>1, <2>2, <2>3, EndKeeps
<1>5. QED BY <1>1, <1>3, <1>4

\* The first cleanup of a stream gives it back, a later one finds nothing.
LEMMA CleanupKeeps ==
  ASSUME Inv, NEW r \in Connections, Cleanup(r)
  PROVE  Inv' /\ RefusedWhenFull
<1> DEFINE ended == [request[r] EXCEPT !.phase = "closed", !.open = FALSE, !.shown = {}]
<1>1. /\ request[r].phase \in {"streaming", "closed"}
      /\ request' = [request EXCEPT ![r] = IF request[r].phase = "closed" THEN Idle ELSE ended]
      /\ UNCHANGED <<clock, arrived, sessions, buckets, lab, unselected>>
  BY DEF Cleanup
<1>2. request[r] \in Request /\ WellFormed(request[r])
  BY Tables
<1>3. ASSUME NEW q \in Request, WellFormed(q), q.limited => request[r].limited, ShownOwn(q),
             request' = [request EXCEPT ![r] = q],
             Counted', metrics' \in Metrics, ssePerClient' \in [ClientKeys -> Nat]
      PROVE  Inv' /\ RefusedWhenFull
  <2>1. /\ OthersStay(r) /\ request'[r] = q /\ RefusedWhenFull
        /\ \A x \in Connections \ {r} : request'[x] = request[x]
    BY <1>3, OneRequest DEF Inv
  <2>2. Structure'
    BY <1>1, <1>3, <2>1 DEF Inv, Structure, GatewayTypeOK, OthersStay
  <2>3. Isolated'
    <3>1. Isolated /\ unselected' = unselected /\ lab' = lab
      BY <1>1 DEF Inv
    <3>2. QED BY <1>3, <2>1, <3>1, ApartAs
  <2>4. SessionsBounded'
    BY <1>1 DEF Inv, SessionsBounded
  <2>5. QED BY <1>3, <2>1, <2>2, <2>3, <2>4 DEF Inv
<1>4. CASE request[r].phase = "closed"
  <2>1. request' = [request EXCEPT ![r] = Idle] /\ UNCHANGED <<metrics, ssePerClient>>
    BY <1>1, <1>4 DEF Cleanup, Released
  <2>2. OthersStay(r) /\ request'[r] = Idle
    BY <2>1, Admissions, OneRequest DEF Inv
  <2>3. request[r].held = FALSE /\ Idle.held = FALSE
    BY <1>2, <1>4 DEF WellFormed, Request, Idle
  <2>4. Counted'
    BY <1>1, <1>4, <2>1, <2>2, <2>3, Admissions, ContinuesCounted DEF Inv
  <2>5. metrics' \in Metrics /\ ssePerClient' \in [ClientKeys -> Nat]
    BY <2>1, Tables DEF GatewayTypeOK
  <2>6. ShownOwn(Idle)
    BY Admissions DEF ShownOwn
  <2>7. QED BY <1>3, <2>1, <2>4, <2>5, <2>6, Admissions
<1>5. CASE request[r].phase = "streaming"
  <2>1. /\ request' = [request EXCEPT ![r] = ended] /\ metrics' = ReleaseSse(metrics)
        /\ ssePerClient' = [ssePerClient EXCEPT
               ![request[r].client] = IF @ > 0 THEN @ - 1 ELSE 0]
    BY <1>1, <1>5 DEF Cleanup, Released
  <2>2. /\ ended \in Request /\ ended.held = request[r].held /\ ended.phase = "closed"
        /\ ended.limited = request[r].limited /\ ended.shown = {}
    BY <1>2 DEF Request
  <2> HIDE DEF ended
  <2>3. WellFormed(ended) /\ ShownOwn(ended)
    BY <1>2, <1>5, <2>2 DEF WellFormed, ShownOwn
  <2>4. OthersStay(r) /\ request'[r] = ended
    BY <2>1, <2>2, <2>3, OneRequest DEF Inv
  <2>5. Counted' /\ metrics' \in Metrics /\ ssePerClient' \in [ClientKeys -> Nat]
    BY <1>1, <1>5, <2>1, <2>2, <2>4, StreamEndsCounted DEF Inv
  <2>6. QED BY <1>3, <2>1, <2>2, <2>3, <2>5
<1>6. QED BY <1>1, <1>4, <1>5

\* Time passes.
LEMMA TickKeeps ==
  ASSUME Inv, Tick
  PROVE  Inv' /\ RefusedWhenFull
<1>1. /\ clock' = clock + 1 /\ clock' \in 0 .. MaxClock /\ clock' \in Nat
      /\ UNCHANGED <<arrived, sessions, buckets, metrics, lab, ssePerClient, request, unselected>>
  BY Tables, GatewayAssumption DEF Tick, GatewayTypeOK
<1>2. Fresh(buckets, clock')
  BY <1>1, Tables, TimeFills
<1>3. Structure'
  BY <1>1, <1>2 DEF Inv, Structure, GatewayTypeOK
<1>4. SessionsBounded'
  BY <1>1, Tables, TimeEnds DEF SessionsBounded
<1>5. Counted'
  BY <1>1 DEF Inv, Counted, CountedOnce, AdmissionExact, Listeners
<1>6. Isolated' /\ RefusedWhenFull
  BY <1>1, ApartAs DEF Inv, RefusedWhenFull
<1>7. QED BY <1>3, <1>4, <1>5, <1>6 DEF Inv

\* Every step keeps the invariant, and refuses a login only at a limit.
LEMMA NextKeeps ==
  ASSUME Inv, [GatewayNext]_gatewayVars
  PROVE  Inv' /\ RefusedWhenFull
<1>1. CASE Tick
  BY <1>1, TickKeeps
<1>2. ASSUME NEW r \in Connections, Starts(r) PROVE Inv' /\ RefusedWhenFull
  <2>1. CASE Overloaded(r)
    BY <2>1, OverloadedKeeps
  <2>2. CASE Plain(r)
    BY <2>2, PlainKeeps
  <2>3. ASSUME NEW p \in Principals, NEW operator \in BOOLEAN, NEW lifetime \in Lifetimes,
               Login(r, p, [operator |-> operator, expiresAt |-> clock + lifetime])
        PROVE  Inv' /\ RefusedWhenFull
    <3>1. [operator |-> operator, expiresAt |-> clock + lifetime] \in Token
      <4>1. clock \in Nat /\ lifetime \in Nat
        BY Tables, GatewayAssumption
      <4>2. QED BY <4>1 DEF Token
    <3>2. QED BY <2>3, <3>1, LoginKeeps
  <2>4. ASSUME NEW id \in SessionIds,
               \/ Unauthenticated(r, id)
               \/ Seen(r, id) \/ Logout(r, id) \/ ReadState(r, id)
               \/ \E client \in ClientKeys : OpenStream(r, id, client) \/ Mutate(r, id, client)
        PROVE  Inv' /\ RefusedWhenFull
    BY <2>4, UnauthenticatedKeeps, SeenKeeps, ReadStateKeeps, OpenStreamKeeps, MutateKeeps
  <2>5. QED BY <1>2, <2>1, <2>2, <2>3, <2>4 DEF Starts
<1>3. ASSUME NEW r \in Connections, Goes(r) PROVE Inv' /\ RefusedWhenFull
  BY <1>3, VerifiedKeeps, NotVerifiedKeeps, VerifierThrowsKeeps, BodyRefusedKeeps,
     BodyReadKeeps, BodyBrokenKeeps, FinishKeeps, CloseKeeps DEF Goes
<1>4. ASSUME NEW r \in Connections, Cleanup(r) PROVE Inv' /\ RefusedWhenFull
  BY <1>4, CleanupKeeps
<1>5. CASE UNCHANGED gatewayVars
  <2>1. /\ UNCHANGED <<clock, arrived, sessions, buckets, metrics, lab, ssePerClient, request,
                       unselected>>
    BY <1>5 DEF gatewayVars
  <2>2. Structure'
    BY <2>1 DEF Inv, Structure, GatewayTypeOK
  <2>3. Counted' /\ SessionsBounded'
    BY <2>1 DEF Inv, Counted, CountedOnce, AdmissionExact, Listeners, SessionsBounded
  <2>4. Isolated' /\ RefusedWhenFull
    BY <2>1, ApartAs DEF Inv, RefusedWhenFull
  <2>5. QED BY <2>2, <2>3, <2>4 DEF Inv
<1>6. QED BY <1>1, <1>2, <1>3, <1>4, <1>5 DEF GatewayNext

\* Before the first request everything is empty.
LEMMA InitHolds == ASSUME GatewayInit PROVE Inv
<1>1. /\ clock = 0 /\ arrived = 0 /\ sessions = [id \in SessionIds |-> Nothing]
      /\ buckets = <<>> /\ metrics = NewTelemetry
      /\ lab = [written |-> [o \in Objects |-> {}], state |-> 1,
                tenantStates |-> [t \in Tenants |-> Nothing]]
      /\ ssePerClient = [k \in ClientKeys |-> 0]
      /\ request = [r \in Connections |-> Idle] /\ unselected = FALSE
  BY DEF GatewayInit
<1>2. \A r \in Connections : request[r] = Idle
  BY <1>1
<1>3. Structure
  <2>1. lab \in Lab
    <3>1. 1 \in Objects
      BY GatewayAssumption, FS_CardinalityType DEF Objects
    <3>2. QED BY <1>1, <3>1 DEF Lab
  <2>2. metrics \in Metrics
    BY <1>1 DEF NewTelemetry, Metrics
  <2>3. request \in [Connections -> Request] /\ \A r \in Connections : WellFormed(request[r])
    BY <1>1, <1>2, Admissions
  <2>4. buckets \in Seq(Bucket) /\ Fresh(buckets, clock) /\ OneEach(buckets)
    BY <1>1 DEF Fresh, OneEach
  <2>5. clock \in 0 .. MaxClock /\ arrived \in 0 .. MaxRequests
    BY <1>1, GatewayAssumption
  <2>6. /\ sessions \in [SessionIds -> AuthenticatedSession \cup {Nothing}]
        /\ ssePerClient \in [ClientKeys -> Nat] /\ unselected \in BOOLEAN
    BY <1>1
  <2>7. QED BY <2>1, <2>2, <2>3, <2>4, <2>5, <2>6 DEF Structure, GatewayTypeOK
<1>4. Counted
  <2>1. Held = {} /\ Listeners = {} /\ \A k : ListenersOf(k) = {}
    BY <1>2, Admissions DEF Held, Listeners, ListenersOf
  <2>2. Cardinality({}) = 0
    BY FS_EmptySet
  <2>3. CountersAgree
    <3>1. /\ metrics.requestsTotal = 0 /\ metrics.recorded = 0
          /\ metrics.overloadRejections = 0 /\ metrics.currentRequests = 0
          /\ metrics.currentSseStreams = 0
      BY <1>1 DEF NewTelemetry
    <3>2. /\ MaximumConcurrentRequests \in Nat /\ MaximumConcurrentSseStreams \in Nat
          /\ SseMaxTotal \in Nat /\ SseMaxPerClient \in Nat
      BY GatewayAssumption, TelemetryAssumption
    <3>3. ASSUME NEW k \in ClientKeys
          PROVE  /\ ssePerClient[k] = Cardinality(ListenersOf(k))
                 /\ ssePerClient[k] <= SseMaxPerClient
      <4>1. ListenersOf(k) = {}
        BY <2>1
      <4>2. ssePerClient[k] = 0
        BY <1>1
      <4>3. QED BY <2>2, <3>2, <4>1, <4>2
    <3>4. Cardinality(Held) = 0 /\ Cardinality(Listeners) = 0
      BY <2>1, <2>2
    <3>5. QED BY <1>1, <3>1, <3>2, <3>3, <3>4 DEF CountersAgree
  <2>4. QED BY <2>3, CountedAs
<1>5. SessionsBounded
  <2>1. Live(sessions, clock) = {}
    BY <1>1 DEF Live
  <2>2. \A p : LiveOf(sessions, clock, p) = {}
    BY <2>1 DEF LiveOf
  <2>3. Cardinality({}) = 0
    BY FS_EmptySet
  <2>4. QED BY <2>1, <2>2, <2>3, SessionAssumption DEF SessionsBounded, Bounded
<1>6. Isolated
  <2>1. Apart(lab)
    BY <1>1 DEF Apart
  <2>2. ShownOwn(Idle)
    BY Admissions DEF ShownOwn
  <2>3. QED BY <1>2, <2>1, <2>2, ApartAs
<1>7. QED BY <1>3, <1>4, <1>5, <1>6 DEF Inv

-----------------------------------------------------------------------------
(* Theorems *)

\* The inductive invariant holds in every state of the request path.
THEOREM InvHolds == GatewaySpec => []Inv
<1>1. GatewayInit => Inv
  BY InitHolds
<1>2. Inv /\ [GatewayNext]_gatewayVars => Inv'
  BY NextKeeps
<1>3. QED BY <1>1, <1>2, PTL DEF GatewaySpec

\* enterRequest, completeRequestObservation, enterSse and the cleanups of streams:
\* whichever of finish, close and error comes first, and however handlers take
\* turns, every request is counted once, every place is given back once, and the
\* counters are the requests and streams there are.
THEOREM GatewayCountersExact == GatewaySpec => []CountersExact
<1>1. Inv => CountersExact
  BY DEF Inv, Structure, Counted, CountersExact
<1>2. QED BY <1>1, InvHolds, PTL

\* As long as every handler that writes has selected its tenant's state, no state,
\* answer or stream of a tenant contains what another tenant's requests wrote.
THEOREM GatewaySelectionIsolates == GatewaySpec => []SelectionIsolates
<1>1. Inv => SelectionIsolates
  BY DEF Inv, Isolated, SelectionIsolates, WritesApart, StatesApart
<1>2. QED BY <1>1, InvHolds, PTL

\* sessionBoundary.issue: live sessions never exceed the limits, and a login is
\* refused for a limit only if live sessions fill it, however long ago sessions
\* were last seen and whoever logged in while the verifier was waiting.
THEOREM GatewaySessionLimits == GatewaySpec => SessionLimits
<1> DEFINE Limits ==
     LET live == Live(sessions, clock)
         of(p) == {id \in live : sessions[id].principal = p}
     IN /\ Cardinality(live) <= MaxSessions
        /\ \A p \in Principals : Cardinality(of(p)) <= MaxSessionsPerPrincipal
        /\ \A r \in Connections :
             (request'[r].limited /\ ~request[r].limited)
               => \/ Cardinality(live) = MaxSessions
                  \/ Cardinality(of(request[r].principal)) = MaxSessionsPerPrincipal
<1>1. Inv /\ [GatewayNext]_gatewayVars => [Limits]_gatewayVars
  <2>1. SUFFICES ASSUME Inv, [GatewayNext]_gatewayVars PROVE Limits
    OBVIOUS
  <2>2. RefusedWhenFull /\ Bounded(sessions, clock)
    BY <2>1, NextKeeps, Tables
  <2>3. QED BY <2>2 DEF Bounded, LiveOf, RefusedWhenFull
<1>2. QED BY <1>1, InvHolds, PTL DEF GatewaySpec, SessionLimits

-----------------------------------------------------------------------------
(* The limiter *)

\* A step that leaves the table and the clock leaves every level.
LEMMA LevelsStay ==
  ASSUME UNCHANGED <<buckets, clock>>
  PROVE  [k \in ClientKeys |-> TokensOf(buckets, k, clock)]'
           = [k \in ClientKeys |-> TokensOf(buckets, k, clock)]
OBVIOUS

\* A request that is let through pays with a token of its own client; one that is
\* not changes no level.
LEMMA BodyReadLevels ==
  ASSUME Inv, NEW r \in Connections, BodyRead(r)
  PROVE  [Limiter!Next]_([k \in ClientKeys |-> TokensOf(buckets, k, clock)])
<1> DEFINE key == request[r].client
           level == [k \in ClientKeys |-> TokensOf(buckets, k, clock)]
<1>1. request[r].phase = "uploading" /\ clock' = clock
  BY DEF BodyRead
<1>2. key \in ClientKeys
  BY <1>1, Uploading
<1>3. CASE UNCHANGED buckets
  BY <1>1, <1>3, LevelsStay
<1>4. CASE buckets' = Take(buckets, key, clock)
  <2>1. /\ \A k : k # key => TokensOf(buckets', k, clock) = TokensOf(buckets, k, clock)
        /\ TokensOf(buckets', key, clock) = IF Allows(buckets, key, clock)
                                            THEN TokensOf(buckets, key, clock) - 1
                                            ELSE TokensOf(buckets, key, clock)
    BY <1>2, <1>4, Tables, Takes
  <2>2. level' = [k \in ClientKeys |-> TokensOf(buckets', k, clock)]
    BY <1>1
  <2>3. CASE Allows(buckets, key, clock)
    <3>1. level[key] >= 1
      BY <1>2, <2>3 DEF Allows
    <3>2. level' = [level EXCEPT ![key] = level[key] - 1]
      BY <1>2, <2>1, <2>2, <2>3
    <3>3. Limiter!Pass(key)
      BY <3>1, <3>2 DEF Limiter!Pass
    <3>4. QED BY <1>2, <3>3 DEF Limiter!Next
  <2>4. CASE ~Allows(buckets, key, clock)
    <3>1. level' = level
      BY <1>2, <2>1, <2>2, <2>4
    <3>2. QED BY <3>1
  <2>5. QED BY <2>3, <2>4
<1>5. QED BY <1>3, <1>4 DEF BodyRead

\* Time fills all buckets.
LEMMA TickLevels ==
  ASSUME Inv, Tick
  PROVE  Limiter!Tick
<1>1. clock' = clock + 1 /\ clock' \in Nat /\ buckets' = buckets
  BY Tables DEF Tick
<1>2. ASSUME NEW k \in ClientKeys
      PROVE  TokensOf(buckets, k, clock') = Min({Capacity, TokensOf(buckets, k, clock) + Refill})
  BY <1>1, Tables, TimeFills
<1>3. \A S : Limiter!Min(S) = Min(S)
  BY DEF Limiter!Min, Min
<1>4. QED BY <1>1, <1>2, <1>3 DEF Limiter!Tick

\* MutationRateLimiter: whatever buckets are evicted, deleted and put back, the
\* table limits clients like one bucket for each client that is never forgotten:
\* what a client has left grows with time only.
THEOREM GatewayNeverRefunded == GatewaySpec => NeverRefunded
<1> DEFINE level == [k \in ClientKeys |-> TokensOf(buckets, k, clock)]
<1>1. GatewayInit => Limiter!Init
  <2>1. SUFFICES ASSUME GatewayInit PROVE Limiter!Init
    OBVIOUS
  <2>2. \A k : ~Tracked(buckets, k)
    BY <2>1 DEF GatewayInit, Tracked
  <2>3. QED BY <2>2 DEF TokensOf, Limiter!Init
<1>2. Inv /\ [GatewayNext]_gatewayVars => [Limiter!Next]_level
  <2>1. SUFFICES ASSUME Inv, [GatewayNext]_gatewayVars PROVE [Limiter!Next]_level
    OBVIOUS
  <2>2. CASE Tick
    BY <2>1, <2>2, TickLevels DEF Limiter!Next
  <2>3. ASSUME NEW r \in Connections, BodyRead(r) PROVE [Limiter!Next]_level
    BY <2>1, <2>3, BodyReadLevels
  <2>4. CASE UNCHANGED <<buckets, clock>>
    BY <2>4, LevelsStay
  <2>5. ASSUME NEW r \in Connections, Starts(r) PROVE UNCHANGED <<buckets, clock>>
    BY <2>5 DEF Starts, Overloaded, Plain, Login, Unauthenticated, Seen, Logout, ReadState,
                OpenStream, Mutate, Authenticated, Arrives
  <2>6. ASSUME NEW r \in Connections, Goes(r), ~BodyRead(r) PROVE UNCHANGED <<buckets, clock>>
    BY <2>6 DEF Goes, Verified, NotVerified, VerifierThrows, BodyRefused, BodyBroken, Finish,
                Close
  <2>7. ASSUME NEW r \in Connections, Cleanup(r) PROVE UNCHANGED <<buckets, clock>>
    BY <2>7 DEF Cleanup
  <2>8. UNCHANGED gatewayVars => UNCHANGED <<buckets, clock>>
    BY DEF gatewayVars
  <2>9. QED BY <2>1, <2>2, <2>3, <2>4, <2>5, <2>6, <2>7, <2>8 DEF GatewayNext
<1>3. QED BY <1>1, <1>2, InvHolds, PTL DEF GatewaySpec, NeverRefunded, Limiter!Spec

=============================================================================
