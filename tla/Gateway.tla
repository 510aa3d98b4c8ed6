--------------------------------- MODULE Gateway ---------------------------------
(***************************************************************************)
(* The request path of apps/realtime-lab/server.ts in authenticated mode:  *)
(* admission, login through the OIDC verifier, sessions, the choice of the *)
(* tenant's state, the mutation rate limit and event streams, for requests *)
(* on several connections whose handlers take turns at their awaits.       *)
(*                                                                         *)
(* All tenants share the variable state of the closure.  A state object is *)
(* reduced to the tenants whose requests wrote into it; what the routes do *)
(* to it is LabServer's subject.                                           *)
(***************************************************************************)
EXTENDS SessionBoundary, MutationRateLimiter, ServiceTelemetry

CONSTANTS
  Tenants,
  TenantOf,          \* [Principals -> Tenants]
  Connections,
  Lifetimes,         \* of access tokens
  SseMaxTotal, SseMaxPerClient,
  MaxRequests,       \* bound: requests that arrive
  MaxClock            \* bound: the clock

VARIABLES
  clock,
  arrived,       \* how many requests have arrived
  sessions, buckets, metrics,
  lab,           \* state objects, the shared binding and tenantStates
  ssePerClient,
  request,       \* [Connections -> the request being handled]
  unselected     \* history: a handler failed before it selected a state

gatewayVars ==
  <<clock, arrived, sessions, buckets, metrics, lab, ssePerClient, request,
    unselected>>

\* What login uses of the identity that the verifier finds in an access token.
Token == [operator : BOOLEAN, expiresAt : Nat]

ASSUME GatewayAssumption ==
  /\ TenantOf \in [Principals -> Tenants]
  /\ Lifetimes \subseteq Nat \ {0}
  /\ {SseMaxTotal, SseMaxPerClient, MaxRequests, MaxClock} \subseteq Nat
  /\ IsFiniteSet(Tenants) /\ IsFiniteSet(Connections)
  /\ Nothing \notin Tenants /\ Nothing \notin Principals
  /\ Nothing \notin ClientKeys /\ Nothing \notin Nat
  /\ Nothing \notin AuthenticatedSession /\ Nothing \notin Token

\* As many objects as can be referred to at once, and a new one.
Objects == 1 .. Cardinality(Tenants) + 2
SessionIds == 1 .. MaxSessions + 1

\* Whose requests write: a tenant's, or those of nobody yet (activeTenantId "").
Writers == Tenants \cup {Nothing}

Lab ==
  [written : [Objects -> SUBSET Writers],   \* whose requests wrote to the object
   state : Objects,
   tenantStates : [Tenants -> Objects \cup {Nothing}]]

\* open: the peer is there.  held: requestObservationComplete is FALSE.
\* shown: whose writes the state in the answer, or in the stream, contains.
Request ==
  [phase : {"idle", "verifying", "uploading", "answered", "streaming", "closed"},
   open : BOOLEAN, held : BOOLEAN,
   principal : Principals \cup {Nothing},
   client : ClientKeys \cup {Nothing},
   token : Token \cup {Nothing},
   limited : BOOLEAN,                   \* refused for the session limit
   shown : SUBSET Writers]

Idle ==
  [phase |-> "idle", open |-> FALSE, held |-> FALSE, principal |-> Nothing,
   client |-> Nothing, token |-> Nothing, limited |-> FALSE, shown |-> {}]

GatewayInit ==
  /\ clock = 0 /\ arrived = 0
  /\ sessions = [id \in SessionIds |-> Nothing]
  /\ buckets = <<>>
  /\ metrics = NewTelemetry
  /\ lab = [written |-> [o \in Objects |-> {}], state |-> 1,
            tenantStates |-> [t \in Tenants |-> Nothing]]
  /\ ssePerClient = [k \in ClientKeys |-> 0]
  /\ request = [r \in Connections |-> Idle]
  /\ unselected = FALSE

-----------------------------------------------------------------------------
(* The tenants' states *)

\* A new object becomes the state; objects nothing refers to are forgotten.
WithState(l, contents) ==
  LET referred == {l.state} \cup {l.tenantStates[t] : t \in Tenants}
      new == Min(Objects \ referred)
  IN [l EXCEPT !.state = new,
               !.written = [o \in Objects |->
                  IF o = new THEN contents ELSE IF o \in referred THEN @[o] ELSE {}]]

\* state = tenantStates.get(id) ?? freshState(); tenantStates.set(id, state)
SelectedFaulty(l, t) ==
  IF l.tenantStates[t] = Nothing THEN [l EXCEPT !.tenantStates[t] = l.state]
  ELSE [l EXCEPT !.state = l.tenantStates[t]]
Selected(l, t) ==
  LET chosen == IF l.tenantStates[t] = Nothing THEN WithState(l, {})
                ELSE [l EXCEPT !.state = l.tenantStates[t]]
  IN [chosen EXCEPT !.tenantStates[t] = chosen.state]

Contents(l) == l.written[l.state]

\* The request writes to the state.
Wrote(l, t) == [l EXCEPT !.written[l.state] = @ \cup {t}]

\* What a mutating route does after the state was selected: its effect, the
\* route reset, or a failure, after which the snapshot is restored and
\* lastResult is set.
RouteResults(l, t) ==
  {Wrote(l, t), WithState(l, {}), Wrote(WithState(l, Contents(l)), t)}

\* finalize, without a database: the state is the tenant's.
Finalized(l, t) == [l EXCEPT !.tenantStates[t] = l.state]

\* broadcast: the state goes to the tenant's streams.
ListenerFor(r, t) ==
  request[r].phase = "streaming" /\ TenantOf[request[r].principal] = t
Broadcast(reqs, l, t) ==
  [r \in Connections |-> IF ListenerFor(r, t) THEN [reqs[r] EXCEPT !.shown = Contents(l)]
                         ELSE reqs[r]]

-----------------------------------------------------------------------------
(* Admission and completion of a request *)

\* completeRequestObservation, at most once for a request.
Completed(m, req) == IF req.held THEN RecordRequest(ReleaseRequest(m)) ELSE m

\* The handler ends the response; shown is what it contains of the state.
Answered(req, shown) ==
  [req EXCEPT !.phase = "answered", !.shown = shown, !.token = Nothing, !.client = Nothing,
              !.principal = IF shown = {} THEN Nothing ELSE @]
Respond(r, shown) == request' = [request EXCEPT ![r] = Answered(@, shown)]

\* enterRequest admits the request; its handler runs up to the first await.
Arrives(r) ==
  /\ request[r].phase = "idle" /\ arrived < MaxRequests
  /\ AdmitsRequest(metrics)
  /\ arrived' = arrived + 1
  /\ UNCHANGED clock

Admission == [Idle EXCEPT !.open = TRUE, !.held = TRUE]

Overloaded(r) ==
  /\ request[r].phase = "idle" /\ arrived < MaxRequests
  /\ ~AdmitsRequest(metrics)
  /\ arrived' = arrived + 1
  /\ metrics' = Overload(metrics)
  /\ UNCHANGED <<clock, sessions, buckets, lab, ssePerClient, request, unselected>>

\* Requests answered without a session: static files, health, a method the
\* route does not have, a login from an origin that is not allowed.
Plain(r) ==
  /\ Arrives(r)
  /\ metrics' = EnterRequest(metrics)
  /\ request' = [request EXCEPT ![r] = Answered(Admission, {})]
  /\ UNCHANGED <<sessions, buckets, lab, ssePerClient, unselected>>

-----------------------------------------------------------------------------
(* Login *)

Login(r, p, token) ==
  /\ Arrives(r)
  /\ metrics' = EnterRequest(metrics)
  /\ request' = [request EXCEPT ![r] =
       [Admission EXCEPT !.phase = "verifying", !.principal = p, !.token = token]]
  /\ UNCHANGED <<sessions, buckets, lab, ssePerClient, unselected>>

\* The verifier returns the identity and sessionBoundary.issue runs.  Ids are
\* random; one that is not in use stands for a new one.
Verified(r) ==
  LET req == request[r]
      pruned == Prune(sessions, clock)
      full == LimitReached(pruned, req.principal)
      expired == ExpiresAt(clock, req.token.expiresAt) <= clock
  IN
  /\ req.phase = "verifying"
  /\ sessions' = IF full \/ expired THEN pruned
                 ELSE Issue(pruned, Min({id \in SessionIds : pruned[id] = Nothing}),
                            req.principal, req.token.operator, clock, req.token.expiresAt)
  /\ request' = [request EXCEPT ![r] = [Answered(@, {}) EXCEPT !.limited = full]]
  /\ UNCHANGED <<clock, arrived, buckets, metrics, lab, ssePerClient, unselected>>

\* IdentityVerificationError: the token is refused, or the keys are unavailable.
NotVerified(r) ==
  /\ request[r].phase = "verifying"
  /\ Respond(r, {})
  /\ UNCHANGED <<clock, arrived, sessions, buckets, metrics, lab, ssePerClient, unselected>>

\* Any other error, such as that of the second attempt after a refresh of the
\* keys, is answered like an error of a route, although no state was selected:
\* lastResult is written to whatever state is bound.  finalize files that state
\* under the tenant "" and broadcasts it to the streams of "", which nobody
\* reads: a session always has its tenant's id.
VerifierThrows(r) ==
  /\ request[r].phase = "verifying"
  /\ lab' = Wrote(lab, Nothing)
  /\ Respond(r, Contents(lab'))
  /\ unselected' = TRUE
  /\ UNCHANGED <<clock, arrived, sessions, buckets, metrics, ssePerClient>>

-----------------------------------------------------------------------------
(* Requests with a session cookie *)

\* The session authenticates and the request runs for its tenant.
Authenticated(r, id) ==
  /\ Arrives(r)
  /\ id \in Live(sessions, clock)

\* No session, or one that has ended.
Unauthenticated(r, id) ==
  /\ Arrives(r)
  /\ id \notin Live(sessions, clock)
  /\ sessions' = Authenticate(sessions, id, clock)
  /\ metrics' = EnterRequest(metrics)
  /\ request' = [request EXCEPT ![r] = Answered(Admission, {})]
  /\ UNCHANGED <<buckets, lab, ssePerClient, unselected>>

ForPrincipal(id) == [Admission EXCEPT !.principal = sessions[id].principal]
TenantOfSession(id) == TenantOf[sessions[id].principal]

\* The current session, a refusal by origin or CSRF token, or by role.
Seen(r, id) ==
  /\ Authenticated(r, id)
  /\ sessions' = Authenticate(sessions, id, clock)
  /\ metrics' = EnterRequest(metrics)
  /\ request' = [request EXCEPT ![r] = Answered(ForPrincipal(id), {})]
  /\ UNCHANGED <<buckets, lab, ssePerClient, unselected>>

Logout(r, id) ==
  /\ Authenticated(r, id)
  /\ sessions' = Revoke(sessions, id)
  /\ metrics' = EnterRequest(metrics)
  /\ request' = [request EXCEPT ![r] = Answered(ForPrincipal(id), {})]
  /\ UNCHANGED <<buckets, lab, ssePerClient, unselected>>

\* GET or HEAD of the state.
ReadState(r, id) ==
  /\ Authenticated(r, id)
  /\ sessions' = Authenticate(sessions, id, clock)
  /\ metrics' = EnterRequest(metrics)
  /\ lab' = Selected(lab, TenantOfSession(id))
  /\ request' = [request EXCEPT ![r] =
       Answered(ForPrincipal(id), Contents(lab'))]
  /\ UNCHANGED <<buckets, ssePerClient, unselected>>

-----------------------------------------------------------------------------
(* Event streams *)

Listeners == {r \in Connections : request[r].phase = "streaming"}

SseLimited(client) ==
  Cardinality(Listeners) >= SseMaxTotal \/ ssePerClient[client] >= SseMaxPerClient

\* The request's observation is released and, unless the refusal has been
\* counted already, recorded.
Observed(m) == Overload(ReleaseRequest(m))

OpenStream(r, id, client) ==
  LET entered == EnterRequest(metrics)
      selected == Selected(lab, TenantOfSession(id))
      req == [ForPrincipal(id) EXCEPT !.client = client]
  IN
  /\ Authenticated(r, id)
  /\ sessions' = Authenticate(sessions, id, clock)
  /\ lab' = selected
  /\ \/ /\ SseLimited(client)
        /\ metrics' = entered
        /\ request' = [request EXCEPT ![r] = Answered(req, {})]
        /\ UNCHANGED ssePerClient
     \/ /\ ~SseLimited(client) /\ ~AdmitsSse(entered)
        /\ metrics' = Observed(entered)
        /\ request' = [request EXCEPT ![r] =
             Answered([req EXCEPT !.held = FALSE], {})]
        /\ UNCHANGED ssePerClient
     \/ /\ ~SseLimited(client) /\ AdmitsSse(entered)
        /\ metrics' = Completed(EnterSse(entered), req)
        /\ request' = [request EXCEPT ![r] =
             [req EXCEPT !.phase = "streaming", !.held = FALSE,
                         !.shown = Contents(selected)]]
        /\ ssePerClient' = [ssePerClient EXCEPT ![client] = @ + 1]
  /\ UNCHANGED <<buckets, unselected>>

\* cleanup is called on the close of request and response and on an error; only
\* the first call finds the stream.
ReleasedFaulty(r) == FALSE
Released(r) == request[r].phase = "closed"

Cleanup(r) ==
  /\ request[r].phase \in {"streaming", "closed"}
  /\ IF Released(r) THEN UNCHANGED <<metrics, ssePerClient>>
     ELSE /\ metrics' = ReleaseSse(metrics)
          /\ ssePerClient' = [ssePerClient EXCEPT
               ![request[r].client] = IF @ > 0 THEN @ - 1 ELSE 0]
  /\ request' = [request EXCEPT
       ![r] = IF @.phase = "closed" THEN Idle
              ELSE [@ EXCEPT !.phase = "closed", !.open = FALSE, !.shown = {}]]
  /\ UNCHANGED <<clock, arrived, sessions, buckets, lab, unselected>>

-----------------------------------------------------------------------------
(* Mutations *)

\* An operator's request with its origin and CSRF token waits for its body.
Mutate(r, id, client) ==
  /\ Authenticated(r, id)
  /\ sessions[id].operator
  /\ sessions' = Authenticate(sessions, id, clock)
  /\ metrics' = EnterRequest(metrics)
  /\ request' = [request EXCEPT ![r] =
       [ForPrincipal(id) EXCEPT !.phase = "uploading", !.client = client]]
  /\ UNCHANGED <<buckets, lab, ssePerClient, unselected>>

\* The body is refused while it is read.
BodyRefused(r) ==
  /\ request[r].phase = "uploading"
  /\ Respond(r, {})
  /\ UNCHANGED <<clock, arrived, sessions, buckets, metrics, lab, ssePerClient, unselected>>

\* The body is complete; the rest of the handler is synchronous.
BodyRead(r) ==
  LET t == TenantOf[request[r].principal]
      selected == Selected(lab, t)
      key == request[r].client
  IN
  /\ request[r].phase = "uploading"
  /\ \/ \* its headers or the idempotency key are malformed
        /\ lab' = selected
        /\ Respond(r, {})
        /\ UNCHANGED buckets
     \/ /\ ~Allows(buckets, key, clock)
        /\ lab' = selected
        /\ buckets' = Take(buckets, key, clock)
        /\ Respond(r, {})
     \/ /\ Allows(buckets, key, clock)
        /\ buckets' = Take(buckets, key, clock)
        /\ \E result \in RouteResults(selected, t) :
             /\ lab' = Finalized(result, t)
             /\ request' = [Broadcast(request, result, t) EXCEPT
                  ![r] = Answered(@, Contents(result))]
  /\ UNCHANGED <<clock, arrived, sessions, metrics, ssePerClient, unselected>>

\* The connection breaks: the read throws, and the error is answered as one of
\* the route, with lastResult and finalize, on the state that is selected then.
BodyBroken(r) ==
  LET t == TenantOf[request[r].principal]
      blocked == Wrote(lab, t)
  IN
  /\ request[r].phase = "uploading"
  /\ metrics' = Completed(metrics, request[r])
  /\ lab' = Finalized(blocked, t)
  /\ request' = [Broadcast(request, blocked, t) EXCEPT ![r] = Idle]
  /\ unselected' = TRUE
  /\ UNCHANGED <<clock, arrived, sessions, buckets, ssePerClient>>

-----------------------------------------------------------------------------
(* The end of a request *)

\* The response is sent.
Finish(r) ==
  /\ request[r].phase = "answered"
  /\ metrics' = Completed(metrics, request[r])
  /\ request' = [request EXCEPT ![r] = Idle]
  /\ UNCHANGED <<clock, arrived, sessions, buckets, lab, ssePerClient, unselected>>

\* The peer leaves before that; a handler at an await does not notice.
Close(r) ==
  /\ request[r].phase \in {"verifying", "answered"} /\ request[r].open
  /\ metrics' = Completed(metrics, request[r])
  /\ request' = [request EXCEPT
       ![r] = IF @.phase = "answered" THEN Idle
              ELSE [@ EXCEPT !.open = FALSE, !.held = FALSE]]
  /\ UNCHANGED <<clock, arrived, sessions, buckets, lab, ssePerClient, unselected>>

-----------------------------------------------------------------------------

Tick ==
  /\ clock < MaxClock /\ clock' = clock + 1
  /\ UNCHANGED <<arrived, sessions, buckets, metrics, lab, ssePerClient, request, unselected>>

Starts(r) ==
  \/ Overloaded(r)
  \/ Plain(r)
  \/ \E p \in Principals, operator \in BOOLEAN, lifetime \in Lifetimes :
       Login(r, p, [operator |-> operator, expiresAt |-> clock + lifetime])
  \/ \E id \in SessionIds :
       \/ Unauthenticated(r, id)
       \/ Seen(r, id) \/ Logout(r, id) \/ ReadState(r, id)
       \/ \E client \in ClientKeys : OpenStream(r, id, client) \/ Mutate(r, id, client)

Goes(r) ==
  \/ Verified(r) \/ NotVerified(r) \/ VerifierThrows(r)
  \/ BodyRefused(r) \/ BodyRead(r) \/ BodyBroken(r)
  \/ Finish(r) \/ Close(r)

GatewayNext == Tick \/ \E r \in Connections : Starts(r) \/ Goes(r) \/ Cleanup(r)

GatewaySpec == GatewayInit /\ [][GatewayNext]_gatewayVars

-----------------------------------------------------------------------------
(* Properties *)

\* Every variable has its type.
GatewayTypeOK ==
  /\ clock \in 0 .. MaxClock /\ arrived \in 0 .. MaxRequests
  /\ sessions \in [SessionIds -> AuthenticatedSession \cup {Nothing}]
  /\ buckets \in Seq(Bucket)
  /\ metrics \in Metrics
  /\ lab \in Lab
  /\ ssePerClient \in [ClientKeys -> Nat]
  /\ request \in [Connections -> Request]
  /\ unselected \in BOOLEAN

\* AUTH_SESSION_BOUNDARY.md, "isolates each tenant in a distinct in-memory
\* engine state": no other tenant's request wrote to a tenant's state.
StatesApart ==
  \A t \in Tenants :
    lab.tenantStates[t] # Nothing
      => lab.written[lab.tenantStates[t]] \subseteq {t, Nothing}

\* "Tenant-tagged SSE listeners receive broadcasts only for their tenant": answers
\* and streams contain what the tenant's own requests wrote.
ShownApart ==
  \A r \in Connections :
    LET p == request[r].principal
    IN request[r].shown \subseteq (IF p = Nothing THEN {} ELSE {TenantOf[p]})

\* However handlers take turns, tenants stay apart as long as every handler that
\* writes has selected its tenant's state.
SelectionIsolates == unselected \/ (StatesApart /\ ShownApart)

\* A request is admitted or refused, and counted, exactly once, whichever of
\* finish and close its response emits and wherever the peer leaves.
CountedOnce ==
  /\ arrived = metrics.requestsTotal + Cardinality({r \in Connections : request[r].held})
  /\ metrics.requestsTotal = metrics.recorded + metrics.overloadRejections

\* The admission counters are the requests and streams there are: none leaks,
\* none is given back twice, and the limits hold.
AdmissionExact ==
  /\ metrics.currentRequests = Cardinality({r \in Connections : request[r].held})
  /\ metrics.currentRequests <= MaximumConcurrentRequests
  /\ metrics.currentSseStreams = Cardinality(Listeners)
  /\ metrics.currentSseStreams <= Min({SseMaxTotal, MaximumConcurrentSseStreams})
  /\ \A k \in ClientKeys :
       /\ ssePerClient[k] = Cardinality({r \in Listeners : request[r].client = k})
       /\ ssePerClient[k] <= SseMaxPerClient

\* A login is refused for the session limit only if live sessions fill it, and
\* they never exceed it.
SessionLimits ==
  [][LET live == Live(sessions, clock)
         of(p) == {id \in live : sessions[id].principal = p}
     IN /\ Cardinality(live) <= MaxSessions
        /\ \A p \in Principals : Cardinality(of(p)) <= MaxSessionsPerPrincipal
        /\ \A r \in Connections :
             (request'[r].limited /\ ~request[r].limited)
               => \/ Cardinality(live) = MaxSessions
                  \/ Cardinality(of(request[r].principal)) = MaxSessionsPerPrincipal]_gatewayVars

\* The bounded table of buckets limits like an unbounded one: what a client has
\* left grows with time only, whoever else comes and goes.
Limiter == INSTANCE TokenBucket
             WITH level <- [k \in ClientKeys |-> TokensOf(buckets, k, clock)]
NeverRefunded == Limiter!Spec

\* Types, and the agreement of the counters with the requests and streams.
CountersExact == GatewayTypeOK /\ CountedOnce /\ AdmissionExact

=============================================================================
