----------------------------- MODULE SessionBoundary -----------------------------
(***************************************************************************)
(* packages/security/sessionBoundary.ts: the bounded table of sessions.    *)
(* A table maps the session ids in use to sessions, the others to Nothing.    *)
(***************************************************************************)
EXTENDS Naturals, FiniteSets, FiniteSetsExt

CONSTANTS
  Nothing, Principals,
  AbsoluteTtl, IdleTtl,
  MaxSessions, MaxSessionsPerPrincipal

ASSUME SessionAssumption ==
  {AbsoluteTtl, IdleTtl, MaxSessions, MaxSessionsPerPrincipal} \subseteq Nat \ {0}

AuthenticatedSession ==
  [principal : Principals, operator : BOOLEAN, lastSeenAt : Nat, expiresAt : Nat]

Expired(session, now) ==
  now >= session.expiresAt \/ now - session.lastSeenAt >= IdleTtl

\* The ids that authenticate.
Live(sessions, now) ==
  {id \in DOMAIN sessions : sessions[id] # Nothing /\ ~Expired(sessions[id], now)}

PruneFaulty(sessions, now) == sessions
Prune(sessions, now) ==
  [id \in DOMAIN sessions |->
     IF id \in Live(sessions, now) THEN sessions[id] ELSE Nothing]

Known(sessions) == {id \in DOMAIN sessions : sessions[id] # Nothing}

LimitReached(sessions, p) ==
  \/ Cardinality(Known(sessions)) >= MaxSessions
  \/ Cardinality({id \in Known(sessions) : sessions[id].principal = p})
       >= MaxSessionsPerPrincipal

\* The session ends with its identity, or earlier.
ExpiresAt(now, maximumExpiresAt) == Min({now + AbsoluteTtl, maximumExpiresAt})

Issue(sessions, id, p, operator, now, maximumExpiresAt) ==
  [sessions EXCEPT ![id] =
     [principal |-> p, operator |-> operator, lastSeenAt |-> now,
      expiresAt |-> ExpiresAt(now, maximumExpiresAt)]]

\* An expired session is deleted when it is presented, a live one is seen.
Authenticate(sessions, id, now) ==
  IF id \in Live(sessions, now) THEN [sessions EXCEPT ![id].lastSeenAt = now]
  ELSE [sessions EXCEPT ![id] = Nothing]

Revoke(sessions, id) == [sessions EXCEPT ![id] = Nothing]

=============================================================================
