-------------------------------- MODULE Outbox --------------------------------
(***************************************************************************)
(* The outbox table of packages/storage/durableStore.ts: leased events.    *)
(* Every operation is one SQLite statement or BEGIN IMMEDIATE transaction, *)
(* hence atomic between processes; it is given here as its guard and the   *)
(* row it leaves behind.                                                   *)
(*                                                                         *)
(* Times are kept relative to the present: wait is the time until          *)
(* available_at and lease the time until claimed_until, 0 when that moment *)
(* has been reached (claimed_until <= now) or there is none.  Nothing else *)
(* about time is observable, so no clock and no bound on it are needed.    *)
(* attempts is only ever compared with MaximumAttempts and stops there.    *)
(***************************************************************************)
EXTENDS Naturals, FiniteSets, Sequences

CONSTANTS Events, Workers, None, MaximumAttempts

VARIABLE outbox   \* [Events -> Row]

\* created is the row's place in the order of created_at; rows created in the
\* same millisecond share it.  0: the event was not enqueued yet.
Row ==
  [created : Nat, wait : Nat, claimedBy : Workers \cup {None}, lease : Nat,
   attempts : 0 .. MaximumAttempts, delivered : BOOLEAN]

NoRow ==
  [created |-> 0, wait |-> 0, claimedBy |-> None, lease |-> 0, attempts |-> 0,
   delivered |-> FALSE]

\* enqueue: the row of a new event, available at once.
Enqueued(created) == [NoRow EXCEPT !.created = created]

\* Faulty: a claim does not wait for the end of the lease.
ClaimableInLease ==
  {e \in Events : /\ outbox[e].created > 0 /\ ~outbox[e].delivered
                  /\ outbox[e].wait = 0}

\* Faulty: a claim is never taken over.
ClaimableUnclaimed ==
  {e \in Events : /\ outbox[e].created > 0 /\ ~outbox[e].delivered
                  /\ outbox[e].wait = 0 /\ outbox[e].claimedBy = None}

\* The rows of claimOutbox's SELECT, before ORDER BY and LIMIT.
Claimable ==
  {e \in Events : /\ outbox[e].created > 0 /\ ~outbox[e].delivered
                  /\ outbox[e].wait = 0 /\ outbox[e].lease = 0}

\* ORDER BY created_at, event_id LIMIT: the lists claimOutbox may return.  The
\* random event ids order rows of equal created_at in any way.
ClaimLists(limit) ==
  LET n == IF Cardinality(Claimable) < limit THEN Cardinality(Claimable)
                                             ELSE limit
  IN  {s \in [1 .. n -> Claimable] :
         /\ \A i, j \in 1 .. n :
              i < j => /\ s[i] # s[j]
                       /\ outbox[s[i]].created <= outbox[s[j]].created
         /\ \A e \in Claimable \ {s[i] : i \in 1 .. n}, i \in 1 .. n :
              outbox[s[i]].created <= outbox[e].created}

\* The row after a claim by worker w.
Claimed(r, w, leaseTime) ==
  [r EXCEPT !.claimedBy = w, !.lease = leaseTime,
            !.attempts = IF r.attempts < MaximumAttempts THEN r.attempts + 1
                                                         ELSE r.attempts]

\* The WHERE clause of acknowledgeOutbox and releaseOutbox; inLease tells
\* whether claimed_until is after the time the caller passes.
MayUpdate(e, w, inLease) ==
  outbox[e].claimedBy = w /\ inLease /\ ~outbox[e].delivered

Acknowledged(r) ==
  [r EXCEPT !.delivered = TRUE, !.claimedBy = None, !.lease = 0]

\* releaseOutbox: available again after wait.
ReleasedFor(r, wait) ==
  [r EXCEPT !.wait = wait, !.claimedBy = None, !.lease = 0]

\* One unit of time passes for a row.
Aged(r) ==
  [r EXCEPT !.wait = IF @ = 0 THEN 0 ELSE @ - 1,
            !.lease = IF @ = 0 THEN 0 ELSE @ - 1]

=============================================================================
