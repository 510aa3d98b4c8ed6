# A TLA+ model of the contactless airlock lab

The repository is a simulator of an issuer's side of contactless payments. A
*trusted device* approves, with a signature over a one-shot challenge, that a
payment token may be provisioned and that a transaction may go through. Around
this core the repository has durable stores, an audit log, a transport that
tells partners about events, customer-operations workflows and an HTTP server
(the "realtime lab").

This directory holds TLA+ modules translated from the source, TLC
configurations that check them on small instances, and theorems checked by
TLAPS. `PROJECT.json` maps every definition to its source lines and lists the
runs, their properties, the mutants, the findings, the hazards and the theorems.

    tlc -config engine.cfg MCAirlockEngine
    tlapm AirlockEngineProofs.tla

## 1. Inventory

| Component | State | Operations | What is hard | What makes it correct |
|---|---|---|---|---|
| Issuer engine (`apps/issuer-simulator/airlockEngine.ts`) | devices, tokens, provisioning requests, transactions, daily spend | enrol, revoke, compromise, rotate; request and approve provisioning; authorize, confirm, expire, clear; snapshot, restore | long sequences of calls, calls that throw after a change, two readings of the clock, late and misdirected approvals | one outcome per challenge, caps hold, revocation leaves nothing open, every snapshot can be restored |
| Challenge store (`packages/state-machine/challengeStore.ts`) | challenge records | create, consume, cancel, restore | expiry inside consume | a challenge is accepted at most once and never reopened |
| Lifecycle graphs (`transitions.ts`) | none | transition guards | none of its own | used by the engine |
| SQLite store (`packages/storage/durableStore.ts`) | challenge rows with versions, idempotency records, outbox rows | create, compareAndSwap, runIdempotent, enqueue, claim, acknowledge, release | several processes, leases | no lost update, one result per key, leases respected |
| Partner dispatcher (`packages/partner-transport/dispatcher.ts`) | failure count, circuit, the batch in flight | dispatchOnce | awaits, leases that run out, lost answers, a failing sink, crashes, a shared circuit | at-least-once delivery, eventual handling |
| Webhook receiver (`signing.ts`, `receiver.ts`) | replay store, idempotency store | verify, receive | clock skew, the window's edges, apply failing | at most one effect, no replay |
| Realtime lab server (`apps/realtime-lab/server.ts`) | engine per tenant, versioned snapshot, event streams, rate limiter | about twenty routes, persist, restore | body read before state, several processes over one database, rollback, crash between persist and answer | what was answered is what was persisted |
| Audit log, remote audit (`packages/audit/`) | hash chain, keyring, trust anchor, custody pointer | append, verify, rotate keys, open, publish | lost answer of the custody service, two processes | the log never forks and never falls behind its anchor |
| Customer operations (`packages/customer-operations/`) | cases, trust-reset overrides, notifications, idempotency records | open, transition, verify proof, request and approve a reset | expiry between steps, cached errors | two distinct approvers, no reset after expiry |
| PostgreSQL store (`postgresStore.ts`) | the SQLite tables, cap reservations | the same, reserveCap, releaseCap | row locks, retries | caps hold between processes |
| Session boundary, rate limiter, telemetry (`sessionBoundary.ts`, `serviceTelemetry.ts`, `server.ts`) | bounded tables and counters, one variable `state` shared by all tenants | login, authenticate, revoke, take, enter, leave, select a tenant's state | handlers that take turns at their awaits, connections that break, bounds, eviction | tenants stay apart, admission is released exactly once, limits hold |
| Identity boundary (`oidcAccessTokenVerifier.ts`) | cached keys | verify, refresh | shared refreshes | seen from the gateway only, section 13 |
| Credential verifiers, canonical encoding, device keys, contract schema, tools | none or files | verification, encoding, backup | input validation, file system | left out, see section 13 |

Interactions: the lab server calls the engine inside one request and writes the
engine's snapshot through the store's compare-and-swap; the engine calls the
challenge store, the lifecycle graphs and the audit log synchronously;
dispatcher processes share the outbox table only; the dispatcher and the
receiver meet over HTTP. In authenticated mode every request passes admission,
the session table and the rate limiter before it reaches a route, and all
tenants' routes work on one shared variable.

The hazards in `PROJECT.json` name, at the source line, what a test would hardly
reach in these parts.

## 2. Plan

Done: the modules below, each with its run, its abstract specification and its
theorems (section 11).

1. `Lifecycles`, `ChallengeStore`, `AirlockEngine`, with the abstract `OneShot`;
   proofs in `AirlockEngineProofs`.
2. `Outbox`, `PartnerDispatcher`, with the abstract `AtLeastOnce`, and
   `WebhookReceiver`; proofs of both ends in `PartnerTransportProofs`.
3. `VersionedStore`, `LabServer`, and `CustomerOperations`, both with the abstract
   `IdempotentEffect`; proofs in `LabServerProofs`, `CustomerOperationsProofs`.
4. `AuditChain`, `RemoteAudit`, with the abstract `AnchoredLog`; proofs in
   `RemoteAuditProofs`.
5. `PostgresStore`, with the abstract `CapLedger` and `IdempotentEffect`; proofs in
   `PostgresStoreProofs`. `SumFacts` has the facts about sums and counts that the
   proofs share.
6. `SessionBoundary`, `MutationRateLimiter` (with the abstract `TokenBucket`) and
   `ServiceTelemetry`, composed by `Gateway`; proofs in `GatewayProofs`.

Left: the identity provider's key cache.

Every module named `MC...` only fixes an instance; the runs are named after
their cfg. Two runs put two parts into one instance that share no variable and do
not call each other: `transport` (dispatcher and receiver) and `server` (request path
and customer operations). A part moves only while the other rests in its initial
state, so each is explored completely and their product is not. Interchangeable ids
are declared symmetric wherever only safety is checked, never for liveness.

What the documents or the code's own checks promise and the code does not keep is
stated as a property too, in a run that ends in its violation, with a finding; a
property of the passing run beside it says how far the damage goes.

| Violation run | Property | Beside it, in a passing run |
|---|---|---|
| `engine_misdirected` | `AcceptedByOwnChallenge` | `OutcomesStand`, `RevokedIsQuiet` |
| `engine_midnight` | `BookedOnIssueDay` | `RestoreSpend` |
| `lab_late_demonstration` | `RestartRestores` | `RefusedOnlyAfterDemonstration` |
| `custody_stale_writer` | `ChainVerifies` (two appends at once) | `ChainVerifies` (one at a time) |
| `gateway_broken_upload` | `StatesApart` | `SelectionIsolates` |

## 3. The issuer engine

`Lifecycles` holds the two graphs as sets of edges. `ChallengeStore` gives each
operation of the store as a guard and the record it leaves. `AirlockEngine` has
one action per method. JavaScript runs a method to its end, so an action is the
whole method, with its calls to the store, the graphs, `releaseCapReservation`
and `audit.append`. A method that throws before it changes anything is no step;
the three that throw after a change are actions: `LateApproval` (the challenge
becomes expired), `SpentApproval` (the challenge is consumed, then the lifecycle
refuses) and `ExpireAfterDecision` (the challenge is cancelled, then the
lifecycle refuses).

State: `devices`, `tokens`, `provisioning`, `transactions` and `dailySpend` are
the engine's maps, with `"absent"` for an id the map does not hold; `challenges`
is the store; `audit` is the log, one sequence per correlation id; `clock` is
what `new Date()` reads. `issuedEpoch` is a history variable: the number of
events of the device when a challenge was issued.

The constant `CallerClock` says where `now` comes from: `FALSE`, the process clock,
as the server calls the engine, in which case `authorize` reads it twice; `TRUE`, any
instant a caller passes. The runs use the process clock (the one `now` the server
passes, the deadline in the `expired-challenge` demonstration, leaves the same state
but for `consumedAt`); the theorems cover both unless they say otherwise. The approval
submitted for an aggregate names any challenge, in every run: `consume` compares it with
the record of that challenge, and nobody with the aggregate's own.

Abstracted: a request is named by its token (a token id is never reused) and a
challenge by its aggregate; account, merchant, currency and strategy influence
no state; a signature is the public key that made it. Caps: the daily cap is
twice the cap of a transaction, as in the code.

| Run | Environment | Checks |
|---|---|---|
| `engine` (457 000 states) | two devices, two key ids, one token, three transactions under a daily cap of two of them, two days; a day is one instant, so that midnight may come between any two readings | `TypeOK`, `AggregatesLinked`, `RestoreSpend`, `SpendWithinCap`, `RestoreDevices`, `PendingIsCurrent`, `RevokedIsQuiet`, `OutcomesStand` (the parts `OneApprovalEach`, `ClosedForGood`, `RestoreChallenges`), `AuditExplainsState`, `OneShotChallenges` |
| `engine_misdirected` | one device, two tokens, two transactions | `AcceptedByOwnChallenge`, violated |
| `engine_midnight` | one device, one token, days of two instants | `BookedOnIssueDay`, violated |

Bounds: two devices and two keys are enough for key reuse across devices and for a
rotation away and back (`MaxDeviceEvents` 3 allows enrol, rotate, rotate, then
revoke); three transactions meet the daily cap exactly, exceed it by one and refill
it after a reversal (for transactions of different amounts `CapsHold` and
`SpendRestoresButMidnight` are proved); two instants with lifetimes of one give
"before" and "at" the deadline, on two days. `MaxPopulation` stops at the states in which both
devices and all three transactions exist: two devices meet two transactions, one
meets three. `CHECK_DEADLOCK FALSE`: the ids of the instance are used up at the end.

An engine whose own snapshot is refused cannot be restarted, so the conditions of
`AirlockEngine.restore` and `ChallengeStore.restore` are properties. `RestoreDevices`,
`RestoreChallenges`, `AggregatesLinked` and the sums of `RestoreSpend` hold. Three
conditions do not:

* What was accepted has a confirmed challenge, `AcceptedByOwnChallenge`: an approval of one
  aggregate is taken for another of the same device (`airlockEngine.ts:474`, `590`),
  against INV-02, ADV-06 and ADV-07 (`TEST_PLAN.md:49`, `113`, `114`). What remains is
  `OneApprovalEach`, read off the audit log: every accepted aggregate cost exactly one
  challenge, which is spent and was used for no other. The aggregate that lost its
  challenge can be neither reversed nor declined any more: a revocation skips it (lines 699, 710): `RevokedIsQuiet`
  excepts exactly those whose challenge is confirmed.
* A reservation is booked on the day its challenge was issued, `BookedOnIssueDay`:
  `authorize` takes the day from one reading of the clock (line 534) and the challenge
  from another (line 558), and midnight may come in between, whereupon `restore` refuses
  the snapshot (line 251). `RestoreSpend` says that the day is never further off than
  the two readings are apart.
* What is pending has a created challenge: a late approval marks it expired
  and throws (`challengeStore.ts:129`), which `restore` refuses (`airlockEngine.ts:793`).
  Inside the engine this is no more than `LateApproval`; whether it reaches a snapshot is
  up to the server, so the violation is shown there, by `lab_late_demonstration`
  (section 7). `ClosedForGood` states the rest: what was declined or reversed has a
  challenge that is cancelled or expired, and what is pending none that is cancelled.

## 4. The partner dispatcher

`Outbox` is the table: each operation is one SQL statement or one transaction,
hence atomic. Times are relative to the present (time left until available,
until the lease ends), so neither a clock nor a bound on time is needed.

`PartnerDispatcher` runs `dispatchOnce` in several processes. The code between
two awaits is one action: claiming, deferring while the circuit is open,
rejecting a malformed payload, sending, and then one action for each way the
request or the write to the dead-letter sink can end. `Caught` is the catch
clause; it is part of every action that can throw. A process keeps the failure
count and the circuit, the batch with the attempts it was claimed with, and,
while it waits for the sink, whether the lease was live when `completed` was read
(`inLease`) and how long until the retry computed with it (`retryIn`).

The environment: the partner answers, a request that was given up may still
arrive, processes crash (`MaxCrashes`) and restart with a closed circuit, time
passes. `Prompt` says that no process outlives the lease of the event it works
on; the code demands `requestTimeoutMs < leaseMs` for one request, which is what
`Prompt` states when a batch is one event.

`AtLeastOnce` is the abstract promise: an event is closed only after it was
handled (applied by the partner or recorded in the sink) and never comes back.

| Run | Environment | Checks |
|---|---|---|
| `transport` | two processes, batches of two that outlive their lease, one malformed event | `TypeOK`, `LeaseRespected`, `DeliversAtLeastOnce` |
| `dispatch_liveness` | a good and a malformed event behind shared circuits, two prompt processes, one crash | `EventuallyHandled` |

Fairness. `WF(Tick)`: time passes. `WF(dispatchOnce(w))`: the process is called
again and again and each await ends, the request by its timeout at the latest,
so nothing is asked of the partner. `SF(deadLetter(w))` for each event: a sink to
which an event is brought for ever again does not fail every time; without it
(the unconfigured sink always fails) nothing can be promised. No fairness is
assumed of crashes, of the partner or of producers.

Slow processes are left out of the liveness run on purpose: when processes do not
settle events inside their lease, the releases of deferred events conflict, every
conflict counts as a failure and reopens the circuit, and one of two events can
be deferred for ever. It is listed as a hazard. So is that a deferral costs one
of the `maximumAttempts`, which the documents leave open.

Bounds: a budget of two attempts, leases of two units and one unit of retry delay
give every order of "lease ends", "retry is due" and "circuit closes";
`attempts` and the failure count stop at the only value they are compared with.

## 5. The webhook receiver

`WebhookReceiver`: requests signed by a sender whose clock is off by up to
`MaxSkew` arrive at any later time, any number of times. A delivery is one step
(the code is synchronous): window check, `consumeOnce` with its purge, then
`runOnce`. `applyFails` is a delivery whose body is no envelope or whose `apply`
throws after the nonce was consumed. The receiver's clock does not step back and
its in-memory stores are not lost.

The run `transport` also checks `EffectOnce` and `ReplayMemory` (types and
`RememberedInsideWindow`); three nonces for two
keys and two bodies give retries, altered bodies and replays; a window of 2 with
skew 1 in five instants covers all relations of sending, acceptance and expiry.
In the last second of its window a nonce is purged before the window check would
refuse it (`signing.ts:43`, `151`), so it can be accepted a second time there,
although `PARTNER_TRANSPORT_OPERATIONS.md:78` asks for "zero accepted [...]
replayed nonces";
`RememberedInsideWindow` therefore stops short of that second. `EffectOnce` holds
all the same: the idempotency key catches the second delivery.

## 6. Customer operations

`CustomerOperations` is `operationsStateMachine.ts` for one tenant: cases of the
five types, the dual-control trust reset, audit events, notification intents and
the idempotency records. Every method is synchronous, so each is one action; its
disjuncts are the ways it ends: done, refused, or refused after it changed
something (reading an overdue case expires it, a late approval expires the
override). `Remember` stores a result or an error under the key, as `#once` does.
Callers pass any time, actors of another tenant call too.

The run `server` checks `SnapshotRestores` (what `#validateRestoredState`
demands of the snapshot, after any calls), `DualControl`, `ResetOwnsItsCase`,
`ClosedForGood`, `IntentsAgree` (types, and `Announced`: one notification for each
event that calls for one) and the refinement `KeyedEffects` of
`IdempotentEffect`. One case takes all the steps a case can take, since cases
share only the keys; two override ids are needed to ask for a second reset; six
events are the longest path of a reset; since callers pass any of two times, a lifetime
of one gives deadlines that are met, missed and never reached. The refusal of a lifetime
above the maximum is left to the theorems (it is refused before anything is read).

Assumed: ids contain no `:`. The maps are keyed by `tenant:id` and the pattern of an id
(line 119) allows the separator, so two pairs of tenant and id could meet in one key;
the model, which is one tenant's slice, does not cover it.

Note what `DualControl` does not say: the direct method `transition` reaches
`proof_verified` without `verifyRecoveryProof` (line 323), for an actor whose role
allows it. The runbook (lines 42-43) asks for a strong proof first; nothing in the
state tells afterwards except the reason of the event.

## 7. The lab server and its database

`VersionedStore` is the versioned row and the idempotency records of
`durableStore.ts`. `LabServer` runs several server processes over it. A request is
synchronous from the end of its body on, so a process has one under way, and the
processes interleave between its statements: `Start` and `FinishStart` (read,
then create or migrate the row), `Replay` (the key has a record), `Handle` (the
route works on the state in memory, with the rollback of the catch clause),
`Commit` (the transaction of `persistResponse`), `Refresh` (the authoritative state
is read after a replay or a failure) and `Crash` anywhere. `Serves` and `Effect`
give, per route, when the handler comes to its `finalize` and what it leaves.

Every statement of a request may fail: the lookup of the key (`LookupFails`, line 1558:
a raw error, finalized on the state in memory), the commit, and the read after it
(`RefreshFails`: after a replay it is tried once more; after a failed commit its error is
handled like a route's, rolled back to the snapshot taken before the route and finalized
under the same key; from the catch clause's own finalize it leaves the handler). Any use
of an unconsumed challenge may come after its lifetime (`late`).

`lab` (1 967 612 states): `AnswersStand` (an answer is what was recorded, before and
after any crash), `MemorySound` (types, and `MemoryMatchesVersion`: a process that
holds the row's version holds its state), `RefusedOnlyAfterDemonstration`,
`NoLostUpdate` and `KeyedEffects`. Two processes and two keys give a race of two
requests, a race of one request sent twice, and a retry after a fault; `MaxFaults`
is one crash or failing read (failing commits are not counted). The row starts absent,
or as an earlier run left it, in schema 1 or 2, so that two further requests reach every
state of the workflow. The constraint `Followed` of `MCLabServer` does not pursue requests
for `provisionAttack` (refused like any other refused request) and `auditTamper` (blocked
without a change, like `altered-binding`). `CHECK_DEADLOCK FALSE`: when the row does not restore, no process
can start.

`lab_late_demonstration`: `RestartRestores`, that a start accepts whatever was committed
(`README.md:91` of the repository: a restart restores "the exact simulated engine"), is
violated. The route `reused-signature` is finalized without the rollback the other
routes have (`server.ts:1830-1854`), so a challenge that is found late there stays expired
beside a pending transaction. `RefusedOnlyAfterDemonstration` shows that nothing else
leads there: a row that does not restore is of this form and the demonstration is among
its recorded answers.

The function `persist()` (lines 1167-1198) is not reached by a request when a database
is configured.

## 8. Audit custody

`AuditChain` is the chain of `auditLog.ts`: keyring, append, verification, trust
anchor and restore. `RemoteAudit` is `AsyncRemoteAuditLog` in several processes,
cut at its awaits: `Load`, `LoadAnchor`, `Recover`, `Open`; `Sign`, `Prepare`,
`PublishAnchor`, `AbortAppend`, `CommitAppend`, `Finish`. The state store, the
anchor publisher and the MAC provider are outside the repository and modelled from
the contracts beside their interfaces. Each call can fail with or without its
effect, processes crash, keys are activated at any time.

| Run | Environment | Checks |
|---|---|---|
| `custody` | two processes, one append each at a time, four events, two keys (407 864 states) | `AcceptanceAgrees` (types, and `RestoreAgrees`: `open` and `AuditLog.restore` accept the same logs), `ChainVerifies`, `StrandedOnlyByAbort`, `AppendsToAnchoredLog` (refinement of `AnchoredLog`) |
| `custody_stale_writer` | two appends at once in a process, three events | `ChainVerifies`, violated |

Four events and two keys give a committed, a pending and two racing events, on
both sides of an activation. `StrandedOnlyByAbort` is the exact form of what the
documentation calls crash consistency: crashes never strand the anchor, the abort
of a commit whose publication did take effect does (after a lost answer, or when
another process opens the log meanwhile). The log then refuses to open.

The violation: `append` takes the previous event before it awaits `createMac` and
the revision after it (`remoteAudit.ts:348`, `389`, `397`). When another append of
the process commits during the wait, the stale event is accepted at the current
revision and the log no longer verifies, where `remote-audit-custody.test.ts:255`
says "reject the stale writer".

## 9. The PostgreSQL store

`PostgresStore`: one action per statement of `reserveCap`, `releaseCap`,
`runIdempotent` (with an operation that reads and swaps the aggregate and enqueues
an event), `claimOutbox` and `acknowledgeOutbox`, under READ COMMITTED. A
transaction's row and advisory locks are a set of resources; a statement that
needs one waits for it and then evaluates its condition afresh; `SKIP LOCKED`
passes. `Fail` loses the connection before any statement, and with it everything
the transaction wrote. Writes become visible with COMMIT.

`postgres` (101 208 states): `TablesAgree` (types, `ReservedAddsUp`,
`EventWithEffect`), `LedgerIsSerial`
(refinement of `CapLedger`: the transactions are serializable),
`KeyedEffects` (refinement of `IdempotentEffect`), `LeaseRespected` and, for
liveness, `TransactionsEnd`. Two clients are what a lock tells apart; two
reservations of amounts 1 and 2 under caps 1 and 2 meet, fit and exceed a cap, and
race on one id. `SF(Step(c))`: a lock is granted from a queue, so a client that can
go on again and again does; nothing is asked of failures or callers. The aggregate
exists at version 0 and a claim is for one event. `EventWithEffect` is about the events
of keyed operations. Left out: `migrate`, `create`, `deleteTenantForTest`, the SQL of row
security, and the public `compareAndSwap` and `enqueue` (line 407) outside of
`runIdempotent`: the same statements, each in a transaction of its own.

## 10. The gateway

`Gateway` composes `SessionBoundary`, `MutationRateLimiter` and `ServiceTelemetry`
into the request path of authenticated mode with OIDC login. A handler is cut at
its awaits: the token is being verified (`verifying`), the body is being read
(`uploading`), a stream is open (`streaming`); the peer may leave at each of them.
All tenants share the closure's variable `state`: `lab` keeps the objects, the
binding and the map `tenantStates`, and an object is reduced to the set of tenants
whose requests wrote to it. `Selected`, `Finalized` and `Broadcast` are what the
handler does to them. Bootstrap login is `Login` and `Verified` without the await
and without the identity's expiry. Definitions whose names `CustomerOperations` has too
carry the name of the module (`GatewayInit`, `GatewayNext`, `GatewaySpec`).

| Run | Checks |
|---|---|
| `server` | `CountersExact` (types, `CountedOnce`, `AdmissionExact`), `SelectionIsolates`, `SessionLimits`, `NeverRefunded` (refinement of `TokenBucket`) |
| `gateway_broken_upload` | `StatesApart`, violated |

Three connections, of which two are admitted, in two tenants; four requests are
two logins and two more, or one login, a stream and two mutations, so that limits
are met and exceeded; one bucket for two addresses makes the limiter evict and
refuse. `CHECK_DEADLOCK FALSE`: the requests of the instance are used up.

The violation: when a connection breaks during the upload, the error is answered
like a route's, on whatever state is bound then, and `finalize` makes that the
tenant's state (`server.ts:1525`, `1913`, `1354`), where
`AUTH_SESSION_BOUNDARY.md:5` promises a distinct state per tenant. `unselected`
records that a handler took such a path, and `SelectionIsolates` shows that this
is the only way: while no handler failed before its selection, no interleaving
mixes the tenants. The verifier can take it too: the second attempt after a key
refresh throws a raw error (`oidcAccessTokenVerifier.ts:222`), which is answered by
500 with the bound state, after `lastResult` was written to it in nobody's name (line
1913; `VerifierThrows` adds the writer `Nothing`). What follows such a handler is excepted
from `SelectionIsolates`.

Left out: latencies, peaks and readiness; the outcomes that `recordRequest` tells
apart (one counter); unbounded streams; shutdown. The clock does not step back.

## 11. Theorems

All for arbitrary constants: any number of devices, processes, keys or events, any
amounts and times, and any value of the bounds. They rest on the named assumptions
of the modules (`ConstantsAssumption`, `DispatcherAssumption`,
`ReceiverAssumption`, `LabAssumption`, `RemoteAuditAssumption`,
`PostgresAssumption`, `GatewayAssumption`, `SessionAssumption`,
`LimiterAssumption`, `TelemetryAssumption`), which say that durations and limits are
natural numbers, most of them positive, that ids of different kinds differ, that
`None` stands for nothing else and, for the gateway, that connections and tenants
are finitely many. What a theorem needs beyond them is in its statement, and named
below. The invariants that the proofs add to those of the runs were checked by TLC
on instances like those of the runs before they were proved.

**`AirlockEngineProofs`**

* `TypeCorrect`: `Spec => []TypeOK`.
* `KeysStayDistinct`, `AggregatesStayLinked`: each is inductive together with the
  types.
* `EngineImplementsOneShot`: every step maps to a step of `OneShot` or to none.
  Device operations close a set of challenges, approvals accept one; that the id
  of a new aggregate has no challenge yet comes from `AggregatesLinked`.
* `CapsHold`: `SpendWithinCap` is not inductive by itself, because activating a
  token would give an arbitrary old spend a cap. The inductive invariant adds
  that spend is booked on active capped tokens only (`SpendOnlyCapped`); releases
  can only lower it.
* `ApprovalsAreCurrent`: `PendingIsCurrent`, with the links between aggregates
  and devices.
* `OutcomesStayDecided` (`OneApprovalEach`, `ClosedForGood`) and `RevokedStaysQuiet`, in
  any environment. The steps are first sorted by what they do to one aggregate and its
  challenge (`Kinds`): start it, accept an approval, spend one, find it late, close it
  with its device, withdraw, reverse or clear it, or leave it alone. Since an approval may
  spend any challenge, the status of an aggregate's own challenge does not follow from
  its phase; the inductive invariants are `AllClosed`, that what is closed has a
  challenge nobody consumed, and `AllApproved`, that the trail of an aggregate names the
  challenges it took, all of them confirmed, at most one and each by one aggregate.
* `OutcomesStandAndRestore` (`OutcomesStand`), for `~CallerClock`: adds `Timely`, that a
  record was issued no later than the clock. A caller who passes an earlier `now` could
  consume a challenge before it was issued.
* `AuditAlwaysExplains`, in any environment: the trail of a device lists
  each aggregate it declined, once (`DeviceTrails`), and the trail of an aggregate
  ends with its state (`AllTrails`).
* `SpendAddsUp`, `SpendRestoresButMidnight` (`RestoreSpend`), for a finite set of
  transactions and any clock: the spend is the sum of the reservations still held
  (`AddsUp`). A step leaves the books alone, enters one transaction or takes a set of them
  out, and `SumFacts` says what a sum does then. The day of a reservation
  (`BookedNearIssue`) stays near its challenge's because a challenge keeps its time of
  issue while its aggregate exists.

**`PartnerTransportProofs`**, both ends of the transport. The module extends
`PartnerDispatcher` and `WebhookReceiver`, which share no name; the theorems about the
receiver are theorems of `ReceiverSpec`.

* `DispatcherTypes`: types need more than types, because a process must have an
  event to work on whenever it is not idle.
* `DispatcherDeliversAtLeastOnce`: the dispatcher implements `AtLeastOnce`. The
  inductive invariant `Inv` says that every process is *sound*: it works on
  enqueued events only and holds a 2xx answer only for an event that was
  applied; that only enqueued events travel; and that every acknowledged event
  was handled. `DispatchEffect` shows for each action of a process that it
  closes at most one row, and only one that is handled afterwards; the
  refinement follows from it.
* `LeasesHold`: `LeaseRespected`. A step of a process changes rows without a
  lease, or gives back the row it holds and moves on in its batch
  (`DispatchOwn`); and only enqueued rows are held (`Unheld`), so that enqueueing
  takes a row from nobody.
* `RequestsRemembered` (`ReplayMemory`): the inductive invariant `EntriesLast`
  says that until the last second of its window the entry of an accepted request
  carries the expiry computed from the request, so the purge cannot take it.
* `EventAppliedOnce` (`EffectOnce`).

**`PostgresStoreProofs`**

* `LocksGuard`: the inductive invariant. No two clients hold one lock
  (`Exclusive`), and what a transaction has read or computed still stands at
  its commit because the rows are its own (`Works`); the committed tables
  agree row by row (`Linked`).
* `CapsAreSerial` (refinement of `CapLedger`), `LeasesRespected`,
  `EffectsAreKeyed` (refinement of `IdempotentEffect`) follow, with the
  effects counted per key.
* `TablesStayInAgreement`: every cap row is the sum of its day's active
  reservations, by `SumFacts`; only finitely many were ever made, so nothing is
  assumed of the number of ids.

**`LabServerProofs`**

* `ProcessesFit`: the inductive invariant. A process that still has the row's version
  has the row's state, or that state and one request more, and the answer it will
  repeat is recorded (`Fits`).
* `AnswersAlwaysStand`, `MemoryIsSound`, `NothingIsLost` and `EffectsAreKeyed`
  (refinement of `IdempotentEffect`) follow.
* `RefusalsAreLateDemonstrations` (`RefusedOnlyAfterDemonstration`), for initial labs
  that restore: every route but one leaves a lab that restores if the one before did, in
  memory as in the row, and the one that does not leaves its record.

**`CustomerOperationsProofs`**

The steps take effect in eight ways (`Kinds`: open, expire, change the state, request,
approve, execute, lapse, or only remember), whatever checks came before.

* `CasesAndOverridesTied`: the types and `Tied`; `ResetsOwnTheirCases`
  and `ClosedStaysClosed` follow from it.
* `TrailAccounts`: `Traced`, that the audit trail tells the state of every case
  and, of an override, the request, the approvals with their order and the decision.
  `SnapshotsRestore` and `ResetsNeedTwo` are read off it: they speak of events, and
  no state without the trail determines those.
* `KeysDecideOnce` (refinement of `IdempotentEffect`, with `Unspent`) and
  `ChangesAreAnnounced` (intents and events counted per template, `AllAgree`).

**`RemoteAuditProofs`**

All for `OneAtATime`, one append at a time in a process: with two the chain breaks,
as the run `custody_stale_writer` shows. Any number of processes, events and keys.

* `RevisionsTell`: the inductive invariant. The services are consistent (`Services`:
  ring, chain, pending commit, anchor, event ids); a process whose revision is the
  store's holds the store's events, and one whose anchor is the published one knows
  where the log is anchored (`Fits`); an append under way fits what it has
  prepared or published (`AppendFits`); and no two appends use one id (`Distinct`).
* `ChainAlwaysVerifies`, `AnchorsAreStrandedByAborts` and
  `AcceptanceAlwaysAgrees` follow from the invariant.
* `CustodyImplementsAnchoredLog`: the steps, sorted by what they do to store and
  anchor (`Still`, `Begun`, `Prepares`, `Publishes`, `Commits`, `Aborts`), are steps of
  `AnchoredLog`.

**`GatewayProofs`**

* `InvHolds`: the inductive invariant `Inv`. `Structure` adds to the types what a
  phase tells of its request (a request that waits for the verifier has a token, one
  that uploads a principal and a client), and that a client has one bucket and no
  bucket was refilled in the future. `Counted`, `SessionsBounded` and `Isolated` are
  the three properties made inductive.
* `GatewayCountersExact`: the steps are sorted by what they do to the counters: a
  request enters, goes on, completes, is refused at once, becomes a stream or
  ends one. A handler that is answered and a peer that leaves both run
  `completeRequestObservation`; the flag `held` makes the second do nothing, and the
  counters stay the cardinalities of the requests and streams they count.
* `GatewaySelectionIsolates`: `SelectionIsolates` is not inductive by itself, since two
  tenants could share one object that neither has written to. `Inv` adds that they
  do not (`ObjectsApart`); the objects of all tenants and the bound one leave a number
  free for a new object (`FreshObject`, by cardinality).
* `GatewaySessionLimits`: pruning drops no session that lives, issuing adds one
  where both limits leave room, and time only ends sessions.
* `GatewayNeverRefunded`: the limiter implements `TokenBucket`. Only a full bucket is
  evicted, and a client without a bucket has the full capacity, so that an eviction
  changes nobody's tokens; a refill in two steps is the refill in one.

**`SumFacts`**: `MapThenSumSet` is a recursion over subsets, and induction over data
is not available to the provers. A sum of naturals is the cardinality of a set of
units, for which the library has theorems; by a smallest subset on which the two
would differ they are equal.

## 12. Only model-checked

Liveness: `EventuallyHandled` and `TransactionsEnd` need fairness and `ENABLED`, which
are out of the prover's reach. Every other property of a passing run is stated by a
theorem of section 11.

Every property of a passing run has a mutant in `PROJECT.json`: a definition whose
name says so (`...Faulty` or the fault itself) in a module, with which TLC finds
the property violated.

## 13. Not modelled

* The identity provider boundary: `Gateway` takes its outcomes (an identity, a
  refusal, another error) from how login uses it. Its key cache and shared refresh
  are left for later; claim validation only refuses tokens.
* Credential verifiers wrap a library; canonical encoding, signatures, key
  profiles, contract schema and envelope validation are conversions whose only
  effect on the state is that a call is refused.
* Launch policy, capacity evidence and the command-line tools have no state of
  their own; the backup tools' work is in the file system.
* Of the server: static files, the page, formatting of answers, request parsing
  beyond "accepted or refused", readiness and shutdown.
