------------------------------- MODULE LabServer -------------------------------
(***************************************************************************)
(* apps/realtime-lab/server.ts in persistent mode: several processes serve *)
(* mutating requests over one SQLite database.  A request is synchronous   *)
(* from the end of its body on, so a process has at most one under way,    *)
(* but the processes interleave between a request's statements: the lookup *)
(* of its idempotency key, the commit, and, after a replay or a failure,   *)
(* the read of the authoritative state.  A process may die at any point    *)
(* and the client may send the same request again, to any process.         *)
(*                                                                         *)
(* Abstractions.  The lab drives one device, one token and one transaction *)
(* of the issuer engine, so its state is their lifecycle states, the       *)
(* status of their challenges and the two copies (provisioning,            *)
(* transaction) the server keeps beside the engine; keys, results and the  *)
(* audit log are left out.  The clock is not modelled: any use of an       *)
(* unconsumed challenge may come after its lifetime (late).  A response is *)
(* its request's outcome.  Every statement of a request may fail.          *)
(***************************************************************************)
EXTENDS VersionedStore, Sequences, FiniteSets

CONSTANTS
  Processes,
  InitialLabs,         \* lab states an earlier run may have left in the row
  MaxFaults            \* bound: process deaths and failing reads

VARIABLES
  server,    \* [Processes -> process]
  told,      \* [Keys -> SUBSET response]: definite answers clients received
  faults

vars == <<row, records, server, told, faults>>

-----------------------------------------------------------------------------
(* The lab state *)

ChallengeStatus == {"none", "created", "confirmed", "expired", "cancelled"}

ProvisioningState ==
  {"none", "trusted_device_challenge", "token_active_full", "declined"}

TransactionState ==
  {"none", "confirmation_pending", "confirmed", "declined", "reversed",
   "settled", "exception"}

\* history: the keys of the requests whose responses led to this state (a
\* history variable of the snapshot, unaffected by a reset).
LabState ==
  [device : {"active", "revoked"},
   provisioning : ProvisioningState, provisioningChallenge : ChallengeStatus,
   provisioningView : ProvisioningState,
   transaction : TransactionState, transactionChallenge : ChallengeStatus,
   transactionView : TransactionState,
   history : Seq(Keys)]

\* freshState()
Fresh ==
  [device |-> "active",
   provisioning |-> "none", provisioningChallenge |-> "none",
   provisioningView |-> "none",
   transaction |-> "none", transactionChallenge |-> "none",
   transactionView |-> "none", history |-> <<>>]

\* The checks of AirlockEngine.restore on lifecycles and challenges.
Restorable(lab) ==
  /\ lab.provisioning = "trusted_device_challenge" =>
       lab.provisioningChallenge = "created"
  /\ lab.provisioning = "token_active_full" =>
       lab.provisioningChallenge = "confirmed"
  /\ lab.provisioning = "declined" =>
       lab.provisioningChallenge \in {"cancelled", "expired"}
  /\ lab.transaction = "confirmation_pending" =>
       lab.transactionChallenge = "created"
  /\ lab.transaction \in {"confirmed", "settled"} =>
       lab.transactionChallenge = "confirmed"
  /\ lab.transaction \in {"declined"} =>
       lab.transactionChallenge \in {"cancelled", "expired"}
  /\ lab.transaction \in {"reversed", "exception"} =>
       lab.transactionChallenge \in {"confirmed", "cancelled", "expired"}

\* restoreLabState: a snapshot keeps the ids of the copies, not the copies;
\* they are read again from the engine.
Restored(lab) ==
  [lab EXCEPT
     !.provisioningView = IF @ = "none" THEN @ ELSE lab.provisioning,
     !.transactionView = IF @ = "none" THEN @ ELSE lab.transaction]

-----------------------------------------------------------------------------
(* The routes *)

Demonstrations == {"altered-binding", "expired-challenge", "reused-signature"}

\* transactionRequest stands for a body within the token's cap; one above it
\* is refused and remembered like provisionAttack.  A body that does not parse
\* is answered before anything else happens and is left out.
Routes ==
  {"reset", "provisionRequest", "provisionAttack", "provisionApprove",
   "deviceRevoke", "transactionRequest", "transactionConfirm",
   "transactionExpire", "transactionClear", "auditTamper"} \cup Demonstrations

Active(lab) == lab.device = "active"

\* engine.confirmTransaction with the right signature: it goes through, or
\* finds the challenge past its lifetime, marks it expired and throws, or
\* throws before it changes anything.
Confirmable(lab) == Active(lab) /\ lab.transactionChallenge = "created"
Confirmed(lab) ==
  [lab EXCEPT !.transaction = "confirmed", !.transactionView = "confirmed",
              !.transactionChallenge = "confirmed"]
FoundLate(lab) == [lab EXCEPT !.transactionChallenge = "expired"]

\* engine.expireAndReverse
Reversible(lab) == lab.transactionChallenge = "created"
Reversed(lab) ==
  [lab EXCEPT !.transaction = "reversed", !.transactionView = "reversed",
              !.transactionChallenge = "cancelled"]

\* engine.revokeTrustedDevice; the server's copies keep their old states.
RevokedFaulty(lab) ==
  [lab EXCEPT
     !.device = "revoked",
     !.transactionChallenge = IF @ = "created" THEN "cancelled" ELSE @]
Revoked(lab) ==
  LET cancelled(status) == IF status = "created" THEN "cancelled" ELSE status
  IN [lab EXCEPT
        !.device = "revoked",
        !.provisioning = IF @ = "trusted_device_challenge" THEN "declined" ELSE @,
        !.provisioningChallenge = cancelled(@),
        !.transaction = IF @ = "confirmation_pending" THEN "declined" ELSE @,
        !.transactionChallenge = cancelled(@)]

\* The handler of the route runs to its finalize(200); otherwise it throws.
Serves(lab, route, late) ==
  CASE route \in {"reset", "auditTamper"} -> TRUE
    [] route = "provisionRequest" -> lab.provisioningView = "none" /\ Active(lab)
    [] route = "provisionAttack" -> FALSE
    [] route = "provisionApprove" ->
         /\ lab.provisioningView = "trusted_device_challenge"
         /\ Active(lab) /\ lab.provisioningChallenge = "created" /\ ~late
    [] route = "deviceRevoke" -> Active(lab)
    [] route = "transactionRequest" ->
         /\ lab.transactionView = "none"
         /\ lab.provisioning = "token_active_full" /\ Active(lab)
    [] route = "transactionConfirm" ->
         /\ lab.transactionView = "confirmation_pending"
         /\ Confirmable(lab) /\ ~late
    [] route = "transactionExpire" ->
         lab.transactionView = "confirmation_pending" /\ Reversible(lab)
    [] route = "transactionClear" ->
         lab.transactionView \in {"confirmed", "reversed"}
    [] route \in Demonstrations -> lab.transactionView = "confirmation_pending"

\* The lab state the handler finalizes.  A demonstration's catch clause does
\* not roll back what the engine did before it threw.
Effect(lab, route, late) ==
  CASE route = "reset" -> [Fresh EXCEPT !.history = lab.history]
    [] route = "provisionRequest" ->
         [lab EXCEPT !.provisioning = "trusted_device_challenge",
                     !.provisioningView = "trusted_device_challenge",
                     !.provisioningChallenge = "created"]
    [] route = "provisionApprove" ->
         [lab EXCEPT !.provisioning = "token_active_full",
                     !.provisioningView = "token_active_full",
                     !.provisioningChallenge = "confirmed"]
    [] route = "deviceRevoke" -> Revoked(lab)
    [] route = "transactionRequest" ->
         [lab EXCEPT !.transaction = "confirmation_pending",
                     !.transactionView = "confirmation_pending",
                     !.transactionChallenge = "created"]
    [] route = "transactionConfirm" -> Confirmed(lab)
    [] route = "transactionExpire" -> Reversed(lab)
    [] route = "transactionClear" ->
         LET next == IF lab.transaction = "reversed" THEN "exception" ELSE "settled"
         IN [lab EXCEPT !.transaction = next, !.transactionView = next]
    [] route = "expired-challenge" ->
         IF Reversible(lab) THEN Reversed(lab) ELSE lab
    [] route = "reused-signature" ->
         IF ~Confirmable(lab) THEN lab
         ELSE IF late THEN FoundLate(lab) ELSE Confirmed(lab)
    [] OTHER -> lab

\* The routes that use a challenge read the clock: the lifetime may be over.
MayBeLate(route) ==
  route \in {"provisionApprove", "transactionConfirm"} \cup Demonstrations

Outcome(route) ==
  IF route \in Demonstrations \cup {"auditTamper"} THEN "blocked" ELSE "accepted"

-----------------------------------------------------------------------------
(* The processes *)

Response == {"accepted", "blocked", "refused"}

\* phase: "down"; "creating" and "migrating" (the row was read as absent, or
\* as of schema 1); "idle"; "commit"
\* (the handler is at finalize); "replayed" and "failed" (the authoritative
\* state is about to be read, after a replay or after an error).  rollback:
\* rollbackSnapshot, while a finalize of the route itself is under way; None
\* in a finalize of the catch clause.
Process ==
  [phase : {"down", "creating", "migrating", "idle", "commit", "replayed",
            "failed"},
   state : LabState \cup {None}, persistedVersion : Nat,
   key : Keys \cup {None}, route : Routes \cup {None},
   response : Response \cup {None}, rollback : LabState \cup {None}]

\* An earlier run left a lab state, in which no request of this run took part;
\* None is neither a key nor a remembered response.
ASSUME LabAssumption ==
  /\ MaxFaults \in Nat
  /\ \A lab \in InitialLabs : lab \in LabState /\ lab.history = <<>>
  /\ None \notin Keys \cup [request : Routes, response : Response]

Down ==
  [phase |-> "down", state |-> None, persistedVersion |-> 0,
   key |-> None, route |-> None, response |-> None, rollback |-> None]

Idle(state, version) ==
  [Down EXCEPT !.phase = "idle", !.state = state, !.persistedVersion = version]

Init ==
  /\ \/ row = NoRow
     \/ \E lab \in InitialLabs, schema \in {1, 2} :
          row = [version |-> 0, schema |-> schema, value |-> lab]
  /\ records = [k \in Keys |-> None]
  /\ server = [p \in Processes |-> Down]
  /\ told = [k \in Keys |-> {}]
  /\ faults = 0

\* createLabServer reads the row.  A row that does not restore fails startup.
Start(p) ==
  /\ server[p].phase = "down"
  /\ \/ /\ row = NoRow
        /\ server' = [server EXCEPT ![p] =
             [Idle(Fresh, 0) EXCEPT !.phase = "creating"]]
     \/ /\ row # NoRow /\ Restorable(row.value)
        /\ server' = [server EXCEPT ![p] =
             [Idle(Restored(row.value), row.version) EXCEPT
                !.phase = IF row.schema = 1 THEN "migrating" ELSE "idle"]]
  /\ UNCHANGED <<row, records, told, faults>>

\* The snapshot is created, or migrated from schema 1 by a compare-and-swap;
\* when another process was faster the statement throws and startup fails.
FinishStart(p) ==
  LET creates == server[p].phase = "creating" /\ MayCreate
      migrates == /\ server[p].phase = "migrating"
                  /\ Current(server[p].persistedVersion)
  IN
  /\ server[p].phase \in {"creating", "migrating"}
  /\ \/ /\ creates
        /\ Created(2, server[p].state)
        /\ server' = [server EXCEPT ![p].phase = "idle"]
     \/ /\ migrates
        /\ Swapped(2, server[p].state)
        /\ server' = [server EXCEPT ![p].phase = "idle",
                                    ![p].persistedVersion = @ + 1]
     \/ /\ ~creates /\ ~migrates
        /\ server' = [server EXCEPT ![p] = Down]
        /\ UNCHANGED row
  /\ UNCHANGED <<records, told, faults>>

\* A mutating request whose key has a record: the stored response is sent
\* again, or, for another request, HTTP 409 (which changes nothing).
Replay(p, k, route) ==
  /\ server[p].phase = "idle"
  /\ Replays(k, route)
  /\ told' = [told EXCEPT ![k] = @ \cup {records[k].response}]
  /\ UNCHANGED <<row, records, server, faults>>

\* A read of the store fails, or a process dies.
Fault == faults < MaxFaults /\ faults' = faults + 1

\* The handler is at finalize with a lab state and a response; r is the
\* snapshot it goes back to should finalize throw, if it does.
Finalizing(p, k, route, lab, response, r) ==
  [server[p] EXCEPT
     !.phase = "commit", !.key = k, !.route = route, !.response = response,
     !.state = [lab EXCEPT !.history = Append(@, k)], !.rollback = r]

\* The lookup of the key throws.  The error is finalized like one of a route,
\* before a snapshot was taken: on the state in memory, whether or not the key
\* has a record.
LookupFails(p, k, route) ==
  /\ server[p].phase = "idle"
  /\ Fault
  /\ server' = [server EXCEPT ![p] =
       Finalizing(p, k, route, server[p].state, "refused", None)]
  /\ UNCHANGED <<row, records, told>>

\* The catch clause of the handler: the state is rolled back to the snapshot
\* taken before the route ran.
RollBack(lab) == Restored(lab)

\* A mutating request whose key has none: the handler works on the state in
\* memory and arrives at finalize; when it throws, the state is rolled back to
\* the snapshot taken before, and the refusal is finalized.  A rollback to a
\* snapshot that does not restore throws out of the handler.
Handle(p, k, route, late) ==
  LET lab == server[p].state
      serves == Serves(lab, route, late)
      next == IF serves THEN Effect(lab, route, late) ELSE RollBack(lab)
  IN
  /\ server[p].phase = "idle"
  /\ Unrecorded(k)
  /\ late => MayBeLate(route)
  /\ \/ /\ serves \/ Restorable(lab)
        /\ server' = [server EXCEPT ![p] =
             Finalizing(p, k, route, next,
                        IF serves THEN Outcome(route) ELSE "refused",
                        IF serves THEN lab ELSE None)]
     \/ /\ ~serves /\ ~Restorable(lab)
        /\ server' = [server EXCEPT ![p] = Down]
  /\ UNCHANGED <<row, records, told, faults>>

\* persistResponse, the transaction of runIdempotent: the key was recorded
\* meanwhile (for this request or another), or the row moved on, or the store
\* failed, or the snapshot and the response are committed and sent.
CommitsFaulty(p) == Unrecorded(server[p].key)
Commits(p) ==
  Unrecorded(server[p].key) /\ Current(server[p].persistedVersion)

\* A transaction that throws is rolled back as a whole.
RolledBackFaulty(p) == Swapped(2, server[p].state) /\ UNCHANGED records
RolledBack(p) == UNCHANGED <<row, records>>

Commit(p) ==
  LET k == server[p].key
      route == server[p].route
  IN
  /\ server[p].phase = "commit"
  /\ \/ /\ Replays(k, route)
        /\ server' = [server EXCEPT ![p].phase = "replayed",
                                    ![p].response = records[k].response]
        /\ UNCHANGED <<row, records, told>>
     \/ \* another request's key, a conflict, or a failing store
        /\ ~Replays(k, route)
        /\ RolledBack(p)
        /\ server' = [server EXCEPT ![p].phase = "failed"]
        /\ UNCHANGED told
     \/ /\ Commits(p)
        /\ RanOnce(k, route, server[p].response, 2, server[p].state)
        /\ told' = [told EXCEPT ![k] = @ \cup {server[p].response}]
        /\ server' = [server EXCEPT ![p] =
             Idle(server[p].state, server[p].persistedVersion + 1)]
  /\ UNCHANGED faults

\* After a replay or a failure the state and the version in memory are
\* replaced by the row's; the replayed response is sent, a failure is answered
\* by 409 or 503, which is not remembered.
RefreshedFaulty(p) == Idle(server[p].state, row.version)
Refreshed(p) == Idle(Restored(row.value), row.version)

Refresh(p) ==
  /\ server[p].phase \in {"replayed", "failed"}
  /\ Restorable(row.value)
  /\ server' = [server EXCEPT ![p] = Refreshed(p)]
  /\ told' = IF server[p].phase = "failed" THEN told
             ELSE [told EXCEPT ![server[p].key] = @ \cup {server[p].response}]
  /\ UNCHANGED <<row, records, faults>>

\* The read fails, or finds a row that does not restore.  After a replay it is
\* tried once more.  After a failure the error is no PersistenceError: thrown
\* by a finalize of the route, it is finalized in turn, on the snapshot taken
\* before the route ran; thrown by a finalize of the catch clause, or when
\* that snapshot does not restore, it leaves the handler.
RefreshFails(p) ==
  LET before == server[p].rollback
      again == before # None /\ Restorable(before)
  IN
  /\ server[p].phase \in {"replayed", "failed"}
  /\ server' = [server EXCEPT ![p] =
       IF @.phase = "replayed" THEN [@ EXCEPT !.phase = "failed"]
       ELSE IF again THEN Finalizing(p, @.key, @.route, RollBack(before),
                                     "refused", None)
       ELSE Down]
  /\ Fault \/ (~Restorable(row.value) /\ UNCHANGED faults)
  /\ UNCHANGED <<row, records, told>>

\* The process dies (or an error leaves its handler) and may be started again.
Crash(p) ==
  /\ server[p].phase # "down"
  /\ Fault
  /\ server' = [server EXCEPT ![p] = Down]
  /\ UNCHANGED <<row, records, told>>

Next ==
  \E p \in Processes :
    \/ Start(p) \/ FinishStart(p) \/ Commit(p) \/ Refresh(p)
    \/ RefreshFails(p) \/ Crash(p)
    \/ \E k \in Keys, route \in Routes :
         \/ Replay(p, k, route) \/ LookupFails(p, k, route)
         \/ \E late \in BOOLEAN : Handle(p, k, route, late)

Spec == Init /\ [][Next]_vars

-----------------------------------------------------------------------------
(* Properties *)

\* Every variable has its type.
TypeOK ==
  /\ row \in [version : Nat, schema : {1, 2}, value : LabState] \cup {NoRow}
  /\ records \in [Keys -> [request : Routes, response : Response] \cup {None}]
  /\ server \in [Processes -> Process]
  /\ told \in [Keys -> SUBSET Response]
  /\ faults \in 0 .. MaxFaults

\* REALTIME_IDEMPOTENCY.md, "safe retry after a lost response or process
\* restart": every definite answer a client ever got under a key, from any
\* process, before or after any crash, is the one that is recorded.
AnswersStand ==
  \A k \in Keys : \A r \in told[k] :
    records[k] # None /\ records[k].response = r

\* A process that is not in the middle of a request and holds the version of
\* the row holds the state of the row, up to the copies that a restore reads
\* again; so a swap that passes the version check builds on the latest state.
MemoryMatchesVersion ==
  \A p \in Processes :
    /\ server[p].phase = "idle" => server[p].persistedVersion <= row.version
    /\ server[p].phase = "idle" /\ server[p].persistedVersion = row.version =>
         Restored(server[p].state) = Restored(row.value)

\* No committed work is lost: the row's history only grows at its end, one
\* request at a time, whatever two processes do at once.
NoLostUpdate ==
  [][row # NoRow =>
       \/ row'.value.history = row.value.history
       \/ \E k \in Keys : row'.value.history = Append(row.value.history, k)]_vars

\* The requests under one key change the lab at most once, and the change and
\* the remembered response are committed together.
Effects(k) ==
  IF row = NoRow THEN 0
  ELSE Cardinality({i \in DOMAIN row.value.history : row.value.history[i] = k})
PerKey == INSTANCE IdempotentEffect
            WITH remembered <- {k \in Keys : records[k] # None},
                 effects <- [k \in Keys |-> Effects(k)]
KeyedEffects == PerKey!Spec

\* README.md, "Stop and restart the process with the same path to restore the
\* exact simulated engine": whatever was committed, the next start accepts it.
\* Refuted by a demonstration of a reused signature that comes late.
RestartRestores == row # NoRow => Restorable(row.value)

\* A start refuses what was committed for one reason only: a transaction is
\* pending whose challenge has expired, and a demonstration of a reused
\* signature was answered under some key.  No other interleaving of requests,
\* failures, retries and faults leaves a row that does not restore.
RefusedOnlyAfterDemonstration ==
  row # NoRow /\ ~Restorable(row.value) =>
    /\ row.value.transaction = "confirmation_pending"
    /\ row.value.transactionChallenge = "expired"
    /\ \E k \in Keys :
         records[k] = [request |-> "reused-signature", response |-> "blocked"]

\* Types, and the agreement of every process's memory with the row it names.
MemorySound == TypeOK /\ MemoryMatchesVersion

=============================================================================
