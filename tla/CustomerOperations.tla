--------------------------- MODULE CustomerOperations ---------------------------
(***************************************************************************)
(* packages/customer-operations/operationsStateMachine.ts: the cases of    *)
(* one tenant, their dual-control trust resets, the audit events and       *)
(* notification intents they leave, and the idempotency records.  Every    *)
(* method is synchronous: one atomic step.  A method that throws may still *)
(* have changed something: reading a case through #activeCase expires it,  *)
(* and a late approval expires the override.                               *)
(*                                                                         *)
(* Abstractions.  The maps are keyed by tenant, so one tenant's slice is   *)
(* modelled; actors of other tenants still call it.  Identifiers are       *)
(* assumed to contain no ':', the separator of the map keys, although the  *)
(* code's pattern for them allows it.  Reasons, references and timestamps  *)
(* of events are left out, except that the reason of a recovery transition *)
(* names the proof.  The audit is one sequence per case: the order between *)
(* cases, and the hash chain, are dropped.                                 *)
(***************************************************************************)
EXTENDS Naturals, Sequences, FiniteSetsExt

CONSTANTS
  None,
  Tenant,         \* the tenant whose cases are modelled
  Actors,         \* callers: [tenantId, actorId, role, deviceId]
  CaseTypes,      \* the case types the callers open
  CaseIds, OverrideIds, DeviceIds,
  Keys,           \* idempotency keys that callers use more than once
  OnceOnly,       \* a key that no later call uses: what it remembers is not kept
  ProofMethods,   \* the strong proofs of verifyRecoveryProof
  Ttls,           \* lifetimes a caller may ask for
  MaxTtl,         \* MAX_TTL_MS
  MaxOverrideTtl, \* MAX_OVERRIDE_TTL_MS
  MaxTime,        \* bound: the last `now` a caller passes
  MaxEvents       \* bound: audit events of all the cases

VARIABLES
  cases,       \* [CaseIds -> case or NoCase]
  overrides,   \* [OverrideIds -> override or NoOverride]
  audit,       \* [CaseIds -> Seq(event)]
  intents,     \* [CaseIds -> Seq(template)]
  once,        \* [Keys -> answer or None]
  effects      \* history: how many calls under the key changed the machine

store == <<cases, overrides, audit, intents>>
vars == <<cases, overrides, audit, intents, once, effects>>

-----------------------------------------------------------------------------
(* The workflow graphs and who may move along them *)

OPERATIONS_CASE_TYPES ==
  {"device_loss", "account_recovery", "false_decline_review",
   "fraudulent_approval_dispute", "compromise_response"}

Terminal ==
  {"resolved", "upheld", "overturned", "remediated", "expired", "cancelled"}

OperationsCaseState ==
  Terminal \cup {"opened", "contained", "proof_verified",
                 "trust_reset_pending", "under_review", "payment_frozen",
                 "eradicated"}

OperationsRole ==
  {"customer", "fraud_analyst", "security_operator", "supervisor",
   "recovery_officer", "system"}

APPROVER_ROLES == {"security_operator", "supervisor", "recovery_officer"}

\* The roles that may move a case to the state; none for the states only the
\* dual-control methods reach.
TRANSITION_ROLES(next) ==
  CASE next \in {"contained", "payment_frozen", "remediated"} ->
         {"fraud_analyst", "security_operator", "supervisor"}
    [] next = "proof_verified" -> {"recovery_officer", "security_operator"}
    [] next \in {"under_review", "upheld", "overturned"} ->
         {"fraud_analyst", "supervisor"}
    [] next \in {"eradicated", "resolved"} -> {"security_operator", "supervisor"}
    [] next = "cancelled" ->
         {"customer", "fraud_analyst", "security_operator", "supervisor"}
    [] OTHER -> {}

\* The edges of each case type's graph.
TRANSITIONS(type) ==
  CASE type = "device_loss" ->
         {<<"opened", "contained">>, <<"opened", "cancelled">>,
          <<"contained", "trust_reset_pending">>, <<"contained", "resolved">>,
          <<"trust_reset_pending", "resolved">>}
    [] type = "account_recovery" ->
         {<<"opened", "proof_verified">>, <<"opened", "cancelled">>,
          <<"proof_verified", "trust_reset_pending">>,
          <<"trust_reset_pending", "resolved">>}
    [] type = "false_decline_review" ->
         {<<"opened", "under_review">>, <<"opened", "cancelled">>,
          <<"under_review", "upheld">>, <<"under_review", "overturned">>}
    [] type = "fraudulent_approval_dispute" ->
         {<<"opened", "payment_frozen">>, <<"opened", "cancelled">>,
          <<"payment_frozen", "under_review">>,
          <<"under_review", "upheld">>, <<"under_review", "remediated">>}
    [] type = "compromise_response" ->
         {<<"opened", "contained">>, <<"contained", "eradicated">>,
          <<"contained", "trust_reset_pending">>, <<"eradicated", "resolved">>,
          <<"trust_reset_pending", "resolved">>}

-----------------------------------------------------------------------------
(* Types *)

Time == 0 .. MaxTime

\* The actor of the events the machine itself appends.
System ==
  [tenantId |-> Tenant, actorId |-> "system", role |-> "system",
   deviceId |-> None]

OperationsCase ==
  [type : OPERATIONS_CASE_TYPES, state : OperationsCaseState,
   device : DeviceIds \cup {None}, expiresAt : Nat]

NoCase ==
  [type |-> None, state |-> "absent", device |-> None, expiresAt |-> 0]

SensitiveOverride ==
  [case : CaseIds, state : {"pending", "executed", "expired"},
   requestedBy : Actors, expiresAt : Nat, approvals : Seq(Actors)]

NoOverride ==
  [case |-> None, state |-> "absent", requestedBy |-> None,
   expiresAt |-> 0, approvals |-> <<>>]

CaseEvent(state) == <<"case", state>>
ResetEvent(step) == <<"trust_reset", step>>

EventType ==
  {CaseEvent(s) : s \in OperationsCaseState}
    \cup {ResetEvent(s) : s \in {"requested", "approved", "executed", "expired"}}

OperationsAuditEvent ==
  [type : EventType, actor : Actors \cup {System},
   proof : ProofMethods \cup {None}]

Template ==
  {"case_opened", "case_state_changed", "approval_requested",
   "trust_reset_completed"}

\* A remembered answer: a case or override in a state, or an error.
Answer == [ok : BOOLEAN, case : CaseIds \cup {None},
           state : OperationsCaseState \cup {"pending", "executed", "error"}]

ASSUME ConstantsAssumption ==
  /\ None \notin CaseIds \cup OverrideIds \cup DeviceIds \cup Keys
                   \cup ProofMethods \cup OperationsCaseState \cup Answer
  /\ OnceOnly \notin Keys
  /\ CaseTypes \subseteq OPERATIONS_CASE_TYPES
  /\ \A a \in Actors : a.role \in OperationsRole
  /\ Ttls \subseteq Nat /\ MaxTtl \in Nat /\ MaxOverrideTtl \in Nat
  /\ MaxTime \in Nat /\ MaxEvents \in Nat

Init ==
  /\ cases = [c \in CaseIds |-> NoCase]
  /\ overrides = [o \in OverrideIds |-> NoOverride]
  /\ audit = [c \in CaseIds |-> <<>>]
  /\ intents = [c \in CaseIds |-> <<>>]
  /\ once = [k \in Keys |-> None]
  /\ effects = [k \in Keys |-> 0]

-----------------------------------------------------------------------------
(* Helpers of the methods *)

AssertActor(a) == a.tenantId = Tenant

\* A lifetime of at least a minute (here 1) and at most the maximum.
ValidTtl(ttl, max) == ttl \in 1 .. max

Exists(c) == cases[c] # NoCase

\* #activeCase: the case is found and is not closed; then either its lifetime
\* is over and it expires, or the caller works on it.
OpenFaulty(c) == Exists(c) /\ cases[c].state \notin Terminal \ {"cancelled"}
Open(c) == Exists(c) /\ cases[c].state \notin Terminal
Overdue(c, now) == Open(c) /\ now >= cases[c].expiresAt
ActiveCase(c, now) == Open(c) /\ now < cases[c].expiresAt

Event(type, a, proof) == [type |-> type, actor |-> a, proof |-> proof]

AppendAudit(c, events) == audit' = [audit EXCEPT ![c] = @ \o events]

NotifyFaulty(c, template) ==
  intents' = [intents EXCEPT
    ![c] = IF \E i \in DOMAIN @ : @[i] = template THEN @ ELSE Append(@, template)]
Notify(c, template) == intents' = [intents EXCEPT ![c] = Append(@, template)]

\* bound: a new event is recorded while fewer than MaxEvents are.
RoomFor(n) == MapThenSumSet(LAMBDA c : Len(audit[c]), CaseIds) + n <= MaxEvents

-----------------------------------------------------------------------------
(* #once *)

Success(c, state) == [ok |-> TRUE, case |-> c, state |-> state]
Failure == [ok |-> FALSE, case |-> None, state |-> "error"]

\* No call has been decided under the key.  A later call with the same
\* request gets the remembered answer or error again, and one with another
\* request is refused: neither changes anything, both are stuttering steps.
UnansweredFaulty(k) == k # OnceOnly => once[k] \in {None, Failure}
Unanswered(k) == k # OnceOnly => once[k] = None

\* The answer is remembered, an error like a response.  (The hash of the
\* request only chooses between the two ways a later call changes nothing.)
Remember(k, answer) ==
  /\ once' = IF k = OnceOnly THEN once ELSE [once EXCEPT ![k] = answer]
  /\ effects' = IF k = OnceOnly THEN effects
                ELSE [effects EXCEPT ![k] = @ + (IF store' = store THEN 0 ELSE 1)]

\* The method throws before it changed anything.
Refuse(k) ==
  /\ k # OnceOnly
  /\ UNCHANGED store
  /\ Remember(k, Failure)

\* #activeCase finds the lifetime over: the case is expired, the event is
\* appended, nobody is notified, and the method throws.
ExpireCaseFaulty(k, c) ==
  /\ RoomFor(1)
  /\ cases' = [cases EXCEPT ![c].state = "expired"]
  /\ UNCHANGED <<overrides, audit, intents>>
  /\ Remember(k, Failure)
ExpireCase(k, c) ==
  /\ RoomFor(1)
  /\ cases' = [cases EXCEPT ![c].state = "expired"]
  /\ AppendAudit(c, <<Event(CaseEvent("expired"), System, None)>>)
  /\ UNCHANGED <<overrides, intents>>
  /\ Remember(k, Failure)

-----------------------------------------------------------------------------
(* The methods *)

\* openCase: the case id is the caller's or a random one (id = None).
OpenCase(k, a, type, device, id, ttl, now) ==
  LET valid == AssertActor(a) /\ ValidTtl(ttl, MaxTtl)
  IN
  /\ Unanswered(k)
  /\ \/ \E c \in IF id = None THEN CaseIds ELSE {id} :
          /\ valid /\ ~Exists(c) /\ RoomFor(1)
          /\ cases' = [cases EXCEPT ![c] =
                 [type |-> type, state |-> "opened", device |-> device,
                  expiresAt |-> now + ttl]]
          /\ AppendAudit(c, <<Event(CaseEvent("opened"), a, None)>>)
          /\ Notify(c, "case_opened")
          /\ UNCHANGED overrides
          /\ Remember(k, Success(c, "opened"))
     \/ /\ valid => id # None /\ Exists(id)
        /\ Refuse(k)

\* The edge exists and is not one that the dual-control methods own.
TransitionAllowedFaulty(c, next, a) ==
  /\ next # "trust_reset_pending"
  /\ <<cases[c].state, next>> \in TRANSITIONS(cases[c].type)
  /\ a.role \in TRANSITION_ROLES(next)
TransitionAllowed(c, next, a) ==
  /\ next # "trust_reset_pending"
  /\ ~(next = "resolved" /\ cases[c].state = "trust_reset_pending")
  /\ <<cases[c].state, next>> \in TRANSITIONS(cases[c].type)
  /\ a.role \in TRANSITION_ROLES(next)

\* transition; proof is the proof method that verifyRecoveryProof writes into
\* the reason, and None for a direct call.
Transition(k, a, c, next, proof, now) ==
  /\ Unanswered(k)
  /\ \/ /\ AssertActor(a) /\ Overdue(c, now)
        /\ ExpireCase(k, c)
     \/ /\ AssertActor(a) /\ ActiveCase(c, now) /\ TransitionAllowed(c, next, a)
        /\ RoomFor(1)
        /\ cases' = [cases EXCEPT ![c].state = next]
        /\ AppendAudit(c, <<Event(CaseEvent(next), a, proof)>>)
        /\ Notify(c, "case_state_changed")
        /\ UNCHANGED overrides
        /\ Remember(k, Success(c, next))
     \/ /\ \/ ~AssertActor(a) \/ ~Open(c)
           \/ ActiveCase(c, now) /\ ~TransitionAllowed(c, next, a)
        /\ Refuse(k)

\* verifyRecoveryProof: a weak method, an unknown case and a case of another
\* type are refused before #once, so nothing is remembered for them.
VerifyRecoveryProof(k, a, c, method, now) ==
  /\ method \in ProofMethods
  /\ Exists(c) /\ cases[c].type = "account_recovery"
  /\ Transition(k, a, c, "proof_verified", method, now)

Eligible(c) ==
  \/ cases[c].type = "account_recovery" /\ cases[c].state = "proof_verified"
  \/ /\ cases[c].type \in {"device_loss", "compromise_response"}
     /\ cases[c].state = "contained"

\* requestTrustReset: the role and the lifetime are refused before the case is
\* read, so such a call does not expire it.
RequestTrustReset(k, a, c, id, ttl, now) ==
  LET valid == /\ AssertActor(a) /\ a.role \in APPROVER_ROLES
               /\ ValidTtl(ttl, MaxOverrideTtl)
  IN
  /\ Unanswered(k)
  /\ \/ /\ valid /\ Overdue(c, now)
        /\ ExpireCase(k, c)
     \/ \E o \in IF id = None THEN OverrideIds ELSE {id} :
          /\ valid /\ ActiveCase(c, now) /\ Eligible(c)
          /\ overrides[o] = NoOverride /\ RoomFor(1)
          /\ cases' = [cases EXCEPT ![c].state = "trust_reset_pending"]
          /\ overrides' = [overrides EXCEPT ![o] =
                 [case |-> c, state |-> "pending", requestedBy |-> a,
                  expiresAt |-> now + ttl, approvals |-> <<>>]]
          /\ AppendAudit(c, <<Event(ResetEvent("requested"), a, None)>>)
          /\ Notify(c, "approval_requested")
          /\ Remember(k, Success(c, "pending"))
     \/ /\ \/ ~valid \/ ~Open(c)
           \/ /\ ActiveCase(c, now)
              /\ Eligible(c) => id # None /\ overrides[id] # NoOverride
        /\ Refuse(k)

\* The actor has not approved yet and is not on the device the case is about.
MayApproveFaulty(o, a) ==
  \A i \in DOMAIN overrides[o].approvals :
    overrides[o].approvals[i].actorId # a.actorId
MayApprove(o, a) ==
  LET c == overrides[o].case IN
  /\ \A i \in DOMAIN overrides[o].approvals :
       overrides[o].approvals[i].actorId # a.actorId
  /\ cases[c].device # None => a.deviceId # cases[c].device

\* The second approval executes the reset and resolves the case.
Approve(k, a, o) ==
  LET c == overrides[o].case
      second == Len(overrides[o].approvals) = 1
  IN
  /\ RoomFor(IF second THEN 2 ELSE 1)
  /\ overrides' = [overrides EXCEPT
       ![o].approvals = Append(@, a),
       ![o].state = IF second THEN "executed" ELSE @]
  /\ cases' = IF second THEN [cases EXCEPT ![c].state = "resolved"] ELSE cases
  /\ AppendAudit(c, IF second
                    THEN <<Event(ResetEvent("approved"), a, None),
                           Event(ResetEvent("executed"), System, None)>>
                    ELSE <<Event(ResetEvent("approved"), a, None)>>)
  /\ IF second THEN Notify(c, "trust_reset_completed") ELSE UNCHANGED intents
  /\ Remember(k, Success(c, overrides'[o].state))

\* The approval window is over: the override expires, its case does not.
ExpireOverride(k, o) ==
  /\ RoomFor(1)
  /\ overrides' = [overrides EXCEPT ![o].state = "expired"]
  /\ AppendAudit(overrides[o].case, <<Event(ResetEvent("expired"), System, None)>>)
  /\ UNCHANGED <<cases, intents>>
  /\ Remember(k, Failure)

ApproveTrustReset(k, a, o, now) ==
  LET found == /\ AssertActor(a) /\ a.role \in APPROVER_ROLES
               /\ overrides[o] # NoOverride
      c == overrides[o].case
      pending == ActiveCase(c, now) /\ overrides[o].state = "pending"
      late == now >= overrides[o].expiresAt
  IN
  /\ Unanswered(k)
  /\ \/ /\ found /\ Overdue(c, now)
        /\ ExpireCase(k, c)
     \/ /\ found /\ pending /\ late
        /\ ExpireOverride(k, o)
     \/ /\ found /\ pending /\ ~late /\ MayApprove(o, a)
        /\ Approve(k, a, o)
     \/ /\ found => \/ ~Open(c)
                    \/ ActiveCase(c, now) /\ overrides[o].state # "pending"
                    \/ pending /\ ~late /\ ~MayApprove(o, a)
        /\ Refuse(k)

\* Every caller passes the time it likes (`now` is an argument).
Next ==
  \E k \in Keys \cup {OnceOnly}, a \in Actors, now \in Time :
    \/ \E type \in CaseTypes, device \in DeviceIds \cup {None},
         id \in CaseIds \cup {None}, ttl \in Ttls :
         OpenCase(k, a, type, device, id, ttl, now)
    \/ \E c \in CaseIds :
         \/ \E next \in OperationsCaseState : Transition(k, a, c, next, None, now)
         \/ \E method \in ProofMethods : VerifyRecoveryProof(k, a, c, method, now)
         \/ \E id \in OverrideIds \cup {None}, ttl \in Ttls :
              RequestTrustReset(k, a, c, id, ttl, now)
    \/ \E o \in OverrideIds : ApproveTrustReset(k, a, o, now)

Spec == Init /\ [][Next]_vars

-----------------------------------------------------------------------------
(* snapshot() and restore() *)

Types(c) == {audit[c][i].type : i \in DOMAIN audit[c]}
EventsOf(c, type) == {i \in DOMAIN audit[c] : audit[c][i].type = type}

\* stateByEvent of #validateRestoredState: the events that set a state.
StateByEvent(type) ==
  CASE type[1] = "case" -> type[2]
    [] type = ResetEvent("requested") -> "trust_reset_pending"
    [] type = ResetEvent("executed") -> "resolved"
    [] OTHER -> None

\* The state that the audit events of a case derive.
Derived(c) ==
  LET marks == {i \in DOMAIN audit[c] : StateByEvent(audit[c][i].type) # None}
  IN IF marks = {} THEN "opened" ELSE StateByEvent(audit[c][Max(marks)].type)

CaseRestorable(c) ==
  Exists(c) => /\ CaseEvent("opened") \in Types(c)
               /\ Derived(c) = cases[c].state

OverrideRestorable(o) ==
  LET v == overrides[o]
      c == v.case
      requests == EventsOf(c, ResetEvent("requested"))
      approvals == EventsOf(c, ResetEvent("approved"))
  IN
  v # NoOverride =>
    /\ Exists(c)
    /\ \A p \in OverrideIds : p # o => overrides[p].case # c
    /\ Len(v.approvals) <= 2
    /\ \A i, j \in DOMAIN v.approvals :
         v.approvals[i].actorId = v.approvals[j].actorId => i = j
    /\ Cardinality(approvals) = Len(v.approvals)
    /\ \A i \in DOMAIN v.approvals :
         /\ v.approvals[i].role \in APPROVER_ROLES
         /\ \E e \in approvals : audit[c][e].actor = v.approvals[i]
    /\ Cardinality(requests) = 1
    /\ \A e \in requests : audit[c][e].actor = v.requestedBy
    /\ v.state = "executed" <=> ResetEvent("executed") \in Types(c)
    /\ v.state = "expired" <=> ResetEvent("expired") \in Types(c)

ValidateRestoredState ==
  /\ \A c \in CaseIds : CaseRestorable(c)
  /\ \A o \in OverrideIds : OverrideRestorable(o)
  /\ \A c \in CaseIds : intents[c] # <<>> => Exists(c)

-----------------------------------------------------------------------------
(* Properties *)

\* Every variable has its type.
TypeOK ==
  /\ cases \in [CaseIds -> OperationsCase \cup {NoCase}]
  /\ overrides \in [OverrideIds -> SensitiveOverride \cup {NoOverride}]
  /\ audit \in [CaseIds -> Seq(OperationsAuditEvent)]
  /\ intents \in [CaseIds -> Seq(Template)]
  /\ once \in [Keys -> Answer \cup {None}]
  /\ effects \in [Keys -> Nat]

\* Whatever sequence of calls led here, failed ones included, restore()
\* accepts what snapshot() returns: the audit events derive the state of
\* every case and account for every override.
SnapshotRestores == ValidateRestoredState

\* CUSTOMER_FRAUD_OPERATIONS_RUNBOOK.md rule 6 and "Dual control": a reset is
\* executed only after two approvals, later than the request, by different
\* people of the tenant in an approving role, none on the affected device.
DualControl ==
  \A c \in CaseIds : \A x \in EventsOf(c, ResetEvent("executed")) :
    \E r \in EventsOf(c, ResetEvent("requested")) :
    \E i, j \in EventsOf(c, ResetEvent("approved")) :
      /\ r < i /\ i < j /\ j < x
      /\ audit[c][i].actor.actorId # audit[c][j].actor.actorId
      /\ \A e \in {i, j} :
           /\ audit[c][e].actor.tenantId = Tenant
           /\ audit[c][e].actor.role \in APPROVER_ROLES
           /\ \/ cases[c].device = None
              \/ audit[c][e].actor.deviceId # cases[c].device

\* A case that went through trust_reset_pending is resolved by the executed
\* reset and by nothing else, and while it waits it has exactly its override.
ResetOwnsItsCase ==
  \A c \in CaseIds :
    LET reset == {o \in OverrideIds : overrides[o].case = c} IN
    /\ cases[c].state = "trust_reset_pending" =>
         \E o \in reset : overrides[o].state \in {"pending", "expired"}
    /\ reset # {} /\ cases[c].state = "resolved" =>
         \A o \in reset : overrides[o].state = "executed"

\* The customer has a notification intent for the opening, each change of
\* state, the request and the completion of a reset, one each, and none for an
\* approval or an expiry (runbook rule 7).
Announced ==
  \A c \in CaseIds :
    LET told(t) == Cardinality({i \in DOMAIN intents[c] : intents[c][i] = t})
        made(T) == Cardinality({i \in DOMAIN audit[c] : audit[c][i].type \in T})
    IN
    /\ told("case_opened") = made({CaseEvent("opened")})
    /\ told("case_state_changed") =
         made({CaseEvent(s) : s \in OperationsCaseState \ {"opened", "expired"}})
    /\ told("approval_requested") = made({ResetEvent("requested")})
    /\ told("trust_reset_completed") = made({ResetEvent("executed")})

\* Runbook rule 4, "Treat expiry as terminal", and "Late approval cannot
\* revive it": nothing that belongs to a closed case changes any more, and a
\* case whose override is over can only expire.
ClosedForGood ==
  [][/\ \A c \in CaseIds : cases[c].state \in Terminal =>
          /\ cases'[c] = cases[c] /\ audit'[c] = audit[c]
          /\ intents'[c] = intents[c]
          /\ \A o \in OverrideIds :
               overrides[o].case = c => overrides'[o] = overrides[o]
     /\ \A o \in OverrideIds : overrides[o].state = "expired" =>
          cases'[overrides[o].case].state
            \in {cases[overrides[o].case].state, "expired"}]_vars

\* The calls under one idempotency key change the machine at most once, and
\* never after an answer was remembered, an error included (#once).
PerKey == INSTANCE IdempotentEffect
            WITH remembered <- {k \in Keys : once[k] # None}
KeyedEffects == PerKey!Spec

\* Types, and the agreement of the audit trail with the notification intents.
IntentsAgree == TypeOK /\ Announced

=============================================================================
