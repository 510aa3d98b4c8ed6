------------------------ MODULE CustomerOperationsProofs ------------------------
(***************************************************************************)
(* For any number of cases, overrides, actors and keys: a snapshot always  *)
(* restores, a trust reset needs two people, a closed case stays closed,   *)
(* every change is announced and a key decides once.                       *)
(*                                                                         *)
(* A method takes effect in one of eight ways (Kinds), whatever checks it  *)
(* made first.  Each invariant is shown for these; the case and the        *)
(* override are tied by Tied, the audit trail to both by Traced.           *)
(***************************************************************************)
EXTENDS CustomerOperations, SumFacts, TLAPS

-----------------------------------------------------------------------------
(* What a method may do to the store *)

\* One more event in the trail of c, one more intent.
Logs(c, type, a, proof) ==
  audit' = [audit EXCEPT ![c] = Append(audit[c], Event(type, a, proof))]
Announces(c, template) ==
  intents' = [intents EXCEPT ![c] = Append(intents[c], template)]

\* The state of a case is set.
SetsState(c, state) ==
  cases' = [cases EXCEPT ![c] = [cases[c] EXCEPT !.state = state]]

\* openCase
Opens(c, a) ==
  /\ c \in CaseIds /\ ~Exists(c) /\ a \in Actors
  /\ \E new \in OperationsCase :
       new.state = "opened" /\ cases' = [cases EXCEPT ![c] = new]
  /\ Logs(c, CaseEvent("opened"), a, None)
  /\ Announces(c, "case_opened")
  /\ UNCHANGED overrides

\* #activeCase on an overdue case
Expires(c) ==
  /\ c \in CaseIds /\ Open(c)
  /\ SetsState(c, "expired")
  /\ Logs(c, CaseEvent("expired"), System, None)
  /\ UNCHANGED <<overrides, intents>>

\* transition
Changes(c, a, next, proof) ==
  /\ c \in CaseIds /\ Open(c) /\ a \in Actors
  /\ next \in OperationsCaseState \ {"opened", "expired", "trust_reset_pending"}
  /\ cases[c].state # "trust_reset_pending"
  /\ proof \in ProofMethods \cup {None}
  /\ SetsState(c, next)
  /\ Logs(c, CaseEvent(next), a, proof)
  /\ Announces(c, "case_state_changed")
  /\ UNCHANGED overrides

\* requestTrustReset
Requests(c, o, a) ==
  /\ c \in CaseIds /\ o \in OverrideIds /\ Open(c) /\ a \in Actors
  /\ cases[c].state \in {"proof_verified", "contained"}
  /\ overrides[o] = NoOverride
  /\ SetsState(c, "trust_reset_pending")
  /\ \E new \in SensitiveOverride :
       /\ new.case = c /\ new.state = "pending" /\ new.requestedBy = a
       /\ new.approvals = <<>>
       /\ overrides' = [overrides EXCEPT ![o] = new]
  /\ Logs(c, ResetEvent("requested"), a, None)
  /\ Announces(c, "approval_requested")

\* approveTrustReset, up to what the approval leads to
MayDecide(c, o, a) ==
  /\ c \in CaseIds /\ o \in OverrideIds /\ a \in Actors
  /\ overrides[o] # NoOverride /\ overrides[o].case = c
  /\ Open(c) /\ overrides[o].state = "pending"
  /\ a.role \in APPROVER_ROLES /\ a.tenantId = Tenant
  /\ MayApprove(o, a)

\* the first approval
Approves(c, o, a) ==
  /\ MayDecide(c, o, a) /\ Len(overrides[o].approvals) # 1
  /\ overrides' = [overrides EXCEPT ![o] =
       [overrides[o] EXCEPT !.approvals = Append(overrides[o].approvals, a)]]
  /\ Logs(c, ResetEvent("approved"), a, None)
  /\ UNCHANGED <<cases, intents>>

\* the second
Executes(c, o, a) ==
  /\ MayDecide(c, o, a) /\ Len(overrides[o].approvals) = 1
  /\ overrides' = [overrides EXCEPT ![o] =
       [overrides[o] EXCEPT !.approvals = Append(overrides[o].approvals, a),
                            !.state = "executed"]]
  /\ SetsState(c, "resolved")
  /\ audit' = [audit EXCEPT ![c] =
       Append(Append(audit[c], Event(ResetEvent("approved"), a, None)),
              Event(ResetEvent("executed"), System, None))]
  /\ Announces(c, "trust_reset_completed")

\* an approval after the window
Lapses(c, o) ==
  /\ c \in CaseIds /\ o \in OverrideIds
  /\ overrides[o] # NoOverride /\ overrides[o].case = c
  /\ Open(c) /\ overrides[o].state = "pending"
  /\ overrides' = [overrides EXCEPT ![o] = [overrides[o] EXCEPT !.state = "expired"]]
  /\ Logs(c, ResetEvent("expired"), System, None)
  /\ UNCHANGED <<cases, intents>>

Kinds ==
  \/ UNCHANGED store
  \/ \E c \in CaseIds :
       \/ Expires(c)
       \/ \E a \in Actors : Opens(c, a)
       \/ \E a \in Actors, next \in OperationsCaseState,
             proof \in ProofMethods \cup {None} : Changes(c, a, next, proof)
       \/ \E o \in OverrideIds :
            \/ Lapses(c, o)
            \/ \E a \in Actors : \/ Requests(c, o, a)
                                 \/ Approves(c, o, a)
                                 \/ Executes(c, o, a)

\* Rows that are there have their fields.
LEMMA RowTypes ==
  ASSUME TypeOK
  PROVE  /\ \A c \in CaseIds : Exists(c) =>
              /\ cases[c] \in OperationsCase
              /\ cases[c].type \in OPERATIONS_CASE_TYPES
              /\ cases[c].state \in OperationsCaseState
         /\ \A c \in CaseIds : ~Exists(c) => cases[c].state = "absent"
         /\ \A o \in OverrideIds : overrides[o] # NoOverride =>
              /\ overrides[o] \in SensitiveOverride
              /\ overrides[o].case \in CaseIds
              /\ overrides[o].approvals \in Seq(Actors)
              /\ overrides[o].state \in {"pending", "executed", "expired"}
         /\ \A o \in OverrideIds : overrides[o] = NoOverride =>
              overrides[o].case = None /\ overrides[o].state = "absent"
<1>1. \A c \in CaseIds : Exists(c) => cases[c] \in OperationsCase
  BY DEF TypeOK, Exists
<1>2. \A o \in OverrideIds : overrides[o] # NoOverride => overrides[o] \in SensitiveOverride
  BY DEF TypeOK
<1>3. \A c \in CaseIds : ~Exists(c) => cases[c].state = "absent"
  BY DEF Exists, NoCase
<1>4. QED BY <1>1, <1>2, <1>3 DEF OperationsCase, SensitiveOverride, NoOverride

\* A case only moves along the edges that the dual-control methods do not own.
LEMMA EdgeFacts ==
  ASSUME NEW c, NEW next, NEW a, cases[c].type \in OPERATIONS_CASE_TYPES,
         TransitionAllowed(c, next, a)
  PROVE  /\ next \in OperationsCaseState \ {"opened", "expired", "trust_reset_pending"}
         /\ cases[c].state # "trust_reset_pending"
<1>1. \A t \in OPERATIONS_CASE_TYPES : \A edge \in TRANSITIONS(t) :
        /\ edge[2] \in OperationsCaseState \ {"opened", "expired"}
        /\ edge[1] = "trust_reset_pending" => edge[2] = "resolved"
  BY DEF OPERATIONS_CASE_TYPES, TRANSITIONS, OperationsCaseState, Terminal
<1>2. QED BY <1>1 DEF TransitionAllowed

-----------------------------------------------------------------------------
(* Every method takes effect in one of these ways *)

\* #once remembers the answer of a key that had none.
Decides ==
  \/ UNCHANGED <<once, effects>>
  \/ \E k \in Keys, answer \in Answer, n \in {0, 1} :
       /\ once[k] = None
       /\ once' = [once EXCEPT ![k] = answer]
       /\ effects' = [effects EXCEPT ![k] = effects[k] + n]

\* A result or an error stored under a key decides that key and no other.
LEMMA Remembers ==
  ASSUME NEW k \in Keys \cup {OnceOnly}, NEW answer \in Answer,
         Unanswered(k), Remember(k, answer)
  PROVE  Decides
<1>1. CASE k = OnceOnly
  BY <1>1 DEF Remember, Decides
<1>2. CASE k # OnceOnly
  <2>1. PICK n \in {0, 1} : effects' = [effects EXCEPT ![k] = effects[k] + n]
    BY <1>2 DEF Remember
  <2>2. QED BY <1>2, <2>1 DEF Remember, Decides, Unanswered
<1>3. QED BY <1>1, <1>2

\* What the methods store under a key is an answer.
LEMMA Answers ==
  /\ Failure \in Answer
  /\ \A c \in CaseIds, s \in OperationsCaseState \cup {"pending", "executed"} :
       Success(c, s) \in Answer
BY DEF Failure, Success, Answer

\* One and two events at the end of a trail.
LEMMA TrailGrows ==
  ASSUME NEW c \in CaseIds, audit \in [CaseIds -> Seq(OperationsAuditEvent)],
         NEW e \in OperationsAuditEvent, NEW f \in OperationsAuditEvent
  PROVE  /\ audit[c] \o <<e>> = Append(audit[c], e)
         /\ audit[c] \o <<e, f>> = Append(Append(audit[c], e), f)
<1>1. PICK s \in Seq(OperationsAuditEvent) : s = audit[c]
  OBVIOUS
<1>2. s \o <<e>> = Append(s, e)
  OBVIOUS
<1>3. s \o <<e, f>> = Append(Append(s, e), f)
  OBVIOUS
<1>4. QED BY <1>1, <1>2, <1>3

\* The events the methods append are events.
LEMMA EventTypes ==
  ASSUME NEW a \in Actors \cup {System}, NEW proof \in ProofMethods \cup {None},
         NEW type \in EventType
  PROVE  Event(type, a, proof) \in OperationsAuditEvent
BY DEF Event, OperationsAuditEvent

\* An overdue case that is read expires, under the caller's key.
LEMMA ExpireCaseKind ==
  ASSUME TypeOK, NEW k \in Keys \cup {OnceOnly}, NEW c \in CaseIds, Unanswered(k),
         Open(c), ExpireCase(k, c)
  PROVE  Expires(c) /\ Decides
<1>1. Decides
  BY Answers, Remembers DEF ExpireCase
<1>2. CaseEvent("expired") \in EventType
  BY DEF EventType, OperationsCaseState, Terminal
<1>3. audit[c] \o <<Event(CaseEvent("expired"), System, None)>>
        = Append(audit[c], Event(CaseEvent("expired"), System, None))
  BY <1>2, EventTypes, TrailGrows DEF TypeOK
<1>4. Logs(c, CaseEvent("expired"), System, None)
  BY <1>3 DEF ExpireCase, AppendAudit, Logs
<1>5. cases[c] \in OperationsCase
  BY RowTypes DEF Open
<1>6. SetsState(c, "expired")
  BY <1>5 DEF ExpireCase, SetsState
<1>7. QED BY <1>1, <1>4, <1>6 DEF Expires, ExpireCase

\* A refused call changes nothing but its key.
LEMMA RefuseKind ==
  ASSUME NEW k \in Keys \cup {OnceOnly}, Unanswered(k), Refuse(k)
  PROVE  UNCHANGED store /\ Decides
BY Answers, Remembers DEF Refuse

\* openCase opens a case or refuses.
LEMMA OpenCaseKind ==
  ASSUME TypeOK, NEW k \in Keys \cup {OnceOnly}, NEW a \in Actors, NEW now \in Time,
         NEW type \in CaseTypes, NEW device \in DeviceIds \cup {None},
         NEW id \in CaseIds \cup {None}, NEW ttl \in Ttls,
         OpenCase(k, a, type, device, id, ttl, now)
  PROVE  Kinds /\ Decides
<1>1. CASE Refuse(k)
  BY <1>1, RefuseKind DEF OpenCase, Kinds
<1>2. CASE ~Refuse(k)
  <2> DEFINE new == [type |-> type, state |-> "opened", device |-> device,
                     expiresAt |-> now + ttl]
  <2>1. PICK c \in IF id = None THEN CaseIds ELSE {id} :
          /\ ~Exists(c)
          /\ cases' = [cases EXCEPT ![c] = new]
          /\ AppendAudit(c, <<Event(CaseEvent("opened"), a, None)>>)
          /\ Notify(c, "case_opened")
          /\ UNCHANGED overrides
          /\ Remember(k, Success(c, "opened"))
    BY <1>2 DEF OpenCase
  <2>2. c \in CaseIds
    BY <2>1
  <2>3. now + ttl \in Nat
    BY ConstantsAssumption DEF Time
  <2>4. type \in OPERATIONS_CASE_TYPES /\ "opened" \in OperationsCaseState
    BY ConstantsAssumption DEF OperationsCaseState
  <2>5. new \in OperationsCase /\ new.state = "opened"
    BY <2>3, <2>4 DEF OperationsCase
  <2> HIDE DEF new
  <2>6. CaseEvent("opened") \in EventType
    BY <2>4 DEF EventType
  <2>7. Logs(c, CaseEvent("opened"), a, None)
    BY <2>1, <2>2, <2>6, EventTypes, TrailGrows DEF TypeOK, AppendAudit, Logs
  <2>8. Announces(c, "case_opened")
    BY <2>1 DEF Notify, Announces
  <2>9. Opens(c, a)
    BY <2>1, <2>2, <2>5, <2>7, <2>8 DEF Opens
  <2>10. Decides
    BY <2>1, <2>2, <2>4, Answers, Remembers DEF OpenCase
  <2>11. QED BY <2>2, <2>9, <2>10 DEF Kinds
<1>3. QED BY <1>1, <1>2

\* transition changes the case, expires it or refuses.
LEMMA TransitionKind ==
  ASSUME TypeOK, NEW k \in Keys \cup {OnceOnly}, NEW a \in Actors, NEW now \in Time,
         NEW c \in CaseIds, NEW next \in OperationsCaseState,
         NEW proof \in ProofMethods \cup {None},
         Transition(k, a, c, next, proof, now)
  PROVE  Kinds /\ Decides
<1>1. CASE Refuse(k)
  BY <1>1, RefuseKind DEF Transition, Kinds
<1>2. CASE Overdue(c, now) /\ ExpireCase(k, c)
  BY <1>2, ExpireCaseKind DEF Transition, Kinds, Overdue
<1>3. CASE /\ ActiveCase(c, now) /\ TransitionAllowed(c, next, a)
           /\ cases' = [cases EXCEPT ![c].state = next]
           /\ AppendAudit(c, <<Event(CaseEvent(next), a, proof)>>)
           /\ Notify(c, "case_state_changed")
           /\ UNCHANGED overrides
           /\ Remember(k, Success(c, next))
  <2>1. Open(c) /\ cases[c] \in OperationsCase /\ cases[c].type \in OPERATIONS_CASE_TYPES
    BY <1>3, RowTypes DEF ActiveCase, Open
  <2>2. /\ next \in OperationsCaseState \ {"opened", "expired", "trust_reset_pending"}
        /\ cases[c].state # "trust_reset_pending"
    BY <1>3, <2>1, EdgeFacts
  <2>3. SetsState(c, next)
    BY <1>3, <2>1 DEF SetsState
  <2>4. CaseEvent(next) \in EventType
    BY DEF EventType
  <2>5. Logs(c, CaseEvent(next), a, proof)
    BY <1>3, <2>4, EventTypes, TrailGrows DEF TypeOK, AppendAudit, Logs
  <2>6. Announces(c, "case_state_changed")
    BY <1>3 DEF Notify, Announces
  <2>7. Changes(c, a, next, proof)
    BY <1>3, <2>1, <2>2, <2>3, <2>5, <2>6 DEF Changes
  <2>8. Decides
    BY <1>3, Answers, Remembers DEF Transition
  <2>9. QED BY <2>7, <2>8 DEF Kinds
<1>4. QED BY <1>1, <1>2, <1>3 DEF Transition

\* requestTrustReset makes the override, expires the case or refuses.
LEMMA RequestKind ==
  ASSUME TypeOK, NEW k \in Keys \cup {OnceOnly}, NEW a \in Actors, NEW now \in Time,
         NEW c \in CaseIds, NEW id \in OverrideIds \cup {None}, NEW ttl \in Ttls,
         RequestTrustReset(k, a, c, id, ttl, now)
  PROVE  Kinds /\ Decides
<1>1. CASE Refuse(k)
  BY <1>1, RefuseKind DEF RequestTrustReset, Kinds
<1>2. CASE Overdue(c, now) /\ ExpireCase(k, c)
  BY <1>2, ExpireCaseKind DEF RequestTrustReset, Kinds, Overdue
<1>3. CASE ~Refuse(k) /\ ~(Overdue(c, now) /\ ExpireCase(k, c))
  <2> DEFINE new == [case |-> c, state |-> "pending", requestedBy |-> a,
                     expiresAt |-> now + ttl, approvals |-> <<>>]
  <2>1. PICK o \in IF id = None THEN OverrideIds ELSE {id} :
          /\ ActiveCase(c, now) /\ Eligible(c)
          /\ overrides[o] = NoOverride
          /\ cases' = [cases EXCEPT ![c].state = "trust_reset_pending"]
          /\ overrides' = [overrides EXCEPT ![o] = new]
          /\ AppendAudit(c, <<Event(ResetEvent("requested"), a, None)>>)
          /\ Notify(c, "approval_requested")
          /\ Remember(k, Success(c, "pending"))
    BY <1>3 DEF RequestTrustReset
  <2>2. o \in OverrideIds
    BY <2>1
  <2>3. now + ttl \in Nat
    BY ConstantsAssumption DEF Time
  <2>4. /\ new \in SensitiveOverride /\ new.case = c /\ new.state = "pending"
        /\ new.requestedBy = a /\ new.approvals = <<>>
    BY <2>3 DEF SensitiveOverride
  <2> HIDE DEF new
  <2>5. Open(c) /\ cases[c] \in OperationsCase
    BY <2>1, RowTypes DEF ActiveCase, Open
  <2>6. SetsState(c, "trust_reset_pending")
    BY <2>1, <2>5 DEF SetsState
  <2>7. ResetEvent("requested") \in EventType
    BY DEF EventType
  <2>8. Logs(c, ResetEvent("requested"), a, None)
    BY <2>1, <2>7, EventTypes, TrailGrows DEF TypeOK, AppendAudit, Logs
  <2>9. Announces(c, "approval_requested")
    BY <2>1 DEF Notify, Announces
  <2>10. Requests(c, o, a)
    BY <2>1, <2>2, <2>4, <2>5, <2>6, <2>8, <2>9 DEF Requests, Eligible
  <2>11. Decides
    BY <2>1, Answers, Remembers DEF RequestTrustReset
  <2>12. QED BY <2>2, <2>10, <2>11 DEF Kinds
<1>4. QED BY <1>1, <1>2, <1>3

\* approveTrustReset adds an approval, executes the reset, finds the case
\* or the override overdue, or refuses.
LEMMA ApproveKind ==
  ASSUME TypeOK, NEW k \in Keys \cup {OnceOnly}, NEW a \in Actors, NEW now \in Time,
         NEW o \in OverrideIds, ApproveTrustReset(k, a, o, now)
  PROVE  Kinds /\ Decides
<1> DEFINE c == overrides[o].case
           found == /\ AssertActor(a) /\ a.role \in APPROVER_ROLES
                    /\ overrides[o] # NoOverride
           pending == ActiveCase(c, now) /\ overrides[o].state = "pending"
<1>0. Unanswered(k) /\ overrides \in [OverrideIds -> SensitiveOverride \cup {NoOverride}]
  BY DEF ApproveTrustReset, TypeOK
<1>1. CASE Refuse(k)
  BY <1>0, <1>1, RefuseKind DEF Kinds
<1>2. CASE found /\ Overdue(c, now) /\ ExpireCase(k, c)
  <2>1. c \in CaseIds
    BY <1>2, RowTypes
  <2>2. QED BY <1>0, <1>2, <2>1, ExpireCaseKind DEF Kinds, Overdue
<1>3. CASE found /\ pending /\ ExpireOverride(k, o)
  <2>1. c \in CaseIds /\ overrides[o] \in SensitiveOverride /\ Open(c)
    BY <1>3, RowTypes DEF ActiveCase
  <2>2. ResetEvent("expired") \in EventType
    BY DEF EventType
  <2>3. Logs(c, ResetEvent("expired"), System, None)
    <3>1. audit[c] \o <<Event(ResetEvent("expired"), System, None)>>
            = Append(audit[c], Event(ResetEvent("expired"), System, None))
      BY <2>1, <2>2, EventTypes, TrailGrows DEF TypeOK
    <3>2. QED BY <1>3, <3>1 DEF ExpireOverride, AppendAudit, Logs
  <2>4. overrides' = [overrides EXCEPT ![o] = [overrides[o] EXCEPT !.state = "expired"]]
    BY <1>0, <1>3, <2>1 DEF ExpireOverride
  <2>5. Lapses(c, o)
    BY <1>3, <2>1, <2>3, <2>4 DEF Lapses, ExpireOverride
  <2>6. Decides
    BY <1>0, <1>3, Answers, Remembers DEF ExpireOverride
  <2>7. QED BY <2>1, <2>5, <2>6 DEF Kinds
<1>4. CASE found /\ pending /\ MayApprove(o, a) /\ Approve(k, a, o)
  <2>1. c \in CaseIds /\ overrides[o] \in SensitiveOverride /\ Open(c)
    BY <1>4, RowTypes DEF ActiveCase
  <2>2. MayDecide(c, o, a)
    BY <1>4, <2>1 DEF MayDecide, AssertActor
  <2>3. ResetEvent("approved") \in EventType /\ ResetEvent("executed") \in EventType
    BY DEF EventType
  <2> DEFINE e == Event(ResetEvent("approved"), a, None)
             f == Event(ResetEvent("executed"), System, None)
  <2>4. /\ audit[c] \o <<e>> = Append(audit[c], e)
        /\ audit[c] \o <<e, f>> = Append(Append(audit[c], e), f)
    <3>1. e \in OperationsAuditEvent /\ f \in OperationsAuditEvent
      BY <2>3, EventTypes
    <3> HIDE DEF e, f
    <3>2. QED BY <2>1, <3>1, TrailGrows DEF TypeOK
  <2>5. CASE Len(overrides[o].approvals) = 1
    <3>1. overrides' = [overrides EXCEPT ![o] =
            [overrides[o] EXCEPT !.approvals = Append(overrides[o].approvals, a),
                                 !.state = "executed"]]
      BY <1>0, <1>4, <2>1, <2>5 DEF Approve
    <3>2. overrides'[o].state = "executed"
      BY <1>0, <2>1, <3>1 DEF SensitiveOverride
    <3>3. cases[c] \in OperationsCase
      BY <2>1, RowTypes DEF Open
    <3>4. SetsState(c, "resolved")
      BY <1>4, <2>5, <3>3 DEF Approve, SetsState
    <3>5. audit' = [audit EXCEPT ![c] = audit[c] \o <<e, f>>]
      BY <1>4, <2>5 DEF Approve, AppendAudit
    <3>6. Announces(c, "trust_reset_completed")
      BY <1>4, <2>5 DEF Approve, Notify, Announces
    <3>7. Executes(c, o, a)
      BY <2>2, <2>4, <2>5, <3>1, <3>4, <3>5, <3>6 DEF Executes
    <3>8. Decides
      BY <1>0, <1>4, <2>1, <3>2, Answers, Remembers DEF Approve
    <3>9. QED BY <2>1, <3>7, <3>8 DEF Kinds
  <2>6. CASE Len(overrides[o].approvals) # 1
    <3>1. overrides' = [overrides EXCEPT ![o] =
            [overrides[o] EXCEPT !.approvals = Append(overrides[o].approvals, a),
                                 !.state = overrides[o].state]]
      BY <1>0, <1>4, <2>1, <2>6 DEF Approve
    <3>2. [overrides[o] EXCEPT !.approvals = Append(overrides[o].approvals, a),
                               !.state = overrides[o].state]
            = [overrides[o] EXCEPT !.approvals = Append(overrides[o].approvals, a)]
      BY <2>1 DEF SensitiveOverride
    <3>3. overrides'[o].state = "pending"
      BY <1>0, <1>4, <2>1, <3>1 DEF SensitiveOverride
    <3>4. audit' = [audit EXCEPT ![c] = audit[c] \o <<e>>] /\ UNCHANGED <<cases, intents>>
      BY <1>4, <2>6 DEF Approve, AppendAudit
    <3>5. Approves(c, o, a)
      BY <2>2, <2>4, <2>6, <3>1, <3>2, <3>4 DEF Approves, Logs
    <3>6. Decides
      BY <1>0, <1>4, <2>1, <3>3, Answers, Remembers DEF Approve
    <3>7. QED BY <2>1, <3>5, <3>6 DEF Kinds
  <2>7. QED BY <2>5, <2>6
<1>5. QED BY <1>1, <1>2, <1>3, <1>4 DEF ApproveTrustReset

\* A step takes effect in one of the ways, and decides a key that had no answer.
LEMMA StepKinds ==
  ASSUME TypeOK, [Next]_vars
  PROVE  Kinds /\ Decides
<1>1. CASE UNCHANGED vars
  BY <1>1 DEF vars, store, Kinds, Decides
<1>2. ASSUME NEW k \in Keys \cup {OnceOnly}, NEW a \in Actors, NEW now \in Time,
             NEW type \in CaseTypes, NEW device \in DeviceIds \cup {None},
             NEW id \in CaseIds \cup {None}, NEW ttl \in Ttls,
             OpenCase(k, a, type, device, id, ttl, now)
      PROVE  Kinds /\ Decides
  BY <1>2, OpenCaseKind
<1>3. ASSUME NEW k \in Keys \cup {OnceOnly}, NEW a \in Actors, NEW now \in Time,
             NEW c \in CaseIds,
             \/ \E next \in OperationsCaseState : Transition(k, a, c, next, None, now)
             \/ \E method \in ProofMethods : VerifyRecoveryProof(k, a, c, method, now)
      PROVE  Kinds /\ Decides
  <2>1. "proof_verified" \in OperationsCaseState
    BY DEF OperationsCaseState
  <2>2. QED BY <1>3, <2>1, TransitionKind DEF VerifyRecoveryProof
<1>4. ASSUME NEW k \in Keys \cup {OnceOnly}, NEW a \in Actors, NEW now \in Time,
             NEW c \in CaseIds, NEW id \in OverrideIds \cup {None}, NEW ttl \in Ttls,
             RequestTrustReset(k, a, c, id, ttl, now)
      PROVE  Kinds /\ Decides
  BY <1>4, RequestKind
<1>5. ASSUME NEW k \in Keys \cup {OnceOnly}, NEW a \in Actors, NEW now \in Time,
             NEW o \in OverrideIds, ApproveTrustReset(k, a, o, now)
      PROVE  Kinds /\ Decides
  BY <1>5, ApproveKind
<1>6. QED BY <1>1, <1>2, <1>3, <1>4, <1>5 DEF Next

-----------------------------------------------------------------------------
(* Cases and overrides *)

\* An override belongs to a case that waits for it, was resolved by it or has
\* expired; no two belong to one case; and a case that waits has one.
HasCase(o) ==
  overrides[o] # NoOverride =>
    LET c == overrides[o].case IN
    /\ Exists(c)
    /\ cases[c].state \in {"trust_reset_pending", "resolved", "expired"}
    /\ overrides[o].state = "executed" <=> cases[c].state = "resolved"
OnePerCase ==
  \A o, p \in OverrideIds :
    o # p /\ overrides[o] # NoOverride => overrides[p].case # overrides[o].case
HasOverride(c) ==
  cases[c].state = "trust_reset_pending" =>
    \E o \in OverrideIds : overrides[o] # NoOverride /\ overrides[o].case = c
Tied ==
  /\ \A o \in OverrideIds : HasCase(o)
  /\ OnePerCase
  /\ \A c \in CaseIds : HasOverride(c)

\* A case whose state is set is still a case.
LEMMA SetsStateFacts ==
  ASSUME TypeOK, NEW c \in CaseIds, Exists(c), NEW state \in OperationsCaseState,
         SetsState(c, state)
  PROVE  /\ cases' \in [CaseIds -> OperationsCase \cup {NoCase}]
         /\ cases'[c].state = state /\ Exists(c)'
         /\ cases'[c].type = cases[c].type /\ cases'[c].device = cases[c].device
         /\ \A d \in CaseIds : d # c => cases'[d] = cases[d]
<1> DEFINE new == [cases[c] EXCEPT !.state = state]
<1>1. cases[c] \in OperationsCase /\ cases \in [CaseIds -> OperationsCase \cup {NoCase}]
  BY RowTypes DEF TypeOK
<1>2. /\ new \in OperationsCase /\ new.state = state
      /\ new.type = cases[c].type /\ new.device = cases[c].device
  BY <1>1 DEF OperationsCase
<1>3. cases' = [cases EXCEPT ![c] = new]
  BY DEF SetsState
<1> HIDE DEF new
<1>4. state # "absent"
  BY DEF OperationsCaseState, Terminal
<1>5. new # NoCase
  BY <1>2, <1>4 DEF NoCase
<1>6. QED BY <1>1, <1>2, <1>3, <1>5 DEF Exists, NoCase

\* An approval is added to an override, or its state is set.
LEMMA OverrideFacts ==
  ASSUME TypeOK, NEW o \in OverrideIds, overrides[o] # NoOverride,
         NEW a \in Actors, NEW new,
         \/ new = [overrides[o] EXCEPT !.approvals = Append(overrides[o].approvals, a)]
         \/ new = [overrides[o] EXCEPT !.approvals = Append(overrides[o].approvals, a),
                                       !.state = "executed"]
         \/ new = [overrides[o] EXCEPT !.state = "expired"],
         overrides' = [overrides EXCEPT ![o] = new]
  PROVE  /\ overrides' \in [OverrideIds -> SensitiveOverride \cup {NoOverride}]
         /\ overrides'[o] = new /\ new \in SensitiveOverride /\ new # NoOverride
         /\ new.case = overrides[o].case /\ new.requestedBy = overrides[o].requestedBy
         /\ \A p \in OverrideIds : p # o => overrides'[p] = overrides[p]
<1>1. /\ overrides[o] \in SensitiveOverride
      /\ overrides \in [OverrideIds -> SensitiveOverride \cup {NoOverride}]
  BY RowTypes DEF TypeOK
<1>2. Append(overrides[o].approvals, a) \in Seq(Actors)
  BY <1>1 DEF SensitiveOverride
<1>3. /\ new \in SensitiveOverride /\ new.case = overrides[o].case
      /\ new.requestedBy = overrides[o].requestedBy
  BY <1>1, <1>2 DEF SensitiveOverride
<1>4. new # NoOverride
  BY <1>3 DEF SensitiveOverride, NoOverride
<1>5. QED BY <1>1, <1>3, <1>4 DEF NoOverride

\* The trail and the intents keep their types.
LEMMA LogTypes ==
  ASSUME TypeOK, NEW c \in CaseIds, NEW type \in EventType,
         NEW a \in Actors \cup {System}, NEW proof \in ProofMethods \cup {None},
         Logs(c, type, a, proof)
  PROVE  audit' \in [CaseIds -> Seq(OperationsAuditEvent)]
<1>1. PICK e \in OperationsAuditEvent : e = Event(type, a, proof)
  BY EventTypes
<1>2. audit' = [audit EXCEPT ![c] = Append(audit[c], e)]
  BY <1>1 DEF Logs
<1>3. Append(audit[c], e) \in Seq(OperationsAuditEvent)
  BY DEF TypeOK
<1>4. QED BY <1>2, <1>3 DEF TypeOK

\* A notification intent keeps the types of the intents.
LEMMA AnnounceTypes ==
  ASSUME TypeOK, NEW c \in CaseIds, NEW t \in Template, Announces(c, t)
  PROVE  intents' \in [CaseIds -> Seq(Template)]
<1>1. Append(intents[c], t) \in Seq(Template)
  BY DEF TypeOK
<1>2. QED BY <1>1 DEF TypeOK, Announces

\* The ties when neither states nor overrides change.
LEMMA TiedUnchanged == Tied /\ UNCHANGED <<cases, overrides>> => Tied'
BY DEF Tied, HasCase, OnePerCase, HasOverride, Exists, NoOverride, NoCase

StoreTypes ==
  /\ cases \in [CaseIds -> OperationsCase \cup {NoCase}]
  /\ overrides \in [OverrideIds -> SensitiveOverride \cup {NoOverride}]
  /\ audit \in [CaseIds -> Seq(OperationsAuditEvent)]
  /\ intents \in [CaseIds -> Seq(Template)]

\* Types and ties after a case is opened.
LEMMA OpensKeeps ==
  ASSUME TypeOK, Tied, NEW c \in CaseIds, NEW a \in Actors, Opens(c, a)
  PROVE  StoreTypes' /\ Tied'
<1>1. PICK new \in OperationsCase :
        new.state = "opened" /\ cases' = [cases EXCEPT ![c] = new]
  BY DEF Opens
<1>2. cases'[c].state = "opened" /\ \A d \in CaseIds : d # c => cases'[d] = cases[d]
  BY <1>1 DEF TypeOK
<1>3. cases' \in [CaseIds -> OperationsCase \cup {NoCase}]
  BY <1>1 DEF TypeOK
<1>4. CaseEvent("opened") \in EventType
  BY DEF EventType, OperationsCaseState
<1>5. audit' \in [CaseIds -> Seq(OperationsAuditEvent)]
  BY <1>4, LogTypes DEF Opens
<1>6. intents' \in [CaseIds -> Seq(Template)]
  BY AnnounceTypes DEF Opens, Template
<1>7. ~Exists(c) /\ UNCHANGED overrides
  BY DEF Opens
<1>8. \A o \in OverrideIds : overrides[o] # NoOverride =>
        overrides[o].case # c /\ overrides[o].case \in CaseIds
  BY <1>7, RowTypes DEF Tied, HasCase
<1>9. Tied'
  BY <1>2, <1>7, <1>8 DEF Tied, HasCase, OnePerCase, HasOverride, Exists, NoOverride, NoCase
<1>10. QED BY <1>3, <1>5, <1>6, <1>7, <1>9 DEF StoreTypes, TypeOK

\* Types and ties after a case expires.
LEMMA ExpiresKeeps ==
  ASSUME TypeOK, Tied, NEW c \in CaseIds, Expires(c)
  PROVE  StoreTypes' /\ Tied'
<1>1. /\ "expired" \in OperationsCaseState /\ CaseEvent("expired") \in EventType
      /\ Exists(c) /\ cases[c].state \notin Terminal /\ UNCHANGED <<overrides, intents>>
  BY DEF OperationsCaseState, Terminal, EventType, Expires, Open
<1>2. /\ cases' \in [CaseIds -> OperationsCase \cup {NoCase}]
      /\ cases'[c].state = "expired" /\ Exists(c)'
      /\ \A d \in CaseIds : d # c => cases'[d] = cases[d]
  BY <1>1, SetsStateFacts DEF Expires
<1>3. audit' \in [CaseIds -> Seq(OperationsAuditEvent)]
  BY <1>1, LogTypes DEF Expires
<1>4. ASSUME NEW o \in OverrideIds PROVE HasCase(o)'
  <2>1. overrides[o] # NoOverride => overrides[o].case \in CaseIds /\ HasCase(o)
    BY RowTypes DEF Tied
  <2>2. CASE overrides[o].case = c
    BY <1>1, <1>2, <2>1, <2>2 DEF HasCase, NoOverride, Terminal
  <2>3. CASE overrides[o].case # c
    BY <1>1, <1>2, <2>1, <2>3 DEF HasCase, NoOverride, Exists, NoCase
  <2>4. QED BY <2>2, <2>3
<1>5. OnePerCase' /\ \A d \in CaseIds : HasOverride(d)'
  BY <1>1, <1>2 DEF Tied, OnePerCase, HasOverride, NoOverride
<1>6. QED BY <1>1, <1>2, <1>3, <1>4, <1>5 DEF StoreTypes, TypeOK, Tied

\* Types and ties after a case changes its state; it had no override.
LEMMA ChangesKeeps ==
  ASSUME TypeOK, Tied, NEW c \in CaseIds, NEW a \in Actors,
         NEW next \in OperationsCaseState, NEW proof \in ProofMethods \cup {None},
         Changes(c, a, next, proof)
  PROVE  /\ StoreTypes' /\ Tied'
         /\ \A o \in OverrideIds : overrides[o] # NoOverride => overrides[o].case # c
<1>1. /\ CaseEvent(next) \in EventType
      /\ Exists(c) /\ cases[c].state \notin Terminal /\ UNCHANGED overrides
      /\ cases[c].state # "trust_reset_pending" /\ next # "trust_reset_pending"
  BY DEF EventType, Changes, Open
<1>2. /\ cases' \in [CaseIds -> OperationsCase \cup {NoCase}]
      /\ cases'[c].state = next /\ Exists(c)'
      /\ \A d \in CaseIds : d # c => cases'[d] = cases[d]
  BY <1>1, SetsStateFacts DEF Changes
<1>3. audit' \in [CaseIds -> Seq(OperationsAuditEvent)]
  BY <1>1, LogTypes DEF Changes
<1>4. intents' \in [CaseIds -> Seq(Template)]
  BY AnnounceTypes DEF Changes, Template
<1>5. \A o \in OverrideIds : overrides[o] # NoOverride =>
        overrides[o].case # c /\ overrides[o].case \in CaseIds
  BY <1>1, RowTypes DEF Tied, HasCase, Terminal
<1>6. Tied'
  BY <1>1, <1>2, <1>5 DEF Tied, HasCase, OnePerCase, HasOverride, Exists, NoOverride, NoCase
<1>7. QED BY <1>1, <1>2, <1>3, <1>4, <1>5, <1>6 DEF StoreTypes, TypeOK

\* Types and ties after a reset is requested, and what the override is.
LEMMA RequestsKeeps ==
  ASSUME TypeOK, Tied, NEW c \in CaseIds, NEW o \in OverrideIds, NEW a \in Actors,
         Requests(c, o, a)
  PROVE  /\ StoreTypes' /\ Tied'
         /\ \A p \in OverrideIds : overrides[p] # NoOverride => overrides[p].case # c
         /\ \A p \in OverrideIds : p # o => overrides'[p] = overrides[p]
         /\ overrides'[o] # NoOverride /\ overrides'[o].case = c
         /\ overrides'[o].requestedBy = a /\ overrides'[o].approvals = <<>>
         /\ overrides'[o].state = "pending"
<1>1. /\ "trust_reset_pending" \in OperationsCaseState
      /\ ResetEvent("requested") \in EventType
      /\ Exists(c) /\ cases[c].state \in {"proof_verified", "contained"}
      /\ overrides[o] = NoOverride
  BY DEF OperationsCaseState, EventType, Requests, Open
<1>2. /\ cases' \in [CaseIds -> OperationsCase \cup {NoCase}]
      /\ cases'[c].state = "trust_reset_pending" /\ Exists(c)'
      /\ \A d \in CaseIds : d # c => cases'[d] = cases[d]
  BY <1>1, SetsStateFacts DEF Requests
<1>3. audit' \in [CaseIds -> Seq(OperationsAuditEvent)]
  BY <1>1, LogTypes DEF Requests
<1>4. intents' \in [CaseIds -> Seq(Template)]
  BY AnnounceTypes DEF Requests, Template
<1>5. PICK new \in SensitiveOverride :
        /\ new.case = c /\ new.state = "pending" /\ new.requestedBy = a
        /\ new.approvals = <<>> /\ overrides' = [overrides EXCEPT ![o] = new]
  BY DEF Requests
<1>6. new # NoOverride
  BY <1>5 DEF NoOverride
<1>7. /\ overrides' \in [OverrideIds -> SensitiveOverride \cup {NoOverride}]
      /\ overrides'[o] = new
      /\ \A p \in OverrideIds : p # o => overrides'[p] = overrides[p]
  BY <1>5 DEF TypeOK
<1>8. \A p \in OverrideIds : overrides[p] # NoOverride =>
        overrides[p].case # c /\ overrides[p].case \in CaseIds
  BY <1>1, RowTypes DEF Tied, HasCase
<1>9. \A p \in OverrideIds : overrides[p].case # c
  BY <1>8, RowTypes, ConstantsAssumption
<1>10. ASSUME NEW p \in OverrideIds PROVE HasCase(p)'
  <2>1. CASE p = o
    BY <1>2, <1>5, <1>7, <2>1 DEF HasCase
  <2>2. CASE p # o
    BY <1>2, <1>7, <1>8, <2>2 DEF Tied, HasCase, Exists, NoOverride, NoCase
  <2>3. QED BY <2>1, <2>2
<1>11. OnePerCase'
  BY <1>1, <1>5, <1>7, <1>8, <1>9 DEF Tied, OnePerCase, NoOverride
<1>12. ASSUME NEW d \in CaseIds PROVE HasOverride(d)'
  <2>1. CASE d = c
    BY <1>5, <1>6, <1>7, <2>1 DEF HasOverride, NoOverride
  <2>2. CASE d # c
    BY <1>1, <1>2, <1>7, <2>2 DEF Tied, HasOverride, NoOverride
  <2>3. QED BY <2>1, <2>2
<1>13. QED BY <1>2, <1>3, <1>4, <1>5, <1>6, <1>7, <1>8, <1>10, <1>11, <1>12
         DEF StoreTypes, Tied, NoOverride

\* The other overrides keep their ties when one of them changes and stays with
\* its case, whose state may be set.
LEMMA OverrideKeepsTies ==
  ASSUME TypeOK, Tied, NEW c \in CaseIds, NEW o \in OverrideIds,
         overrides[o] # NoOverride, overrides[o].case = c,
         overrides'[o] # NoOverride, overrides'[o].case = c,
         \A p \in OverrideIds : p # o => overrides'[p] = overrides[p],
         \A d \in CaseIds : d # c => cases'[d] = cases[d],
         Exists(c)',
         cases'[c].state \in {"trust_reset_pending", "resolved", "expired"},
         overrides'[o].state = "executed" <=> cases'[c].state = "resolved"
  PROVE  Tied'
<1>1. ASSUME NEW p \in OverrideIds PROVE HasCase(p)'
  <2>1. CASE p = o
    BY <2>1 DEF HasCase
  <2>2. CASE p # o
    <3>1. overrides[p] # NoOverride => overrides[p].case \in CaseIds \ {c} /\ HasCase(p)
      BY <2>2, RowTypes DEF Tied, OnePerCase
    <3>2. QED BY <2>2, <3>1 DEF HasCase, Exists, NoOverride, NoCase
  <2>3. QED BY <2>1, <2>2
<1>2. OnePerCase'
  <2>1. ASSUME NEW p \in OverrideIds, NEW q \in OverrideIds, p # q,
               overrides'[p] # NoOverride
        PROVE  overrides'[q].case # overrides'[p].case
    <3>1. \A r \in OverrideIds : overrides'[r].case = overrides[r].case
      OBVIOUS
    <3>2. overrides[p] # NoOverride
      BY <2>1
    <3>3. QED BY <2>1, <3>1, <3>2 DEF Tied, OnePerCase
  <2>2. QED BY <2>1 DEF OnePerCase, NoOverride
<1>3. ASSUME NEW d \in CaseIds PROVE HasOverride(d)'
  <2>1. CASE d = c
    BY <2>1 DEF HasOverride, NoOverride
  <2>2. CASE d # c
    BY <2>2 DEF Tied, HasOverride, NoOverride
  <2>3. QED BY <2>1, <2>2
<1>4. QED BY <1>1, <1>2, <1>3 DEF Tied

\* The open case of an override waits for that override.
LEMMA PendingWaits ==
  ASSUME TypeOK, Tied, NEW c \in CaseIds, NEW o \in OverrideIds,
         overrides[o] # NoOverride, overrides[o].case = c, Open(c)
  PROVE  cases[c].state = "trust_reset_pending" /\ Exists(c)
BY DEF Tied, HasCase, Open, Terminal

\* Types and ties after a first approval, and what the override is.
LEMMA ApprovesKeeps ==
  ASSUME TypeOK, Tied, NEW c \in CaseIds, NEW o \in OverrideIds, NEW a \in Actors,
         Approves(c, o, a)
  PROVE  /\ StoreTypes' /\ Tied'
         /\ \A p \in OverrideIds : p # o => overrides'[p] = overrides[p]
         /\ overrides'[o] # NoOverride /\ overrides'[o].case = c
         /\ overrides'[o].requestedBy = overrides[o].requestedBy
         /\ overrides'[o].approvals = Append(overrides[o].approvals, a)
         /\ overrides'[o].state = "pending"
<1>1. /\ overrides[o] # NoOverride /\ overrides[o].case = c /\ Open(c)
      /\ overrides[o].state = "pending" /\ UNCHANGED <<cases, intents>>
      /\ ResetEvent("approved") \in EventType
  BY DEF Approves, MayDecide, EventType
<1> DEFINE new == [overrides[o] EXCEPT !.approvals = Append(overrides[o].approvals, a)]
<1>2. overrides' = [overrides EXCEPT ![o] = new]
  BY DEF Approves
<1>3. new.state = "pending" /\ new.approvals = Append(overrides[o].approvals, a)
  BY <1>1, RowTypes DEF SensitiveOverride
<1>4. /\ overrides' \in [OverrideIds -> SensitiveOverride \cup {NoOverride}]
      /\ overrides'[o] = new /\ new \in SensitiveOverride /\ new # NoOverride
      /\ new.case = overrides[o].case /\ new.requestedBy = overrides[o].requestedBy
      /\ \A p \in OverrideIds : p # o => overrides'[p] = overrides[p]
  BY <1>1, <1>2, OverrideFacts
<1> HIDE DEF new
<1>5. audit' \in [CaseIds -> Seq(OperationsAuditEvent)]
  BY <1>1, LogTypes DEF Approves
<1>6. cases'[c].state = "trust_reset_pending" /\ Exists(c)'
  BY <1>1, PendingWaits DEF Exists, NoCase
<1>7. Tied'
  BY <1>1, <1>3, <1>4, <1>6, OverrideKeepsTies
<1>8. QED BY <1>1, <1>3, <1>4, <1>5, <1>7 DEF StoreTypes, TypeOK

\* Types and ties after an override lapses, and what the override is.
LEMMA LapsesKeeps ==
  ASSUME TypeOK, Tied, NEW c \in CaseIds, NEW o \in OverrideIds, Lapses(c, o)
  PROVE  /\ StoreTypes' /\ Tied'
         /\ \A p \in OverrideIds : p # o => overrides'[p] = overrides[p]
         /\ overrides'[o] # NoOverride /\ overrides'[o].case = c
         /\ overrides'[o].requestedBy = overrides[o].requestedBy
         /\ overrides'[o].approvals = overrides[o].approvals
         /\ overrides'[o].state = "expired"
<1>1. /\ overrides[o] # NoOverride /\ overrides[o].case = c /\ Open(c)
      /\ UNCHANGED <<cases, intents>>
      /\ ResetEvent("expired") \in EventType
  BY DEF Lapses, EventType
<1> DEFINE new == [overrides[o] EXCEPT !.state = "expired"]
<1>2. overrides' = [overrides EXCEPT ![o] = new]
  BY DEF Lapses
<1>3. overrides[o] \in SensitiveOverride
  BY <1>1, RowTypes
<1>4. /\ new.state = "expired" /\ new.approvals = overrides[o].approvals
      /\ new \in SensitiveOverride /\ new.case = c
      /\ new.requestedBy = overrides[o].requestedBy
  BY <1>1, <1>3 DEF SensitiveOverride
<1> HIDE DEF new
<1>5. /\ overrides' \in [OverrideIds -> SensitiveOverride \cup {NoOverride}]
      /\ overrides'[o] = new /\ new # NoOverride
      /\ \A p \in OverrideIds : p # o => overrides'[p] = overrides[p]
  BY <1>2, <1>4 DEF TypeOK, NoOverride
<1>6. audit' \in [CaseIds -> Seq(OperationsAuditEvent)]
  BY <1>1, LogTypes DEF Lapses
<1>7. cases'[c].state = "trust_reset_pending" /\ Exists(c)'
  BY <1>1, PendingWaits DEF Exists, NoCase
<1>8. Tied'
  BY <1>1, <1>4, <1>5, <1>7, OverrideKeepsTies
<1>9. QED BY <1>1, <1>4, <1>5, <1>6, <1>8 DEF StoreTypes, TypeOK

\* Types and ties after a reset is executed, and what the override is.
LEMMA ExecutesKeeps ==
  ASSUME TypeOK, Tied, NEW c \in CaseIds, NEW o \in OverrideIds, NEW a \in Actors,
         Executes(c, o, a)
  PROVE  /\ StoreTypes' /\ Tied'
         /\ \A p \in OverrideIds : p # o => overrides'[p] = overrides[p]
         /\ overrides'[o] # NoOverride /\ overrides'[o].case = c
         /\ overrides'[o].requestedBy = overrides[o].requestedBy
         /\ overrides'[o].approvals = Append(overrides[o].approvals, a)
         /\ overrides'[o].state = "executed"
<1>1. /\ overrides[o] # NoOverride /\ overrides[o].case = c /\ Open(c)
      /\ "resolved" \in OperationsCaseState
  BY DEF Executes, MayDecide, OperationsCaseState, Terminal
<1> DEFINE new == [overrides[o] EXCEPT !.approvals = Append(overrides[o].approvals, a),
                                       !.state = "executed"]
<1>2. overrides' = [overrides EXCEPT ![o] = new]
  BY DEF Executes
<1>3. new.state = "executed" /\ new.approvals = Append(overrides[o].approvals, a)
  BY <1>1, RowTypes DEF SensitiveOverride
<1>4. /\ overrides' \in [OverrideIds -> SensitiveOverride \cup {NoOverride}]
      /\ overrides'[o] = new /\ new \in SensitiveOverride /\ new # NoOverride
      /\ new.case = overrides[o].case /\ new.requestedBy = overrides[o].requestedBy
      /\ \A p \in OverrideIds : p # o => overrides'[p] = overrides[p]
  BY <1>1, <1>2, OverrideFacts
<1> HIDE DEF new
<1>5. /\ cases' \in [CaseIds -> OperationsCase \cup {NoCase}]
      /\ cases'[c].state = "resolved" /\ Exists(c)'
      /\ \A d \in CaseIds : d # c => cases'[d] = cases[d]
  BY <1>1, SetsStateFacts DEF Executes, Open
<1>6. audit' \in [CaseIds -> Seq(OperationsAuditEvent)]
  <2>1. ResetEvent("approved") \in EventType /\ ResetEvent("executed") \in EventType
    BY DEF EventType
  <2>2. PICK e \in OperationsAuditEvent : e = Event(ResetEvent("approved"), a, None)
    BY <2>1, EventTypes
  <2>3. PICK f \in OperationsAuditEvent : f = Event(ResetEvent("executed"), System, None)
    BY <2>1, EventTypes
  <2>4. audit' = [audit EXCEPT ![c] = Append(Append(audit[c], e), f)]
    BY <2>2, <2>3 DEF Executes
  <2>5. Append(Append(audit[c], e), f) \in Seq(OperationsAuditEvent)
    BY DEF TypeOK
  <2>6. QED BY <2>4, <2>5 DEF TypeOK
<1>7. intents' \in [CaseIds -> Seq(Template)]
  BY AnnounceTypes DEF Executes, Template
<1>8. Tied'
  BY <1>1, <1>3, <1>4, <1>5, OverrideKeepsTies
<1>9. QED BY <1>1, <1>3, <1>4, <1>5, <1>6, <1>7, <1>8 DEF StoreTypes

\* Every step.
LEMMA SoundKept ==
  ASSUME TypeOK, Tied, [Next]_vars
  PROVE  TypeOK' /\ Tied'
<1>1. Kinds /\ Decides
  BY StepKinds
<1>2. once' \in [Keys -> Answer \cup {None}] /\ effects' \in [Keys -> Nat]
  <2>1. CASE UNCHANGED <<once, effects>>
    BY <2>1 DEF TypeOK
  <2>2. ASSUME NEW k \in Keys, NEW answer \in Answer, NEW n \in {0, 1},
               once' = [once EXCEPT ![k] = answer],
               effects' = [effects EXCEPT ![k] = effects[k] + n]
        PROVE  once' \in [Keys -> Answer \cup {None}] /\ effects' \in [Keys -> Nat]
    <3>1. effects[k] + n \in Nat
      BY DEF TypeOK
    <3>2. QED BY <2>2, <3>1 DEF TypeOK
  <2>3. QED BY <1>1, <2>1, <2>2 DEF Decides
<1>3. StoreTypes' /\ Tied'
  <2>1. CASE UNCHANGED store
    BY <2>1, TiedUnchanged DEF store, StoreTypes, TypeOK
  <2>2. CASE ~UNCHANGED store
    <3>1. PICK c \in CaseIds :
            \/ Expires(c)
            \/ \E a \in Actors : Opens(c, a)
            \/ \E a \in Actors, next \in OperationsCaseState,
                  proof \in ProofMethods \cup {None} : Changes(c, a, next, proof)
            \/ \E o \in OverrideIds :
                 \/ Lapses(c, o)
                 \/ \E a \in Actors : \/ Requests(c, o, a)
                                      \/ Approves(c, o, a)
                                      \/ Executes(c, o, a)
      BY <1>1, <2>2 DEF Kinds
    <3>2. QED BY <3>1, OpensKeeps, ExpiresKeeps, ChangesKeeps, RequestsKeeps,
                 ApprovesKeeps, ExecutesKeeps, LapsesKeeps
  <2>3. QED BY <2>1, <2>2
<1>4. QED BY <1>2, <1>3 DEF TypeOK, StoreTypes

\* Types and ties hold at first.
LEMMA SoundAtFirst == Init => TypeOK /\ Tied
<1>1. SUFFICES ASSUME Init PROVE TypeOK /\ Tied
  OBVIOUS
<1>2. TypeOK
  BY <1>1 DEF Init, TypeOK
<1>3. Tied
  BY <1>1 DEF Init, Tied, HasCase, OnePerCase, HasOverride, NoCase, NoOverride
<1>4. QED BY <1>2, <1>3

\* The types, and the ties between cases and overrides.
THEOREM CasesAndOverridesTied == Spec => [](TypeOK /\ Tied)
<1>1. TypeOK /\ Tied /\ [Next]_vars => (TypeOK /\ Tied)'
  BY SoundKept
<1>2. QED BY <1>1, SoundAtFirst, PTL DEF Spec

\* approveTrustReset: a case that went through trust_reset_pending is resolved by
\* its executed override and by nothing else.
THEOREM ResetsOwnTheirCases == Spec => []ResetOwnsItsCase
<1>1. ASSUME TypeOK, Tied, NEW c \in CaseIds
      PROVE  LET reset == {o \in OverrideIds : overrides[o].case = c} IN
             /\ cases[c].state = "trust_reset_pending" =>
                  \E o \in reset : overrides[o].state \in {"pending", "expired"}
             /\ reset # {} /\ cases[c].state = "resolved" =>
                  \A o \in reset : overrides[o].state = "executed"
  <2>1. \A o \in OverrideIds : overrides[o].case = c => overrides[o] # NoOverride
    BY <1>1, RowTypes, ConstantsAssumption
  <2>2. \A o \in OverrideIds : overrides[o].case = c =>
          /\ overrides[o].state \in {"pending", "executed", "expired"}
          /\ overrides[o].state = "executed" <=> cases[c].state = "resolved"
    BY <1>1, <2>1, RowTypes DEF Tied, HasCase
  <2>3. cases[c].state = "trust_reset_pending" =>
          \E o \in OverrideIds : overrides[o].case = c
    BY <1>1 DEF Tied, HasOverride
  <2>4. QED BY <2>2, <2>3
<1>2. TypeOK /\ Tied => ResetOwnsItsCase
  BY <1>1 DEF ResetOwnsItsCase
<1>3. QED BY <1>2, CasesAndOverridesTied, PTL

\* Which case, trail, intents and overrides a step leaves alone.
LEMMA OnlyOpenCasesChange ==
  ASSUME TypeOK, Tied, Kinds, NEW c \in CaseIds, cases[c].state \in Terminal
  PROVE  /\ cases'[c] = cases[c] /\ audit'[c] = audit[c] /\ intents'[c] = intents[c]
         /\ \A o \in OverrideIds : overrides[o].case = c => overrides'[o] = overrides[o]
<1>1. Exists(c) /\ ~Open(c)
  BY RowTypes DEF Open, Terminal
<1>2. \A o \in OverrideIds : overrides[o].case = c => overrides[o] # NoOverride
  BY RowTypes, ConstantsAssumption
<1>3. CASE UNCHANGED store
  BY <1>3 DEF store
<1>4. ASSUME NEW d \in CaseIds, Expires(d) \/ (\E a \in Actors : Opens(d, a))
               \/ \E a \in Actors, next \in OperationsCaseState,
                     proof \in ProofMethods \cup {None} : Changes(d, a, next, proof)
      PROVE  /\ cases'[c] = cases[c] /\ audit'[c] = audit[c]
             /\ intents'[c] = intents[c] /\ UNCHANGED overrides
  <2>1. d # c
    BY <1>1, <1>4 DEF Expires, Opens, Changes
  <2>2. QED BY <1>4, <2>1 DEF Expires, Opens, Changes, SetsState, Logs, Announces, TypeOK
<1>5. ASSUME NEW d \in CaseIds, NEW o \in OverrideIds,
             Lapses(d, o) \/ \E a \in Actors : \/ Requests(d, o, a)
                                               \/ Approves(d, o, a)
                                               \/ Executes(d, o, a)
      PROVE  /\ cases'[c] = cases[c] /\ audit'[c] = audit[c]
             /\ intents'[c] = intents[c]
             /\ \A p \in OverrideIds : overrides[p].case = c => overrides'[p] = overrides[p]
  <2>1. d # c
    BY <1>1, <1>5 DEF Lapses, Requests, Approves, Executes, MayDecide
  <2>2. overrides[o].case # c
    BY <1>2, <1>5, <2>1 DEF Lapses, Requests, Approves, Executes, MayDecide
  <2>3. \A p \in OverrideIds : p # o => overrides'[p] = overrides[p]
    BY <1>5, LapsesKeeps, RequestsKeeps, ApprovesKeeps, ExecutesKeeps
  <2>4. cases'[c] = cases[c]
    BY <1>5, <2>1 DEF Lapses, Requests, Approves, Executes, SetsState, TypeOK
  <2>5. audit'[c] = audit[c] /\ intents'[c] = intents[c]
    BY <1>5, <2>1 DEF Lapses, Requests, Approves, Executes, Logs, Announces, TypeOK
  <2>6. QED BY <2>2, <2>3, <2>4, <2>5
<1>6. QED BY <1>3, <1>4, <1>5 DEF Kinds

\* A case whose override is over waits, and can only expire.
LEMMA OverIsOver ==
  ASSUME TypeOK, Tied, Kinds, NEW o \in OverrideIds, overrides[o].state = "expired"
  PROVE  cases'[overrides[o].case].state \in {cases[overrides[o].case].state, "expired"}
<1>1. PICK c \in CaseIds : c = overrides[o].case /\ overrides[o] # NoOverride
  BY RowTypes
<1>2. Exists(c) /\ cases[c].state # "resolved"
        /\ cases[c].state \in {"trust_reset_pending", "expired"}
  BY <1>1 DEF Tied, HasCase
<1>3. CASE UNCHANGED store
  BY <1>1, <1>3 DEF store
<1>4. ASSUME NEW d \in CaseIds, d # c,
             \/ Expires(d)
             \/ \E a \in Actors : Opens(d, a)
             \/ \E a \in Actors, next \in OperationsCaseState,
                   proof \in ProofMethods \cup {None} : Changes(d, a, next, proof)
             \/ \E p \in OverrideIds :
                  \/ Lapses(d, p)
                  \/ \E a \in Actors : \/ Requests(d, p, a)
                                       \/ Approves(d, p, a)
                                       \/ Executes(d, p, a)
      PROVE  cases'[c] = cases[c]
  BY <1>4 DEF Expires, Opens, Changes, Lapses, Requests, Approves, Executes, SetsState,
              TypeOK
<1>5. CASE Expires(c)
  BY <1>1, <1>5, ExpiresKeeps DEF Expires, SetsState, TypeOK, Exists, OperationsCase, Open
<1>6. ~(\E a \in Actors : Opens(c, a))
  BY <1>2 DEF Opens
<1>7. ~(\E a \in Actors, next \in OperationsCaseState,
           proof \in ProofMethods \cup {None} : Changes(c, a, next, proof))
  BY <1>2 DEF Changes, Open, Terminal
<1>8. ASSUME NEW p \in OverrideIds, NEW a \in Actors
      PROVE  ~Requests(c, p, a) /\ ~Executes(c, p, a)
  BY <1>1, <1>2 DEF Requests, Executes, MayDecide, Tied, OnePerCase
<1>9. ASSUME NEW p \in OverrideIds,
             Lapses(c, p) \/ \E a \in Actors : Approves(c, p, a)
      PROVE  cases'[c] = cases[c]
  BY <1>9 DEF Lapses, Approves
<1>10. QED BY <1>1, <1>3, <1>4, <1>5, <1>6, <1>7, <1>8, <1>9 DEF Kinds

\* Nothing that belongs to a closed case changes any more, and a case whose
\* override is over can only expire.
THEOREM ClosedStaysClosed == Spec => ClosedForGood
<1>1. TypeOK /\ Tied /\ [Next]_vars =>
        [/\ \A c \in CaseIds : cases[c].state \in Terminal =>
              /\ cases'[c] = cases[c] /\ audit'[c] = audit[c]
              /\ intents'[c] = intents[c]
              /\ \A o \in OverrideIds :
                   overrides[o].case = c => overrides'[o] = overrides[o]
         /\ \A o \in OverrideIds : overrides[o].state = "expired" =>
              cases'[overrides[o].case].state
                \in {cases[overrides[o].case].state, "expired"}]_vars
  BY StepKinds, OnlyOpenCasesChange, OverIsOver
<1>2. QED BY <1>1, CasesAndOverridesTied, PTL DEF Spec, ClosedForGood

-----------------------------------------------------------------------------
(* Idempotency keys *)

\* A key without an answer has no effect.
Unspent == \A k \in Keys : once[k] = None => effects[k] = 0

\* A key without an answer has had no effect, and a decision is a step of
\* IdempotentEffect.
LEMMA UnspentKept ==
  ASSUME TypeOK, Unspent, Decides
  PROVE  Unspent' /\ [PerKey!Next]_(PerKey!vars)
<1>1. CASE UNCHANGED <<once, effects>>
  BY <1>1 DEF Unspent, PerKey!vars
<1>2. ASSUME NEW k \in Keys, NEW answer \in Answer, NEW n \in {0, 1},
             once[k] = None, once' = [once EXCEPT ![k] = answer],
             effects' = [effects EXCEPT ![k] = effects[k] + n]
      PROVE  Unspent' /\ PerKey!Next
  <2>1. answer # None /\ effects[k] = 0
    BY <1>2, ConstantsAssumption DEF Unspent
  <2>2. effects' = [effects EXCEPT ![k] = n]
    BY <1>2, <2>1
  <2>3. \A j \in Keys : once'[j] = IF j = k THEN answer ELSE once[j]
    BY <1>2 DEF TypeOK
  <2>4. Unspent'
    BY <2>1, <2>2, <2>3 DEF Unspent, TypeOK
  <2>5. {j \in Keys : once'[j] # None} = {j \in Keys : once[j] # None} \cup {k}
    BY <2>1, <2>3
  <2>6. PerKey!Decide(k)
    BY <1>2, <2>2, <2>5 DEF PerKey!Decide
  <2>7. QED BY <2>4, <2>6 DEF PerKey!Next
<1>3. QED BY <1>1, <1>2 DEF Decides

\* #once: the calls under one key change the machine at most once, and never
\* after an answer was remembered.
THEOREM KeysDecideOnce == Spec => KeyedEffects
<1>1. Init => Unspent /\ PerKey!Init
  BY DEF Init, Unspent, PerKey!Init
<1>2. TypeOK /\ Tied /\ Unspent /\ [Next]_vars
        => Unspent' /\ [PerKey!Next]_(PerKey!vars)
  BY StepKinds, UnspentKept
<1>3. QED BY <1>1, <1>2, CasesAndOverridesTied, PTL DEF Spec, KeyedEffects, PerKey!Spec

-----------------------------------------------------------------------------
(* The audit trail *)

\* The positions of a type of event in a trail.
Positions(h, type) == {i \in DOMAIN h : h[i].type = type}
Requested == ResetEvent("requested")
Approved == ResetEvent("approved")
Executed == ResetEvent("executed")
Lapsed == ResetEvent("expired")
ResetTypes == {Requested, Approved, Executed, Lapsed}

\* What the trail of a case says of its override: who requested it, once and
\* before any approval;
RequestedIn(h, v) ==
  \E r \in Nat : /\ Positions(h, Requested) = {r}
                 /\ h[r].actor = v.requestedBy
                 /\ \A i \in Positions(h, Approved) : r < i

\* who approved it, in this order;
ApprovedIn(h, v) ==
  \/ Len(v.approvals) = 0 /\ Positions(h, Approved) = {}
  \/ /\ Len(v.approvals) = 1
     /\ \E i \in Nat : Positions(h, Approved) = {i} /\ h[i].actor = v.approvals[1]
  \/ /\ Len(v.approvals) = 2
     /\ \E i, j \in Nat : /\ i < j /\ Positions(h, Approved) = {i, j}
                          /\ h[i].actor = v.approvals[1] /\ h[j].actor = v.approvals[2]

\* and how it ended, an execution after two approvals.
EndedIn(h, v) ==
  /\ v.state = "executed" <=> Positions(h, Executed) # {}
  /\ v.state = "expired" <=> Positions(h, Lapsed) # {}
  /\ v.state = "executed" =>
       /\ Len(v.approvals) = 2
       /\ \A x \in Positions(h, Executed), i \in Positions(h, Approved) : i < x
  /\ v.state = "pending" => Len(v.approvals) < 2

\* The approvals are of different people in an approving role, none of them on
\* the affected device.
Qualified(v, device) ==
  /\ \A i, j \in DOMAIN v.approvals :
       v.approvals[i].actorId = v.approvals[j].actorId => i = j
  /\ \A i \in DOMAIN v.approvals :
       /\ v.approvals[i].role \in APPROVER_ROLES
       /\ v.approvals[i].tenantId = Tenant
       /\ device # None => v.approvals[i].deviceId # device

ToldBy(h, v) == RequestedIn(h, v) /\ ApprovedIn(h, v) /\ EndedIn(h, v)

\* The last event that sets a state sets this one.
LastMark(h, state) ==
  \E m \in DOMAIN h :
    /\ StateByEvent(h[m].type) = state /\ state # None
    /\ \A i \in DOMAIN h : StateByEvent(h[i].type) # None => i <= m

\* A trail accounts for its case and for its override; without an override it
\* has no reset event, and before the case is opened it is empty.
TracedCase(c) ==
  /\ Exists(c) => /\ LastMark(audit[c], cases[c].state)
                  /\ Positions(audit[c], CaseEvent("opened")) # {}
  /\ ~Exists(c) => audit[c] = <<>> /\ intents[c] = <<>>
  /\ (\A o \in OverrideIds : overrides[o].case # c) =>
       \A type \in ResetTypes : Positions(audit[c], type) = {}
TracedOverride(o) ==
  overrides[o] # NoOverride =>
    /\ ToldBy(audit[overrides[o].case], overrides[o])
    /\ Qualified(overrides[o], cases[overrides[o].case].device)
Traced ==
  /\ \A c \in CaseIds : TracedCase(c)
  /\ \A o \in OverrideIds : TracedOverride(o)

\* A trail with one more event (a predicate, so that Append is not expanded where
\* the facts about it are used).
Extends(g, h, e) == g = Append(h, e)

\* One more event: one more position for its type, and none for the others.
LEMMA TrailFacts ==
  ASSUME NEW h \in Seq(OperationsAuditEvent), NEW e \in OperationsAuditEvent,
         NEW g, Extends(g, h, e)
  PROVE  /\ Len(h) \in Nat /\ DOMAIN h = 1 .. Len(h) /\ DOMAIN g = 1 .. (Len(h) + 1)
         /\ \A i \in 1 .. Len(h) : g[i] = h[i]
         /\ Len(h) + 1 \in Nat /\ g[Len(h) + 1] = e
         /\ g \in Seq(OperationsAuditEvent)
         /\ e.type \in EventType
         /\ Positions(g, e.type) = Positions(h, e.type) \cup {Len(h) + 1}
         /\ \A type \in EventType :
              type # e.type => Positions(g, type) = Positions(h, type)
         /\ \A type \in EventType : \A i \in Positions(h, type) :
              i \in 1 .. Len(h) /\ g[i] = h[i]
<1>1. /\ Len(h) \in Nat /\ DOMAIN h = 1 .. Len(h) /\ DOMAIN g = 1 .. (Len(h) + 1)
      /\ \A i \in 1 .. Len(h) : g[i] = h[i]
      /\ Len(h) + 1 \in Nat /\ g[Len(h) + 1] = e
      /\ g \in Seq(OperationsAuditEvent)
  BY DEF Extends
<1>2. \A type \in EventType : \A i \in Positions(h, type) :
        i \in 1 .. Len(h) /\ g[i] = h[i]
  BY <1>1 DEF Positions
<1>3. ASSUME NEW type \in EventType, NEW i
      PROVE  i \in Positions(g, type) <=>
               i \in Positions(h, type) \/ (e.type = type /\ i = Len(h) + 1)
  BY <1>1 DEF Positions
<1>4. e.type \in EventType
  BY DEF OperationsAuditEvent
<1>5. Positions(g, e.type) = Positions(h, e.type) \cup {Len(h) + 1}
  BY <1>3, <1>4
<1>6. \A type \in EventType : type # e.type => Positions(g, type) = Positions(h, type)
  BY <1>3
<1>7. QED BY <1>1, <1>2, <1>4, <1>5, <1>6

\* The types of events are different, and what state they set.
LEMMA EventFacts ==
  /\ Requested \in EventType /\ Approved \in EventType
  /\ Executed \in EventType /\ Lapsed \in EventType
  /\ \A s \in OperationsCaseState :
       /\ CaseEvent(s) \notin ResetTypes /\ CaseEvent(s) \in EventType
       /\ StateByEvent(CaseEvent(s)) = s /\ s # None
  /\ Requested # Approved /\ Requested # Executed /\ Requested # Lapsed
  /\ Approved # Executed /\ Approved # Lapsed /\ Executed # Lapsed
  /\ \A s : Requested # CaseEvent(s) /\ Executed # CaseEvent(s)
             /\ Approved # CaseEvent(s) /\ Lapsed # CaseEvent(s)
  /\ StateByEvent(Requested) = "trust_reset_pending"
  /\ StateByEvent(Executed) = "resolved"
  /\ StateByEvent(Approved) = None /\ StateByEvent(Lapsed) = None
<1> USE DEF CaseEvent, ResetEvent, Requested, Approved, Executed, Lapsed
<1>1. ASSUME NEW s \in OperationsCaseState
      PROVE  /\ CaseEvent(s) \notin ResetTypes /\ CaseEvent(s) \in EventType
             /\ StateByEvent(CaseEvent(s)) = s
  BY DEF ResetTypes, StateByEvent, EventType
<1>2. \A s \in OperationsCaseState : s # None
  BY ConstantsAssumption
<1>3. /\ Requested # Approved /\ Requested # Executed /\ Requested # Lapsed
      /\ Approved # Executed /\ Approved # Lapsed /\ Executed # Lapsed
      /\ \A s : Requested # CaseEvent(s) /\ Executed # CaseEvent(s)
                 /\ Approved # CaseEvent(s) /\ Lapsed # CaseEvent(s)
  OBVIOUS
<1>4. StateByEvent(Requested) = "trust_reset_pending" /\ StateByEvent(Executed) = "resolved"
  BY DEF StateByEvent
<1>5. StateByEvent(Approved) = None /\ StateByEvent(Lapsed) = None
  BY DEF StateByEvent
<1>6. /\ Requested \in EventType /\ Approved \in EventType
      /\ Executed \in EventType /\ Lapsed \in EventType
  BY DEF EventType
<1>7. QED BY <1>1, <1>2, <1>3, <1>4, <1>5, <1>6

\* An event that sets a state is the last mark; another leaves it.
LEMMA MarkGrows ==
  ASSUME NEW h \in Seq(OperationsAuditEvent), NEW e \in OperationsAuditEvent,
         NEW g, Extends(g, h, e)
  PROVE  /\ StateByEvent(e.type) # None => LastMark(g, StateByEvent(e.type))
         /\ \A s : StateByEvent(e.type) = None /\ LastMark(h, s) => LastMark(g, s)
<1>1. /\ Len(h) \in Nat /\ DOMAIN h = 1 .. Len(h) /\ DOMAIN g = 1 .. (Len(h) + 1)
      /\ \A i \in 1 .. Len(h) : g[i] = h[i]
      /\ g[Len(h) + 1] = e
  BY TrailFacts
<1>2. ASSUME StateByEvent(e.type) # None PROVE LastMark(g, StateByEvent(e.type))
  <2>1. Len(h) + 1 \in DOMAIN g /\ \A i \in DOMAIN g : i <= Len(h) + 1
    BY <1>1
  <2>2. QED BY <1>1, <1>2, <2>1 DEF LastMark
<1>3. ASSUME NEW s, StateByEvent(e.type) = None, LastMark(h, s) PROVE LastMark(g, s)
  <2>1. PICK m \in DOMAIN h :
          /\ StateByEvent(h[m].type) = s /\ s # None
          /\ \A i \in DOMAIN h : StateByEvent(h[i].type) # None => i <= m
    BY <1>3 DEF LastMark
  <2>2. m \in DOMAIN g /\ g[m] = h[m]
    BY <1>1
  <2>3. ASSUME NEW i \in DOMAIN g, StateByEvent(g[i].type) # None PROVE i <= m
    BY <1>1, <1>3, <2>1, <2>3
  <2>4. QED BY <2>1, <2>2, <2>3 DEF LastMark
<1>4. QED BY <1>2, <1>3

\* The last mark is the state that #validateRestoredState derives.
LEMMA MarkIsDerived ==
  ASSUME NEW c, NEW s, LastMark(audit[c], s),
         audit[c] \in Seq(OperationsAuditEvent)
  PROVE  Derived(c) = s
<1> DEFINE marks == {i \in DOMAIN audit[c] : StateByEvent(audit[c][i].type) # None}
<1>1. PICK m \in DOMAIN audit[c] :
        /\ StateByEvent(audit[c][m].type) = s /\ s # None
        /\ \A i \in DOMAIN audit[c] : StateByEvent(audit[c][i].type) # None => i <= m
  BY DEF LastMark
<1>2. m \in marks /\ marks # {} /\ \A i \in marks : m >= i /\ i \in Nat
  BY <1>1
<1> HIDE DEF marks
<1>3. Max(marks) = m
  <2>1. \E x \in marks : \A y \in marks : x >= y
    BY <1>2
  <2>2. Max(marks) \in marks /\ \A y \in marks : Max(marks) >= y
    BY <2>1 DEF Max
  <2>3. PICK n \in marks : n = Max(marks)
    BY <2>2
  <2>4. n >= m /\ m >= n /\ n \in Nat /\ m \in Nat
    BY <1>2, <2>2, <2>3
  <2>5. QED BY <2>3, <2>4
<1>4. QED BY <1>1, <1>2, <1>3 DEF Derived, marks

\* An event of the case leaves what is told of the override.
LEMMA CaseEventTells ==
  ASSUME NEW h \in Seq(OperationsAuditEvent), NEW e \in OperationsAuditEvent,
         NEW g, Extends(g, h, e), e.type \notin ResetTypes
  PROVE  /\ \A type \in ResetTypes : Positions(g, type) = Positions(h, type)
         /\ \A v : ToldBy(h, v) => ToldBy(g, v)
<1>1. /\ \A type \in ResetTypes : Positions(g, type) = Positions(h, type)
      /\ \A i \in Positions(h, Requested) \cup Positions(h, Approved) : g[i] = h[i]
  BY TrailFacts, EventFacts DEF ResetTypes
<1>2. ASSUME NEW v, ToldBy(h, v) PROVE ToldBy(g, v)
  <2>1. /\ Positions(g, Requested) = Positions(h, Requested)
        /\ Positions(g, Approved) = Positions(h, Approved)
        /\ Positions(g, Executed) = Positions(h, Executed)
        /\ Positions(g, Lapsed) = Positions(h, Lapsed)
    BY <1>1 DEF ResetTypes
  <2>2. RequestedIn(g, v)
    BY <1>1, <1>2, <2>1 DEF ToldBy, RequestedIn
  <2>3. ApprovedIn(g, v)
    BY <1>1, <1>2, <2>1 DEF ToldBy, ApprovedIn
  <2>4. EndedIn(g, v)
    BY <1>2, <2>1 DEF ToldBy, EndedIn
  <2>5. QED BY <2>2, <2>3, <2>4 DEF ToldBy
<1>3. QED BY <1>1, <1>2

\* The request of a new override.
LEMMA RequestTells ==
  ASSUME NEW h \in Seq(OperationsAuditEvent), NEW e \in OperationsAuditEvent,
         NEW g, Extends(g, h, e), e.type = Requested, NEW v,
         e.actor = v.requestedBy, v.approvals = <<>>, v.state = "pending",
         \A type \in ResetTypes : Positions(h, type) = {}
  PROVE  ToldBy(g, v)
<1>1. /\ Positions(g, Requested) = {Len(h) + 1} /\ Positions(g, Approved) = {}
      /\ Positions(g, Executed) = {} /\ Positions(g, Lapsed) = {}
      /\ Len(h) \in Nat /\ g[Len(h) + 1] = e
  <2>1. /\ Positions(h, Requested) = {} /\ Positions(h, Approved) = {}
        /\ Positions(h, Executed) = {} /\ Positions(h, Lapsed) = {}
    BY DEF ResetTypes
  <2>2. QED BY <2>1, TrailFacts, EventFacts
<1>2. Len(v.approvals) = 0
  OBVIOUS
<1>3. Len(h) + 1 \in Nat
  BY <1>1
<1>4. RequestedIn(g, v)
  BY <1>1, <1>3 DEF RequestedIn
<1>5. ApprovedIn(g, v) /\ EndedIn(g, v)
  BY <1>1, <1>2 DEF ApprovedIn, EndedIn
<1>6. QED BY <1>4, <1>5 DEF ToldBy

\* Where an approval leaves the events of a trail.
LEMMA ApprovalPositions ==
  ASSUME NEW h \in Seq(OperationsAuditEvent), NEW e \in OperationsAuditEvent,
         NEW g, Extends(g, h, e), e.type = Approved
  PROVE  /\ Positions(g, Approved) = Positions(h, Approved) \cup {Len(h) + 1}
         /\ Positions(g, Requested) = Positions(h, Requested)
         /\ Positions(g, Executed) = Positions(h, Executed)
         /\ Positions(g, Lapsed) = Positions(h, Lapsed)
         /\ Len(h) \in Nat /\ g[Len(h) + 1] = e
         /\ \A i \in Positions(h, Requested) \cup Positions(h, Approved) :
              i \in 1 .. Len(h) /\ g[i] = h[i]
<1>1. /\ Positions(g, e.type) = Positions(h, e.type) \cup {Len(h) + 1}
      /\ Len(h) \in Nat /\ g[Len(h) + 1] = e
      /\ \A type \in EventType :
           type # e.type => Positions(g, type) = Positions(h, type)
      /\ \A type \in EventType : \A i \in Positions(h, type) :
           i \in 1 .. Len(h) /\ g[i] = h[i]
  BY TrailFacts
<1>2. /\ Approved # Requested /\ Approved # Executed /\ Approved # Lapsed
      /\ Requested \in EventType /\ Approved \in EventType
      /\ Executed \in EventType /\ Lapsed \in EventType
  BY EventFacts
<1>3. QED BY <1>1, <1>2

\* An approval.
LEMMA ApprovalTells ==
  ASSUME NEW h \in Seq(OperationsAuditEvent), NEW e \in OperationsAuditEvent,
         NEW g, Extends(g, h, e), e.type = Approved,
         NEW v, NEW w, ToldBy(h, v), v.approvals \in Seq(Actors),
         NEW a \in Actors, e.actor = a, Extends(w.approvals, v.approvals, a),
         w.requestedBy = v.requestedBy, v.state = "pending"
  PROVE  /\ RequestedIn(g, w) /\ ApprovedIn(g, w)
         /\ Len(w.approvals) = Len(v.approvals) + 1 /\ Len(v.approvals) \in {0, 1}
         /\ Positions(g, Executed) = {} /\ Positions(g, Lapsed) = {}
<1>1. /\ Positions(g, Approved) = Positions(h, Approved) \cup {Len(h) + 1}
      /\ Positions(g, Requested) = Positions(h, Requested)
      /\ Positions(g, Executed) = Positions(h, Executed)
      /\ Positions(g, Lapsed) = Positions(h, Lapsed)
      /\ Len(h) \in Nat /\ g[Len(h) + 1] = e
      /\ \A i \in Positions(h, Requested) \cup Positions(h, Approved) :
           i \in 1 .. Len(h) /\ g[i] = h[i]
  BY ApprovalPositions
<1>2. /\ Len(w.approvals) = Len(v.approvals) + 1 /\ Len(v.approvals) \in {0, 1}
      /\ w.approvals[Len(v.approvals) + 1] = a
      /\ Len(v.approvals) = 1 => w.approvals[1] = v.approvals[1]
  <2>1. Len(v.approvals) < 2
    BY DEF ToldBy, EndedIn
  <2>2. PICK s \in Seq(Actors) : s = v.approvals
    OBVIOUS
  <2>3. Len(s) \in {0, 1}
    <3>1. PICK n \in Nat : n = Len(s)
      BY <2>2
    <3>2. n < 2
      BY <2>1, <2>2, <3>1
    <3>3. QED BY <3>1, <3>2
  <2>4. /\ Len(Append(s, a)) = Len(s) + 1 /\ Append(s, a)[Len(s) + 1] = a
        /\ Len(s) = 1 => Append(s, a)[1] = s[1]
    BY <2>3
  <2>5. QED BY <2>2, <2>3, <2>4 DEF Extends
<1>3. RequestedIn(g, w)
  <2>1. PICK r \in Nat : /\ Positions(h, Requested) = {r}
                         /\ h[r].actor = v.requestedBy
                         /\ \A i \in Positions(h, Approved) : r < i
    BY DEF ToldBy, RequestedIn
  <2>2. r \in 1 .. Len(h)
    BY <1>1, <2>1
  <2>3. \A i \in Positions(g, Approved) : r < i
    BY <1>1, <2>1, <2>2
  <2>4. g[r].actor = w.requestedBy
    BY <1>1, <2>1, <2>2
  <2>5. QED BY <1>1, <2>1, <2>3, <2>4 DEF RequestedIn
<1>4. ApprovedIn(g, w)
  <2>1. CASE Len(v.approvals) = 0
    <3>1. Positions(h, Approved) = {}
      BY <2>1 DEF ToldBy, ApprovedIn
    <3>2. Len(h) + 1 \in Nat /\ Positions(g, Approved) = {Len(h) + 1}
      BY <1>1, <3>1
    <3>3. QED BY <1>1, <1>2, <2>1, <3>2 DEF ApprovedIn
  <2>2. CASE Len(v.approvals) = 1
    <3>1. PICK i \in Nat : Positions(h, Approved) = {i} /\ h[i].actor = v.approvals[1]
      BY <2>2 DEF ToldBy, ApprovedIn
    <3>2. i \in 1 .. Len(h)
      BY <1>1, <3>1
    <3>3. PICK j \in Nat : j = Len(h) + 1
      BY <1>1
    <3>4. i < j /\ Positions(g, Approved) = {i, j} /\ g[i] = h[i] /\ g[j] = e
      BY <1>1, <3>1, <3>2, <3>3
    <3>5. g[i].actor = w.approvals[1] /\ g[j].actor = w.approvals[2]
      BY <1>2, <2>2, <3>1, <3>4
    <3>6. Len(w.approvals) = 2
      BY <1>2, <2>2
    <3>7. QED BY <3>4, <3>5, <3>6 DEF ApprovedIn
  <2>3. QED BY <1>2, <2>1, <2>2
<1>5. Positions(h, Executed) = {} /\ Positions(h, Lapsed) = {}
  BY DEF ToldBy, EndedIn
<1>6. QED BY <1>1, <1>2, <1>3, <1>4, <1>5

\* The execution after the second approval.
LEMMA ExecutionTells ==
  ASSUME NEW h \in Seq(OperationsAuditEvent), NEW e \in OperationsAuditEvent,
         NEW g, Extends(g, h, e), e.type = Executed,
         NEW w, RequestedIn(h, w), ApprovedIn(h, w), Len(w.approvals) = 2,
         Positions(h, Executed) = {}, Positions(h, Lapsed) = {}, w.state = "executed"
  PROVE  ToldBy(g, w)
<1>1. /\ Positions(g, Executed) = {Len(h) + 1}
      /\ Positions(g, Requested) = Positions(h, Requested)
      /\ Positions(g, Approved) = Positions(h, Approved)
      /\ Positions(g, Lapsed) = {}
      /\ Len(h) \in Nat
      /\ \A i \in Positions(h, Requested) \cup Positions(h, Approved) :
           i \in 1 .. Len(h) /\ g[i] = h[i]
  BY TrailFacts, EventFacts
<1>2. RequestedIn(g, w)
  BY <1>1 DEF RequestedIn
<1>3. ApprovedIn(g, w)
  BY <1>1 DEF ApprovedIn
<1>4. \A x \in Positions(g, Executed), i \in Positions(g, Approved) : i < x
  BY <1>1
<1>5. EndedIn(g, w)
  BY <1>1, <1>4 DEF EndedIn
<1>6. QED BY <1>2, <1>3, <1>5 DEF ToldBy

\* The end of the approval window.
LEMMA LapseTells ==
  ASSUME NEW h \in Seq(OperationsAuditEvent), NEW e \in OperationsAuditEvent,
         NEW g, Extends(g, h, e), e.type = Lapsed,
         NEW v, NEW w, ToldBy(h, v), v.state = "pending", w.state = "expired",
         w.approvals = v.approvals, w.requestedBy = v.requestedBy
  PROVE  ToldBy(g, w)
<1>1. /\ Positions(g, Lapsed) = Positions(h, Lapsed) \cup {Len(h) + 1}
      /\ Positions(g, Requested) = Positions(h, Requested)
      /\ Positions(g, Approved) = Positions(h, Approved)
      /\ Positions(g, Executed) = Positions(h, Executed)
      /\ \A i \in Positions(h, Requested) \cup Positions(h, Approved) : g[i] = h[i]
  BY TrailFacts, EventFacts
<1>2. RequestedIn(g, w)
  BY <1>1 DEF ToldBy, RequestedIn
<1>3. ApprovedIn(g, w)
  BY <1>1 DEF ToldBy, ApprovedIn
<1>4. Positions(g, Lapsed) # {} /\ Positions(g, Executed) = {}
  BY <1>1 DEF ToldBy, EndedIn
<1>5. EndedIn(g, w)
  BY <1>4 DEF EndedIn
<1>6. QED BY <1>2, <1>3, <1>5 DEF ToldBy

\* One more qualified approval.
LEMMA QualifiedGrows ==
  ASSUME NEW v, NEW w, NEW device, NEW a \in Actors, Qualified(v, device),
         v.approvals \in Seq(Actors), Extends(w.approvals, v.approvals, a),
         \A i \in DOMAIN v.approvals : v.approvals[i].actorId # a.actorId,
         a.role \in APPROVER_ROLES, a.tenantId = Tenant,
         device # None => a.deviceId # device
  PROVE  Qualified(w, device)
<1> DEFINE n == Len(v.approvals)
<1>1. /\ n \in Nat /\ DOMAIN v.approvals = 1 .. n /\ DOMAIN w.approvals = 1 .. (n + 1)
      /\ \A i \in 1 .. n : w.approvals[i] = v.approvals[i]
      /\ w.approvals[n + 1] = a
  BY DEF Extends
<1> HIDE DEF n
<1>2. \A i \in 1 .. (n + 1) : i \in 1 .. n \/ i = n + 1
  BY <1>1
<1>3. QED BY <1>1, <1>2 DEF Qualified

\* The trail of c grows and the others do not.
Touches(c) ==
  /\ \A d \in CaseIds : d # c =>
       audit'[d] = audit[d] /\ cases'[d] = cases[d] /\ intents'[d] = intents[d]
  /\ \A p \in OverrideIds : overrides'[p] # overrides[p] =>
       overrides'[p].case = c /\ overrides[p].case \in {c, None}

\* What is told of the other cases and overrides stays told.
LEMMA OthersTraced ==
  ASSUME TypeOK, Traced, NEW c \in CaseIds, Touches(c), StoreTypes',
         TracedCase(c)',
         \A o \in OverrideIds : overrides'[o].case = c => TracedOverride(o)'
  PROVE  Traced'
<1>1. ASSUME NEW d \in CaseIds, d # c PROVE TracedCase(d)'
  <2>1. audit'[d] = audit[d] /\ cases'[d] = cases[d] /\ intents'[d] = intents[d]
    BY <1>1 DEF Touches
  <2>2. (\A o \in OverrideIds : overrides'[o].case # d) =>
          \A o \in OverrideIds : overrides[o].case # d
    BY <1>1, ConstantsAssumption DEF Touches
  <2>3. TracedCase(d)
    BY DEF Traced
  <2>4. QED BY <2>1, <2>2, <2>3 DEF TracedCase, Exists, NoCase
<1>2. ASSUME NEW o \in OverrideIds, overrides'[o].case # c PROVE TracedOverride(o)'
  <2>1. overrides'[o] = overrides[o]
    BY <1>2 DEF Touches
  <2>2. CASE overrides[o] = NoOverride
    BY <2>1, <2>2 DEF TracedOverride, NoOverride
  <2>3. CASE overrides[o] # NoOverride
    <3>1. PICK d \in CaseIds : d = overrides[o].case /\ d # c
      BY <1>2, <2>1, <2>3, RowTypes
    <3>2. audit'[d] = audit[d] /\ cases'[d] = cases[d]
      BY <3>1 DEF Touches
    <3>3. TracedOverride(o)
      BY DEF Traced
    <3>4. QED BY <2>1, <2>3, <3>1, <3>2, <3>3 DEF TracedOverride, NoOverride
  <2>4. QED BY <2>2, <2>3
<1>3. QED BY <1>1, <1>2 DEF Traced

\* Logging an event extends the trail.
LEMMA LogExtends ==
  ASSUME TypeOK, NEW c \in CaseIds, NEW type \in EventType,
         NEW a \in Actors \cup {System}, NEW proof \in ProofMethods \cup {None},
         Logs(c, type, a, proof)
  PROVE  /\ \E e \in OperationsAuditEvent :
              e.type = type /\ e.actor = a /\ Extends(audit'[c], audit[c], e)
         /\ audit[c] \in Seq(OperationsAuditEvent)
         /\ \A d \in CaseIds : d # c => audit'[d] = audit[d]
<1>1. PICK e \in OperationsAuditEvent : e = Event(type, a, proof)
  BY EventTypes
<1>2. e.type = type /\ e.actor = a
  BY <1>1 DEF Event
<1>3. audit' = [audit EXCEPT ![c] = Append(audit[c], e)]
  BY <1>1 DEF Logs
<1>4. audit'[c] = Append(audit[c], e) /\ \A d \in CaseIds : d # c => audit'[d] = audit[d]
  BY <1>3 DEF TypeOK
<1>5. Extends(audit'[c], audit[c], e)
  BY <1>4 DEF Extends
<1>6. QED BY <1>2, <1>4, <1>5 DEF TypeOK

\* An opening is never lost from a trail.
LEMMA OpeningStays ==
  ASSUME NEW h \in Seq(OperationsAuditEvent), NEW e \in OperationsAuditEvent,
         NEW g, Extends(g, h, e)
  PROVE  /\ Positions(h, CaseEvent("opened")) # {} => Positions(g, CaseEvent("opened")) # {}
         /\ e.type = CaseEvent("opened") => Positions(g, CaseEvent("opened")) # {}
<1>1. /\ Positions(g, e.type) = Positions(h, e.type) \cup {Len(h) + 1}
      /\ Len(h) \in Nat /\ g[Len(h) + 1] = e
      /\ \A type \in EventType :
           type # e.type => Positions(g, type) = Positions(h, type)
  BY TrailFacts
<1>2. CaseEvent("opened") \in EventType
  BY DEF EventType, OperationsCaseState
<1>3. QED BY <1>1, <1>2

\* A step that appends an event of the case and leaves the overrides alone.
LEMMA CaseEventTraced ==
  ASSUME TypeOK, Traced, StoreTypes', NEW c \in CaseIds, Touches(c), UNCHANGED overrides,
         NEW s \in OperationsCaseState, cases'[c].state = s, Exists(c)',
         NEW e \in OperationsAuditEvent, e.type = CaseEvent(s),
         Extends(audit'[c], audit[c], e),
         Exists(c) \/ s = "opened",
         \A o \in OverrideIds : overrides[o] # NoOverride /\ overrides[o].case = c =>
           cases'[c].device = cases[c].device
  PROVE  Traced'
<1>1. PICK h \in Seq(OperationsAuditEvent) : h = audit[c]
  BY DEF TypeOK
<1>2. PICK g : g = audit'[c]
  OBVIOUS
<1>3. Extends(g, h, e)
  BY <1>1, <1>2
<1>4. e.type \notin ResetTypes /\ StateByEvent(e.type) = s /\ s # None
  BY EventFacts
<1>5. LastMark(g, s)
  BY <1>3, <1>4, MarkGrows
<1>6. /\ \A type \in ResetTypes : Positions(g, type) = Positions(h, type)
      /\ \A v : ToldBy(h, v) => ToldBy(g, v)
  BY <1>3, <1>4, CaseEventTells
<1>7. TracedCase(c)
  BY DEF Traced
<1>8. Positions(g, CaseEvent("opened")) # {}
  <2>1. CASE s = "opened"
    BY <1>3, <2>1, OpeningStays
  <2>2. CASE Exists(c)
    BY <1>1, <1>3, <1>7, <2>2, OpeningStays DEF TracedCase
  <2>3. QED BY <2>1, <2>2
<1>9. TracedCase(c)'
  BY <1>1, <1>2, <1>5, <1>6, <1>7, <1>8 DEF TracedCase
<1>10. ASSUME NEW o \in OverrideIds, overrides'[o].case = c PROVE TracedOverride(o)'
  <2>1. TracedOverride(o)
    BY DEF Traced
  <2>2. overrides'[o] = overrides[o]
    OBVIOUS
  <2>3. QED BY <1>1, <1>2, <1>6, <1>10, <2>1, <2>2 DEF TracedOverride, NoOverride
<1>11. QED BY <1>9, <1>10, OthersTraced

\* The trail accounts for an opened case.
LEMMA OpensTraced ==
  ASSUME TypeOK, Tied, Traced, NEW c \in CaseIds, NEW a \in Actors, Opens(c, a)
  PROVE  Traced'
<1>1. PICK new \in OperationsCase :
        new.state = "opened" /\ cases' = [cases EXCEPT ![c] = new]
  BY DEF Opens
<1>2. "opened" \in OperationsCaseState /\ CaseEvent("opened") \in EventType
  BY DEF EventType, OperationsCaseState
<1>3. /\ cases'[c].state = "opened" /\ Exists(c)'
      /\ \A d \in CaseIds : d # c => cases'[d] = cases[d]
  BY <1>1 DEF TypeOK, Exists, NoCase
<1>4. /\ \E e \in OperationsAuditEvent :
           e.type = CaseEvent("opened") /\ e.actor = a /\ Extends(audit'[c], audit[c], e)
      /\ \A d \in CaseIds : d # c => audit'[d] = audit[d]
  BY <1>2, LogExtends DEF Opens
<1>5. \A d \in CaseIds : d # c => intents'[d] = intents[d]
  BY DEF Opens, Announces, TypeOK
<1>6. UNCHANGED overrides /\ ~Exists(c)
  BY DEF Opens
<1>7. \A o \in OverrideIds : ~(overrides[o] # NoOverride /\ overrides[o].case = c)
  BY <1>6 DEF Tied, HasCase
<1>8. Touches(c)
  BY <1>3, <1>4, <1>5, <1>6 DEF Touches
<1>9. StoreTypes'
  BY OpensKeeps
<1>10. QED BY <1>2, <1>3, <1>4, <1>6, <1>7, <1>8, <1>9, CaseEventTraced

\* The trail accounts for an expired case.
LEMMA ExpiresTraced ==
  ASSUME TypeOK, Tied, Traced, NEW c \in CaseIds, Expires(c)
  PROVE  Traced'
<1>1. /\ "expired" \in OperationsCaseState /\ CaseEvent("expired") \in EventType
      /\ Exists(c) /\ UNCHANGED <<overrides, intents>>
  BY DEF OperationsCaseState, Terminal, EventType, Expires, Open
<1>2. /\ cases'[c].state = "expired" /\ Exists(c)' /\ cases'[c].device = cases[c].device
      /\ \A d \in CaseIds : d # c => cases'[d] = cases[d]
  BY <1>1, SetsStateFacts DEF Expires
<1>3. /\ \E e \in OperationsAuditEvent :
           /\ e.type = CaseEvent("expired") /\ e.actor = System
           /\ Extends(audit'[c], audit[c], e)
      /\ \A d \in CaseIds : d # c => audit'[d] = audit[d]
  BY <1>1, LogExtends DEF Expires
<1>4. Touches(c)
  BY <1>1, <1>2, <1>3 DEF Touches
<1>5. StoreTypes'
  BY ExpiresKeeps
<1>6. QED BY <1>1, <1>2, <1>3, <1>4, <1>5, CaseEventTraced

\* The trail accounts for a case that changed its state.
LEMMA ChangesTraced ==
  ASSUME TypeOK, Tied, Traced, NEW c \in CaseIds, NEW a \in Actors,
         NEW next \in OperationsCaseState, NEW proof \in ProofMethods \cup {None},
         Changes(c, a, next, proof)
  PROVE  Traced'
<1>1. CaseEvent(next) \in EventType /\ Exists(c) /\ UNCHANGED overrides
  BY DEF EventType, Changes, Open
<1>2. /\ cases'[c].state = next /\ Exists(c)' /\ cases'[c].device = cases[c].device
      /\ \A d \in CaseIds : d # c => cases'[d] = cases[d]
  BY <1>1, SetsStateFacts DEF Changes
<1>3. /\ \E e \in OperationsAuditEvent :
           e.type = CaseEvent(next) /\ e.actor = a /\ Extends(audit'[c], audit[c], e)
      /\ \A d \in CaseIds : d # c => audit'[d] = audit[d]
  BY <1>1, LogExtends DEF Changes
<1>4. \A d \in CaseIds : d # c => intents'[d] = intents[d]
  BY DEF Changes, Announces, TypeOK
<1>5. Touches(c)
  BY <1>1, <1>2, <1>3, <1>4 DEF Touches
<1>6. StoreTypes'
  BY ChangesKeeps
<1>7. QED BY <1>1, <1>2, <1>3, <1>5, <1>6, CaseEventTraced

\* Of the override that a step touches, and of the others.
LEMMA OneOverrideTraced ==
  ASSUME TypeOK, Tied, Traced, StoreTypes', Tied', NEW c \in CaseIds,
         NEW o \in OverrideIds, overrides'[o] # NoOverride, overrides'[o].case = c,
         overrides[o].case \in {c, None},
         \A p \in OverrideIds : p # o => overrides'[p] = overrides[p],
         \A d \in CaseIds : d # c =>
           audit'[d] = audit[d] /\ cases'[d] = cases[d] /\ intents'[d] = intents[d],
         Exists(c)', LastMark(audit'[c], cases'[c].state),
         Positions(audit'[c], CaseEvent("opened")) # {},
         ToldBy(audit'[c], overrides'[o]), Qualified(overrides'[o], cases'[c].device)
  PROVE  Traced'
<1>1. Touches(c)
  BY DEF Touches
<1>2. TracedCase(c)'
  BY DEF TracedCase
<1>3. ASSUME NEW p \in OverrideIds, overrides'[p].case = c PROVE TracedOverride(p)'
  <2>1. p = o
    BY <1>3 DEF Tied, OnePerCase, NoOverride
  <2>2. QED BY <2>1 DEF TracedOverride, NoOverride
<1>4. QED BY <1>1, <1>2, <1>3, OthersTraced

\* The trail accounts for a requested reset.
LEMMA RequestsTraced ==
  ASSUME TypeOK, Tied, Traced, NEW c \in CaseIds, NEW o \in OverrideIds,
         NEW a \in Actors, Requests(c, o, a)
  PROVE  Traced'
<1>1. /\ "trust_reset_pending" \in OperationsCaseState /\ Requested \in EventType
      /\ Exists(c) /\ overrides[o] = NoOverride
  BY EventFacts DEF OperationsCaseState, Requests, Open
<1>2. /\ cases'[c].state = "trust_reset_pending" /\ Exists(c)'
      /\ \A d \in CaseIds : d # c => cases'[d] = cases[d]
  BY <1>1, SetsStateFacts DEF Requests
<1>3. /\ StoreTypes' /\ Tied'
      /\ \A p \in OverrideIds : overrides[p] # NoOverride => overrides[p].case # c
      /\ \A p \in OverrideIds : p # o => overrides'[p] = overrides[p]
      /\ overrides'[o] # NoOverride /\ overrides'[o].case = c
      /\ overrides'[o].requestedBy = a /\ overrides'[o].approvals = <<>>
      /\ overrides'[o].state = "pending"
  BY RequestsKeeps
<1>4. \A d \in CaseIds : d # c => intents'[d] = intents[d]
  BY DEF Requests, Announces, TypeOK
<1>5. Logs(c, Requested, a, None)
  BY DEF Requests, Requested
<1>6. /\ \E e \in OperationsAuditEvent :
           e.type = Requested /\ e.actor = a /\ Extends(audit'[c], audit[c], e)
      /\ \A d \in CaseIds : d # c => audit'[d] = audit[d]
  BY <1>1, <1>5, LogExtends
<1>7. PICK e \in OperationsAuditEvent :
        e.type = Requested /\ e.actor = a /\ Extends(audit'[c], audit[c], e)
  BY <1>6
<1>8. PICK h \in Seq(OperationsAuditEvent) : h = audit[c]
  BY DEF TypeOK
<1>9. PICK g : g = audit'[c]
  OBVIOUS
<1>10. Extends(g, h, e)
  BY <1>7, <1>8, <1>9
<1>11. TracedCase(c)
  BY DEF Traced
<1>12. LastMark(g, "trust_reset_pending")
  <2>1. StateByEvent(e.type) = "trust_reset_pending" /\ "trust_reset_pending" # None
    BY <1>1, <1>7, EventFacts
  <2>2. QED BY <1>10, <2>1, MarkGrows
<1>13. Positions(g, CaseEvent("opened")) # {}
  BY <1>1, <1>8, <1>10, <1>11, OpeningStays DEF TracedCase
<1>14. \A type \in ResetTypes : Positions(h, type) = {}
  BY <1>3, <1>8, <1>11, RowTypes, ConstantsAssumption DEF TracedCase
<1>15. PICK w : w = overrides'[o]
  OBVIOUS
<1>16. ToldBy(g, w)
  BY <1>3, <1>7, <1>10, <1>14, <1>15, RequestTells
<1>17. Qualified(overrides'[o], cases'[c].device)
  BY <1>3 DEF Qualified
<1>18. overrides[o].case = None
  BY <1>1 DEF NoOverride
<1>19. QED BY <1>2, <1>3, <1>4, <1>6, <1>9, <1>12, <1>13, <1>15, <1>16, <1>17, <1>18,
              OneOverrideTraced

\* The trail accounts for an override that lapsed.
LEMMA LapsesTraced ==
  ASSUME TypeOK, Tied, Traced, NEW c \in CaseIds, NEW o \in OverrideIds, Lapses(c, o)
  PROVE  Traced'
<1>1. /\ overrides[o] # NoOverride /\ overrides[o].case = c /\ Exists(c)
      /\ overrides[o].state = "pending" /\ UNCHANGED <<cases, intents>>
      /\ Lapsed \in EventType
  BY EventFacts DEF Lapses, Open
<1>2. /\ StoreTypes' /\ Tied'
      /\ \A p \in OverrideIds : p # o => overrides'[p] = overrides[p]
      /\ overrides'[o] # NoOverride /\ overrides'[o].case = c
      /\ overrides'[o].requestedBy = overrides[o].requestedBy
      /\ overrides'[o].approvals = overrides[o].approvals
      /\ overrides'[o].state = "expired"
  BY LapsesKeeps
<1>3. Logs(c, Lapsed, System, None)
  BY DEF Lapses, Lapsed
<1>4. /\ \E e \in OperationsAuditEvent :
           e.type = Lapsed /\ e.actor = System /\ Extends(audit'[c], audit[c], e)
      /\ \A d \in CaseIds : d # c => audit'[d] = audit[d]
  BY <1>1, <1>3, LogExtends
<1>5. PICK e \in OperationsAuditEvent :
        e.type = Lapsed /\ Extends(audit'[c], audit[c], e)
  BY <1>4
<1>6. PICK h \in Seq(OperationsAuditEvent) : h = audit[c]
  BY DEF TypeOK
<1>7. PICK g : g = audit'[c]
  OBVIOUS
<1>8. Extends(g, h, e)
  BY <1>5, <1>6, <1>7
<1>9. TracedCase(c) /\ TracedOverride(o)
  BY DEF Traced
<1>10. LastMark(g, cases[c].state)
  <2>1. StateByEvent(e.type) = None
    BY <1>5, EventFacts
  <2>2. LastMark(h, cases[c].state)
    BY <1>1, <1>6, <1>9 DEF TracedCase
  <2>3. QED BY <1>8, <2>1, <2>2, MarkGrows
<1>11. Positions(g, CaseEvent("opened")) # {}
  BY <1>1, <1>6, <1>8, <1>9, OpeningStays DEF TracedCase
<1>12. PICK v : v = overrides[o]
  OBVIOUS
<1>13. PICK w : w = overrides'[o]
  OBVIOUS
<1>14. ToldBy(h, v) /\ Qualified(v, cases[c].device)
  BY <1>1, <1>6, <1>9, <1>12 DEF TracedOverride
<1>15. ToldBy(g, w)
  <2>1. /\ v.state = "pending" /\ w.state = "expired"
        /\ w.approvals = v.approvals /\ w.requestedBy = v.requestedBy
    BY <1>1, <1>2, <1>12, <1>13
  <2>2. QED BY <1>5, <1>8, <1>14, <2>1, LapseTells
<1>16. Qualified(w, cases[c].device)
  BY <1>2, <1>12, <1>13, <1>14 DEF Qualified
<1>17. Exists(c)' /\ cases'[c] = cases[c]
  BY <1>1 DEF Exists, NoCase
<1>18. QED BY <1>1, <1>2, <1>4, <1>7, <1>10, <1>11, <1>13, <1>15, <1>16, <1>17,
              OneOverrideTraced

\* What the approver brings to the override it approves.
LEMMA ApproverQualifies ==
  ASSUME TypeOK, Tied, Traced, NEW c \in CaseIds, NEW o \in OverrideIds,
         NEW a \in Actors, MayDecide(c, o, a),
         NEW w, w.approvals = Append(overrides[o].approvals, a)
  PROVE  /\ Qualified(w, cases[c].device)
         /\ Extends(w.approvals, overrides[o].approvals, a)
         /\ overrides[o].approvals \in Seq(Actors)
         /\ ToldBy(audit[c], overrides[o]) /\ overrides[o].state = "pending"
         /\ overrides[o] # NoOverride /\ overrides[o].case = c /\ Exists(c)
<1>1. /\ overrides[o] # NoOverride /\ overrides[o].case = c /\ Exists(c)
      /\ overrides[o].state = "pending"
  BY DEF MayDecide, Open
<1>2. ToldBy(audit[c], overrides[o]) /\ Qualified(overrides[o], cases[c].device)
  BY <1>1 DEF Traced, TracedOverride
<1>3. overrides[o].approvals \in Seq(Actors)
  BY <1>1, RowTypes
<1>4. Extends(w.approvals, overrides[o].approvals, a)
  BY DEF Extends
<1>5. /\ \A i \in DOMAIN overrides[o].approvals :
           overrides[o].approvals[i].actorId # a.actorId
      /\ a.role \in APPROVER_ROLES /\ a.tenantId = Tenant
      /\ cases[c].device # None => a.deviceId # cases[c].device
  BY <1>1 DEF MayDecide, MayApprove
<1>6. PICK v : v = overrides[o]
  OBVIOUS
<1>7. PICK device : device = cases[c].device
  OBVIOUS
<1>8. Qualified(w, device)
  BY <1>2, <1>3, <1>4, <1>5, <1>6, <1>7, QualifiedGrows
<1>9. QED BY <1>1, <1>2, <1>3, <1>4, <1>7, <1>8

\* The trail accounts for a first approval.
LEMMA ApprovesTraced ==
  ASSUME TypeOK, Tied, Traced, NEW c \in CaseIds, NEW o \in OverrideIds,
         NEW a \in Actors, Approves(c, o, a)
  PROVE  Traced'
<1>1. /\ MayDecide(c, o, a) /\ Len(overrides[o].approvals) # 1
      /\ UNCHANGED <<cases, intents>> /\ Approved \in EventType
  BY EventFacts DEF Approves
<1>2. /\ StoreTypes' /\ Tied'
      /\ \A p \in OverrideIds : p # o => overrides'[p] = overrides[p]
      /\ overrides'[o] # NoOverride /\ overrides'[o].case = c
      /\ overrides'[o].requestedBy = overrides[o].requestedBy
      /\ overrides'[o].approvals = Append(overrides[o].approvals, a)
      /\ overrides'[o].state = "pending"
  BY ApprovesKeeps
<1>3. PICK w : w = overrides'[o]
  OBVIOUS
<1>4. PICK v : v = overrides[o]
  OBVIOUS
<1>5. PICK h : h = audit[c]
  OBVIOUS
<1>6. PICK g : g = audit'[c]
  OBVIOUS
<1>7. /\ Qualified(w, cases[c].device) /\ Extends(w.approvals, v.approvals, a)
      /\ v.approvals \in Seq(Actors) /\ ToldBy(h, v) /\ v.state = "pending"
      /\ overrides[o] # NoOverride /\ overrides[o].case = c /\ Exists(c)
  BY <1>1, <1>2, <1>3, <1>4, <1>5, ApproverQualifies
<1>8. Logs(c, Approved, a, None)
  BY DEF Approves, Approved
<1>9. /\ \E e \in OperationsAuditEvent :
           e.type = Approved /\ e.actor = a /\ Extends(audit'[c], audit[c], e)
      /\ audit[c] \in Seq(OperationsAuditEvent)
      /\ \A d \in CaseIds : d # c => audit'[d] = audit[d]
  BY <1>1, <1>8, LogExtends
<1>10. PICK e \in OperationsAuditEvent :
         e.type = Approved /\ e.actor = a /\ Extends(g, h, e)
  BY <1>5, <1>6, <1>9
<1>11. TracedCase(c) /\ h \in Seq(OperationsAuditEvent)
  BY <1>5, <1>9 DEF Traced
<1>12. LastMark(g, cases[c].state)
  <2>1. StateByEvent(e.type) = None
    BY <1>10, EventFacts
  <2>2. LastMark(h, cases[c].state)
    BY <1>5, <1>7, <1>11 DEF TracedCase
  <2>3. QED BY <1>10, <1>11, <2>1, <2>2, MarkGrows
<1>13. Positions(g, CaseEvent("opened")) # {}
  BY <1>5, <1>7, <1>10, <1>11, OpeningStays DEF TracedCase
<1>14. w.requestedBy = v.requestedBy /\ w.state = "pending"
  BY <1>2, <1>3, <1>4
<1>15. /\ RequestedIn(g, w) /\ ApprovedIn(g, w)
       /\ Len(w.approvals) = Len(v.approvals) + 1 /\ Len(v.approvals) \in {0, 1}
       /\ Positions(g, Executed) = {} /\ Positions(g, Lapsed) = {}
  BY <1>7, <1>10, <1>11, <1>14, ApprovalTells
<1>16. Len(w.approvals) < 2
  BY <1>1, <1>4, <1>15
<1>17. ToldBy(g, w)
  BY <1>14, <1>15, <1>16 DEF ToldBy, EndedIn
<1>18. Exists(c)' /\ cases'[c] = cases[c]
  BY <1>1, <1>7 DEF Exists, NoCase
<1>19. QED BY <1>1, <1>2, <1>3, <1>6, <1>7, <1>9, <1>12, <1>13, <1>17, <1>18,
              OneOverrideTraced

\* The trail accounts for an executed reset.
LEMMA ExecutesTraced ==
  ASSUME TypeOK, Tied, Traced, NEW c \in CaseIds, NEW o \in OverrideIds,
         NEW a \in Actors, Executes(c, o, a)
  PROVE  Traced'
<1>1. /\ MayDecide(c, o, a) /\ Len(overrides[o].approvals) = 1
      /\ Approved \in EventType /\ Executed \in EventType
      /\ "resolved" \in OperationsCaseState
  BY EventFacts DEF Executes, OperationsCaseState, Terminal
<1>2. /\ StoreTypes' /\ Tied'
      /\ \A p \in OverrideIds : p # o => overrides'[p] = overrides[p]
      /\ overrides'[o] # NoOverride /\ overrides'[o].case = c
      /\ overrides'[o].requestedBy = overrides[o].requestedBy
      /\ overrides'[o].approvals = Append(overrides[o].approvals, a)
      /\ overrides'[o].state = "executed"
  BY ExecutesKeeps
<1>3. PICK w : w = overrides'[o]
  OBVIOUS
<1>4. PICK v : v = overrides[o]
  OBVIOUS
<1>5. PICK h \in Seq(OperationsAuditEvent) : h = audit[c]
  BY DEF TypeOK
<1>6. PICK g : g = audit'[c]
  OBVIOUS
<1>7. /\ Qualified(w, cases[c].device) /\ Extends(w.approvals, v.approvals, a)
      /\ v.approvals \in Seq(Actors) /\ ToldBy(h, v) /\ v.state = "pending"
      /\ overrides[o] # NoOverride /\ overrides[o].case = c /\ Exists(c)
  BY <1>1, <1>2, <1>3, <1>4, <1>5, ApproverQualifies
<1>8. /\ cases'[c].state = "resolved" /\ Exists(c)' /\ cases'[c].device = cases[c].device
      /\ \A d \in CaseIds : d # c => cases'[d] = cases[d]
  BY <1>1, <1>7, SetsStateFacts DEF Executes
<1>9. \A d \in CaseIds : d # c => intents'[d] = intents[d] /\ audit'[d] = audit[d]
  BY DEF Executes, Announces, TypeOK
<1>10. PICK e \in OperationsAuditEvent :
         e.type = Approved /\ e.actor = a /\ e = Event(Approved, a, None)
  BY <1>1, EventTypes DEF Event
<1>11. PICK f \in OperationsAuditEvent :
         f.type = Executed /\ f = Event(Executed, System, None)
  BY <1>1, EventTypes DEF Event
<1>12. PICK mid \in Seq(OperationsAuditEvent) : Extends(mid, h, e)
  <2>1. Append(h, e) \in Seq(OperationsAuditEvent)
    BY <1>5
  <2>2. QED BY <2>1 DEF Extends
<1>13. Extends(g, mid, f)
  <2>1. audit' = [audit EXCEPT ![c] = Append(Append(audit[c], e), f)]
    BY <1>10, <1>11 DEF Executes, Approved, Executed
  <2>2. audit'[c] = Append(Append(audit[c], e), f)
    BY <2>1 DEF TypeOK
  <2>3. QED BY <1>5, <1>6, <1>12, <2>2 DEF Extends
<1>14. TracedCase(c)
  BY DEF Traced
<1>15. LastMark(g, "resolved")
  <2>1. StateByEvent(f.type) = "resolved" /\ "resolved" # None
    BY <1>1, <1>11, EventFacts
  <2>2. QED BY <1>12, <1>13, <2>1, MarkGrows
<1>16. Positions(g, CaseEvent("opened")) # {}
  <2>1. Positions(h, CaseEvent("opened")) # {}
    BY <1>5, <1>7, <1>14 DEF TracedCase
  <2>2. Positions(mid, CaseEvent("opened")) # {}
    BY <1>5, <1>12, <2>1, OpeningStays
  <2>3. QED BY <1>12, <1>13, <2>2, OpeningStays
<1>17. w.requestedBy = v.requestedBy /\ w.state = "executed"
  BY <1>2, <1>3, <1>4
<1>18. /\ RequestedIn(mid, w) /\ ApprovedIn(mid, w)
       /\ Len(w.approvals) = Len(v.approvals) + 1
       /\ Positions(mid, Executed) = {} /\ Positions(mid, Lapsed) = {}
  BY <1>5, <1>7, <1>10, <1>12, <1>17, ApprovalTells
<1>19. Len(w.approvals) = 2
  BY <1>1, <1>4, <1>18
<1>20. ToldBy(g, w)
  BY <1>11, <1>12, <1>13, <1>17, <1>18, <1>19, ExecutionTells
<1>21. QED BY <1>2, <1>3, <1>6, <1>7, <1>8, <1>9, <1>15, <1>16, <1>20,
              OneOverrideTraced

\* Every step keeps the trails complete.
LEMMA TracedKept ==
  ASSUME TypeOK, Tied, Traced, [Next]_vars
  PROVE  Traced'
<1>1. Kinds
  BY StepKinds
<1>2. CASE UNCHANGED store
  BY <1>2 DEF store, Traced, TracedCase, TracedOverride, Exists, NoCase, NoOverride
<1>3. CASE ~UNCHANGED store
  <2>1. PICK c \in CaseIds :
          \/ Expires(c)
          \/ \E a \in Actors : Opens(c, a)
          \/ \E a \in Actors, next \in OperationsCaseState,
                proof \in ProofMethods \cup {None} : Changes(c, a, next, proof)
          \/ \E o \in OverrideIds :
               \/ Lapses(c, o)
               \/ \E a \in Actors : \/ Requests(c, o, a)
                                    \/ Approves(c, o, a)
                                    \/ Executes(c, o, a)
    BY <1>1, <1>3 DEF Kinds
  <2>2. QED BY <2>1, OpensTraced, ExpiresTraced, ChangesTraced, RequestsTraced,
               ApprovesTraced, ExecutesTraced, LapsesTraced
<1>4. QED BY <1>2, <1>3

\* The trail accounts for every case and every override.
THEOREM TrailAccounts == Spec => []Traced
<1>1. Init => Traced
  <2>1. SUFFICES ASSUME Init PROVE Traced
    OBVIOUS
  <2>2. ASSUME NEW c \in CaseIds PROVE TracedCase(c)
    <3>1. audit[c] = <<>> /\ intents[c] = <<>> /\ ~Exists(c)
      BY <2>1 DEF Init, Exists
    <3>2. \A type : Positions(audit[c], type) = {}
      BY <3>1 DEF Positions
    <3>3. QED BY <3>1, <3>2 DEF TracedCase
  <2>3. \A o \in OverrideIds : TracedOverride(o)
    BY <2>1 DEF Init, TracedOverride
  <2>4. QED BY <2>2, <2>3 DEF Traced
<1>2. TypeOK /\ Tied /\ Traced /\ [Next]_vars => Traced'
  BY TracedKept
<1>3. QED BY <1>1, <1>2, CasesAndOverridesTied, PTL DEF Spec

\* The checks of #validateRestoredState on one override, from what is told of it.
LEMMA OverrideTold ==
  ASSUME NEW h \in Seq(OperationsAuditEvent), NEW v, ToldBy(h, v),
         v.approvals \in Seq(Actors)
  PROVE  /\ Len(v.approvals) <= 2
         /\ Cardinality(Positions(h, Approved)) = Len(v.approvals)
         /\ Cardinality(Positions(h, Requested)) = 1
         /\ \A e \in Positions(h, Requested) : h[e].actor = v.requestedBy
         /\ \A i \in DOMAIN v.approvals :
              \E e \in Positions(h, Approved) : h[e].actor = v.approvals[i]
<1>1. PICK r \in Nat : Positions(h, Requested) = {r} /\ h[r].actor = v.requestedBy
  BY DEF ToldBy, RequestedIn
<1>2. Cardinality(Positions(h, Requested)) = 1
  BY <1>1, FS_Singleton
<1>3. DOMAIN v.approvals = 1 .. Len(v.approvals)
  OBVIOUS
<1>4. CASE Len(v.approvals) = 0 /\ Positions(h, Approved) = {}
  <2>1. Cardinality(Positions(h, Approved)) = 0
    BY <1>4, FS_EmptySet
  <2>2. QED BY <1>1, <1>2, <1>3, <1>4, <2>1
<1>5. CASE /\ Len(v.approvals) = 1
           /\ \E i \in Nat : Positions(h, Approved) = {i} /\ h[i].actor = v.approvals[1]
  <2>1. PICK i \in Nat : Positions(h, Approved) = {i} /\ h[i].actor = v.approvals[1]
    BY <1>5
  <2>2. Cardinality(Positions(h, Approved)) = 1
    BY <2>1, FS_Singleton
  <2>3. \A k \in DOMAIN v.approvals : k = 1
    BY <1>3, <1>5
  <2>4. QED BY <1>1, <1>2, <1>5, <2>1, <2>2, <2>3
<1>6. CASE /\ Len(v.approvals) = 2
           /\ \E i, j \in Nat : /\ i < j /\ Positions(h, Approved) = {i, j}
                                /\ h[i].actor = v.approvals[1] /\ h[j].actor = v.approvals[2]
  <2>1. PICK i, j \in Nat : /\ i < j /\ Positions(h, Approved) = {i, j}
                            /\ h[i].actor = v.approvals[1] /\ h[j].actor = v.approvals[2]
    BY <1>6
  <2>2. PICK one : one = {i} /\ IsFiniteSet(one) /\ Cardinality(one) = 1
    BY FS_Singleton
  <2>3. Positions(h, Approved) = one \cup {j} /\ j \notin one
    BY <2>1, <2>2
  <2>4. Cardinality(one \cup {j}) = Cardinality(one) + 1
    BY <2>2, <2>3, FS_AddElement
  <2>5. Cardinality(Positions(h, Approved)) = 2
    <3>1. Cardinality(Positions(h, Approved)) = Cardinality(one) + 1
      BY <2>3, <2>4, Zenon
    <3>2. Cardinality(one) = 1
      BY <2>2
    <3>3. QED BY <3>1, <3>2
  <2>6. \A k \in DOMAIN v.approvals : k = 1 \/ k = 2
    BY <1>3, <1>6
  <2>7. i \in Positions(h, Approved) /\ j \in Positions(h, Approved)
    BY <2>1
  <2>8. \A k \in DOMAIN v.approvals :
          \E e \in Positions(h, Approved) : h[e].actor = v.approvals[k]
    BY <2>1, <2>6, <2>7
  <2>9. QED BY <1>1, <1>2, <1>6, <2>5, <2>8
<1>7. QED BY <1>4, <1>5, <1>6 DEF ToldBy, ApprovedIn

\* Whatever sequence of calls led here, restore() accepts what snapshot() returns.
THEOREM SnapshotsRestore == Spec => []SnapshotRestores
<1>1. ASSUME TypeOK, Tied, Traced PROVE SnapshotRestores
  <2>1. \A c \in CaseIds : \A type :
          type \in Types(c) <=> Positions(audit[c], type) # {}
    BY DEF Types, Positions
  <2>2. \A c \in CaseIds : TracedCase(c) /\ audit[c] \in Seq(OperationsAuditEvent)
    BY <1>1 DEF Traced, TypeOK
  <2>3. ASSUME NEW c \in CaseIds PROVE CaseRestorable(c)
    BY <2>1, <2>2, MarkIsDerived DEF CaseRestorable, TracedCase
  <2>4. ASSUME NEW c \in CaseIds, intents[c] # <<>> PROVE Exists(c)
    BY <2>2, <2>4 DEF TracedCase
  <2>5. ASSUME NEW o \in OverrideIds, overrides[o] # NoOverride PROVE OverrideRestorable(o)
    <3>1. PICK c \in CaseIds : c = overrides[o].case
      BY <1>1, <2>5, RowTypes
    <3>2. PICK v : v = overrides[o] /\ v.approvals \in Seq(Actors)
      BY <1>1, <2>5, RowTypes
    <3>3. PICK h \in Seq(OperationsAuditEvent) : h = audit[c]
      BY <2>2
    <3>4. ToldBy(h, v) /\ Qualified(v, cases[c].device)
      BY <1>1, <2>5, <3>1, <3>2, <3>3 DEF Traced, TracedOverride
    <3>5. /\ Len(v.approvals) <= 2
          /\ Cardinality(Positions(h, Approved)) = Len(v.approvals)
          /\ Cardinality(Positions(h, Requested)) = 1
          /\ \A e \in Positions(h, Requested) : h[e].actor = v.requestedBy
          /\ \A i \in DOMAIN v.approvals :
               \E e \in Positions(h, Approved) : h[e].actor = v.approvals[i]
      BY <3>2, <3>4, OverrideTold
    <3>6. /\ EventsOf(c, ResetEvent("requested")) = Positions(h, Requested)
          /\ EventsOf(c, ResetEvent("approved")) = Positions(h, Approved)
      BY <3>3 DEF EventsOf, Positions, Requested, Approved
    <3>7. /\ v.state = "executed" <=> ResetEvent("executed") \in Types(c)
          /\ v.state = "expired" <=> ResetEvent("expired") \in Types(c)
      BY <2>1, <3>3, <3>4 DEF ToldBy, EndedIn, Executed, Lapsed
    <3>8. /\ \A i, j \in DOMAIN v.approvals :
               v.approvals[i].actorId = v.approvals[j].actorId => i = j
          /\ \A i \in DOMAIN v.approvals : v.approvals[i].role \in APPROVER_ROLES
      BY <3>4 DEF Qualified
    <3>9. Exists(c) /\ \A p \in OverrideIds : p # o => overrides[p].case # c
      BY <1>1, <2>5, <3>1 DEF Tied, HasCase, OnePerCase
    <3>10. QED BY <3>1, <3>2, <3>3, <3>5, <3>6, <3>7, <3>8, <3>9 DEF OverrideRestorable
  <2>6. \A o \in OverrideIds : OverrideRestorable(o)
    BY <2>5 DEF OverrideRestorable
  <2>7. QED BY <2>3, <2>4, <2>6 DEF SnapshotRestores, ValidateRestoredState
<1>2. QED BY <1>1, CasesAndOverridesTied, TrailAccounts, PTL

\* approveTrustReset: a reset is executed only after two approvals, later than
\* the request, by different people of the tenant in an approving role, none of
\* them on the affected device.
THEOREM ResetsNeedTwo == Spec => []DualControl
<1>1. ASSUME TypeOK, Tied, Traced PROVE DualControl
  <2>1. SUFFICES ASSUME NEW c \in CaseIds, NEW x \in EventsOf(c, ResetEvent("executed"))
                 PROVE  \E r \in EventsOf(c, ResetEvent("requested")) :
                        \E i, j \in EventsOf(c, ResetEvent("approved")) :
                          /\ r < i /\ i < j /\ j < x
                          /\ audit[c][i].actor.actorId # audit[c][j].actor.actorId
                          /\ \A e \in {i, j} :
                               /\ audit[c][e].actor.tenantId = Tenant
                               /\ audit[c][e].actor.role \in APPROVER_ROLES
                               /\ \/ cases[c].device = None
                                  \/ audit[c][e].actor.deviceId # cases[c].device
    BY DEF DualControl
  <2>2. PICK h \in Seq(OperationsAuditEvent) : h = audit[c]
    BY <1>1 DEF TypeOK
  <2>3. /\ EventsOf(c, ResetEvent("requested")) = Positions(h, Requested)
        /\ EventsOf(c, ResetEvent("approved")) = Positions(h, Approved)
        /\ EventsOf(c, ResetEvent("executed")) = Positions(h, Executed)
    BY <2>2 DEF EventsOf, Positions, Requested, Approved, Executed
  <2>4. PICK o \in OverrideIds : overrides[o].case = c
    <3>1. TracedCase(c) /\ Positions(h, Executed) # {}
      BY <1>1, <2>1, <2>3 DEF Traced
    <3>2. QED BY <2>2, <3>1 DEF TracedCase, ResetTypes
  <2>5. overrides[o] # NoOverride
    BY <1>1, <2>4, RowTypes, ConstantsAssumption
  <2>6. PICK v : v = overrides[o] /\ v.approvals \in Seq(Actors)
    BY <1>1, <2>5, RowTypes
  <2>7. ToldBy(h, v) /\ Qualified(v, cases[c].device)
    BY <1>1, <2>2, <2>4, <2>5, <2>6 DEF Traced, TracedOverride
  <2>8. /\ Len(v.approvals) = 2
        /\ \A i \in Positions(h, Approved) : i < x
    BY <2>1, <2>3, <2>7 DEF ToldBy, EndedIn
  <2>9. PICK i, j \in Nat : /\ i < j /\ Positions(h, Approved) = {i, j}
                            /\ h[i].actor = v.approvals[1] /\ h[j].actor = v.approvals[2]
    BY <2>7, <2>8 DEF ToldBy, ApprovedIn
  <2>10. PICK r \in Positions(h, Requested) : \A k \in Positions(h, Approved) : r < k
    BY <2>7 DEF ToldBy, RequestedIn
  <2>11. 1 \in DOMAIN v.approvals /\ 2 \in DOMAIN v.approvals
    BY <2>6, <2>8
  <2>12. /\ h[i].actor.actorId # h[j].actor.actorId
         /\ \A e \in {i, j} :
              /\ h[e].actor.tenantId = Tenant /\ h[e].actor.role \in APPROVER_ROLES
              /\ cases[c].device = None \/ h[e].actor.deviceId # cases[c].device
    BY <2>7, <2>9, <2>11 DEF Qualified
  <2>13. r < i /\ j < x /\ i \in Positions(h, Approved) /\ j \in Positions(h, Approved)
    BY <2>8, <2>9, <2>10
  <2>14. QED BY <2>2, <2>3, <2>9, <2>10, <2>12, <2>13
<1>2. QED BY <1>1, CasesAndOverridesTied, TrailAccounts, PTL

-----------------------------------------------------------------------------
(* Notification intents *)

\* How many events of a trail have one of the types.
Made(h, T) == Cardinality({i \in DOMAIN h : h[i].type \in T})

\* The events that are announced with each template.
AnnouncedBy(t) ==
  CASE t = "case_opened" -> {CaseEvent("opened")}
    [] t = "case_state_changed" ->
         {CaseEvent(s) : s \in OperationsCaseState \ {"opened", "expired"}}
    [] t = "approval_requested" -> {Requested}
    [] t = "trust_reset_completed" -> {Executed}

\* One intent for each of these events, case by case.
Agree(n, h) == \A t \in Template : Count(n, t) = Made(h, AnnouncedBy(t))
AllAgree == \A c \in CaseIds : Agree(intents[c], audit[c])

\* Which template announces an event, if one does.
LEMMA Announcements ==
  /\ \A t \in Template : CaseEvent("opened") \in AnnouncedBy(t) <=> t = "case_opened"
  /\ \A t \in Template : \A s \in OperationsCaseState \ {"opened", "expired"} :
       CaseEvent(s) \in AnnouncedBy(t) <=> t = "case_state_changed"
  /\ \A t \in Template : Requested \in AnnouncedBy(t) <=> t = "approval_requested"
  /\ \A t \in Template : Executed \in AnnouncedBy(t) <=> t = "trust_reset_completed"
  /\ \A t \in Template : /\ CaseEvent("expired") \notin AnnouncedBy(t)
                         /\ Approved \notin AnnouncedBy(t) /\ Lapsed \notin AnnouncedBy(t)
BY DEF Template, AnnouncedBy, CaseEvent, ResetEvent, Requested, Approved, Executed, Lapsed

\* One more event counts for the sets of types it is in.
LEMMA MadeGrows ==
  ASSUME NEW h \in Seq(OperationsAuditEvent), NEW e \in OperationsAuditEvent,
         NEW g, Extends(g, h, e), NEW T
  PROVE  Made(g, T) = IF e.type \in T THEN Made(h, T) + 1 ELSE Made(h, T)
<1> DEFINE old == {i \in DOMAIN h : h[i].type \in T}
           new == {i \in DOMAIN g : g[i].type \in T}
           n == Len(h)
<1>1. /\ n \in Nat /\ DOMAIN h = 1 .. n /\ DOMAIN g = 1 .. (n + 1)
      /\ \A i \in 1 .. n : g[i] = h[i]
      /\ g[n + 1] = e
  BY TrailFacts
<1> HIDE DEF n
<1>2. IsFiniteSet(old)
  <2>1. IsFiniteSet(1 .. n)
    BY <1>1, FS_Interval
  <2>2. QED BY <1>1, <2>1, FS_Subset
<1>3. CASE e.type \in T
  <2>1. new = old \cup {n + 1}
    BY <1>1, <1>3
  <2>2. n + 1 \notin old
    BY <1>1
  <2>3. Cardinality(old \cup {n + 1}) = Cardinality(old) + 1
    BY <1>2, <2>2, FS_AddElement
  <2>4. QED BY <1>3, <2>1, <2>3 DEF Made
<1>4. CASE e.type \notin T
  <2>1. new = old
    BY <1>1, <1>4
  <2>2. QED BY <1>4, <2>1 DEF Made
<1>5. QED BY <1>3, <1>4

\* An event that no template announces, and one with its intent.
LEMMA QuietEvent ==
  ASSUME NEW h \in Seq(OperationsAuditEvent), NEW e \in OperationsAuditEvent,
         NEW g, Extends(g, h, e), NEW n, Agree(n, h),
         \A t \in Template : e.type \notin AnnouncedBy(t)
  PROVE  Agree(n, g)
BY MadeGrows DEF Agree

\* One event and its one intent keep the counts equal.
LEMMA AnnouncedEvent ==
  ASSUME NEW h \in Seq(OperationsAuditEvent), NEW e \in OperationsAuditEvent,
         NEW g, Extends(g, h, e), NEW n \in Seq(Template), NEW t \in Template,
         Agree(n, h),
         \A u \in Template : e.type \in AnnouncedBy(u) <=> u = t
  PROVE  Agree(Append(n, t), g)
<1>1. ASSUME NEW u \in Template
      PROVE  Count(Append(n, t), u) = Made(g, AnnouncedBy(u))
  <2>1. Count(Append(n, t), u) = IF u = t THEN Count(n, u) + 1 ELSE Count(n, u)
    BY HistoryGrows
  <2>2. Made(g, AnnouncedBy(u)) =
          IF e.type \in AnnouncedBy(u) THEN Made(h, AnnouncedBy(u)) + 1
                                       ELSE Made(h, AnnouncedBy(u))
    BY MadeGrows
  <2>3. Count(n, u) = Made(h, AnnouncedBy(u))
    BY DEF Agree
  <2>4. QED BY <2>1, <2>2, <2>3
<1>2. QED BY <1>1 DEF Agree

\* Every step makes as many intents as events that call for one.
LEMMA AllAgreeKept ==
  ASSUME TypeOK, Tied, AllAgree, [Next]_vars
  PROVE  AllAgree'
<1> USE Announcements, EventFacts
<1>1. Kinds
  BY StepKinds
<1>2. CASE UNCHANGED store
  BY <1>2 DEF store, AllAgree
<1>3. \A c \in CaseIds : /\ audit[c] \in Seq(OperationsAuditEvent)
                         /\ intents[c] \in Seq(Template) /\ Agree(intents[c], audit[c])
  BY DEF TypeOK, AllAgree
<1>4. ASSUME NEW c \in CaseIds, NEW a \in Actors \cup {System},
             NEW type \in EventType, NEW proof \in ProofMethods \cup {None},
             Logs(c, type, a, proof), UNCHANGED intents,
             \A t \in Template : type \notin AnnouncedBy(t)
      PROVE  AllAgree'
  <2>1. PICK e \in OperationsAuditEvent : e.type = type /\ Extends(audit'[c], audit[c], e)
    BY <1>4, LogExtends
  <2>2. \A d \in CaseIds : d # c => audit'[d] = audit[d]
    BY <1>4, LogExtends
  <2>3. Agree(intents[c], audit'[c])
    BY <1>3, <1>4, <2>1, QuietEvent
  <2>4. QED BY <1>3, <1>4, <2>2, <2>3 DEF AllAgree
<1>5. ASSUME NEW c \in CaseIds, NEW a \in Actors \cup {System},
             NEW type \in EventType, NEW proof \in ProofMethods \cup {None},
             Logs(c, type, a, proof), NEW t \in Template, Announces(c, t),
             \A u \in Template : type \in AnnouncedBy(u) <=> u = t
      PROVE  AllAgree'
  <2>1. PICK e \in OperationsAuditEvent : e.type = type /\ Extends(audit'[c], audit[c], e)
    BY <1>5, LogExtends
  <2>2. \A d \in CaseIds : d # c => audit'[d] = audit[d] /\ intents'[d] = intents[d]
    <3>1. \A d \in CaseIds : d # c => audit'[d] = audit[d]
      BY <1>5, LogExtends
    <3>2. \A d \in CaseIds : d # c => intents'[d] = intents[d]
      BY <1>5 DEF Announces, TypeOK
    <3>3. QED BY <3>1, <3>2
  <2>3. intents'[c] = Append(intents[c], t)
    BY <1>5 DEF Announces, TypeOK
  <2>4. Agree(Append(intents[c], t), audit'[c])
    BY <1>3, <1>5, <2>1, AnnouncedEvent
  <2>5. QED BY <1>3, <2>2, <2>3, <2>4 DEF AllAgree
<1>6. ASSUME NEW c \in CaseIds, Expires(c) PROVE AllAgree'
  <2>1. CaseEvent("expired") \in EventType
    BY DEF EventType, OperationsCaseState, Terminal
  <2>2. QED BY <1>4, <1>6, <2>1 DEF Expires
<1>7. ASSUME NEW c \in CaseIds, NEW a \in Actors, Opens(c, a) PROVE AllAgree'
  <2>1. CaseEvent("opened") \in EventType /\ "case_opened" \in Template
    BY DEF EventType, OperationsCaseState, Template
  <2>2. QED BY <1>5, <1>7, <2>1 DEF Opens
<1>8. ASSUME NEW c \in CaseIds, NEW a \in Actors, NEW next \in OperationsCaseState,
             NEW proof \in ProofMethods \cup {None}, Changes(c, a, next, proof)
      PROVE  AllAgree'
  <2>1. /\ CaseEvent(next) \in EventType /\ "case_state_changed" \in Template
        /\ next \in OperationsCaseState \ {"opened", "expired"}
        /\ Logs(c, CaseEvent(next), a, proof) /\ Announces(c, "case_state_changed")
    BY <1>8 DEF EventType, Template, Changes
  <2>2. QED BY <1>5, <2>1
<1>9. ASSUME NEW c \in CaseIds, NEW o \in OverrideIds, Lapses(c, o) PROVE AllAgree'
  <2>1. Logs(c, Lapsed, System, None) /\ UNCHANGED intents
    BY <1>9 DEF Lapses, Lapsed
  <2>2. QED BY <1>4, <2>1
<1>10. ASSUME NEW c \in CaseIds, NEW o \in OverrideIds, NEW a \in Actors, Requests(c, o, a)
       PROVE  AllAgree'
  <2>1. /\ Logs(c, Requested, a, None) /\ Announces(c, "approval_requested")
        /\ "approval_requested" \in Template
    BY <1>10 DEF Requests, Requested, Template
  <2>2. QED BY <1>5, <2>1
<1>11. ASSUME NEW c \in CaseIds, NEW o \in OverrideIds, NEW a \in Actors, Approves(c, o, a)
       PROVE  AllAgree'
  <2>1. Logs(c, Approved, a, None) /\ UNCHANGED intents
    BY <1>11 DEF Approves, Approved
  <2>2. QED BY <1>4, <2>1
<1>12. ASSUME NEW c \in CaseIds, NEW o \in OverrideIds, NEW a \in Actors, Executes(c, o, a)
       PROVE  AllAgree'
  <2>1. PICK e \in OperationsAuditEvent : e.type = Approved /\ e = Event(Approved, a, None)
    BY EventTypes DEF Event
  <2>2. PICK f \in OperationsAuditEvent :
          f.type = Executed /\ f = Event(Executed, System, None)
    BY EventTypes DEF Event
  <2>3. PICK h \in Seq(OperationsAuditEvent) : h = audit[c]
    BY <1>3
  <2>4. PICK mid \in Seq(OperationsAuditEvent) : Extends(mid, h, e)
    <3>1. Append(h, e) \in Seq(OperationsAuditEvent)
      BY <2>3
    <3>2. QED BY <3>1 DEF Extends
  <2>5. /\ Extends(audit'[c], mid, f)
        /\ \A d \in CaseIds : d # c => audit'[d] = audit[d]
    <3>1. audit' = [audit EXCEPT ![c] = Append(Append(audit[c], e), f)]
      BY <1>12, <2>1, <2>2 DEF Executes, Approved, Executed
    <3>2. /\ audit'[c] = Append(Append(audit[c], e), f)
          /\ \A d \in CaseIds : d # c => audit'[d] = audit[d]
      BY <3>1 DEF TypeOK
    <3>3. QED BY <2>3, <2>4, <3>2 DEF Extends
  <2>6. Agree(intents[c], mid)
    BY <1>3, <2>1, <2>3, <2>4, QuietEvent
  <2>7. PICK t \in Template : t = "trust_reset_completed"
    BY DEF Template
  <2>8. /\ intents'[c] = Append(intents[c], t)
        /\ \A d \in CaseIds : d # c => intents'[d] = intents[d]
    BY <1>12, <2>7 DEF Executes, Announces, TypeOK
  <2>9. Agree(Append(intents[c], t), audit'[c])
    BY <1>3, <2>2, <2>4, <2>5, <2>6, <2>7, AnnouncedEvent
  <2>10. QED BY <1>3, <2>5, <2>8, <2>9 DEF AllAgree
<1>13. QED BY <1>1, <1>2, <1>6, <1>7, <1>8, <1>9, <1>10, <1>11, <1>12 DEF Kinds

\* Every opening, change of state, request and completion has exactly one
\* notification intent, and an approval and an expiry have none.
THEOREM ChangesAreAnnounced == Spec => []IntentsAgree
<1>1. Init => AllAgree
  <2>1. \A T : Made(<<>>, T) = 0
    <3>1. \A T : {i \in DOMAIN <<>> : <<>>[i].type \in T} = {}
      OBVIOUS
    <3>2. QED BY <3>1, FS_EmptySet, Zenon DEF Made
  <2>2. Agree(<<>>, <<>>)
    BY <2>1, NothingInEmpty DEF Agree
  <2>3. QED BY <2>2 DEF Init, AllAgree
<1>2. TypeOK /\ Tied /\ AllAgree /\ [Next]_vars => AllAgree'
  BY AllAgreeKept
<1>3. TypeOK /\ AllAgree => IntentsAgree
  <2>1. /\ AnnouncedBy("case_opened") = {CaseEvent("opened")}
        /\ AnnouncedBy("case_state_changed") =
             {CaseEvent(s) : s \in OperationsCaseState \ {"opened", "expired"}}
        /\ AnnouncedBy("approval_requested") = {ResetEvent("requested")}
        /\ AnnouncedBy("trust_reset_completed") = {ResetEvent("executed")}
        /\ "case_opened" \in Template /\ "case_state_changed" \in Template
        /\ "approval_requested" \in Template /\ "trust_reset_completed" \in Template
    BY DEF AnnouncedBy, Template, Requested, Executed
  <2>2. ASSUME AllAgree, NEW c \in CaseIds
        PROVE  /\ Count(intents[c], "case_opened") = Made(audit[c], {CaseEvent("opened")})
               /\ Count(intents[c], "case_state_changed") =
                    Made(audit[c], {CaseEvent(s) :
                           s \in OperationsCaseState \ {"opened", "expired"}})
               /\ Count(intents[c], "approval_requested") =
                    Made(audit[c], {ResetEvent("requested")})
               /\ Count(intents[c], "trust_reset_completed") =
                    Made(audit[c], {ResetEvent("executed")})
    BY <2>1, <2>2, Zenon DEF AllAgree, Agree
  <2>3. QED BY <2>2 DEF IntentsAgree, Announced, Count, Made
<1>4. QED BY <1>1, <1>2, <1>3, CasesAndOverridesTied, PTL DEF Spec

=============================================================================
