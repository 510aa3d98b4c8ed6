----------------------------- MODULE AirlockEngine -----------------------------
(***************************************************************************)
(* apps/issuer-simulator/airlockEngine.ts: the issuer's aggregates         *)
(* (trusted devices, payment tokens with their provisioning request,       *)
(* transactions, daily spend) over the challenge store and the lifecycle   *)
(* graphs.  The engine is synchronous JavaScript: every method is one      *)
(* atomic step.  A method that throws before changing anything is not a    *)
(* step; a method that throws after changing something is an action of its *)
(* own (LateApproval, SpentApproval, ExpireAfterDecision).                 *)
(*                                                                         *)
(* Abstractions.  A token has exactly one provisioning request and         *)
(* requestProvisioning refuses a used token id, so a request is named by   *)
(* its token.  A challenge is named by its aggregate.  accountId,          *)
(* merchantId, currency and strategy influence no state and are left out.  *)
(* The audit log is one sequence of events per correlation id (the order   *)
(* between different correlation ids is dropped); its hash chain is not    *)
(* part of this module.                                                    *)
(***************************************************************************)
EXTENDS ChallengeStore, Lifecycles, Sequences, FiniteSetsExt

CONSTANTS
  Devices, Subjects, KeyIds, PublicKeys,
  Tokens, Transactions,
  Caps,                \* caps a caller may ask for (capMinor)
  Amounts,             \* amounts a caller may authorize (amountMinor)
  ProvisioningTtl,     \* 120 000 ms in the code
  TransactionTtl,      \* 30 000 ms in the code
  DayLength,           \* instants per calendar day
  MaxTime,             \* bound: the last instant of the model
  MaxDeviceEvents,     \* bound: lifecycle events of one device
  CallerClock          \* TRUE: callers pass any `now`; FALSE: `new Date()`

VARIABLES
  devices,        \* [Devices -> [status, subject, keyId, publicKey]]
  tokens,         \* [Tokens -> [state, subject, cap]]
  provisioning,   \* [Tokens -> [state, device]]
  transactions,   \* [Transactions -> [state, token, amount, device, reserved]]
  dailySpend,     \* [Tokens \X Day -> Nat], 0 where the map has no entry
  audit,          \* [correlation id -> Seq(Event)]
  issuedEpoch,    \* history: device events before each challenge was issued
  clock           \* the wall clock that `new Date()` reads

vars == <<challenges, devices, tokens, provisioning, transactions, dailySpend,
          audit, issuedEpoch, clock>>

Time == 0 .. MaxTime
DayOf(now) == now \div DayLength
Day == 0 .. DayOf(MaxTime)

ASSUME ConstantsAssumption ==
  /\ ChallengeIds = Tokens \cup Transactions
  /\ Tokens \cap Transactions = {}
  /\ Devices \cap ChallengeIds = {}
  /\ None \notin Devices \cup Subjects \cup KeyIds \cup PublicKeys
                   \cup Tokens \cup Nat
  /\ Caps \subseteq Nat \ {0} /\ Amounts \subseteq Nat \ {0}
  /\ ProvisioningTtl \in Nat \ {0} /\ TransactionTtl \in Nat \ {0}
  /\ DayLength \in Nat \ {0} /\ MaxTime \in Nat /\ MaxDeviceEvents \in Nat \ {0}
  /\ CallerClock \in BOOLEAN

-----------------------------------------------------------------------------
(* Types *)

DeviceRecord ==
  [status : {"absent", "active", "revoked"}, subject : Subjects \cup {None},
   keyId : KeyIds \cup {None}, publicKey : PublicKeys \cup {None}]

TokenRecord ==
  [state : {"absent", "pending", "active_capped", "active_full", "declined"},
   subject : Subjects \cup {None}, cap : Nat]

RequestRecord ==
  [state : ProvisioningState \cup {"absent"}, device : Devices \cup {None}]

\* reserved is the day of capReservation.spendKey; the reservation's token and
\* amount are the transaction's.
TransactionRecord ==
  [state : TransactionState \cup {"absent"}, token : Tokens \cup {None},
   amount : Nat, device : Devices \cup {None}, reserved : Day \cup {None}]

\* An audit event: its type, the challenge ids it names and, where the code
\* records one, the resulting state.
EventType ==
  {"trusted_device.enrolled", "trusted_device.revoked",
   "trusted_device.compromised", "trusted_device.key_rotated",
   "provisioning.challenge_created", "provisioning.approved",
   "transaction.confirmation_pending", "transaction.confirmed",
   "transaction.reversed_after_timeout", "transaction.clearing_received"}

EventResult == {"active", "revoked", "pending", "capped", "full"}
                 \cup TransactionState

Event ==
  [type : EventType, named : SUBSET ChallengeIds, result : EventResult]

TypeOK ==
  /\ challenges \in [ChallengeIds -> ChallengeRecord]
  /\ devices \in [Devices -> DeviceRecord]
  /\ tokens \in [Tokens -> TokenRecord]
  /\ provisioning \in [Tokens -> RequestRecord]
  /\ transactions \in [Transactions -> TransactionRecord]
  /\ dailySpend \in [Tokens \X Day -> Nat]
  /\ audit \in [Devices \cup ChallengeIds -> Seq(Event)]
  /\ issuedEpoch \in [ChallengeIds -> Nat]
  /\ clock \in Time

Init ==
  /\ challenges = [c \in ChallengeIds |-> Unissued]
  /\ devices = [d \in Devices |-> [status |-> "absent", subject |-> None,
                                   keyId |-> None, publicKey |-> None]]
  /\ tokens = [t \in Tokens |-> [state |-> "absent", subject |-> None,
                                 cap |-> 0]]
  /\ provisioning = [t \in Tokens |-> [state |-> "absent", device |-> None]]
  /\ transactions = [x \in Transactions |->
                       [state |-> "absent", token |-> None, amount |-> 0,
                        device |-> None, reserved |-> None]]
  /\ dailySpend = [k \in Tokens \X Day |-> 0]
  /\ audit = [a \in Devices \cup ChallengeIds |-> <<>>]
  /\ issuedEpoch = [c \in ChallengeIds |-> 0]
  /\ clock = 0

-----------------------------------------------------------------------------
(* Helpers *)

\* The values of `now` a call may see.
Instants == IF CallerClock THEN Time ELSE {clock}

\* audit.append(type, correlation, ...)
Log(a, type, named, result) ==
  audit' = [audit EXCEPT ![a] =
              Append(@, [type |-> type, named |-> named, result |-> result])]

\* The device an aggregate's challenge is bound to.
DeviceOf(c) ==
  IF c \in Tokens THEN provisioning[c].device ELSE transactions[c].device

\* The aggregate is waiting for its approval.
Pending(c) ==
  IF c \in Tokens THEN provisioning[c].state = "trusted_device_challenge"
                  ELSE transactions[c].state = "confirmation_pending"

requireActiveDevice(d) == d # None /\ devices[d].status = "active"

\* Faulty: a revoked device no longer blocks its key id.
KeyIdFreeAmongActive(k, except) ==
  \A d \in Devices \ {except} :
    devices[d].status = "active" => devices[d].keyId # k

assertKeyIdAvailable(k, except) ==
  \A d \in Devices \ {except} : devices[d].keyId # k

assertPublicKeyAvailable(p, except) ==
  \A d \in Devices \ {except} : devices[d].publicKey # p

\* Math.max(0, a - b), for natural numbers.
Less(a, b) == IF b \in 0 .. a THEN a - b ELSE 0

\* The sum of S's cap reservations under the spend key of a token and a day.
ReservedAmount(S, t, day) ==
  MapThenSumSet(LAMBDA x : transactions[x].amount,
                {x \in S : /\ transactions[x].token = t
                           /\ transactions[x].reserved = day})

\* Faulty: subtracts the amount whether or not it was reserved.
UncheckedRelease(S) ==
  [k \in Tokens \X Day |->
     dailySpend[k] - MapThenSumSet(LAMBDA x : transactions[x].amount,
                                   {x \in S : transactions[x].token = k[1]})]

\* releaseCapReservation for each transaction of S: what dailySpend becomes.
releaseCapReservation(S) ==
  [k \in Tokens \X Day |->
     Less(dailySpend[k], ReservedAmount(S, k[1], k[2]))]

\* Faulty: the released reservation stays on the transaction.
KeepsReservation(x, state) == [transactions[x] EXCEPT !.state = state]

\* A transaction moved to a state that gives its reservation back.
Released(x, state) ==
  [transactions[x] EXCEPT !.state = state, !.reserved = None]

-----------------------------------------------------------------------------
(* Trusted devices *)

enrollTrustedDevice(d, s, k, p) ==
  /\ devices[d].status = "absent"
  /\ assertKeyIdAvailable(k, None)
  /\ assertPublicKeyAvailable(p, None)
  /\ devices' = [devices EXCEPT ![d] = [status |-> "active", subject |-> s,
                                        keyId |-> k, publicKey |-> p]]
  /\ Log(d, "trusted_device.enrolled", {}, "active")
  /\ UNCHANGED <<challenges, tokens, provisioning, transactions, dailySpend,
                 issuedEpoch, clock>>

\* Faulty: forgets the provisioning requests.
OutstandingTransactionsAt(d) ==
  {c \in Transactions : DeviceOf(c) = d /\ Pending(c)}

\* Faulty: forgets to filter by device.
OutstandingAnywhere(d) ==
  {c \in ChallengeIds : DeviceOf(c) # None /\ Pending(c)}

\* The aggregates waiting for an approval by device d.
OutstandingAt(d) == {c \in ChallengeIds : DeviceOf(c) = d /\ Pending(c)}

\* Phase one of invalidateOutstandingChallenges: nothing has been changed when
\* it finds a challenge that is not issued yet at `now`.
PlanIsValid(d, now) ==
  \A c \in OutstandingAt(d) :
    challenges[c].status = "created" => now >= challenges[c].issuedAt

\* Faulty: does not reconcile aggregates whose challenge already expired.
InvalidatedCreatedAt(d) ==
  {c \in OutstandingAt(d) : challenges[c].status = "created"}

\* Phase two declines all of them but the ones whose challenge is confirmed.
InvalidatedAt(d) ==
  {c \in OutstandingAt(d) : challenges[c].status # "confirmed"}

\* Faulty: the token of a declined request stays pending.
StaysPending(t) == tokens[t]

\* The token of a request that is declined.
Declined(t) == [tokens[t] EXCEPT !.state = "declined"]

invalidateOutstandingChallenges(d, now) ==
  /\ PlanIsValid(d, now)
  /\ challenges' =
       [c \in ChallengeIds |->
          IF c \in InvalidatedAt(d) /\ CancelAllowed(c, now)
            THEN Cancelled(challenges[c], now) ELSE challenges[c]]
  /\ provisioning' =
       [t \in Tokens |->
          IF t \in InvalidatedAt(d)
            THEN [provisioning[t] EXCEPT !.state = "declined"]
            ELSE provisioning[t]]
  /\ tokens' =
       [t \in Tokens |->
          IF t \in InvalidatedAt(d) /\ tokens[t].state = "pending"
            THEN Declined(t) ELSE tokens[t]]
  /\ transactions' =
       [x \in Transactions |->
          IF x \in InvalidatedAt(d) THEN Released(x, "declined")
                                    ELSE transactions[x]]
  /\ dailySpend' =
       releaseCapReservation(InvalidatedAt(d) \cap Transactions)

\* revokeTrustedDevice and markTrustedDeviceCompromised, which differ in the
\* audit event only.
retireTrustedDevice(d, now, type) ==
  /\ requireActiveDevice(d)
  /\ invalidateOutstandingChallenges(d, now)
  /\ devices' = [devices EXCEPT ![d].status = "revoked"]
  /\ Log(d, type, InvalidatedAt(d), "revoked")
  /\ UNCHANGED <<issuedEpoch, clock>>

revokeTrustedDevice(d, now) ==
  retireTrustedDevice(d, now, "trusted_device.revoked")

markTrustedDeviceCompromised(d, now) ==
  retireTrustedDevice(d, now, "trusted_device.compromised")

rotateTrustedDeviceKey(d, k, p, now) ==
  /\ Len(audit[d]) < MaxDeviceEvents
  /\ requireActiveDevice(d)
  /\ k # devices[d].keyId
  /\ assertKeyIdAvailable(k, d)
  /\ p # devices[d].publicKey
  /\ assertPublicKeyAvailable(p, d)
  /\ invalidateOutstandingChallenges(d, now)
  /\ devices' = [devices EXCEPT ![d].keyId = k, ![d].publicKey = p]
  /\ Log(d, "trusted_device.key_rotated", InvalidatedAt(d), "active")
  /\ UNCHANGED <<issuedEpoch, clock>>

-----------------------------------------------------------------------------
(* Provisioning *)

requestProvisioning(t, s, d, cap, now) ==
  /\ tokens[t].state = "absent"
  /\ requireActiveDevice(d)
  /\ devices[d].subject = s
  /\ tokens' = [tokens EXCEPT ![t] = [state |-> "pending", subject |-> s,
                                      cap |-> cap]]
  /\ provisioning' = [provisioning EXCEPT
                        ![t] = [state |-> "trusted_device_challenge",
                                device |-> d]]
  /\ challenges' = [challenges EXCEPT ![t] = Created(now, ProvisioningTtl)]
  /\ issuedEpoch' = [issuedEpoch EXCEPT ![t] = Len(audit[d])]
  /\ Log(t, "provisioning.challenge_created", {t}, "pending")
  /\ UNCHANGED <<devices, transactions, dailySpend, clock>>

\* The aggregate's lifecycle admits an approval.
Approvable(a) ==
  IF a \in Tokens THEN transitionProvisioning(provisioning[a].state, "approved")
                  ELSE transitionTransaction(transactions[a].state, "confirmed")

\* An approval submitted for aggregate a under the current key id of a's
\* device.  Its binding may name any challenge c: consume compares it with the
\* record of that challenge, and nobody compares c with a's own challenge.
ApprovalReaches(a) == DeviceOf(a) # None /\ requireActiveDevice(DeviceOf(a))

ExpectedKey(a) == devices[DeviceOf(a)].publicKey

approveProvisioning(t, c, signer, now, activation) ==
  /\ ApprovalReaches(t)
  /\ ConsumeConfirms(c, signer, ExpectedKey(t), now)
  /\ Approvable(t)
  /\ challenges' = [challenges EXCEPT ![c] = Confirmed(@, now)]
  /\ provisioning' = [provisioning EXCEPT ![t].state =
                        IF activation = "capped" THEN "token_active_capped"
                                                 ELSE "token_active_full"]
  /\ tokens' = [tokens EXCEPT
       ![t].state = IF activation = "capped" THEN "active_capped"
                                             ELSE "active_full",
       ![t].cap = IF activation = "capped" THEN @ ELSE 0]
  /\ Log(t, "provisioning.approved", {c}, activation)
  /\ UNCHANGED <<devices, transactions, dailySpend, issuedEpoch, clock>>

-----------------------------------------------------------------------------
(* Transactions *)

\* Faulty: compares the total before the new amount is added.
FitsCapBefore(t, day, amount) ==
  amount <= tokens[t].cap /\ dailySpend[<<t, day>>] <= 2 * tokens[t].cap

\* The per-transaction cap and the daily cap of a capped token admit amount.
FitsCap(t, day, amount) ==
  amount <= tokens[t].cap /\ dailySpend[<<t, day>>] + amount <= 2 * tokens[t].cap

\* authorize reads the clock twice when the caller passes no `now`: once for
\* the spend key's day, once for the challenge's issue time.
authorize(x, t, d, amount, now, issuedAt) ==
  LET capped == tokens[t].state = "active_capped"
      key == <<t, DayOf(now)>>
  IN
  /\ transactions[x].state = "absent"
  /\ tokens[t].state \in {"active_capped", "active_full"}
  /\ requireActiveDevice(d)
  /\ devices[d].subject = tokens[t].subject
  /\ capped => FitsCap(t, DayOf(now), amount)
  /\ dailySpend' = IF capped THEN [dailySpend EXCEPT ![key] = @ + amount]
                             ELSE dailySpend
  /\ challenges' = [challenges EXCEPT
                      ![x] = Created(issuedAt, TransactionTtl)]
  /\ transactions' = [transactions EXCEPT
       ![x] = [state |-> "confirmation_pending", token |-> t,
               amount |-> amount, device |-> d,
               reserved |-> IF capped THEN DayOf(now) ELSE None]]
  /\ issuedEpoch' = [issuedEpoch EXCEPT ![x] = Len(audit[d])]
  /\ clock' = IF CallerClock THEN clock ELSE issuedAt
  /\ Log(x, "transaction.confirmation_pending", {x}, "confirmation_pending")
  /\ UNCHANGED <<devices, tokens, provisioning>>

confirmTransaction(x, c, signer, now) ==
  /\ ApprovalReaches(x)
  /\ ConsumeConfirms(c, signer, ExpectedKey(x), now)
  /\ Approvable(x)
  /\ challenges' = [challenges EXCEPT ![c] = Confirmed(@, now)]
  /\ transactions' = [transactions EXCEPT ![x].state = "confirmed"]
  /\ Log(x, "transaction.confirmed", {c}, "confirmed")
  /\ UNCHANGED <<devices, tokens, provisioning, dailySpend, issuedEpoch, clock>>

expireAndReverse(x, now) ==
  /\ CancelAllowed(x, now)
  /\ transitionTransaction(transactions[x].state, "expired")
  /\ challenges' = [challenges EXCEPT ![x] = Cancelled(@, now)]
  /\ transactions' = [transactions EXCEPT ![x] = Released(x, "reversed")]
  /\ dailySpend' = releaseCapReservation({x})
  /\ Log(x, "transaction.reversed_after_timeout", {}, "reversed")
  /\ UNCHANGED <<devices, tokens, provisioning, issuedEpoch, clock>>

receiveClearing(x) ==
  LET reversedBeforeClearing ==
        transactions[x].state \in {"expired", "reversal_requested", "reversed"}
      final == IF reversedBeforeClearing THEN "exception" ELSE "settled"
  IN
  /\ transitionTransaction(transactions[x].state, "clearing_received")
  /\ transactions' = [transactions EXCEPT ![x].state = final]
  /\ Log(x, "transaction.clearing_received", {}, final)
  /\ UNCHANGED <<challenges, devices, tokens, provisioning, dailySpend,
                 issuedEpoch, clock>>

-----------------------------------------------------------------------------
(* Calls that throw after they changed something *)

\* approveProvisioning or confirmTransaction for aggregate a after the
\* deadline: the challenge becomes expired, the aggregate stays as it is.
LateApproval(a, c, now) ==
  /\ ApprovalReaches(a)
  /\ ConsumeExpires(c, now)
  /\ challenges' = [challenges EXCEPT ![c] = Expired(@)]
  /\ UNCHANGED <<devices, tokens, provisioning, transactions, dailySpend,
                 audit, issuedEpoch, clock>>

\* The same calls for an aggregate that is no longer pending: the challenge is
\* consumed before the lifecycle transition throws.
SpentApproval(a, c, signer, now) ==
  /\ ApprovalReaches(a)
  /\ ConsumeConfirms(c, signer, ExpectedKey(a), now)
  /\ ~Approvable(a)
  /\ challenges' = [challenges EXCEPT ![c] = Confirmed(@, now)]
  /\ UNCHANGED <<devices, tokens, provisioning, transactions, dailySpend,
                 audit, issuedEpoch, clock>>

\* expireAndReverse for a transaction that is no longer pending: the challenge
\* is cancelled before the lifecycle transition throws.
ExpireAfterDecision(x, now) ==
  /\ CancelAllowed(x, now)
  /\ ~transitionTransaction(transactions[x].state, "expired")
  /\ challenges' = [challenges EXCEPT ![x] = Cancelled(@, now)]
  /\ UNCHANGED <<devices, tokens, provisioning, transactions, dailySpend,
                 audit, issuedEpoch, clock>>

Tick ==
  /\ ~CallerClock
  /\ clock < MaxTime
  /\ clock' = clock + 1
  /\ UNCHANGED <<challenges, devices, tokens, provisioning, transactions,
                 dailySpend, audit, issuedEpoch>>

-----------------------------------------------------------------------------

DeviceNext ==
  \E d \in Devices :
    \/ \E s \in Subjects, k \in KeyIds, p \in PublicKeys :
         enrollTrustedDevice(d, s, k, p)
    \/ \E now \in Instants :
         \/ revokeTrustedDevice(d, now)
         \/ markTrustedDeviceCompromised(d, now)
         \/ \E k \in KeyIds, p \in PublicKeys :
              rotateTrustedDeviceKey(d, k, p, now)

ApprovalNext ==
  \E a, c \in ChallengeIds, now \in Instants :
    \/ LateApproval(a, c, now)
    \/ \E signer \in PublicKeys :
         \/ SpentApproval(a, c, signer, now)
         \/ /\ a \in Tokens
            /\ \E activation \in {"capped", "full"} :
                 approveProvisioning(a, c, signer, now, activation)
         \/ /\ a \in Transactions
            /\ confirmTransaction(a, c, signer, now)

\* When `new Date()` is read twice the second reading may be later.
IssueInstants(now) == IF CallerClock THEN {now} ELSE {now, now + 1} \cap Time

TransactionNext ==
  \E x \in Transactions :
    \/ receiveClearing(x)
    \/ \E now \in Instants :
         \/ expireAndReverse(x, now)
         \/ ExpireAfterDecision(x, now)
         \/ \E t \in Tokens, d \in Devices, amount \in Amounts,
              issuedAt \in IssueInstants(now) :
              authorize(x, t, d, amount, now, issuedAt)

ProvisioningNext ==
  \E t \in Tokens, s \in Subjects, d \in Devices, cap \in Caps,
     now \in Instants :
    requestProvisioning(t, s, d, cap, now)

Next ==
  DeviceNext \/ ProvisioningNext \/ ApprovalNext \/ TransactionNext \/ Tick

Spec == Init /\ [][Next]_vars

-----------------------------------------------------------------------------
(* What AirlockEngine.restore demands of a snapshot.  The clauses on        *)
(* devices, on the sum of the daily spend and on the links between the maps *)
(* hold (RestoreDevices, RestoreSpend, AggregatesLinked), as does           *)
(* ChallengeStore.restore's part with the wall clock (RestoreChallenges).   *)
(* Three do not: that a reservation is booked on the day of its challenge   *)
(* (BookedOnIssueDay), that what was accepted has a confirmed challenge     *)
(* (AcceptedByOwnChallenge), and that what is pending has a created one,    *)
(* which a late approval makes expired and a misdirected one confirmed      *)
(* (ClosedForGood states what is left of it).                               *)

\* No two devices of a snapshot share a key id or key material.
RestoreDevices ==
  \A d, e \in Devices :
    /\ d # e /\ devices[d].status # "absent" /\ devices[e].status # "absent"
    => /\ devices[d].keyId # devices[e].keyId
       /\ devices[d].publicKey # devices[e].publicKey

\* "invalid cap reservation snapshot" (airlockEngine.ts:251): every reservation
\* is booked on the day its challenge was issued.  Refuted: authorize reads
\* the clock once for each, and midnight may come in between.
BookedOnIssueDay ==
  \A x \in Transactions :
    transactions[x].reserved # None =>
      transactions[x].reserved = DayOf(challenges[x].issuedAt)

\* Daily spend belongs to capped tokens, the reservations add up to it over any
\* authorizations, reversals and invalidations, and a reservation is booked on
\* the day of the instant its challenge was issued or of the instant before:
\* the day is wrong only if midnight came between authorize's two readings.
RestoreSpend ==
  /\ \A x \in Transactions :
       transactions[x].reserved # None =>
         transactions[x].reserved \in
           {DayOf(challenges[x].issuedAt), DayOf(Less(challenges[x].issuedAt, 1))}
  /\ \A t \in Tokens, day \in Day :
       /\ dailySpend[<<t, day>>] > 0 => tokens[t].state = "active_capped"
       /\ dailySpend[<<t, day>>] = ReservedAmount(Transactions, t, day)

-----------------------------------------------------------------------------
(* Safety *)

\* INV-07: the day's reservations of a capped token never exceed its daily
\* cap, over any sequence of authorizations, reversals and invalidations.
SpendWithinCap ==
  \A t \in Tokens, day \in Day :
    tokens[t].state = "active_capped" => dailySpend[<<t, day>>] <= 2 * tokens[t].cap

\* The engine's maps agree: a token and its request are in corresponding
\* states, every aggregate has a challenge and a device from the step that
\* creates it, and no lifecycle state that an operation passes through
\* (approved, expired, reversal_requested, clearing_received) is left behind
\* when it returns or throws.
AggregatesLinked ==
  /\ \A t \in Tokens :
       /\ <<tokens[t].state, provisioning[t].state>> \in
            {<<"absent", "absent">>, <<"pending", "trusted_device_challenge">>,
             <<"active_capped", "token_active_capped">>,
             <<"active_full", "token_active_full">>, <<"declined", "declined">>}
       /\ tokens[t].state = "absent" <=> challenges[t].status = "unissued"
       /\ tokens[t].state = "absent" <=> provisioning[t].device = None
  /\ \A x \in Transactions :
       /\ transactions[x].state \in
            {"absent", "confirmation_pending", "confirmed", "declined",
             "reversed", "settled", "exception"}
       /\ transactions[x].state = "absent" <=> challenges[x].status = "unissued"
       /\ transactions[x].state = "absent" <=> transactions[x].device = None

\* A consumable challenge of a pending aggregate belongs to a device that is
\* active and has seen no lifecycle event since it was issued: an approval
\* made before a rotation or revocation can never be accepted after it, even
\* when a later rotation brings the old key back.
PendingIsCurrent ==
  \A c \in ChallengeIds :
    Pending(c) /\ challenges[c].status = "created" =>
      /\ devices[DeviceOf(c)].status = "active"
      /\ issuedEpoch[c] = Len(audit[DeviceOf(c)])

\* Revoking a device leaves none of its requests or transactions pending, so
\* that none keeps a cap reservation nothing can release, but for those whose
\* challenge a misdirected approval has spent: invalidateOutstandingChallenges
\* skips an aggregate with a confirmed challenge (airlockEngine.ts:699, 710).
RevokedIsQuiet ==
  \A c \in ChallengeIds :
    DeviceOf(c) # None /\ Pending(c) /\ challenges[c].status # "confirmed" =>
      devices[DeviceOf(c)].status = "active"

\* A token is active, a transaction confirmed or settled.
Accepted(a) ==
  IF a \in Tokens THEN tokens[a].state \in {"active_capped", "active_full"}
                  ELSE transactions[a].state \in {"confirmed", "settled"}

\* INV-02, "approval is valid only for the exact canonical binding originally
\* issued": what was accepted was accepted through the challenge issued for
\* it.  Refuted: an approval bound to another aggregate's challenge is taken.
AcceptedByOwnChallenge ==
  \A a \in ChallengeIds : Accepted(a) => challenges[a].status = "confirmed"

\* The challenges that the approvals of aggregate a consumed.
ApprovedBy(a) ==
  UNION {audit[a][i].named :
           i \in {j \in 1 .. Len(audit[a]) :
                   audit[a][j].type \in {"provisioning.approved",
                                         "transaction.confirmed"}}}

\* Misdirected or not, an approval counts once: what was accepted was accepted
\* by exactly one challenge, which is spent, no other aggregate was accepted by
\* the same one, and nothing that was declined or reversed, or is pending, has
\* taken one.
OneApprovalEach ==
  /\ \A a \in ChallengeIds :
       IF Accepted(a)
         THEN \E c \in ChallengeIds :
                ApprovedBy(a) = {c} /\ challenges[c].status = "confirmed"
         ELSE ApprovedBy(a) = {}
  /\ \A a, b \in ChallengeIds :
       a # b => ApprovedBy(a) \cap ApprovedBy(b) = {}

\* INV-04: an aggregate that was declined or reversed has a challenge nobody
\* can consume and nobody consumed; the challenge of one that is pending was
\* not cancelled.
ClosedForGood ==
  \A c \in ChallengeIds :
    LET state == IF c \in Tokens THEN provisioning[c].state
                                 ELSE transactions[c].state
    IN  /\ state \in {"declined", "reversed", "exception"} =>
             challenges[c].status \in {"cancelled", "expired"}
        /\ Pending(c) => challenges[c].status # "cancelled"

\* Whatever late, repeated or misdirected calls came before: an approval counts
\* once, closed aggregates stay closed, and the challenge records restore.
OutcomesStand == OneApprovalEach /\ ClosedForGood /\ RestoreChallenges

\* The state the audit trail of an aggregate tells.
Told(c) == IF audit[c] = <<>> THEN "absent" ELSE audit[c][Len(audit[c])].result

\* The device events that list a challenge as invalidated.
ListedAt(c) ==
  {l \in Devices \X (1 .. MaxDeviceEvents + 1) :
     l[2] <= Len(audit[l[1]]) /\ c \in audit[l[1]][l[2]].named}

\* The audit log explains the state: an aggregate that was declined is listed
\* by exactly one event of its own device and its own trail ends where it was
\* pending; any other aggregate is listed by none and is in the state that
\* its last event tells.
AuditExplainsState ==
  /\ \A t \in Tokens :
       tokens[t].state =
         IF ListedAt(t) # {} THEN "declined"
         ELSE CASE Told(t) = "capped" -> "active_capped"
                [] Told(t) = "full" -> "active_full"
                [] OTHER -> Told(t)
  /\ \A x \in Transactions :
       transactions[x].state =
         IF ListedAt(x) # {} THEN "declined" ELSE Told(x)
  /\ \A c \in ChallengeIds :
       /\ Cardinality(ListedAt(c)) <= 1
       /\ \A l \in ListedAt(c) : l[1] = DeviceOf(c) /\ Len(audit[c]) = 1

\* The challenge store inside the engine implements the one-shot promise,
\* whichever operation of the engine reaches it.
Outcome(r) ==
  CASE r.status = "created" -> "open"
    [] r.status = "confirmed" -> "accepted"
    [] r.status \in {"expired", "cancelled"} -> "closed"
    [] OTHER -> "unissued"

Outcomes == [c \in ChallengeIds |-> Outcome(challenges[c])]

Promise == INSTANCE OneShot WITH Ids <- ChallengeIds, outcome <- Outcomes

OneShotChallenges == Promise!Spec

=============================================================================
