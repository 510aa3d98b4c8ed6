-------------------------- MODULE AirlockEngineProofs --------------------------
(***************************************************************************)
(* Proofs about AirlockEngine, for every value of its constants.           *)
(***************************************************************************)
EXTENDS AirlockEngine, SumFacts, TLAPS

\* The cap arithmetic of releaseCapReservation stays in 0 .. a, whatever is
\* subtracted.
LEMMA LessBounds ==
  ASSUME NEW a \in Nat, NEW b
  PROVE  Less(a, b) \in Nat /\ Less(a, b) <= a
BY DEF Less

\* Instants the clock or a caller can supply are instants of the model.
LEMMA InstantsAreTimes ==
  ASSUME TypeOK, NEW now \in Instants
  PROVE  now \in Nat /\ now \in Time
BY ConstantsAssumption DEF Instants, Time, TypeOK

\* The day of an instant is a day of the model.
LEMMA DayOfTime ==
  ASSUME NEW now \in Time
  PROVE  DayOf(now) \in Day
<1>1. now \in Nat /\ MaxTime \in Nat /\ DayLength \in Nat \ {0} /\ now <= MaxTime
  BY ConstantsAssumption DEF Time
<1>2. now \div DayLength \in Nat /\ now \div DayLength <= MaxTime \div DayLength
  BY <1>1
<1> QED BY <1>1, <1>2 DEF DayOf, Day

-----------------------------------------------------------------------------
(* Type correctness *)

\* An audit append keeps every correlation id's trail a sequence of events.
LEMMA LogType ==
  ASSUME TypeOK, NEW a \in Devices \cup ChallengeIds, NEW type \in EventType,
         NEW named \in SUBSET ChallengeIds, NEW result \in EventResult,
         Log(a, type, named, result)
  PROVE  audit' \in [Devices \cup ChallengeIds -> Seq(Event)]
<1>1. [type |-> type, named |-> named, result |-> result] \in Event
  BY DEF Event
<1>2. audit[a] \in Seq(Event) /\ audit \in [Devices \cup ChallengeIds -> Seq(Event)]
  BY DEF TypeOK
<1>3. Append(audit[a], [type |-> type, named |-> named, result |-> result])
        \in Seq(Event)
  BY <1>1, <1>2
<1> QED BY <1>2, <1>3 DEF Log

\* The records that the challenge store's operations leave are records.
LEMMA ChallengeRecordType ==
  ASSUME NEW r \in ChallengeRecord, NEW now \in Nat, NEW ttl \in Nat
  PROVE  /\ Created(now, ttl) \in ChallengeRecord
         /\ Expired(r) \in ChallengeRecord
         /\ Confirmed(r, now) \in ChallengeRecord
         /\ Cancelled(r, now) \in ChallengeRecord
<1> USE DEF ChallengeRecord, ChallengeStatus
<1>1. Created(now, ttl) \in ChallengeRecord
  BY DEF Created
<1>2. Expired(r) \in ChallengeRecord
  BY DEF Expired
<1>3. Confirmed(r, now) \in ChallengeRecord
  BY DEF Confirmed
<1>4. Cancelled(r, now) \in ChallengeRecord
  BY DEF Cancelled
<1> QED BY <1>1, <1>2, <1>3, <1>4

\* releaseCapReservation keeps the daily spend a natural number and never
\* raises it.
LEMMA ReleaseType ==
  ASSUME TypeOK, NEW S
  PROVE  /\ releaseCapReservation(S) \in [Tokens \X Day -> Nat]
         /\ \A k \in Tokens \X Day : releaseCapReservation(S)[k] <= dailySpend[k]
<1> DEFINE r == releaseCapReservation(S)
<1>1. \A k \in Tokens \X Day :
        /\ r[k] = Less(dailySpend[k], ReservedAmount(S, k[1], k[2]))
        /\ dailySpend[k] \in Nat
  BY DEF releaseCapReservation, TypeOK
<1>2. \A k \in Tokens \X Day : r[k] \in Nat /\ r[k] <= dailySpend[k]
  BY <1>1, LessBounds
<1>3. r = [k \in Tokens \X Day |-> r[k]]
  BY DEF releaseCapReservation
<1> QED BY <1>2, <1>3

\* A transaction that gives its reservation back is still a record.
LEMMA ReleasedType ==
  ASSUME TypeOK, NEW x \in Transactions, NEW state \in TransactionState
  PROVE  Released(x, state) \in TransactionRecord
BY DEF Released, TransactionRecord, TypeOK

\* Phase two of invalidateOutstandingChallenges keeps the types.
LEMMA InvalidateType ==
  ASSUME TypeOK, NEW d \in Devices, NEW now \in Nat,
         invalidateOutstandingChallenges(d, now)
  PROVE  /\ challenges' \in [ChallengeIds -> ChallengeRecord]
         /\ tokens' \in [Tokens -> TokenRecord]
         /\ provisioning' \in [Tokens -> RequestRecord]
         /\ transactions' \in [Transactions -> TransactionRecord]
         /\ dailySpend' \in [Tokens \X Day -> Nat]
         /\ InvalidatedAt(d) \in SUBSET ChallengeIds
<1> USE DEF invalidateOutstandingChallenges
<1>1. challenges' \in [ChallengeIds -> ChallengeRecord]
  <2>1. \A c \in ChallengeIds : challenges[c] \in ChallengeRecord
    BY DEF TypeOK
  <2>2. \A c \in ChallengeIds : Cancelled(challenges[c], now) \in ChallengeRecord
    BY <2>1, ChallengeRecordType
  <2> QED BY <2>1, <2>2
<1>2. tokens' \in [Tokens -> TokenRecord]
  <2>1. \A t \in Tokens :
          /\ tokens[t] \in TokenRecord
          /\ Declined(t) \in TokenRecord
    BY DEF Declined, TypeOK, TokenRecord
  <2> QED BY <2>1
<1>3. provisioning' \in [Tokens -> RequestRecord]
  <2>1. \A t \in Tokens :
          /\ provisioning[t] \in RequestRecord
          /\ [provisioning[t] EXCEPT !.state = "declined"] \in RequestRecord
    BY DEF TypeOK, RequestRecord, ProvisioningState
  <2> QED BY <2>1
<1>4. transactions' \in [Transactions -> TransactionRecord]
  <2>1. \A x \in Transactions :
          /\ transactions[x] \in TransactionRecord
          /\ Released(x, "declined") \in TransactionRecord
    BY ReleasedType DEF TypeOK, TransactionState
  <2> QED BY <2>1
<1>5. dailySpend' \in [Tokens \X Day -> Nat]
  BY ReleaseType
<1>6. InvalidatedAt(d) \in SUBSET ChallengeIds
  BY DEF InvalidatedAt, OutstandingAt
<1> QED BY <1>1, <1>2, <1>3, <1>4, <1>5, <1>6

\* The actions that start, decide or end work keep the types.
LEMMA DeviceStepType ==
  ASSUME TypeOK, DeviceNext PROVE TypeOK'
<1>1. PICK d \in Devices :
        \/ \E s \in Subjects, k \in KeyIds, p \in PublicKeys :
             enrollTrustedDevice(d, s, k, p)
        \/ \E now \in Instants :
             \/ revokeTrustedDevice(d, now)
             \/ markTrustedDeviceCompromised(d, now)
             \/ \E k \in KeyIds, p \in PublicKeys :
                  rotateTrustedDeviceKey(d, k, p, now)
  BY DEF DeviceNext
<1>2. CASE \E s \in Subjects, k \in KeyIds, p \in PublicKeys :
             enrollTrustedDevice(d, s, k, p)
  <2>1. PICK s \in Subjects, k \in KeyIds, p \in PublicKeys :
          enrollTrustedDevice(d, s, k, p)
    BY <1>2
  <2>2. audit' \in [Devices \cup ChallengeIds -> Seq(Event)]
    BY <2>1, LogType DEF enrollTrustedDevice, EventType, EventResult,
                                    TransactionState
  <2>3. devices' \in [Devices -> DeviceRecord]
    <3>1. [status |-> "active", subject |-> s, keyId |-> k, publicKey |-> p]
            \in DeviceRecord
      BY DEF DeviceRecord
    <3> QED BY <2>1, <3>1 DEF enrollTrustedDevice, TypeOK
  <2> QED BY <2>1, <2>2, <2>3 DEF enrollTrustedDevice, TypeOK
<1>3. ASSUME NEW now \in Instants, NEW type \in EventType,
             retireTrustedDevice(d, now, type)
      PROVE  TypeOK'
  <2>1. now \in Nat
    BY InstantsAreTimes
  <2>2. audit' \in [Devices \cup ChallengeIds -> Seq(Event)]
    BY <2>1, <1>3, LogType, InvalidateType
       DEF retireTrustedDevice, EventType, EventResult
  <2>3. devices' \in [Devices -> DeviceRecord]
    <3>1. devices[d] \in DeviceRecord
      BY DEF TypeOK
    <3>2. [devices[d] EXCEPT !.status = "revoked"] \in DeviceRecord
      BY <3>1 DEF DeviceRecord
    <3> QED BY <1>3, <3>2 DEF retireTrustedDevice, TypeOK
  <2> QED BY <1>3, <2>1, <2>2, <2>3, InvalidateType
          DEF retireTrustedDevice, TypeOK
<1>4. ASSUME NEW now \in Instants, NEW k \in KeyIds, NEW p \in PublicKeys,
             rotateTrustedDeviceKey(d, k, p, now)
      PROVE  TypeOK'
  <2>1. now \in Nat
    BY InstantsAreTimes
  <2>2. audit' \in [Devices \cup ChallengeIds -> Seq(Event)]
    BY <2>1, <1>4, LogType, InvalidateType
       DEF rotateTrustedDeviceKey, EventType, EventResult
  <2>3. devices' \in [Devices -> DeviceRecord]
    <3>1. devices[d] \in DeviceRecord
      BY DEF TypeOK
    <3>2. [[devices[d] EXCEPT !.keyId = k] EXCEPT !.publicKey = p] \in DeviceRecord
      BY <3>1 DEF DeviceRecord
    <3> QED BY <1>4, <3>2 DEF rotateTrustedDeviceKey, TypeOK
  <2> QED BY <1>4, <2>1, <2>2, <2>3, InvalidateType
          DEF rotateTrustedDeviceKey, TypeOK
<1>5. ASSUME NEW now \in Instants,
             revokeTrustedDevice(d, now) \/ markTrustedDeviceCompromised(d, now)
      PROVE  TypeOK'
  BY <1>3, <1>5 DEF revokeTrustedDevice, markTrustedDeviceCompromised, EventType
<1> QED BY <1>1, <1>2, <1>4, <1>5

\* A provisioning request keeps the types.
LEMMA ProvisioningStepType ==
  ASSUME TypeOK, ProvisioningNext PROVE TypeOK'
<1>1. PICK t \in Tokens, s \in Subjects, d \in Devices, cap \in Caps,
           now \in Instants : requestProvisioning(t, s, d, cap, now)
  BY DEF ProvisioningNext
<1>2. /\ now \in Nat /\ cap \in Nat /\ ProvisioningTtl \in Nat
      /\ t \in ChallengeIds /\ Unissued \in ChallengeRecord
  BY InstantsAreTimes, ConstantsAssumption
     DEF Unissued, ChallengeRecord
<1>3. audit' \in [Devices \cup ChallengeIds -> Seq(Event)]
  BY <1>1, <1>2, LogType DEF requestProvisioning, EventType, EventResult,
                                    TransactionState
<1>4. challenges' \in [ChallengeIds -> ChallengeRecord]
  BY <1>1, <1>2, ChallengeRecordType DEF requestProvisioning, TypeOK
<1>5. /\ tokens' \in [Tokens -> TokenRecord]
      /\ provisioning' \in [Tokens -> RequestRecord]
  <2>1. [state |-> "pending", subject |-> s, cap |-> cap] \in TokenRecord
    BY <1>2 DEF TokenRecord
  <2>2. [state |-> "trusted_device_challenge", device |-> d] \in RequestRecord
    BY DEF RequestRecord, ProvisioningState
  <2> QED BY <1>1, <2>1, <2>2 DEF requestProvisioning, TypeOK
<1>6. issuedEpoch' \in [ChallengeIds -> Nat]
  <2>1. audit[d] \in Seq(Event)
    BY DEF TypeOK
  <2>2. Len(audit[d]) \in Nat
    BY <2>1
  <2> QED BY <1>1, <1>2, <2>2 DEF requestProvisioning, TypeOK
<1> QED BY <1>1, <1>3, <1>4, <1>5, <1>6 DEF requestProvisioning, TypeOK

\* Every outcome of a submitted approval (accepted, late, spent) keeps the types.
LEMMA ApprovalStepType ==
  ASSUME TypeOK, ApprovalNext PROVE TypeOK'
<1>0. PICK a \in ChallengeIds, now \in Instants :
        \E c \in ChallengeIds :
          \/ LateApproval(a, c, now)
          \/ \E signer \in PublicKeys :
               \/ SpentApproval(a, c, signer, now)
               \/ /\ a \in Tokens
                  /\ \E activation \in {"capped", "full"} :
                       approveProvisioning(a, c, signer, now, activation)
               \/ /\ a \in Transactions
                  /\ confirmTransaction(a, c, signer, now)
  BY DEF ApprovalNext
<1>1. PICK c \in ChallengeIds :
        \/ LateApproval(a, c, now)
        \/ \E signer \in PublicKeys :
             \/ SpentApproval(a, c, signer, now)
             \/ /\ a \in Tokens
                /\ \E activation \in {"capped", "full"} :
                     approveProvisioning(a, c, signer, now, activation)
             \/ /\ a \in Transactions
                /\ confirmTransaction(a, c, signer, now)
  BY <1>0
<1>2. now \in Nat /\ c \in ChallengeIds /\ challenges[c] \in ChallengeRecord
  BY InstantsAreTimes DEF TypeOK
<1>3. /\ Expired(challenges[c]) \in ChallengeRecord
      /\ Confirmed(challenges[c], now) \in ChallengeRecord
  BY <1>2, ChallengeRecordType
<1>4. CASE LateApproval(a, c, now)
  BY <1>2, <1>3, <1>4 DEF LateApproval, TypeOK
<1>5. ASSUME NEW signer \in PublicKeys, SpentApproval(a, c, signer, now)
      PROVE  TypeOK'
  BY <1>2, <1>3, <1>5 DEF SpentApproval, TypeOK
<1>6. ASSUME a \in Tokens, NEW signer \in PublicKeys,
             NEW activation \in {"capped", "full"},
             approveProvisioning(a, c, signer, now, activation)
      PROVE  TypeOK'
  <2>1. audit' \in [Devices \cup ChallengeIds -> Seq(Event)]
    BY <1>2, <1>6, LogType DEF approveProvisioning, EventType, EventResult,
                                    TransactionState
  <2>2. challenges' \in [ChallengeIds -> ChallengeRecord]
    BY <1>2, <1>3, <1>6 DEF approveProvisioning, TypeOK
  <2>3. tokens' \in [Tokens -> TokenRecord]
    <3>1. tokens[a] \in TokenRecord
      BY <1>6 DEF TypeOK
    <3>2. \A st \in {"active_capped", "active_full"}, cp \in Nat :
            [[tokens[a] EXCEPT !.state = st] EXCEPT !.cap = cp] \in TokenRecord
      BY <3>1 DEF TokenRecord
    <3>3. tokens[a].cap \in Nat /\ 0 \in Nat
      BY <3>1 DEF TokenRecord
    <3> QED BY <1>6, <3>2, <3>3 DEF approveProvisioning, TypeOK
  <2>4. provisioning' \in [Tokens -> RequestRecord]
    <3>1. provisioning[a] \in RequestRecord
      BY <1>6 DEF TypeOK
    <3>2. \A st \in {"token_active_capped", "token_active_full"} :
            [provisioning[a] EXCEPT !.state = st] \in RequestRecord
      BY <3>1 DEF RequestRecord, ProvisioningState
    <3> QED BY <1>6, <3>2 DEF approveProvisioning, TypeOK
  <2> QED BY <1>6, <2>1, <2>2, <2>3, <2>4 DEF approveProvisioning, TypeOK
<1>7. ASSUME a \in Transactions, NEW signer \in PublicKeys,
             confirmTransaction(a, c, signer, now)
      PROVE  TypeOK'
  <2>1. audit' \in [Devices \cup ChallengeIds -> Seq(Event)]
    BY <1>2, <1>7, LogType DEF confirmTransaction, EventType, EventResult,
                                    TransactionState
  <2>2. challenges' \in [ChallengeIds -> ChallengeRecord]
    BY <1>2, <1>3, <1>7 DEF confirmTransaction, TypeOK
  <2>3. transactions' \in [Transactions -> TransactionRecord]
    <3>1. transactions[a] \in TransactionRecord
      BY <1>7 DEF TypeOK
    <3>2. [transactions[a] EXCEPT !.state = "confirmed"] \in TransactionRecord
      BY <3>1 DEF TransactionRecord, TransactionState
    <3> QED BY <1>7, <3>2 DEF confirmTransaction, TypeOK
  <2> QED BY <1>7, <2>1, <2>2, <2>3 DEF confirmTransaction, TypeOK
<1> QED BY <1>1, <1>4, <1>5, <1>6, <1>7

\* Authorization, timeout reversal and clearing keep the types.
LEMMA TransactionStepType ==
  ASSUME TypeOK, TransactionNext PROVE TypeOK'
<1>1. PICK x \in Transactions :
        \/ receiveClearing(x)
        \/ \E now \in Instants :
             \/ expireAndReverse(x, now)
             \/ ExpireAfterDecision(x, now)
             \/ \E t \in Tokens, d \in Devices, amount \in Amounts,
                  issuedAt \in IssueInstants(now) :
                  authorize(x, t, d, amount, now, issuedAt)
  BY DEF TransactionNext
<1>2. /\ x \in ChallengeIds
      /\ challenges[x] \in ChallengeRecord
      /\ transactions[x] \in TransactionRecord
  BY ConstantsAssumption DEF TypeOK
<1>3. CASE receiveClearing(x)
  <2>1. \A st \in {"exception", "settled"} :
          [transactions[x] EXCEPT !.state = st] \in TransactionRecord
    BY <1>2 DEF TransactionRecord, TransactionState
  <2>2. transactions' \in [Transactions -> TransactionRecord]
    BY <1>3, <2>1 DEF receiveClearing, TypeOK
  <2>3. audit' \in [Devices \cup ChallengeIds -> Seq(Event)]
    BY <1>2, <1>3, LogType DEF receiveClearing, EventType, EventResult,
                                    TransactionState
  <2> QED BY <1>3, <2>2, <2>3 DEF receiveClearing, TypeOK
<1>4. ASSUME NEW now \in Instants, expireAndReverse(x, now)
      PROVE  TypeOK'
  <2>1. Cancelled(challenges[x], now) \in ChallengeRecord
    BY <1>2, InstantsAreTimes, ChallengeRecordType
  <2>2. challenges' \in [ChallengeIds -> ChallengeRecord]
    BY <1>2, <1>4, <2>1 DEF expireAndReverse, TypeOK
  <2>3. transactions' \in [Transactions -> TransactionRecord]
    BY <1>4, ReleasedType DEF expireAndReverse, TypeOK, TransactionState
  <2>4. dailySpend' \in [Tokens \X Day -> Nat]
    BY <1>4, ReleaseType DEF expireAndReverse
  <2>5. audit' \in [Devices \cup ChallengeIds -> Seq(Event)]
    BY <1>2, <1>4, LogType DEF expireAndReverse, EventType, EventResult,
                                    TransactionState
  <2> QED BY <1>4, <2>2, <2>3, <2>4, <2>5 DEF expireAndReverse, TypeOK
<1>5. ASSUME NEW now \in Instants, ExpireAfterDecision(x, now)
      PROVE  TypeOK'
  <2>1. Cancelled(challenges[x], now) \in ChallengeRecord
    BY <1>2, InstantsAreTimes, ChallengeRecordType
  <2> QED BY <1>2, <1>5, <2>1 DEF ExpireAfterDecision, TypeOK
<1>6. ASSUME NEW now \in Instants, NEW t \in Tokens, NEW d \in Devices,
             NEW amount \in Amounts, NEW issuedAt \in IssueInstants(now),
             authorize(x, t, d, amount, now, issuedAt)
      PROVE  TypeOK'
  <2>1. /\ now \in Time /\ issuedAt \in Time /\ issuedAt \in Nat
        /\ amount \in Nat /\ TransactionTtl \in Nat
    BY InstantsAreTimes, ConstantsAssumption DEF IssueInstants, Time
  <2>2. DayOf(now) \in Day
    BY <2>1, DayOfTime
  <2>3. challenges' \in [ChallengeIds -> ChallengeRecord]
    BY <1>2, <1>6, <2>1, ChallengeRecordType DEF authorize, TypeOK
  <2>4. transactions' \in [Transactions -> TransactionRecord]
    <3>1. \A day \in Day \cup {None} :
            [state |-> "confirmation_pending", token |-> t, amount |-> amount,
             device |-> d, reserved |-> day] \in TransactionRecord
      BY <2>1 DEF TransactionRecord, TransactionState
    <3> QED BY <1>6, <2>2, <3>1 DEF authorize, TypeOK
  <2>5. dailySpend' \in [Tokens \X Day -> Nat]
    BY <1>6, <2>1, <2>2 DEF authorize, TypeOK
  <2>6. issuedEpoch' \in [ChallengeIds -> Nat]
    <3>1. audit[d] \in Seq(Event)
      BY DEF TypeOK
    <3>2. Len(audit[d]) \in Nat
      BY <3>1
    <3> QED BY <1>2, <1>6, <3>2 DEF authorize, TypeOK
  <2>7. audit' \in [Devices \cup ChallengeIds -> Seq(Event)]
    BY <1>2, <1>6, LogType DEF authorize, EventType, EventResult,
                                    TransactionState
  <2> QED BY <1>6, <2>1, <2>3, <2>4, <2>5, <2>6, <2>7 DEF authorize, TypeOK
<1> QED BY <1>1, <1>3, <1>4, <1>5, <1>6

\* TypeOK is inductive.
LEMMA TypeStep ==
  ASSUME TypeOK, [Next]_vars PROVE TypeOK'
<1>1. CASE Tick
  BY <1>1, ConstantsAssumption DEF Tick, TypeOK, Time
<1>2. CASE UNCHANGED vars
  BY <1>2 DEF vars, TypeOK
<1> QED BY <1>1, <1>2, DeviceStepType, ProvisioningStepType, ApprovalStepType,
           TransactionStepType DEF Next

\* The empty engine has the types.
LEMMA TypeInit ==
  Init => TypeOK
<1> SUFFICES ASSUME Init PROVE TypeOK
  OBVIOUS
<1>1. challenges \in [ChallengeIds -> ChallengeRecord]
  BY DEF Init, Unissued, ChallengeRecord
<1>2. devices \in [Devices -> DeviceRecord] /\ tokens \in [Tokens -> TokenRecord]
  BY DEF Init, DeviceRecord, TokenRecord
<1>3. /\ provisioning \in [Tokens -> RequestRecord]
      /\ transactions \in [Transactions -> TransactionRecord]
  BY DEF Init, RequestRecord, TransactionRecord
<1>4. dailySpend \in [Tokens \X Day -> Nat] /\ issuedEpoch \in [ChallengeIds -> Nat]
  BY DEF Init
<1>5. audit \in [Devices \cup ChallengeIds -> Seq(Event)] /\ clock \in Time
  BY ConstantsAssumption DEF Init, Time
<1> QED BY <1>1, <1>2, <1>3, <1>4, <1>5 DEF TypeOK

\* The engine's maps always hold well-formed records: no sequence of device,
\* provisioning, approval, transaction or clearing calls, throwing or not,
\* leaves a record restore's field checks would refuse.
THEOREM TypeCorrect == Spec => []TypeOK
BY TypeInit, TypeStep, PTL DEF Spec

-----------------------------------------------------------------------------
(* Keys *)

\* Enrolment and rotation are the only steps that write a key, and both
\* compare it with every other device's, revoked ones included.
LEMMA KeysStep ==
  ASSUME TypeOK, RestoreDevices, [Next]_vars PROVE RestoreDevices'
<1>1. ASSUME NEW d \in Devices, NEW s \in Subjects, NEW k \in KeyIds,
             NEW p \in PublicKeys, enrollTrustedDevice(d, s, k, p)
      PROVE  RestoreDevices'
  <2>1. d # None
    BY ConstantsAssumption
  <2> QED BY <1>1, <2>1, ConstantsAssumption
          DEF enrollTrustedDevice, RestoreDevices, TypeOK,
              assertKeyIdAvailable, assertPublicKeyAvailable
<1>2. ASSUME NEW d \in Devices, NEW now \in Instants, NEW type,
             retireTrustedDevice(d, now, type)
      PROVE  RestoreDevices'
  <2>1. /\ devices[d].status = "active"
        /\ devices' = [devices EXCEPT ![d].status = "revoked"]
    BY <1>2 DEF retireTrustedDevice, requireActiveDevice
  <2>2. \A e \in Devices :
          /\ devices'[e].keyId = devices[e].keyId
          /\ devices'[e].publicKey = devices[e].publicKey
          /\ devices'[e].status # "absent" => devices[e].status # "absent"
    BY <2>1 DEF TypeOK, DeviceRecord
  <2> QED BY <2>2 DEF RestoreDevices
<1>3. ASSUME NEW d \in Devices, NEW now \in Instants, NEW k \in KeyIds,
             NEW p \in PublicKeys, rotateTrustedDeviceKey(d, k, p, now)
      PROVE  RestoreDevices'
  <2>1. \A e \in Devices \ {d} : devices'[e] = devices[e]
    BY <1>3 DEF rotateTrustedDeviceKey, TypeOK
  <2>2. devices'[d].keyId = k /\ devices'[d].publicKey = p
    BY <1>3 DEF rotateTrustedDeviceKey, TypeOK, DeviceRecord
  <2>3. \A e \in Devices \ {d} :
          devices[e].keyId # k /\ devices[e].publicKey # p
    BY <1>3 DEF rotateTrustedDeviceKey, assertKeyIdAvailable,
                assertPublicKeyAvailable
  <2> QED BY <2>1, <2>2, <2>3 DEF RestoreDevices
<1>4. ASSUME UNCHANGED devices PROVE RestoreDevices'
  BY <1>4 DEF RestoreDevices
<1>5. CASE DeviceNext
  BY <1>1, <1>2, <1>3, <1>5
     DEF DeviceNext, revokeTrustedDevice, markTrustedDeviceCompromised
<1>6. ProvisioningNext => UNCHANGED devices
  BY DEF ProvisioningNext, requestProvisioning
<1>7. TransactionNext => UNCHANGED devices
  <2>1. ASSUME NEW x \in Transactions
        PROVE  receiveClearing(x) => UNCHANGED devices
    BY DEF receiveClearing
  <2>2. ASSUME NEW x \in Transactions, NEW now \in Instants
        PROVE  expireAndReverse(x, now) \/ ExpireAfterDecision(x, now)
                 => UNCHANGED devices
    BY DEF expireAndReverse, ExpireAfterDecision
  <2>3. ASSUME NEW x \in Transactions, NEW now \in Instants, NEW t \in Tokens,
               NEW d \in Devices, NEW amount \in Amounts,
               NEW issuedAt \in IssueInstants(now)
        PROVE  authorize(x, t, d, amount, now, issuedAt) => UNCHANGED devices
    BY DEF authorize
  <2> QED BY <2>1, <2>2, <2>3 DEF TransactionNext
<1>8. ApprovalNext => UNCHANGED devices
  BY DEF ApprovalNext, LateApproval, SpentApproval, approveProvisioning,
         confirmTransaction
<1>9. Tick \/ UNCHANGED vars => UNCHANGED devices
  BY DEF Tick, vars
<1> QED BY <1>4, <1>5, <1>6, <1>7, <1>8, <1>9 DEF Next

\* INV-05 needs one owner per key: over every sequence of enrolments,
\* rotations, revocations and compromises, no two devices ever share a key id
\* or key material, so a signature identifies one device and a snapshot's
\* devices are always restorable.
THEOREM KeysStayDistinct == Spec => []RestoreDevices
<1>1. Init => RestoreDevices
  BY DEF Init, RestoreDevices
<1> QED BY <1>1, KeysStep, TypeCorrect, PTL DEF Spec

-----------------------------------------------------------------------------
(* The aggregates and their challenges *)

\* Updating one challenge's status to an issued one leaves the others alone.
LEMMA LinkedByChallenge ==
  ASSUME TypeOK, AggregatesLinked, NEW c \in ChallengeIds,
         NEW r \in ChallengeRecord, challenges[c].status # "unissued",
         r.status # "unissued", challenges' = [challenges EXCEPT ![c] = r],
         UNCHANGED <<tokens, provisioning, transactions>>
  PROVE  AggregatesLinked'
<1>1. \A e \in ChallengeIds :
        challenges'[e].status = "unissued" <=> challenges[e].status = "unissued"
  BY DEF TypeOK
<1>2. Tokens \subseteq ChallengeIds /\ Transactions \subseteq ChallengeIds
  BY ConstantsAssumption
<1> QED BY <1>1, <1>2 DEF AggregatesLinked

\* Phase two of invalidateOutstandingChallenges moves a request and its token
\* together and issues nothing.
LEMMA LinkedByInvalidation ==
  ASSUME TypeOK, AggregatesLinked, NEW d \in Devices, NEW now \in Instants,
         invalidateOutstandingChallenges(d, now)
  PROVE  AggregatesLinked'
<1> USE DEF invalidateOutstandingChallenges
<1>1. Tokens \subseteq ChallengeIds /\ Transactions \subseteq ChallengeIds
      /\ Tokens \cap Transactions = {}
  BY ConstantsAssumption
<1>2. \A c \in ChallengeIds :
        challenges'[c].status = "unissued" <=> challenges[c].status = "unissued"
  BY DEF CancelAllowed, Cancelled, TypeOK, ChallengeRecord
<1>3. ASSUME NEW t \in Tokens
      PROVE  /\ <<tokens'[t].state, provisioning'[t].state>> \in
                  {<<"absent", "absent">>,
                   <<"pending", "trusted_device_challenge">>,
                   <<"active_capped", "token_active_capped">>,
                   <<"active_full", "token_active_full">>,
                   <<"declined", "declined">>}
             /\ tokens'[t].state = "absent" <=> tokens[t].state = "absent"
             /\ provisioning'[t].device = provisioning[t].device
  <2>1. CASE t \in InvalidatedAt(d)
    <3>1. provisioning[t].state = "trusted_device_challenge"
      BY <2>1 DEF InvalidatedAt, OutstandingAt, Pending
    <3>2. tokens[t].state = "pending"
      BY <3>1 DEF AggregatesLinked
    <3>3. tokens'[t].state = "declined" /\ provisioning'[t].state = "declined"
          /\ provisioning'[t].device = provisioning[t].device
      BY <2>1, <3>2 DEF Declined, TypeOK, TokenRecord, RequestRecord
    <3> QED BY <3>2, <3>3
  <2>2. CASE t \notin InvalidatedAt(d)
    BY <2>2 DEF AggregatesLinked
  <2> QED BY <2>1, <2>2
<1>4. ASSUME NEW x \in Transactions
      PROVE  /\ transactions'[x].state \in
                  {"absent", "confirmation_pending", "confirmed", "declined",
                   "reversed", "settled", "exception"}
             /\ transactions'[x].state = "absent" <=>
                  transactions[x].state = "absent"
             /\ transactions'[x].device = transactions[x].device
  <2>1. CASE x \in InvalidatedAt(d)
    <3>1. transactions[x].state = "confirmation_pending"
      BY <1>1, <2>1 DEF InvalidatedAt, OutstandingAt, Pending
    <3>2. /\ transactions'[x].state = "declined"
          /\ transactions'[x].device = transactions[x].device
      BY <2>1 DEF Released, TypeOK, TransactionRecord
    <3> QED BY <3>1, <3>2
  <2>2. CASE x \notin InvalidatedAt(d)
    BY <2>2 DEF AggregatesLinked
  <2> QED BY <2>1, <2>2
<1> QED BY <1>1, <1>2, <1>3, <1>4 DEF AggregatesLinked

\* Every action keeps tokens, requests, transactions and challenges in agreement.
LEMMA LinkedStep ==
  ASSUME TypeOK, AggregatesLinked, [Next]_vars PROVE AggregatesLinked'
<1>0. /\ Tokens \subseteq ChallengeIds /\ Transactions \subseteq ChallengeIds
      /\ Tokens \cap Transactions = {} /\ None \notin Devices
  BY ConstantsAssumption
<1>1. CASE DeviceNext
  <2>1. ASSUME NEW d \in Devices, NEW s \in Subjects, NEW k \in KeyIds,
               NEW p \in PublicKeys, enrollTrustedDevice(d, s, k, p)
        PROVE  AggregatesLinked'
    BY <2>1 DEF enrollTrustedDevice, AggregatesLinked
  <2>2. ASSUME NEW d \in Devices, NEW now \in Instants, NEW type,
               retireTrustedDevice(d, now, type)
        PROVE  AggregatesLinked'
    BY <2>2, LinkedByInvalidation DEF retireTrustedDevice
  <2>3. ASSUME NEW d \in Devices, NEW now \in Instants, NEW k \in KeyIds,
               NEW p \in PublicKeys, rotateTrustedDeviceKey(d, k, p, now)
        PROVE  AggregatesLinked'
    BY <2>3, LinkedByInvalidation DEF rotateTrustedDeviceKey
  <2> QED BY <1>1, <2>1, <2>2, <2>3
          DEF DeviceNext, revokeTrustedDevice, markTrustedDeviceCompromised
<1>2. CASE ProvisioningNext
  <2>1. PICK t \in Tokens, s \in Subjects, d \in Devices, cap \in Caps,
             now \in Instants : requestProvisioning(t, s, d, cap, now)
    BY <1>2 DEF ProvisioningNext
  <2>2. /\ tokens'[t].state = "pending"
        /\ provisioning'[t].state = "trusted_device_challenge"
        /\ provisioning'[t].device # None
        /\ challenges'[t].status # "unissued"
    BY <1>0, <2>1 DEF requestProvisioning, TypeOK, Created
  <2>3. /\ \A u \in Tokens \ {t} :
             tokens'[u] = tokens[u] /\ provisioning'[u] = provisioning[u]
        /\ \A c \in ChallengeIds \ {t} : challenges'[c] = challenges[c]
        /\ transactions' = transactions
    BY <2>1 DEF requestProvisioning, TypeOK
  <2> QED BY <1>0, <2>2, <2>3 DEF AggregatesLinked
<1>3. CASE ApprovalNext
  <2>0. PICK a \in ChallengeIds, now \in Instants :
          \E c \in ChallengeIds :
            \/ LateApproval(a, c, now)
            \/ \E signer \in PublicKeys :
                 \/ SpentApproval(a, c, signer, now)
                 \/ /\ a \in Tokens
                    /\ \E activation \in {"capped", "full"} :
                         approveProvisioning(a, c, signer, now, activation)
                 \/ /\ a \in Transactions
                    /\ confirmTransaction(a, c, signer, now)
    BY <1>3 DEF ApprovalNext
  <2>1. PICK c \in ChallengeIds :
          \/ LateApproval(a, c, now)
          \/ \E signer \in PublicKeys :
               \/ SpentApproval(a, c, signer, now)
               \/ /\ a \in Tokens
                  /\ \E activation \in {"capped", "full"} :
                       approveProvisioning(a, c, signer, now, activation)
               \/ /\ a \in Transactions
                  /\ confirmTransaction(a, c, signer, now)
    BY <2>0
  <2>2. /\ now \in Nat /\ c \in ChallengeIds
        /\ challenges[c] \in ChallengeRecord
    BY InstantsAreTimes DEF TypeOK
  <2>3. /\ Expired(challenges[c]).status = "expired"
        /\ Confirmed(challenges[c], now).status = "confirmed"
        /\ Expired(challenges[c]) \in ChallengeRecord
        /\ Confirmed(challenges[c], now) \in ChallengeRecord
    BY <2>2, ChallengeRecordType DEF Expired, Confirmed, ChallengeRecord
  <2>4. CASE LateApproval(a, c, now)
    BY <2>2, <2>3, <2>4, LinkedByChallenge DEF LateApproval, ConsumeExpires
  <2>5. ASSUME NEW signer \in PublicKeys, SpentApproval(a, c, signer, now)
        PROVE  AggregatesLinked'
    BY <2>2, <2>3, <2>5, LinkedByChallenge DEF SpentApproval, ConsumeConfirms
  <2>6. ASSUME a \in Tokens, NEW signer \in PublicKeys,
               NEW activation \in {"capped", "full"},
               approveProvisioning(a, c, signer, now, activation)
        PROVE  AggregatesLinked'
    <3>1. \A e \in ChallengeIds : challenges'[e].status = "unissued" <=>
                                     challenges[e].status = "unissued"
      BY <2>2, <2>3, <2>6 DEF approveProvisioning, ConsumeConfirms, TypeOK
    <3>2. tokens[a].state = "pending"
      BY <2>6 DEF approveProvisioning, Approvable, transitionProvisioning,
                  PROVISIONING_TRANSITIONS, AggregatesLinked
    <3>3. /\ \/ /\ tokens'[a].state = "active_capped"
                /\ provisioning'[a].state = "token_active_capped"
             \/ /\ tokens'[a].state = "active_full"
                /\ provisioning'[a].state = "token_active_full"
          /\ provisioning'[a].device = provisioning[a].device
      BY <2>6 DEF approveProvisioning, TypeOK, TokenRecord, RequestRecord
    <3>4. /\ \A u \in Tokens \ {a} :
               tokens'[u] = tokens[u] /\ provisioning'[u] = provisioning[u]
          /\ transactions' = transactions
      BY <2>6 DEF approveProvisioning, TypeOK
    <3> QED BY <1>0, <2>6, <3>1, <3>2, <3>3, <3>4 DEF AggregatesLinked
  <2>7. ASSUME a \in Transactions, NEW signer \in PublicKeys,
               confirmTransaction(a, c, signer, now)
        PROVE  AggregatesLinked'
    <3>1. \A e \in ChallengeIds : challenges'[e].status = "unissued" <=>
                                     challenges[e].status = "unissued"
      BY <2>2, <2>3, <2>7 DEF confirmTransaction, ConsumeConfirms, TypeOK
    <3>2. transactions[a].state # "absent"
      BY <1>0, <2>7 DEF confirmTransaction, Approvable, transitionTransaction,
                        TRANSACTION_TRANSITIONS
    <3>3. /\ transactions'[a].state = "confirmed"
          /\ transactions'[a].device = transactions[a].device
      BY <2>7 DEF confirmTransaction, TypeOK, TransactionRecord
    <3>4. /\ \A y \in Transactions \ {a} : transactions'[y] = transactions[y]
          /\ tokens' = tokens /\ provisioning' = provisioning
      BY <2>7 DEF confirmTransaction, TypeOK
    <3> QED BY <1>0, <2>7, <3>1, <3>2, <3>3, <3>4 DEF AggregatesLinked
  <2> QED BY <2>1, <2>4, <2>5, <2>6, <2>7
<1>4. CASE TransactionNext
  <2>1. ASSUME NEW x \in Transactions, receiveClearing(x)
        PROVE  AggregatesLinked'
    <3>1. /\ transactions'[x].state \in {"settled", "exception"}
          /\ transactions'[x].device = transactions[x].device
          /\ transactions[x].state # "absent"
      BY <2>1 DEF receiveClearing, TypeOK, TransactionRecord,
                  transitionTransaction, TRANSACTION_TRANSITIONS
    <3>2. /\ \A y \in Transactions \ {x} : transactions'[y] = transactions[y]
          /\ UNCHANGED <<tokens, provisioning, challenges>>
      BY <2>1 DEF receiveClearing, TypeOK
    <3> QED BY <3>1, <3>2 DEF AggregatesLinked
  <2>2. ASSUME NEW x \in Transactions, NEW now \in Instants,
               expireAndReverse(x, now)
        PROVE  AggregatesLinked'
    <3>1. /\ transactions'[x].state = "reversed"
          /\ transactions'[x].device = transactions[x].device
      BY <2>2 DEF expireAndReverse, Released, TypeOK, TransactionRecord
    <3>2. challenges[x].status = "created" /\ challenges'[x].status = "cancelled"
      BY <1>0, <2>2 DEF expireAndReverse, CancelAllowed, Cancelled, TypeOK,
                        ChallengeRecord
    <3>3. /\ \A y \in Transactions \ {x} : transactions'[y] = transactions[y]
          /\ \A c \in ChallengeIds \ {x} : challenges'[c] = challenges[c]
          /\ UNCHANGED <<tokens, provisioning>>
      BY <2>2 DEF expireAndReverse, TypeOK
    <3> QED BY <1>0, <3>1, <3>2, <3>3 DEF AggregatesLinked
  <2>3. ASSUME NEW x \in Transactions, NEW now \in Instants,
               ExpireAfterDecision(x, now)
        PROVE  AggregatesLinked'
    <3>1. challenges[x] \in ChallengeRecord /\ now \in Nat
      BY <1>0, InstantsAreTimes DEF TypeOK
    <3>2. /\ Cancelled(challenges[x], now) \in ChallengeRecord
          /\ Cancelled(challenges[x], now).status = "cancelled"
      BY <3>1, ChallengeRecordType DEF Cancelled, ChallengeRecord
    <3> QED BY <1>0, <2>3, <3>2, LinkedByChallenge
            DEF ExpireAfterDecision, CancelAllowed
  <2>4. ASSUME NEW x \in Transactions, NEW now \in Instants, NEW t \in Tokens,
               NEW d \in Devices, NEW amount \in Amounts,
               NEW issuedAt \in IssueInstants(now),
               authorize(x, t, d, amount, now, issuedAt)
        PROVE  AggregatesLinked'
    <3>1. /\ transactions'[x].state = "confirmation_pending"
          /\ transactions'[x].device # None
          /\ challenges'[x].status # "unissued"
      BY <1>0, <2>4 DEF authorize, Created, TypeOK
    <3>2. /\ \A y \in Transactions \ {x} : transactions'[y] = transactions[y]
          /\ \A c \in ChallengeIds \ {x} : challenges'[c] = challenges[c]
          /\ UNCHANGED <<tokens, provisioning>>
      BY <2>4 DEF authorize, TypeOK
    <3> QED BY <1>0, <3>1, <3>2 DEF AggregatesLinked
  <2> QED BY <1>4, <2>1, <2>2, <2>3, <2>4 DEF TransactionNext
<1>5. CASE Tick \/ UNCHANGED vars
  BY <1>5 DEF Tick, vars, AggregatesLinked
<1> QED BY <1>1, <1>2, <1>3, <1>4, <1>5 DEF Next

\* Every operation of the engine, the ones that throw half way included,
\* leaves tokens, requests, transactions and challenges in agreement.
THEOREM AggregatesStayLinked == Spec => []AggregatesLinked
<1>1. Init => AggregatesLinked
  BY ConstantsAssumption DEF Init, AggregatesLinked, Unissued
<1> QED BY <1>1, LinkedStep, TypeCorrect, PTL DEF Spec

-----------------------------------------------------------------------------
(* The engine implements the one-shot promise *)

\* What one step of the engine can do to the challenges: issue a new one,
\* confirm one that was created, or close a set of created ones.
Issues(c) ==
  /\ challenges[c].status = "unissued"
  /\ challenges'[c].status = "created"
  /\ \A e \in ChallengeIds \ {c} : challenges'[e] = challenges[e]

Confirms(c) ==
  /\ challenges[c].status = "created"
  /\ challenges'[c].status = "confirmed"
  /\ \A e \in ChallengeIds \ {c} : challenges'[e] = challenges[e]

Closes(S) ==
  /\ \A c \in S : /\ challenges[c].status = "created"
                  /\ challenges'[c].status \in {"expired", "cancelled"}
  /\ \A c \in ChallengeIds \ S : challenges'[c] = challenges[c]

\* What any action does to the challenge map: it issues one challenge, accepts
\* one that is consumable, closes some that are, or leaves the map alone.
LEMMA ChallengeSteps ==
  ASSUME TypeOK, AggregatesLinked, [Next]_vars
  PROVE  \/ \E c \in ChallengeIds : Issues(c) \/ Confirms(c)
         \/ \E S \in SUBSET ChallengeIds : Closes(S)
<1>0. Tokens \subseteq ChallengeIds /\ Transactions \subseteq ChallengeIds
  BY ConstantsAssumption
<1>1. ASSUME UNCHANGED challenges PROVE Closes({})
  BY <1>1 DEF Closes
<1>2. CASE DeviceNext
  <2>1. ASSUME NEW d \in Devices, NEW s \in Subjects, NEW k \in KeyIds,
               NEW p \in PublicKeys, enrollTrustedDevice(d, s, k, p)
        PROVE  UNCHANGED challenges
    BY <2>1 DEF enrollTrustedDevice
  <2>2. ASSUME NEW d \in Devices, NEW now \in Instants,
               invalidateOutstandingChallenges(d, now)
        PROVE  \E S \in SUBSET ChallengeIds : Closes(S)
    <3> DEFINE S == {c \in ChallengeIds :
                       c \in InvalidatedAt(d) /\ CancelAllowed(c, now)}
    <3>1. \A c \in S : /\ challenges[c].status = "created"
                      /\ challenges'[c].status = "cancelled"
      BY <2>2 DEF invalidateOutstandingChallenges, CancelAllowed, Cancelled,
                  TypeOK, ChallengeRecord
    <3>2. \A c \in ChallengeIds \ S : challenges'[c] = challenges[c]
      BY <2>2 DEF invalidateOutstandingChallenges
    <3>3. Closes(S)
      BY <3>1, <3>2 DEF Closes
    <3> QED BY <3>3
  <2> QED BY <1>1, <1>2, <2>1, <2>2
          DEF DeviceNext, revokeTrustedDevice, markTrustedDeviceCompromised,
              retireTrustedDevice, rotateTrustedDeviceKey
<1>3. CASE ProvisioningNext
  <2>1. PICK t \in Tokens, s \in Subjects, d \in Devices, cap \in Caps,
             now \in Instants : requestProvisioning(t, s, d, cap, now)
    BY <1>3 DEF ProvisioningNext
  <2>2. Issues(t)
    BY <1>0, <2>1 DEF requestProvisioning, Issues, Created, TypeOK,
                      AggregatesLinked
  <2> QED BY <1>0, <2>2
<1>4. CASE ApprovalNext
  <2>1. ASSUME NEW a \in ChallengeIds, NEW now \in Instants,
               NEW c \in ChallengeIds, LateApproval(a, c, now)
        PROVE  Closes({c}) /\ {c} \in SUBSET ChallengeIds
    BY <2>1 DEF LateApproval, ConsumeExpires, Expired, Closes, TypeOK,
                ChallengeRecord
  <2>2. ASSUME NEW a \in ChallengeIds, NEW now \in Instants,
               NEW c \in ChallengeIds, NEW signer \in PublicKeys,
               ConsumeConfirms(c, signer, ExpectedKey(a), now),
               challenges' = [challenges EXCEPT ![c] = Confirmed(@, now)]
        PROVE  Confirms(c) /\ c \in ChallengeIds
    BY <2>2 DEF ConsumeConfirms, Confirmed, Confirms, TypeOK, ChallengeRecord
  <2> QED BY <1>4, <2>1, <2>2
          DEF ApprovalNext, SpentApproval, approveProvisioning,
              confirmTransaction
<1>5. CASE TransactionNext
  <2>1. ASSUME NEW x \in Transactions, receiveClearing(x)
        PROVE  UNCHANGED challenges
    BY <2>1 DEF receiveClearing
  <2>2. ASSUME NEW x \in Transactions, NEW now \in Instants,
               CancelAllowed(x, now),
               challenges' = [challenges EXCEPT ![x] = Cancelled(@, now)]
        PROVE  Closes({x}) /\ {x} \in SUBSET ChallengeIds
    BY <1>0, <2>2 DEF CancelAllowed, Cancelled, Closes, TypeOK, ChallengeRecord
  <2>3. ASSUME NEW x \in Transactions, NEW now \in Instants, NEW t \in Tokens,
               NEW d \in Devices, NEW amount \in Amounts,
               NEW issuedAt \in IssueInstants(now),
               authorize(x, t, d, amount, now, issuedAt)
        PROVE  Issues(x)
    BY <1>0, <2>3 DEF authorize, Issues, Created, TypeOK, AggregatesLinked
  <2> QED BY <1>0, <1>1, <1>5, <2>1, <2>2, <2>3
          DEF TransactionNext, expireAndReverse, ExpireAfterDecision
<1>6. CASE Tick \/ UNCHANGED vars
  BY <1>1, <1>6 DEF Tick, vars
<1> QED BY <1>2, <1>3, <1>4, <1>5, <1>6 DEF Next

\* Each of those effects is a step of the abstract store, or a stutter.
LEMMA OneShotStep ==
  ASSUME TypeOK, AggregatesLinked, [Next]_vars
  PROVE  [Promise!Next]_Outcomes
<1>1. /\ Outcomes = [c \in ChallengeIds |-> Outcome(challenges[c])]
      /\ Outcomes' = [c \in ChallengeIds |-> Outcome(challenges'[c])]
  BY DEF Outcomes, Outcome
<1>2. ASSUME NEW c \in ChallengeIds, Issues(c)
      PROVE  Promise!Issue(c)
  <2>1. Outcome(challenges[c]) = "unissued" /\ Outcome(challenges'[c]) = "open"
    BY <1>2 DEF Issues, Outcome
  <2>2. \A e \in ChallengeIds \ {c} :
          Outcome(challenges'[e]) = Outcome(challenges[e])
    BY <1>2 DEF Issues
  <2> QED BY <1>1, <2>1, <2>2 DEF Promise!Issue
<1>3. ASSUME NEW c \in ChallengeIds, Confirms(c)
      PROVE  Promise!Accept(c)
  <2>1. Outcome(challenges[c]) = "open" /\ Outcome(challenges'[c]) = "accepted"
    BY <1>3 DEF Confirms, Outcome
  <2>2. \A e \in ChallengeIds \ {c} :
          Outcome(challenges'[e]) = Outcome(challenges[e])
    BY <1>3 DEF Confirms
  <2> QED BY <1>1, <2>1, <2>2 DEF Promise!Accept
<1>4. ASSUME NEW S \in SUBSET ChallengeIds, Closes(S)
      PROVE  Promise!Close(S) /\ S \in SUBSET Promise!Open
  <2>1. \A c \in S : /\ Outcome(challenges[c]) = "open"
                    /\ Outcome(challenges'[c]) = "closed"
    BY <1>4 DEF Closes, Outcome
  <2>2. \A c \in ChallengeIds \ S :
          Outcome(challenges'[c]) = Outcome(challenges[c])
    BY <1>4 DEF Closes
  <2> QED BY <1>1, <2>1, <2>2 DEF Promise!Close, Promise!Open
<1> QED BY <1>2, <1>3, <1>4, ChallengeSteps DEF Promise!Next

\* INV-01 and INV-04 for every number of devices, tokens and transactions, any
\* clock and any approvals submitted: the engine's challenges are one-shot.
THEOREM EngineImplementsOneShot == Spec => OneShotChallenges
<1>1. Init => Promise!Init
  BY DEF Init, Promise!Init, Outcomes, Outcome, Unissued
<1> QED BY <1>1, OneShotStep, TypeCorrect, AggregatesStayLinked, PTL
        DEF Spec, OneShotChallenges, Promise!Spec

-----------------------------------------------------------------------------
(* Caps *)

\* Only a capped token has daily spend; with SpendWithinCap this is inductive.
SpendOnlyCapped ==
  \A t \in Tokens, day \in Day :
    tokens[t].state # "active_capped" => dailySpend[<<t, day>>] = 0

CapInv == SpendOnlyCapped /\ SpendWithinCap

\* A step that lowers spends and keeps every capped token capped with its cap.
LEMMA CapByRelease ==
  ASSUME TypeOK, TypeOK', CapInv,
         \A t \in Tokens :
           /\ tokens'[t].state = "active_capped" <=>
                tokens[t].state = "active_capped"
           /\ tokens'[t].cap = tokens[t].cap,
         \A t \in Tokens, day \in Day : dailySpend'[<<t, day>>] <= dailySpend[<<t, day>>]
  PROVE  CapInv'
<1>1. \A t \in Tokens, day \in Day :
        /\ dailySpend[<<t, day>>] \in Nat /\ dailySpend'[<<t, day>>] \in Nat
        /\ tokens[t].cap \in Nat
  BY DEF TypeOK, TokenRecord
<1> QED BY <1>1 DEF CapInv, SpendOnlyCapped, SpendWithinCap

\* Every action keeps daily spends within the caps.
LEMMA CapStep ==
  ASSUME TypeOK, AggregatesLinked, CapInv, [Next]_vars PROVE CapInv'
<1>1. TypeOK'
  BY TypeStep
<1>2. \A t \in Tokens, day \in Day :
        dailySpend[<<t, day>>] \in Nat /\ tokens[t].cap \in Nat
  BY DEF TypeOK, TokenRecord
<1>3. ASSUME UNCHANGED <<tokens, dailySpend>> PROVE CapInv'
  BY <1>3 DEF CapInv, SpendOnlyCapped, SpendWithinCap
<1>4. CASE DeviceNext
  <2>1. ASSUME NEW d \in Devices, NEW s \in Subjects, NEW k \in KeyIds,
               NEW p \in PublicKeys, enrollTrustedDevice(d, s, k, p)
        PROVE  UNCHANGED <<tokens, dailySpend>>
    BY <2>1 DEF enrollTrustedDevice
  <2>2. ASSUME NEW d \in Devices, NEW now \in Instants,
               invalidateOutstandingChallenges(d, now)
        PROVE  CapInv'
    <3>1. \A t \in Tokens :
            /\ tokens'[t].state = "active_capped" <=>
                 tokens[t].state = "active_capped"
            /\ tokens'[t].cap = tokens[t].cap
      BY <2>2 DEF invalidateOutstandingChallenges, Declined, TypeOK, TokenRecord
    <3>2. \A k \in Tokens \X Day : dailySpend'[k] <= dailySpend[k]
      BY <2>2, ReleaseType DEF invalidateOutstandingChallenges
    <3> QED BY <1>1, <3>1, <3>2, CapByRelease
  <2> QED BY <1>3, <1>4, <2>1, <2>2
          DEF DeviceNext, revokeTrustedDevice, markTrustedDeviceCompromised,
              retireTrustedDevice, rotateTrustedDeviceKey
<1>5. CASE ProvisioningNext
  <2>1. PICK t \in Tokens, s \in Subjects, d \in Devices, cap \in Caps,
             now \in Instants : requestProvisioning(t, s, d, cap, now)
    BY <1>5 DEF ProvisioningNext
  <2>2. /\ tokens[t].state = "absent" /\ tokens'[t].state = "pending"
        /\ \A u \in Tokens \ {t} : tokens'[u] = tokens[u]
        /\ dailySpend' = dailySpend
    BY <2>1 DEF requestProvisioning, TypeOK
  <2> QED BY <2>2 DEF CapInv, SpendOnlyCapped, SpendWithinCap
<1>6. CASE ApprovalNext
  <2>1. ASSUME NEW a \in ChallengeIds, NEW now \in Instants, NEW c,
               NEW signer,
               \/ LateApproval(a, c, now) \/ SpentApproval(a, c, signer, now)
               \/ confirmTransaction(a, c, signer, now)
        PROVE  UNCHANGED <<tokens, dailySpend>>
    BY <2>1 DEF LateApproval, SpentApproval, confirmTransaction
  <2>2. ASSUME NEW t \in Tokens, NEW c, NEW signer, NEW now \in Instants,
               NEW activation \in {"capped", "full"},
               approveProvisioning(t, c, signer, now, activation)
        PROVE  CapInv'
    <3>1. tokens[t].state = "pending"
      BY <2>2 DEF approveProvisioning, Approvable, transitionProvisioning,
                  PROVISIONING_TRANSITIONS, AggregatesLinked
    <3>2. \A day \in Day : dailySpend[<<t, day>>] = 0
      BY <3>1 DEF CapInv, SpendOnlyCapped
    <3>3. /\ \A u \in Tokens \ {t} : tokens'[u] = tokens[u]
          /\ dailySpend' = dailySpend
      BY <2>2 DEF approveProvisioning, TypeOK
    <3>4. tokens'[t].cap \in Nat
      BY <1>1 DEF TypeOK, TokenRecord
    <3> QED BY <3>2, <3>3, <3>4 DEF CapInv, SpendOnlyCapped, SpendWithinCap
  <2> QED BY <1>3, <1>6, <2>1, <2>2 DEF ApprovalNext
<1>7. CASE TransactionNext
  <2>1. ASSUME NEW x \in Transactions, NEW now,
               receiveClearing(x) \/ ExpireAfterDecision(x, now)
        PROVE  UNCHANGED <<tokens, dailySpend>>
    BY <2>1 DEF receiveClearing, ExpireAfterDecision
  <2>2. ASSUME NEW x \in Transactions, NEW now \in Instants,
               expireAndReverse(x, now)
        PROVE  CapInv'
    <3>1. \A k \in Tokens \X Day : dailySpend'[k] <= dailySpend[k]
      BY <2>2, ReleaseType DEF expireAndReverse
    <3>2. tokens' = tokens
      BY <2>2 DEF expireAndReverse
    <3> QED BY <1>1, <3>1, <3>2, CapByRelease
  <2>3. ASSUME NEW x \in Transactions, NEW now \in Instants, NEW t \in Tokens,
               NEW d \in Devices, NEW amount \in Amounts,
               NEW issuedAt \in IssueInstants(now),
               authorize(x, t, d, amount, now, issuedAt)
        PROVE  CapInv'
    <3>1. DayOf(now) \in Day
      BY InstantsAreTimes, DayOfTime
    <3>2. tokens' = tokens
      BY <2>3 DEF authorize
    <3>3. CASE tokens[t].state # "active_capped"
      BY <1>3, <2>3, <3>2, <3>3 DEF authorize
    <3>4. CASE tokens[t].state = "active_capped"
      <4>1. /\ dailySpend' = [dailySpend EXCEPT
                               ![<<t, DayOf(now)>>] = @ + amount]
            /\ dailySpend[<<t, DayOf(now)>>] + amount <= 2 * tokens[t].cap
        BY <2>3, <3>4 DEF authorize, FitsCap
      <4>2. dailySpend'[<<t, DayOf(now)>>] = dailySpend[<<t, DayOf(now)>>] + amount
        BY <3>1, <4>1 DEF TypeOK
      <4>3. \A u \in Tokens, day \in Day :
              <<u, day>> # <<t, DayOf(now)>> =>
                dailySpend'[<<u, day>>] = dailySpend[<<u, day>>]
        BY <4>1 DEF TypeOK
      <4> QED BY <3>2, <3>4, <4>1, <4>2, <4>3
              DEF CapInv, SpendOnlyCapped, SpendWithinCap
    <3> QED BY <3>3, <3>4
  <2> QED BY <1>3, <1>7, <2>1, <2>2, <2>3 DEF TransactionNext
<1>8. CASE Tick \/ UNCHANGED vars
  BY <1>3, <1>8 DEF Tick, vars
<1> QED BY <1>4, <1>5, <1>6, <1>7, <1>8 DEF Next

\* INV-07 for every cap, amount and number of transactions: the reserved spend
\* of a capped token never exceeds its daily cap.
THEOREM CapsHold == Spec => []SpendWithinCap
<1>1. Init => CapInv
  BY DEF Init, CapInv, SpendOnlyCapped, SpendWithinCap
<1>2. CapInv => SpendWithinCap
  BY DEF CapInv
<1> QED BY <1>1, <1>2, CapStep, TypeCorrect, AggregatesStayLinked, PTL DEF Spec

-----------------------------------------------------------------------------
(* Approvals never outlive the key they were made with *)

\* An audit append for an aggregate touches no device's trail.
LEMMA LogOfAggregate ==
  ASSUME TypeOK, NEW a \in ChallengeIds, NEW type, NEW named, NEW result,
         Log(a, type, named, result)
  PROVE  \A d \in Devices : audit'[d] = audit[d]
BY ConstantsAssumption DEF Log, TypeOK

\* A pending aggregate has a device.
LEMMA PendingHasDevice ==
  ASSUME TypeOK, AggregatesLinked, NEW c \in ChallengeIds, Pending(c)
  PROVE  DeviceOf(c) \in Devices
<1>1. CASE c \in Tokens
  <2>1. provisioning[c].device # None
    BY <1>1 DEF Pending, AggregatesLinked
  <2> QED BY <1>1, <2>1 DEF DeviceOf, TypeOK, RequestRecord
<1>2. CASE c \in Transactions
  <2>1. transactions[c].device # None /\ c \notin Tokens
    BY <1>2, ConstantsAssumption DEF Pending, AggregatesLinked
  <2> QED BY <1>2, <2>1 DEF DeviceOf, TypeOK, TransactionRecord
<1> QED BY <1>1, <1>2, ConstantsAssumption

\* A step that changes no device and makes nothing newly pending and
\* consumable keeps PendingIsCurrent.
LEMMA CurrentByAggregate ==
  ASSUME TypeOK, AggregatesLinked, PendingIsCurrent,
         UNCHANGED devices, \A d \in Devices : audit'[d] = audit[d],
         \A c \in ChallengeIds :
           Pending(c)' /\ challenges'[c].status = "created" =>
             /\ Pending(c) /\ challenges[c].status = "created"
             /\ DeviceOf(c)' = DeviceOf(c) /\ issuedEpoch'[c] = issuedEpoch[c]
  PROVE  PendingIsCurrent'
<1> SUFFICES ASSUME NEW c \in ChallengeIds, Pending(c)',
                    challenges'[c].status = "created"
             PROVE  /\ devices'[DeviceOf(c)'].status = "active"
                    /\ issuedEpoch'[c] = Len(audit'[DeviceOf(c)'])
  BY DEF PendingIsCurrent
<1>1. /\ Pending(c) /\ challenges[c].status = "created"
      /\ DeviceOf(c)' = DeviceOf(c) /\ issuedEpoch'[c] = issuedEpoch[c]
  OBVIOUS
<1>2. DeviceOf(c) \in Devices
  BY <1>1, PendingHasDevice
<1>3. /\ devices[DeviceOf(c)].status = "active"
      /\ issuedEpoch[c] = Len(audit[DeviceOf(c)])
  BY <1>1 DEF PendingIsCurrent
<1> QED BY <1>1, <1>2, <1>3

\* After invalidateOutstandingChallenges for device d no aggregate of d is
\* both pending and consumable, so what the step does to d itself is harmless.
LEMMA CurrentByInvalidation ==
  ASSUME TypeOK, AggregatesLinked, PendingIsCurrent, NEW d \in Devices,
         NEW now \in Instants, invalidateOutstandingChallenges(d, now),
         \A e \in Devices \ {d} : devices'[e] = devices[e] /\ audit'[e] = audit[e],
         UNCHANGED issuedEpoch
  PROVE  PendingIsCurrent'
<1> SUFFICES ASSUME NEW c \in ChallengeIds, Pending(c)',
                    challenges'[c].status = "created"
             PROVE  /\ devices'[DeviceOf(c)'].status = "active"
                    /\ issuedEpoch'[c] = Len(audit'[DeviceOf(c)'])
  BY DEF PendingIsCurrent
<1>0. ChallengeIds = Tokens \cup Transactions /\ Tokens \cap Transactions = {}
  BY ConstantsAssumption
<1>1. DeviceOf(c)' = DeviceOf(c)
  <2>1. CASE c \in Tokens
    BY <2>1 DEF DeviceOf, invalidateOutstandingChallenges, TypeOK, RequestRecord
  <2>2. CASE c \in Transactions
    BY <1>0, <2>2 DEF DeviceOf, invalidateOutstandingChallenges, Released,
                      TypeOK, TransactionRecord
  <2> QED BY <1>0, <2>1, <2>2
<1>2. c \notin InvalidatedAt(d) /\ Pending(c)
  <2>1. CASE c \in Tokens
    <3>1. c \in InvalidatedAt(d) => provisioning'[c].state = "declined"
      BY <2>1 DEF invalidateOutstandingChallenges, TypeOK, RequestRecord
    <3>2. c \notin InvalidatedAt(d) => provisioning'[c] = provisioning[c]
      BY <2>1 DEF invalidateOutstandingChallenges
    <3> QED BY <2>1, <3>1, <3>2 DEF Pending
  <2>2. CASE c \in Transactions
    <3>1. c \in InvalidatedAt(d) => transactions'[c].state = "declined"
      BY <2>2 DEF invalidateOutstandingChallenges, Released, TypeOK,
                  TransactionRecord
    <3>2. c \notin InvalidatedAt(d) => transactions'[c] = transactions[c]
      BY <2>2 DEF invalidateOutstandingChallenges
    <3> QED BY <1>0, <2>2, <3>1, <3>2 DEF Pending
  <2> QED BY <1>0, <2>1, <2>2
<1>3. challenges[c].status = "created"
  BY <1>2 DEF invalidateOutstandingChallenges
<1>4. DeviceOf(c) # d
  BY <1>2, <1>3 DEF InvalidatedAt, OutstandingAt
<1>5. DeviceOf(c) \in Devices
  BY <1>2, PendingHasDevice
<1>6. /\ devices[DeviceOf(c)].status = "active"
      /\ issuedEpoch[c] = Len(audit[DeviceOf(c)])
  BY <1>2, <1>3 DEF PendingIsCurrent
<1> QED BY <1>1, <1>4, <1>5, <1>6

\* Every action keeps consumable challenges of pending aggregates current.
LEMMA CurrentStep ==
  ASSUME TypeOK, AggregatesLinked, PendingIsCurrent, [Next]_vars
  PROVE  PendingIsCurrent'
<1>0. /\ ChallengeIds = Tokens \cup Transactions /\ Tokens \cap Transactions = {}
      /\ Tokens \subseteq ChallengeIds /\ Transactions \subseteq ChallengeIds
  BY ConstantsAssumption
<1>1. CASE DeviceNext
  <2>1. ASSUME NEW d \in Devices, NEW s \in Subjects, NEW k \in KeyIds,
               NEW p \in PublicKeys, enrollTrustedDevice(d, s, k, p)
        PROVE  PendingIsCurrent'
    <3>1. /\ \A e \in Devices \ {d} :
               devices'[e] = devices[e] /\ audit'[e] = audit[e]
          /\ UNCHANGED <<issuedEpoch, challenges, provisioning, transactions>>
          /\ devices[d].status = "absent"
      BY <2>1 DEF enrollTrustedDevice, Log, TypeOK
    <3>2. ASSUME NEW c \in ChallengeIds, Pending(c),
                 challenges[c].status = "created"
          PROVE  DeviceOf(c) \in Devices \ {d}
      BY <3>1, <3>2, PendingHasDevice DEF PendingIsCurrent
    <3>3. \A c \in ChallengeIds : /\ DeviceOf(c)' = DeviceOf(c)
                                  /\ Pending(c)' = Pending(c)
      BY <3>1 DEF DeviceOf, Pending
    <3> QED BY <3>1, <3>2, <3>3 DEF PendingIsCurrent
  <2>2. ASSUME NEW d \in Devices, NEW now \in Instants, NEW type,
               retireTrustedDevice(d, now, type)
        PROVE  PendingIsCurrent'
    <3>1. /\ \A e \in Devices \ {d} :
               devices'[e] = devices[e] /\ audit'[e] = audit[e]
          /\ UNCHANGED issuedEpoch
          /\ invalidateOutstandingChallenges(d, now)
      BY <2>2 DEF retireTrustedDevice, Log, TypeOK
    <3> QED BY <3>1, CurrentByInvalidation
  <2>3. ASSUME NEW d \in Devices, NEW now \in Instants, NEW k \in KeyIds,
               NEW p \in PublicKeys, rotateTrustedDeviceKey(d, k, p, now)
        PROVE  PendingIsCurrent'
    <3>1. /\ \A e \in Devices \ {d} :
               devices'[e] = devices[e] /\ audit'[e] = audit[e]
          /\ UNCHANGED issuedEpoch
          /\ invalidateOutstandingChallenges(d, now)
      BY <2>3 DEF rotateTrustedDeviceKey, Log, TypeOK
    <3> QED BY <3>1, CurrentByInvalidation
  <2> QED BY <1>1, <2>1, <2>2, <2>3
          DEF DeviceNext, revokeTrustedDevice, markTrustedDeviceCompromised
<1>2. ASSUME NEW n \in ChallengeIds, NEW d \in Devices,
             devices[d].status = "active", DeviceOf(n)' = d,
             issuedEpoch'[n] = Len(audit[d]), UNCHANGED devices,
             \A e \in Devices : audit'[e] = audit[e],
             \A c \in ChallengeIds \ {n} :
               /\ Pending(c)' = Pending(c) /\ DeviceOf(c)' = DeviceOf(c)
               /\ challenges'[c] = challenges[c]
               /\ issuedEpoch'[c] = issuedEpoch[c]
      PROVE  PendingIsCurrent'
  <2> SUFFICES ASSUME NEW c \in ChallengeIds, Pending(c)',
                      challenges'[c].status = "created"
               PROVE  /\ devices'[DeviceOf(c)'].status = "active"
                      /\ issuedEpoch'[c] = Len(audit'[DeviceOf(c)'])
    BY DEF PendingIsCurrent
  <2>1. CASE c = n
    BY <1>2, <2>1
  <2>2. CASE c # n
    <3>1. DeviceOf(c) \in Devices
      BY <1>2, <2>2, PendingHasDevice
    <3> QED BY <1>2, <2>2, <3>1 DEF PendingIsCurrent
  <2> QED BY <2>1, <2>2
<1>3. CASE ProvisioningNext
  <2>1. PICK t \in Tokens, s \in Subjects, d \in Devices, cap \in Caps,
             now \in Instants : requestProvisioning(t, s, d, cap, now)
    BY <1>3 DEF ProvisioningNext
  <2>2. /\ devices[d].status = "active" /\ UNCHANGED devices
        /\ DeviceOf(t)' = d
        /\ issuedEpoch'[t] = Len(audit[d])
    BY <1>0, <2>1 DEF requestProvisioning, requireActiveDevice, DeviceOf, TypeOK
  <2>3. \A e \in Devices : audit'[e] = audit[e]
    BY <1>0, <2>1, LogOfAggregate DEF requestProvisioning
  <2>4. \A c \in ChallengeIds \ {t} :
          /\ Pending(c)' = Pending(c) /\ DeviceOf(c)' = DeviceOf(c)
          /\ challenges'[c] = challenges[c]
          /\ issuedEpoch'[c] = issuedEpoch[c]
    BY <1>0, <2>1 DEF requestProvisioning, Pending, DeviceOf, TypeOK
  <2> QED BY <1>0, <1>2, <2>2, <2>3, <2>4
<1>4. CASE ApprovalNext
  <2>0. PICK a \in ChallengeIds, now \in Instants :
          \E c \in ChallengeIds :
            \/ LateApproval(a, c, now)
            \/ \E signer \in PublicKeys :
                 \/ SpentApproval(a, c, signer, now)
                 \/ /\ a \in Tokens
                    /\ \E activation \in {"capped", "full"} :
                         approveProvisioning(a, c, signer, now, activation)
                 \/ /\ a \in Transactions
                    /\ confirmTransaction(a, c, signer, now)
    BY <1>4 DEF ApprovalNext
  <2>1. PICK c \in ChallengeIds :
          \/ LateApproval(a, c, now)
          \/ \E signer \in PublicKeys :
               \/ SpentApproval(a, c, signer, now)
               \/ /\ a \in Tokens
                  /\ \E activation \in {"capped", "full"} :
                       approveProvisioning(a, c, signer, now, activation)
               \/ /\ a \in Transactions
                  /\ confirmTransaction(a, c, signer, now)
    BY <2>0
  <2>2. c \in ChallengeIds
    OBVIOUS
  <2>3. \A e \in ChallengeIds :
          challenges'[e].status = "created" => challenges[e].status = "created"
    BY <2>1, <2>2 DEF LateApproval, SpentApproval, approveProvisioning,
         confirmTransaction, ConsumeConfirms, ConsumeExpires, Expired,
         Confirmed, TypeOK, ChallengeRecord
  <2>4. UNCHANGED <<devices, issuedEpoch>>
    BY <2>1 DEF LateApproval, SpentApproval, approveProvisioning,
                confirmTransaction
  <2>5. \A d \in Devices : audit'[d] = audit[d]
    BY <2>1, LogOfAggregate DEF LateApproval, SpentApproval,
         approveProvisioning, confirmTransaction
  <2>6. CASE UNCHANGED <<provisioning, transactions>>
    <3>1. \A e \in ChallengeIds :
            Pending(e)' = Pending(e) /\ DeviceOf(e)' = DeviceOf(e)
      BY <2>6 DEF Pending, DeviceOf
    <3> QED BY <2>3, <2>4, <2>5, <3>1, CurrentByAggregate
  <2>7. ASSUME a \in Tokens, NEW signer, NEW activation \in {"capped", "full"},
               approveProvisioning(a, c, signer, now, activation)
        PROVE  PendingIsCurrent'
    <3>1. /\ provisioning'[a].device = provisioning[a].device
          /\ provisioning'[a].state # "trusted_device_challenge"
      BY <2>7 DEF approveProvisioning, TypeOK, RequestRecord
    <3>2. /\ \A t \in Tokens \ {a} : provisioning'[t] = provisioning[t]
          /\ transactions' = transactions
      BY <2>7 DEF approveProvisioning, TypeOK
    <3>3. \A e \in ChallengeIds :
            (Pending(e)' => Pending(e)) /\ DeviceOf(e)' = DeviceOf(e)
      BY <2>7, <3>1, <3>2 DEF Pending, DeviceOf
    <3> QED BY <2>3, <2>4, <2>5, <3>3, CurrentByAggregate
  <2>8. ASSUME a \in Transactions, NEW signer,
               confirmTransaction(a, c, signer, now)
        PROVE  PendingIsCurrent'
    <3>1. /\ transactions'[a].device = transactions[a].device
          /\ transactions'[a].state = "confirmed"
      BY <2>8 DEF confirmTransaction, TypeOK, TransactionRecord
    <3>2. /\ \A x \in Transactions \ {a} : transactions'[x] = transactions[x]
          /\ provisioning' = provisioning
      BY <2>8 DEF confirmTransaction, TypeOK
    <3>3. \A e \in ChallengeIds :
            (Pending(e)' => Pending(e)) /\ DeviceOf(e)' = DeviceOf(e)
      BY <1>0, <2>8, <3>1, <3>2 DEF Pending, DeviceOf
    <3> QED BY <2>3, <2>4, <2>5, <3>3, CurrentByAggregate
  <2> QED BY <2>1, <2>6, <2>7, <2>8 DEF LateApproval, SpentApproval
<1>5. CASE TransactionNext
  <2>1. ASSUME NEW x \in Transactions, NEW now, NEW st,
               st # "confirmation_pending",
               transactions'[x].state = st,
               transactions'[x].device = transactions[x].device,
               \A y \in Transactions \ {x} : transactions'[y] = transactions[y],
               \A e \in ChallengeIds : challenges'[e].status = "created" =>
                                          challenges[e].status = "created",
               UNCHANGED <<devices, provisioning, issuedEpoch>>,
               \A d \in Devices : audit'[d] = audit[d]
        PROVE  PendingIsCurrent'
    <3>1. \A e \in ChallengeIds :
            (Pending(e)' => Pending(e)) /\ DeviceOf(e)' = DeviceOf(e)
      BY <1>0, <2>1 DEF Pending, DeviceOf
    <3> QED BY <2>1, <3>1, CurrentByAggregate
  <2>2. ASSUME NEW x \in Transactions, receiveClearing(x)
        PROVE  PendingIsCurrent'
    <3>1. /\ transactions'[x].state \in {"settled", "exception"}
          /\ transactions'[x].device = transactions[x].device
      BY <2>2 DEF receiveClearing, TypeOK, TransactionRecord
    <3>2. /\ \A y \in Transactions \ {x} : transactions'[y] = transactions[y]
          /\ UNCHANGED <<devices, provisioning, issuedEpoch, challenges>>
      BY <2>2 DEF receiveClearing, TypeOK
    <3>3. \A d \in Devices : audit'[d] = audit[d]
      BY <1>0, <2>2, LogOfAggregate DEF receiveClearing
    <3> QED BY <2>1, <3>1, <3>2, <3>3
  <2>3. ASSUME NEW x \in Transactions, NEW now \in Instants,
               expireAndReverse(x, now)
        PROVE  PendingIsCurrent'
    <3>1. /\ transactions'[x].state = "reversed"
          /\ transactions'[x].device = transactions[x].device
      BY <2>3 DEF expireAndReverse, Released, TypeOK, TransactionRecord
    <3>2. /\ \A y \in Transactions \ {x} : transactions'[y] = transactions[y]
          /\ UNCHANGED <<devices, provisioning, issuedEpoch>>
      BY <2>3 DEF expireAndReverse, TypeOK
    <3>3. \A d \in Devices : audit'[d] = audit[d]
      BY <1>0, <2>3, LogOfAggregate DEF expireAndReverse
    <3>4. \A e \in ChallengeIds : challenges'[e].status = "created" =>
                                      challenges[e].status = "created"
      BY <1>0, <2>3 DEF expireAndReverse, CancelAllowed, TypeOK
    <3> QED BY <2>1, <3>1, <3>2, <3>3, <3>4
  <2>4. ASSUME NEW x \in Transactions, NEW now \in Instants,
               ExpireAfterDecision(x, now)
        PROVE  PendingIsCurrent'
    <3>1. UNCHANGED <<devices, provisioning, transactions, issuedEpoch, audit>>
      BY <2>4 DEF ExpireAfterDecision
    <3>2. \A e \in ChallengeIds : challenges'[e].status = "created" =>
                                      challenges[e].status = "created"
      BY <1>0, <2>4 DEF ExpireAfterDecision, CancelAllowed, TypeOK
    <3>3. \A e \in ChallengeIds :
            Pending(e)' = Pending(e) /\ DeviceOf(e)' = DeviceOf(e)
      BY <3>1 DEF Pending, DeviceOf
    <3> QED BY <3>1, <3>2, <3>3, CurrentByAggregate
  <2>5. ASSUME NEW x \in Transactions, NEW now \in Instants, NEW t \in Tokens,
               NEW d \in Devices, NEW amount \in Amounts,
               NEW issuedAt \in IssueInstants(now),
               authorize(x, t, d, amount, now, issuedAt)
        PROVE  PendingIsCurrent'
    <3>1. /\ devices[d].status = "active" /\ UNCHANGED devices
          /\ DeviceOf(x)' = d
          /\ issuedEpoch'[x] = Len(audit[d])
      BY <1>0, <2>5 DEF authorize, requireActiveDevice, DeviceOf, TypeOK
    <3>2. \A e \in Devices : audit'[e] = audit[e]
      BY <1>0, <2>5, LogOfAggregate DEF authorize
    <3>3. \A c \in ChallengeIds \ {x} :
            /\ Pending(c)' = Pending(c) /\ DeviceOf(c)' = DeviceOf(c)
            /\ challenges'[c] = challenges[c]
            /\ issuedEpoch'[c] = issuedEpoch[c]
      BY <1>0, <2>5 DEF authorize, Pending, DeviceOf, TypeOK
    <3> QED BY <1>0, <1>2, <3>1, <3>2, <3>3
  <2> QED BY <1>5, <2>2, <2>3, <2>4, <2>5 DEF TransactionNext
<1>6. CASE Tick \/ UNCHANGED vars
  <2>1. UNCHANGED <<devices, provisioning, transactions, challenges, audit,
                    issuedEpoch>>
    BY <1>6 DEF Tick, vars
  <2> QED BY <2>1 DEF PendingIsCurrent, Pending, DeviceOf
<1> QED BY <1>1, <1>3, <1>4, <1>5, <1>6 DEF Next

\* For every number of devices, keys and rotations: a challenge that can still
\* be approved was issued under the device's present key, on an active device.
THEOREM ApprovalsAreCurrent == Spec => []PendingIsCurrent
<1>1. Init => PendingIsCurrent
  BY DEF Init, PendingIsCurrent, Unissued
<1> QED BY <1>1, CurrentStep, TypeCorrect, AggregatesStayLinked, PTL DEF Spec

-----------------------------------------------------------------------------
(* What a step does to an aggregate, its challenge and its trail *)

\* The lifecycle state of an aggregate, and the result its trail records for it.
Phase(c) == IF c \in Tokens THEN provisioning[c].state ELSE transactions[c].state
Result(phase) ==
  CASE phase = "trusted_device_challenge" -> "pending"
    [] phase = "token_active_capped" -> "capped"
    [] phase = "token_active_full" -> "full"
    [] OTHER -> phase

\* The aggregate and its trail are left alone; all but one are; no device and no
\* device's trail changes.
Kept(c) ==
  Phase(c)' = Phase(c) /\ DeviceOf(c)' = DeviceOf(c) /\ audit'[c] = audit[c]
KeptBut(a) == \A c \in ChallengeIds \ {a} : Kept(c)
DevicesKept == UNCHANGED devices /\ \A d \in Devices : audit'[d] = audit[d]

\* A trail with one more event (a predicate, so that Append is not expanded where
\* the facts about it are used).
Extends(g, h, e) == g = Append(h, e)

\* The aggregate keeps its device and its trail records where it went.
Moves(a) ==
  /\ DeviceOf(a)' = DeviceOf(a)
  /\ \E e \in Event : Extends(audit'[a], audit[a], e) /\ e.result = Result(Phase(a)')
  /\ KeptBut(a)

\* The challenge of c becomes r.
Becomes(c, r) == challenges' = [challenges EXCEPT ![c] = r]

\* requestProvisioning and authorize
Starts(n, d, issuedAt, ttl) ==
  /\ Phase(n) = "absent" /\ Pending(n)'
  /\ devices[d].status = "active" /\ DeviceOf(n)' = d
  /\ \E e \in Event : Extends(audit'[n], audit[n], e) /\ e.result = Result(Phase(n)')
  /\ Becomes(n, Created(issuedAt, ttl)) /\ ttl # 0
  /\ KeptBut(n) /\ DevicesKept
  /\ ~CallerClock => issuedAt = clock'
  /\ ApprovedBy(n)' = ApprovedBy(n)

\* approveProvisioning and confirmTransaction
Accepts(a, c, now) ==
  /\ Pending(a)
  /\ Phase(a)' \in {"token_active_capped", "token_active_full", "confirmed"}
  /\ challenges[c].status = "created" /\ Becomes(c, Confirmed(challenges[c], now))
  /\ ApprovedBy(a)' = ApprovedBy(a) \cup {c}
  /\ Moves(a) /\ DevicesKept /\ UNCHANGED clock

\* SpentApproval
Spends(a, c, now) ==
  /\ ~Pending(a)
  /\ challenges[c].status = "created" /\ Becomes(c, Confirmed(challenges[c], now))
  /\ (\A e \in ChallengeIds : Kept(e)) /\ DevicesKept /\ UNCHANGED clock

\* LateApproval
Overruns(c) ==
  /\ challenges[c].status = "created" /\ Becomes(c, Expired(challenges[c]))
  /\ (\A e \in ChallengeIds : Kept(e)) /\ DevicesKept /\ UNCHANGED clock

\* ExpireAfterDecision
Withdraws(x, now) ==
  /\ ~Pending(x)
  /\ CancelAllowed(x, now) /\ Becomes(x, Cancelled(challenges[x], now))
  /\ (\A e \in ChallengeIds : Kept(e)) /\ DevicesKept /\ UNCHANGED clock

\* expireAndReverse
Reverses(x, now) ==
  /\ Pending(x) /\ Phase(x)' = "reversed"
  /\ CancelAllowed(x, now) /\ Becomes(x, Cancelled(challenges[x], now))
  /\ ApprovedBy(x)' = ApprovedBy(x)
  /\ Moves(x) /\ DevicesKept /\ UNCHANGED clock

\* receiveClearing
Clears(x) ==
  /\ \/ Phase(x) = "confirmed" /\ Phase(x)' = "settled"
     \/ Phase(x) = "reversed" /\ Phase(x)' = "exception"
  /\ ApprovedBy(x)' = ApprovedBy(x)
  /\ Moves(x) /\ DevicesKept /\ UNCHANGED <<challenges, clock>>

\* The trail of d, and no other, has one more event, which names S.
Lists(d, S) ==
  /\ \E e \in Event : Extends(audit'[d], audit[d], e) /\ e.named = S
  /\ \A f \in Devices \ {d} : audit'[f] = audit[f] /\ devices'[f] = devices[f]

\* enrollTrustedDevice
Enrols(d) ==
  /\ devices[d].status = "absent" /\ devices'[d].status = "active"
  /\ Lists(d, {}) /\ (\A e \in ChallengeIds : Kept(e)) /\ UNCHANGED <<challenges, clock>>

\* revokeTrustedDevice, markTrustedDeviceCompromised, rotateTrustedDeviceKey
Invalidates(d, now) ==
  /\ devices[d].status = "active"
  /\ \/ devices'[d].status = "active" /\ Len(audit[d]) < MaxDeviceEvents
     \/ devices'[d].status = "revoked"
  /\ PlanIsValid(d, now)
  /\ \A c \in InvalidatedAt(d) :
       /\ Pending(c) /\ DeviceOf(c) = d /\ Phase(c)' = "declined"
       /\ DeviceOf(c)' = d /\ audit'[c] = audit[c]
  /\ \A c \in ChallengeIds \ InvalidatedAt(d) : Kept(c)
  /\ challenges' = [c \in ChallengeIds |->
                      IF c \in InvalidatedAt(d) /\ CancelAllowed(c, now)
                        THEN Cancelled(challenges[c], now) ELSE challenges[c]]
  /\ Lists(d, InvalidatedAt(d)) /\ UNCHANGED clock

\* The clock alone
Waits ==
  /\ (\A e \in ChallengeIds : Kept(e)) /\ DevicesKept /\ UNCHANGED challenges
  /\ clock' >= clock

Kinds ==
  \/ Waits
  \/ \E d \in Devices : Enrols(d) \/ \E now \in Instants : Invalidates(d, now)
  \/ \E n \in ChallengeIds, d \in Devices, issuedAt \in Time, ttl \in Nat :
       Starts(n, d, issuedAt, ttl)
  \/ \E a \in ChallengeIds, now \in Instants :
       \E c \in ChallengeIds : Accepts(a, c, now) \/ Spends(a, c, now) \/ Overruns(c)
  \/ \E x \in Transactions :
       Clears(x) \/ \E now \in Instants : Withdraws(x, now) \/ Reverses(x, now)

\* Aggregates whose request or transaction, and trail, are left alone.
LEMMA KeptByFrame ==
  ASSUME TypeOK, NEW c \in ChallengeIds, audit'[c] = audit[c],
         c \in Tokens => provisioning'[c] = provisioning[c],
         c \in Transactions => transactions'[c] = transactions[c]
  PROVE  Kept(c) /\ Pending(c)' = Pending(c)
BY ConstantsAssumption DEF Kept, Phase, DeviceOf, Pending

\* An audit append extends one trail.
LEMMA LogExtends ==
  ASSUME TypeOK, NEW a \in Devices \cup ChallengeIds, NEW type \in EventType,
         NEW named \in SUBSET ChallengeIds, NEW result \in EventResult,
         Log(a, type, named, result)
  PROVE  /\ \E e \in Event : /\ Extends(audit'[a], audit[a], e)
                             /\ e.named = named /\ e.result = result
         /\ \A b \in Devices \cup ChallengeIds : b # a => audit'[b] = audit[b]
<1>0. PICK e : e = [type |-> type, named |-> named, result |-> result]
  OBVIOUS
<1>1. e \in Event /\ e.named = named /\ e.result = result
  BY <1>0 DEF Event
<1>2. audit' = [audit EXCEPT ![a] = Append(audit[a], e)]
  BY <1>0 DEF Log
<1>3. /\ audit'[a] = Append(audit[a], e)
      /\ \A b \in Devices \cup ChallengeIds : b # a => audit'[b] = audit[b]
  BY <1>2 DEF TypeOK
<1>4. Extends(audit'[a], audit[a], e)
  BY <1>3 DEF Extends
<1>5. QED BY <1>1, <1>3, <1>4

\* The events of an approval, and what they name: an append to the trail of an
\* aggregate adds to the challenges it was approved by only if it is one.
Approving == {"provisioning.approved", "transaction.confirmed"}
LEMMA LogApproves ==
  ASSUME TypeOK, NEW a \in ChallengeIds, NEW type \in EventType,
         NEW named \in SUBSET ChallengeIds, NEW result \in EventResult,
         Log(a, type, named, result)
  PROVE  ApprovedBy(a)' = ApprovedBy(a) \cup IF type \in Approving THEN named ELSE {}
<1> DEFINE h == audit[a]
           g == audit'[a]
<1>0. PICK e : e = [type |-> type, named |-> named, result |-> result]
  OBVIOUS
<1>1. e \in Event /\ e.type = type /\ e.named = named
  BY <1>0 DEF Event
<1>2. h \in Seq(Event) /\ Len(h) \in Nat
  BY DEF TypeOK
<1>3. g = Append(h, e)
  BY <1>0 DEF Log, TypeOK
<1>4. /\ Len(g) = Len(h) + 1 /\ g[Len(h) + 1] = e
      /\ \A i \in 1 .. Len(h) : g[i] = h[i]
  BY <1>1, <1>2, <1>3
<1>5. \A c : c \in ApprovedBy(a) <=>
        \E i \in 1 .. Len(h) : h[i].type \in Approving /\ c \in h[i].named
  BY DEF ApprovedBy, Approving
<1>6. \A c : c \in ApprovedBy(a)' <=>
        \E i \in 1 .. Len(g) : g[i].type \in Approving /\ c \in g[i].named
  BY DEF ApprovedBy, Approving
<1> HIDE DEF h, g
<1>7. ASSUME NEW c
      PROVE  c \in ApprovedBy(a)' <=>
               c \in ApprovedBy(a) \/ (type \in Approving /\ c \in named)
  <2>1. ASSUME NEW i \in 1 .. Len(g), g[i].type \in Approving, c \in g[i].named
        PROVE  c \in ApprovedBy(a) \/ (type \in Approving /\ c \in named)
    <3>1. i \in 1 .. Len(h) \/ i = Len(h) + 1
      BY <1>2, <1>4
    <3>2. QED BY <1>1, <1>4, <1>5, <2>1, <3>1
  <2>2. ASSUME NEW i \in 1 .. Len(h), h[i].type \in Approving, c \in h[i].named
        PROVE  c \in ApprovedBy(a)'
    <3>1. i \in 1 .. Len(g) /\ g[i] = h[i]
      BY <1>2, <1>4
    <3>2. QED BY <1>6, <2>2, <3>1
  <2>3. ASSUME type \in Approving, c \in named
        PROVE  c \in ApprovedBy(a)'
    <3>1. Len(h) + 1 \in 1 .. Len(g)
      BY <1>2, <1>4
    <3>2. QED BY <1>1, <1>4, <1>6, <2>3, <3>1
  <2>4. QED BY <1>5, <1>6, <2>1, <2>2, <2>3
<1>8. QED BY <1>7

\* The guards of the lifecycle graphs, for the states that occur.
LEMMA GuardFacts ==
  ASSUME TypeOK, AggregatesLinked
  PROVE  /\ \A c \in ChallengeIds : Approvable(c) <=> Pending(c)
         /\ \A x \in Transactions :
              /\ transitionTransaction(transactions[x].state, "expired") <=> Pending(x)
              /\ transitionTransaction(transactions[x].state, "clearing_received") <=>
                   transactions[x].state \in {"confirmed", "reversed"}
<1>1. \A t \in Tokens : provisioning[t].state \in
        {"absent", "trusted_device_challenge", "token_active_capped",
         "token_active_full", "declined"}
  BY DEF AggregatesLinked
<1>2. \A s \in {"absent", "trusted_device_challenge", "token_active_capped",
                "token_active_full", "declined"} :
        transitionProvisioning(s, "approved") <=> s = "trusted_device_challenge"
  BY DEF transitionProvisioning, PROVISIONING_TRANSITIONS
<1>3. \A x \in Transactions : transactions[x].state \in
        {"absent", "confirmation_pending", "confirmed", "declined", "reversed",
         "settled", "exception"}
  BY DEF AggregatesLinked
<1>4. \A s \in {"absent", "confirmation_pending", "confirmed", "declined", "reversed",
                "settled", "exception"} :
        /\ transitionTransaction(s, "confirmed") <=> s = "confirmation_pending"
        /\ transitionTransaction(s, "expired") <=> s = "confirmation_pending"
        /\ transitionTransaction(s, "clearing_received") <=> s \in {"confirmed", "reversed"}
  BY DEF transitionTransaction, TRANSACTION_TRANSITIONS
<1>5. ChallengeIds = Tokens \cup Transactions /\ Tokens \cap Transactions = {}
  BY ConstantsAssumption
<1>6. \A c \in ChallengeIds : Approvable(c) <=> Pending(c)
  BY <1>1, <1>2, <1>3, <1>4, <1>5 DEF Approvable, Pending
<1>7. QED BY <1>3, <1>4, <1>5, <1>6 DEF Pending

\* The results the trails record.
LEMMA ResultFacts ==
  /\ Result("trusted_device_challenge") = "pending"
  /\ Result("token_active_capped") = "capped" /\ Result("token_active_full") = "full"
  /\ Result("confirmation_pending") = "confirmation_pending"
  /\ Result("confirmed") = "confirmed" /\ Result("reversed") = "reversed"
  /\ Result("settled") = "settled" /\ Result("exception") = "exception"
  /\ {"active", "revoked", "pending", "capped", "full", "confirmation_pending",
      "confirmed", "reversed", "settled", "exception"} \subseteq EventResult
BY DEF Result, EventResult, TransactionState

\* enrollTrustedDevice leaves the aggregates alone.
LEMMA EnrolKind ==
  ASSUME TypeOK, NEW d \in Devices, NEW s \in Subjects, NEW k \in KeyIds,
         NEW p \in PublicKeys, enrollTrustedDevice(d, s, k, p)
  PROVE  Enrols(d)
<1>1. /\ devices[d].status = "absent" /\ devices'[d].status = "active"
      /\ \A f \in Devices \ {d} : devices'[f] = devices[f]
      /\ UNCHANGED <<challenges, provisioning, transactions, clock>>
  BY DEF enrollTrustedDevice, TypeOK
<1>2. /\ \E e \in Event : Extends(audit'[d], audit[d], e) /\ e.named = {}
      /\ \A b \in Devices \cup ChallengeIds : b # d => audit'[b] = audit[b]
  <2>0. PICK S \in SUBSET ChallengeIds : S = {}
    OBVIOUS
  <2>1. Log(d, "trusted_device.enrolled", S, "active")
    BY <2>0 DEF enrollTrustedDevice
  <2>2. "trusted_device.enrolled" \in EventType /\ "active" \in EventResult
    BY ResultFacts DEF EventType
  <2>3. d \in Devices \cup ChallengeIds
    OBVIOUS
  <2>4. /\ \E e \in Event : Extends(audit'[d], audit[d], e) /\ e.named = S
        /\ \A b \in Devices \cup ChallengeIds : b # d => audit'[b] = audit[b]
    BY <2>1, <2>2, <2>3, LogExtends
  <2> QED BY <2>0, <2>4
<1>3. d \notin ChallengeIds
  BY ConstantsAssumption
<1>4. \A c \in ChallengeIds : Kept(c)
  BY <1>1, <1>2, <1>3, KeptByFrame
<1> QED BY <1>1, <1>2, <1>4 DEF Enrols, Lists

\* What invalidateOutstandingChallenges does to the aggregates of device d.
LEMMA InvalidateKind ==
  ASSUME TypeOK, NEW d \in Devices, NEW now \in Instants,
         NEW type \in EventType, NEW result \in EventResult,
         devices[d].status = "active",
         \/ devices'[d].status = "active" /\ Len(audit[d]) < MaxDeviceEvents
         \/ devices'[d].status = "revoked",
         \A f \in Devices \ {d} : devices'[f] = devices[f],
         invalidateOutstandingChallenges(d, now),
         Log(d, type, InvalidatedAt(d), result), UNCHANGED clock
  PROVE  Invalidates(d, now)
<1>0. /\ ChallengeIds = Tokens \cup Transactions /\ Tokens \cap Transactions = {}
      /\ d \notin ChallengeIds
  BY ConstantsAssumption
<1>1. InvalidatedAt(d) \in SUBSET ChallengeIds
  BY DEF InvalidatedAt, OutstandingAt
<1>2. PICK S : S = InvalidatedAt(d)
  OBVIOUS
<1>3. /\ \E e \in Event : Extends(audit'[d], audit[d], e) /\ e.named = S
      /\ \A b \in Devices \cup ChallengeIds : b # d => audit'[b] = audit[b]
  <2>1. Log(d, type, S, result) /\ S \in SUBSET ChallengeIds
    BY <1>1, <1>2
  <2> QED BY <2>1, LogExtends
<1>4. \A c \in ChallengeIds : audit'[c] = audit[c]
  BY <1>0, <1>3
<1>5. /\ PlanIsValid(d, now)
      /\ challenges' = [c \in ChallengeIds |->
                          IF c \in InvalidatedAt(d) /\ CancelAllowed(c, now)
                            THEN Cancelled(challenges[c], now) ELSE challenges[c]]
      /\ \A t \in Tokens : IF t \in S
           THEN provisioning'[t] = [provisioning[t] EXCEPT !.state = "declined"]
           ELSE provisioning'[t] = provisioning[t]
      /\ \A x \in Transactions : IF x \in S
           THEN transactions'[x] = Released(x, "declined")
           ELSE transactions'[x] = transactions[x]
  BY <1>2 DEF invalidateOutstandingChallenges
<1>6. ASSUME NEW c \in S
      PROVE  /\ Pending(c) /\ DeviceOf(c) = d /\ Phase(c)' = "declined"
             /\ DeviceOf(c)' = d /\ audit'[c] = audit[c]
  <2>1. c \in ChallengeIds /\ Pending(c) /\ DeviceOf(c) = d
    BY <1>2 DEF InvalidatedAt, OutstandingAt
  <2>2. CASE c \in Tokens
    <3>1. provisioning[c] \in RequestRecord
      BY <2>2 DEF TypeOK
    <3>2. provisioning'[c].state = "declined" /\ provisioning'[c].device = provisioning[c].device
      BY <1>5, <2>2, <3>1 DEF RequestRecord
    <3> QED BY <1>4, <2>1, <2>2, <3>2 DEF Phase, DeviceOf
  <2>3. CASE c \in Transactions
    <3>1. transactions[c] \in TransactionRecord
      BY <2>3 DEF TypeOK
    <3>2. transactions'[c].state = "declined" /\ transactions'[c].device = transactions[c].device
      BY <1>5, <2>3, <3>1 DEF TransactionRecord, Released
    <3>3. c \notin Tokens
      BY <1>0, <2>3
    <3> QED BY <1>4, <2>1, <3>3, <3>2 DEF Phase, DeviceOf
  <2> QED BY <1>0, <2>1, <2>2, <2>3
<1>7. ASSUME NEW c \in ChallengeIds \ S
      PROVE  Kept(c)
  BY <1>4, <1>5, KeptByFrame
<1>8. Lists(d, InvalidatedAt(d))
  BY <1>2, <1>3 DEF Lists
<1> QED BY <1>2, <1>5, <1>6, <1>7, <1>8 DEF Invalidates

\* revokeTrustedDevice, markTrustedDeviceCompromised and rotateTrustedDeviceKey
LEMMA DeviceKinds ==
  ASSUME TypeOK, DeviceNext
  PROVE  \E d \in Devices : Enrols(d) \/ \E now \in Instants : Invalidates(d, now)
<1>0. /\ {"trusted_device.revoked", "trusted_device.compromised",
          "trusted_device.key_rotated"} \subseteq EventType
      /\ "active" \in EventResult /\ "revoked" \in EventResult
  BY ResultFacts DEF EventType
<1>1. ASSUME NEW d \in Devices, NEW now \in Instants, NEW type \in EventType,
             retireTrustedDevice(d, now, type)
      PROVE  Invalidates(d, now)
  <2>1. /\ devices[d].status = "active" /\ devices'[d].status = "revoked"
        /\ \A f \in Devices \ {d} : devices'[f] = devices[f]
    BY <1>1 DEF retireTrustedDevice, requireActiveDevice, TypeOK, DeviceRecord
  <2>2. /\ invalidateOutstandingChallenges(d, now) /\ UNCHANGED clock
        /\ Log(d, type, InvalidatedAt(d), "revoked")
    BY <1>1 DEF retireTrustedDevice
  <2> QED BY <1>0, <2>1, <2>2, InvalidateKind
<1>2. ASSUME NEW d \in Devices, NEW now \in Instants, NEW k \in KeyIds,
             NEW p \in PublicKeys, rotateTrustedDeviceKey(d, k, p, now)
      PROVE  Invalidates(d, now)
  <2>1. /\ devices[d].status = "active" /\ devices'[d].status = "active"
        /\ \A f \in Devices \ {d} : devices'[f] = devices[f]
        /\ Len(audit[d]) < MaxDeviceEvents
    BY <1>2 DEF rotateTrustedDeviceKey, requireActiveDevice, TypeOK, DeviceRecord
  <2>2. /\ invalidateOutstandingChallenges(d, now) /\ UNCHANGED clock
        /\ Log(d, "trusted_device.key_rotated", InvalidatedAt(d), "active")
    BY <1>2 DEF rotateTrustedDeviceKey
  <2> QED BY <1>0, <2>1, <2>2, InvalidateKind
<1> QED BY <1>0, <1>1, <1>2, EnrolKind
        DEF DeviceNext, revokeTrustedDevice, markTrustedDeviceCompromised

\* requestProvisioning
LEMMA RequestKind ==
  ASSUME TypeOK, AggregatesLinked, NEW t \in Tokens, NEW s \in Subjects,
         NEW d \in Devices, NEW cap \in Caps, NEW now \in Instants,
         requestProvisioning(t, s, d, cap, now)
  PROVE  Starts(t, d, now, ProvisioningTtl)
<1>0. /\ ChallengeIds = Tokens \cup Transactions /\ Tokens \cap Transactions = {}
      /\ Devices \cap ChallengeIds = {} /\ ProvisioningTtl # 0 /\ t \in ChallengeIds
  BY ConstantsAssumption
<1>1. /\ devices[d].status = "active" /\ UNCHANGED <<devices, transactions, clock>>
      /\ Becomes(t, Created(now, ProvisioningTtl))
      /\ provisioning'[t] = [state |-> "trusted_device_challenge", device |-> d]
      /\ \A c \in Tokens \ {t} : provisioning'[c] = provisioning[c]
      /\ tokens[t].state = "absent"
  BY DEF requestProvisioning, requireActiveDevice, Becomes, TypeOK
<1>2. Phase(t) = "absent"
  BY <1>1 DEF AggregatesLinked, Phase
<1>3. Phase(t)' = "trusted_device_challenge" /\ Pending(t)' /\ DeviceOf(t)' = d
  BY <1>1 DEF Phase, Pending, DeviceOf
<1>4. /\ \E e \in Event : Extends(audit'[t], audit[t], e) /\ e.result = "pending"
      /\ \A b \in Devices \cup ChallengeIds : b # t => audit'[b] = audit[b]
  <2>0. PICK S \in SUBSET ChallengeIds : S = {t}
    BY <1>0
  <2>1. Log(t, "provisioning.challenge_created", S, "pending")
    BY <2>0 DEF requestProvisioning
  <2>2. "provisioning.challenge_created" \in EventType /\ "pending" \in EventResult
    BY ResultFacts DEF EventType
  <2>3. t \in Devices \cup ChallengeIds
    BY <1>0
  <2> QED BY <2>1, <2>2, <2>3, LogExtends
<1>5. \E e \in Event : Extends(audit'[t], audit[t], e) /\ e.result = Result(Phase(t)')
  BY <1>3, <1>4, ResultFacts
<1>6. KeptBut(t)
  BY <1>0, <1>1, <1>4, KeptByFrame DEF KeptBut
<1>7. DevicesKept
  BY <1>0, <1>1, <1>4 DEF DevicesKept
<1>8. ~CallerClock => now = clock'
  BY <1>1 DEF Instants
<1>9. ApprovedBy(t)' = ApprovedBy(t)
  <2>1. Log(t, "provisioning.challenge_created", {t}, "pending")
    BY DEF requestProvisioning
  <2>2. /\ "provisioning.challenge_created" \in EventType \ Approving
        /\ "pending" \in EventResult
    BY ResultFacts DEF EventType, Approving
  <2>3. {t} \in SUBSET ChallengeIds
    BY <1>0
  <2> QED BY <1>0, <2>1, <2>2, <2>3, LogApproves
<1> QED BY <1>0, <1>1, <1>2, <1>3, <1>5, <1>6, <1>7, <1>8, <1>9 DEF Starts

\* authorize
LEMMA AuthorizeKind ==
  ASSUME TypeOK, NEW x \in Transactions, NEW t \in Tokens, NEW d \in Devices,
         NEW amount \in Amounts, NEW now \in Instants,
         NEW issuedAt \in IssueInstants(now),
         authorize(x, t, d, amount, now, issuedAt)
  PROVE  Starts(x, d, issuedAt, TransactionTtl)
<1>0. /\ ChallengeIds = Tokens \cup Transactions /\ Tokens \cap Transactions = {}
      /\ Devices \cap ChallengeIds = {} /\ TransactionTtl # 0
      /\ x \in ChallengeIds /\ x \notin Tokens
  BY ConstantsAssumption
<1>1. /\ devices[d].status = "active" /\ UNCHANGED <<devices, provisioning>>
      /\ Becomes(x, Created(issuedAt, TransactionTtl))
      /\ transactions'[x].state = "confirmation_pending" /\ transactions'[x].device = d
      /\ \A c \in Transactions \ {x} : transactions'[c] = transactions[c]
      /\ transactions[x].state = "absent"
      /\ ~CallerClock => issuedAt = clock'
  BY DEF authorize, requireActiveDevice, Becomes, TypeOK
<1>2. Phase(x) = "absent"
  BY <1>0, <1>1 DEF Phase
<1>3. Phase(x)' = "confirmation_pending" /\ Pending(x)' /\ DeviceOf(x)' = d
  BY <1>0, <1>1 DEF Phase, Pending, DeviceOf
<1>4. /\ \E e \in Event : Extends(audit'[x], audit[x], e) /\ e.result = "confirmation_pending"
      /\ \A b \in Devices \cup ChallengeIds : b # x => audit'[b] = audit[b]
  <2>0. PICK S \in SUBSET ChallengeIds : S = {x}
    BY <1>0
  <2>1. Log(x, "transaction.confirmation_pending", S, "confirmation_pending")
    BY <2>0 DEF authorize
  <2>2. "transaction.confirmation_pending" \in EventType /\ "confirmation_pending" \in EventResult
    BY ResultFacts DEF EventType
  <2> QED BY <1>0, <2>1, <2>2, LogExtends
<1>5. \E e \in Event : Extends(audit'[x], audit[x], e) /\ e.result = Result(Phase(x)')
  BY <1>3, <1>4, ResultFacts
<1>6. KeptBut(x)
  BY <1>0, <1>1, <1>4, KeptByFrame DEF KeptBut
<1>7. DevicesKept
  BY <1>0, <1>1, <1>4 DEF DevicesKept
<1>8. ApprovedBy(x)' = ApprovedBy(x)
  <2>1. Log(x, "transaction.confirmation_pending", {x}, "confirmation_pending")
    BY DEF authorize
  <2>2. /\ "transaction.confirmation_pending" \in EventType \ Approving
        /\ "confirmation_pending" \in EventResult
    BY ResultFacts DEF EventType, Approving
  <2>3. {x} \in SUBSET ChallengeIds
    BY <1>0
  <2> QED BY <1>0, <2>1, <2>2, <2>3, LogApproves
<1> QED BY <1>0, <1>1, <1>2, <1>3, <1>5, <1>6, <1>7, <1>8 DEF Starts

\* Methods that leave every aggregate and every trail alone.
LEMMA AllKept ==
  ASSUME TypeOK, UNCHANGED <<devices, provisioning, transactions, audit>>
  PROVE  (\A e \in ChallengeIds : Kept(e)) /\ DevicesKept
<1>1. \A e \in ChallengeIds : Kept(e)
  BY KeptByFrame
<1> QED BY <1>1 DEF DevicesKept

\* approveProvisioning, confirmTransaction, and the approvals that throw after
\* they changed the challenge.
LEMMA ApprovalKinds ==
  ASSUME TypeOK, AggregatesLinked, NEW a \in ChallengeIds, NEW now \in Instants,
         NEW c \in ChallengeIds,
         \/ LateApproval(a, c, now)
         \/ \E signer \in PublicKeys :
              \/ SpentApproval(a, c, signer, now)
              \/ /\ a \in Tokens
                 /\ \E activation \in {"capped", "full"} :
                      approveProvisioning(a, c, signer, now, activation)
              \/ /\ a \in Transactions
                 /\ confirmTransaction(a, c, signer, now)
  PROVE  Accepts(a, c, now) \/ Spends(a, c, now) \/ Overruns(c)
<1>0. /\ ChallengeIds = Tokens \cup Transactions /\ Tokens \cap Transactions = {}
      /\ Devices \cap ChallengeIds = {} /\ c \in ChallengeIds
  BY ConstantsAssumption
<1>1. ASSUME LateApproval(a, c, now)
      PROVE  Overruns(c)
  <2>1. /\ challenges[c].status = "created" /\ Becomes(c, Expired(challenges[c]))
        /\ UNCHANGED clock /\ UNCHANGED <<devices, provisioning, transactions, audit>>
    BY <1>1 DEF LateApproval, ConsumeExpires, Becomes
  <2> QED BY <2>1, AllKept DEF Overruns
<1>2. ASSUME NEW signer \in PublicKeys, SpentApproval(a, c, signer, now)
      PROVE  Spends(a, c, now)
  <2>1. /\ challenges[c].status = "created" /\ Becomes(c, Confirmed(challenges[c], now))
        /\ UNCHANGED clock /\ UNCHANGED <<devices, provisioning, transactions, audit>>
        /\ ~Approvable(a)
    BY <1>2 DEF SpentApproval, ConsumeConfirms, Becomes
  <2>2. ~Pending(a)
    BY <2>1, GuardFacts
  <2> QED BY <2>1, <2>2, AllKept DEF Spends
<1>3. ASSUME NEW type \in EventType \cap Approving, NEW result \in EventResult,
             NEW S \in SUBSET ChallengeIds, S = {c}, Log(a, type, S, result),
             result = Result(Phase(a)'),
             Phase(a)' \in {"token_active_capped", "token_active_full", "confirmed"},
             DeviceOf(a)' = DeviceOf(a), Approvable(a), UNCHANGED <<devices, clock>>,
             \A e \in Tokens \ {a} : provisioning'[e] = provisioning[e],
             \A e \in Transactions \ {a} : transactions'[e] = transactions[e],
             challenges[c].status = "created", Becomes(c, Confirmed(challenges[c], now))
      PROVE  Accepts(a, c, now)
  <2>1. /\ \E e \in Event : Extends(audit'[a], audit[a], e) /\ e.result = result
        /\ \A b \in Devices \cup ChallengeIds : b # a => audit'[b] = audit[b]
    <3>1. a \in Devices \cup ChallengeIds
      OBVIOUS
    <3> QED BY <1>3, <3>1, LogExtends
  <2>2. KeptBut(a)
    BY <1>0, <1>3, <2>1, KeptByFrame DEF KeptBut
  <2>3. DevicesKept
    BY <1>0, <1>3, <2>1 DEF DevicesKept
  <2>4. Pending(a)
    BY <1>3, GuardFacts
  <2>5. Moves(a)
    BY <1>3, <2>1, <2>2 DEF Moves
  <2>6. ApprovedBy(a)' = ApprovedBy(a) \cup {c}
    BY <1>3, LogApproves
  <2> QED BY <1>3, <2>3, <2>4, <2>5, <2>6 DEF Accepts
<1>4. PICK S \in SUBSET ChallengeIds : S = {c}
  BY <1>0
<1>5. ASSUME a \in Tokens, NEW signer \in PublicKeys,
             NEW activation \in {"capped", "full"},
             approveProvisioning(a, c, signer, now, activation)
      PROVE  Accepts(a, c, now)
  <2>1. /\ Approvable(a) /\ UNCHANGED <<devices, clock, transactions>>
        /\ challenges[c].status = "created" /\ Becomes(c, Confirmed(challenges[c], now))
        /\ Log(a, "provisioning.approved", S, activation)
        /\ \A e \in Tokens \ {a} : provisioning'[e] = provisioning[e]
    BY <1>4, <1>5 DEF approveProvisioning, ConsumeConfirms, Becomes, TypeOK
  <2>2. /\ provisioning'[a].state = IF activation = "capped" THEN "token_active_capped"
                                                            ELSE "token_active_full"
        /\ provisioning'[a].device = provisioning[a].device
    BY <1>5 DEF approveProvisioning, TypeOK, RequestRecord
  <2>3. /\ Phase(a)' = IF activation = "capped" THEN "token_active_capped"
                                               ELSE "token_active_full"
        /\ DeviceOf(a)' = DeviceOf(a)
    BY <1>5, <2>2 DEF Phase, DeviceOf
  <2>4. "provisioning.approved" \in EventType \cap Approving /\ activation \in EventResult
    BY ResultFacts DEF EventType, Approving
  <2>5. activation = Result(Phase(a)')
    BY <2>3, ResultFacts
  <2> QED BY <1>3, <1>4, <1>5, <2>1, <2>3, <2>4, <2>5
<1>6. ASSUME a \in Transactions, NEW signer \in PublicKeys,
             confirmTransaction(a, c, signer, now)
      PROVE  Accepts(a, c, now)
  <2>1. /\ Approvable(a) /\ UNCHANGED <<devices, clock, provisioning>>
        /\ challenges[c].status = "created" /\ Becomes(c, Confirmed(challenges[c], now))
        /\ Log(a, "transaction.confirmed", S, "confirmed")
        /\ \A e \in Transactions \ {a} : transactions'[e] = transactions[e]
    BY <1>4, <1>6 DEF confirmTransaction, ConsumeConfirms, Becomes, TypeOK
  <2>2. /\ transactions'[a].state = "confirmed"
        /\ transactions'[a].device = transactions[a].device
    BY <1>6 DEF confirmTransaction, TypeOK, TransactionRecord
  <2>3. Phase(a)' = "confirmed" /\ DeviceOf(a)' = DeviceOf(a)
    BY <1>0, <1>6, <2>2 DEF Phase, DeviceOf
  <2>4. "transaction.confirmed" \in EventType \cap Approving /\ "confirmed" \in EventResult
    BY ResultFacts DEF EventType, Approving
  <2>5. "confirmed" = Result(Phase(a)')
    BY <2>3, ResultFacts
  <2> QED BY <1>3, <1>4, <1>6, <2>1, <2>3, <2>4, <2>5
<1> QED BY <1>1, <1>2, <1>5, <1>6

\* expireAndReverse, receiveClearing, and an expiry that throws after it
\* cancelled the challenge.
LEMMA TransactionKinds ==
  ASSUME TypeOK, AggregatesLinked, NEW x \in Transactions,
         receiveClearing(x)
           \/ \E now \in Instants : expireAndReverse(x, now) \/ ExpireAfterDecision(x, now)
  PROVE  Clears(x) \/ \E now \in Instants : Withdraws(x, now) \/ Reverses(x, now)
<1>0. /\ ChallengeIds = Tokens \cup Transactions /\ Tokens \cap Transactions = {}
      /\ Devices \cap ChallengeIds = {} /\ x \in ChallengeIds /\ x \notin Tokens
      /\ x \in Devices \cup ChallengeIds
  BY ConstantsAssumption
<1>1. ASSUME NEW type \in EventType \ Approving, NEW result \in EventResult,
             NEW S \in SUBSET ChallengeIds, S = {}, Log(x, type, S, result),
             NEW state, Result(state) = result, UNCHANGED <<devices, provisioning>>,
             transactions'[x].state = state,
             transactions'[x].device = transactions[x].device,
             \A e \in Transactions \ {x} : transactions'[e] = transactions[e]
      PROVE  /\ Moves(x) /\ DevicesKept /\ Phase(x)' = state
             /\ ApprovedBy(x)' = ApprovedBy(x)
  <2>1. /\ \E e \in Event : Extends(audit'[x], audit[x], e) /\ e.result = result
        /\ \A b \in Devices \cup ChallengeIds : b # x => audit'[b] = audit[b]
    BY <1>0, <1>1, LogExtends
  <2>2. KeptBut(x)
    BY <1>0, <1>1, <2>1, KeptByFrame DEF KeptBut
  <2>3. DevicesKept
    BY <1>0, <1>1, <2>1 DEF DevicesKept
  <2>4. Phase(x)' = state /\ DeviceOf(x)' = DeviceOf(x)
    BY <1>0, <1>1 DEF Phase, DeviceOf
  <2>5. result = Result(Phase(x)')
    BY <1>1, <2>4
  <2>6. Moves(x)
    BY <2>1, <2>2, <2>4, <2>5 DEF Moves
  <2>7. ApprovedBy(x)' = ApprovedBy(x)
    BY <1>0, <1>1, LogApproves
  <2> QED BY <2>3, <2>4, <2>6, <2>7
<1>2. PICK S \in SUBSET ChallengeIds : S = {}
  OBVIOUS
<1>3. /\ "transaction.clearing_received" \in EventType \ Approving
      /\ "transaction.reversed_after_timeout" \in EventType \ Approving
  BY DEF EventType, Approving
<1>4. CASE receiveClearing(x)
  <2>1. transactions[x].state \in {"confirmed", "reversed"}
    BY <1>4, GuardFacts DEF receiveClearing
  <2>2. PICK final : final = IF transactions[x].state = "reversed" THEN "exception" ELSE "settled"
    OBVIOUS
  <2>3. /\ Log(x, "transaction.clearing_received", S, final)
        /\ transactions' = [transactions EXCEPT ![x].state = final]
        /\ UNCHANGED <<devices, provisioning>> /\ UNCHANGED <<challenges, clock>>
    BY <1>2, <1>4, <2>1, <2>2 DEF receiveClearing
  <2>4. /\ transactions'[x].state = final
        /\ transactions'[x].device = transactions[x].device
        /\ \A e \in Transactions \ {x} : transactions'[e] = transactions[e]
    BY <2>3 DEF TypeOK, TransactionRecord
  <2>5. Result(final) = final /\ final \in EventResult
    BY <2>2, ResultFacts
  <2>6. /\ Moves(x) /\ DevicesKept /\ Phase(x)' = final
        /\ ApprovedBy(x)' = ApprovedBy(x)
    BY <1>1, <1>2, <1>3, <2>3, <2>4, <2>5
  <2>7. Phase(x) = transactions[x].state
    BY <1>0 DEF Phase
  <2>8. Clears(x)
    BY <2>1, <2>2, <2>3, <2>6, <2>7 DEF Clears
  <2> QED BY <2>8
<1>5. ASSUME NEW now \in Instants, expireAndReverse(x, now)
      PROVE  Reverses(x, now)
  <2>1. Pending(x)
    BY <1>5, GuardFacts DEF expireAndReverse
  <2>2. /\ Log(x, "transaction.reversed_after_timeout", S, "reversed")
        /\ transactions' = [transactions EXCEPT ![x] = Released(x, "reversed")]
        /\ UNCHANGED <<devices, provisioning>> /\ UNCHANGED clock
        /\ CancelAllowed(x, now) /\ Becomes(x, Cancelled(challenges[x], now))
    BY <1>2, <1>5 DEF expireAndReverse, Becomes
  <2>3. /\ transactions'[x].state = "reversed"
        /\ transactions'[x].device = transactions[x].device
        /\ \A e \in Transactions \ {x} : transactions'[e] = transactions[e]
    BY <2>2 DEF TypeOK, TransactionRecord, Released
  <2>4. Result("reversed") = "reversed" /\ "reversed" \in EventResult
    BY ResultFacts
  <2>5. /\ Moves(x) /\ DevicesKept /\ Phase(x)' = "reversed"
        /\ ApprovedBy(x)' = ApprovedBy(x)
    BY <1>1, <1>2, <1>3, <2>2, <2>3, <2>4
  <2> QED BY <2>1, <2>2, <2>5 DEF Reverses
<1>6. ASSUME NEW now \in Instants, ExpireAfterDecision(x, now)
      PROVE  Withdraws(x, now)
  <2>1. ~Pending(x)
    BY <1>6, GuardFacts DEF ExpireAfterDecision
  <2>2. /\ UNCHANGED <<devices, provisioning, transactions, audit>> /\ UNCHANGED clock
        /\ CancelAllowed(x, now) /\ Becomes(x, Cancelled(challenges[x], now))
    BY <1>6 DEF ExpireAfterDecision, Becomes
  <2> QED BY <2>1, <2>2, AllKept DEF Withdraws
<1> QED BY <1>4, <1>5, <1>6

\* Every step of the engine is of one of these kinds.
LEMMA EngineKinds ==
  ASSUME TypeOK, AggregatesLinked, [Next]_vars
  PROVE  Kinds
<1>1. CASE DeviceNext
  BY <1>1, DeviceKinds DEF Kinds
<1>2. CASE ProvisioningNext
  <2>1. PICK t \in Tokens, s \in Subjects, d \in Devices, cap \in Caps,
             now \in Instants : requestProvisioning(t, s, d, cap, now)
    BY <1>2 DEF ProvisioningNext
  <2>2. Starts(t, d, now, ProvisioningTtl)
    BY <2>1, RequestKind
  <2>3. t \in ChallengeIds /\ now \in Time /\ ProvisioningTtl \in Nat
    BY InstantsAreTimes, ConstantsAssumption
  <2> QED BY <2>2, <2>3 DEF Kinds
<1>3. CASE ApprovalNext
  <2>1. PICK a \in ChallengeIds, now \in Instants :
          \E c \in ChallengeIds :
            \/ LateApproval(a, c, now)
            \/ \E signer \in PublicKeys :
                 \/ SpentApproval(a, c, signer, now)
                 \/ /\ a \in Tokens
                    /\ \E activation \in {"capped", "full"} :
                         approveProvisioning(a, c, signer, now, activation)
                 \/ /\ a \in Transactions
                    /\ confirmTransaction(a, c, signer, now)
    BY <1>3 DEF ApprovalNext
  <2>2. \E c \in ChallengeIds : Accepts(a, c, now) \/ Spends(a, c, now) \/ Overruns(c)
    BY <2>1, ApprovalKinds
  <2> QED BY <2>2 DEF Kinds
<1>4. CASE TransactionNext
  <2>1. PICK x \in Transactions :
          \/ receiveClearing(x)
          \/ \E now \in Instants :
               \/ expireAndReverse(x, now)
               \/ ExpireAfterDecision(x, now)
               \/ \E t \in Tokens, d \in Devices, amount \in Amounts,
                    issuedAt \in IssueInstants(now) :
                    authorize(x, t, d, amount, now, issuedAt)
    BY <1>4 DEF TransactionNext
  <2>2. CASE receiveClearing(x)
               \/ \E now \in Instants : expireAndReverse(x, now) \/ ExpireAfterDecision(x, now)
    <3>1. Clears(x) \/ \E now \in Instants : Withdraws(x, now) \/ Reverses(x, now)
      BY <2>2, TransactionKinds
    <3> QED BY <3>1 DEF Kinds
  <2>3. ASSUME NEW now \in Instants, NEW t \in Tokens, NEW d \in Devices,
               NEW amount \in Amounts, NEW issuedAt \in IssueInstants(now),
               authorize(x, t, d, amount, now, issuedAt)
        PROVE  Kinds
    <3>1. Starts(x, d, issuedAt, TransactionTtl)
      BY <2>3, AuthorizeKind
    <3>2. now \in Time
      BY InstantsAreTimes
    <3>3. x \in ChallengeIds /\ issuedAt \in Time /\ TransactionTtl \in Nat
      BY <3>2, ConstantsAssumption DEF IssueInstants
    <3> QED BY <3>1, <3>3 DEF Kinds
  <2> QED BY <2>1, <2>2, <2>3
<1>5. CASE Tick \/ UNCHANGED vars
  <2>1. UNCHANGED <<devices, provisioning, transactions, audit>> /\ UNCHANGED challenges
    BY <1>5 DEF Tick, vars
  <2>2. clock \in Nat
    BY ConstantsAssumption DEF TypeOK, Time
  <2>3. clock' >= clock
    BY <1>5, <2>2 DEF Tick, vars
  <2> QED BY <2>1, <2>3, AllKept DEF Waits, Kinds
<1> QED BY <1>1, <1>2, <1>3, <1>4, <1>5 DEF Next

-----------------------------------------------------------------------------
(* Outcomes, whatever challenge an approval names                          *)

\* A pending aggregate is in one of two states, and stays pending in them.
LEMMA PendingPhase ==
  ASSUME NEW c \in ChallengeIds
  PROVE  /\ Pending(c) => Phase(c) \in {"trusted_device_challenge", "confirmation_pending"}
         /\ Pending(c)' => Phase(c)' \in {"trusted_device_challenge", "confirmation_pending"}
         /\ Phase(c)' = Phase(c) => Pending(c)' = Pending(c)
BY DEF Pending, Phase

\* The fields that the challenge store's operations write.
LEMMA RecordFacts ==
  ASSUME NEW r \in ChallengeRecord, NEW now \in Nat, NEW ttl \in Nat
  PROVE  /\ Created(now, ttl).status = "created" /\ Created(now, ttl).issuedAt = now
         /\ Created(now, ttl).expiresAt = now + ttl /\ Created(now, ttl).consumedAt = None
         /\ Confirmed(r, now).status = "confirmed" /\ Cancelled(r, now).status = "cancelled"
         /\ Expired(r).status = "expired" /\ Expired(r).consumedAt = r.consumedAt
         /\ Confirmed(r, now).consumedAt = now /\ Cancelled(r, now).consumedAt = now
         /\ Expired(r).issuedAt = r.issuedAt /\ Confirmed(r, now).issuedAt = r.issuedAt
         /\ Cancelled(r, now).issuedAt = r.issuedAt
         /\ Expired(r).expiresAt = r.expiresAt /\ Confirmed(r, now).expiresAt = r.expiresAt
         /\ Cancelled(r, now).expiresAt = r.expiresAt
BY DEF ChallengeRecord, Created, Confirmed, Cancelled, Expired

\* One challenge changes.
LEMMA BecomesFacts ==
  ASSUME TypeOK, NEW c \in ChallengeIds, NEW r, Becomes(c, r)
  PROVE  /\ challenges'[c] = r
         /\ \A e \in ChallengeIds : e # c => challenges'[e] = challenges[e]
BY DEF Becomes, TypeOK

\* A consumed challenge stays consumed.
ConfirmedStays ==
  \A c \in ChallengeIds :
    challenges[c].status = "confirmed" => challenges'[c].status = "confirmed"
LEMMA ConfirmedStep ==
  ASSUME TypeOK, AggregatesLinked, [Next]_vars
  PROVE  ConfirmedStays
BY ChallengeSteps DEF Issues, Confirms, Closes, ConfirmedStays

\* The challenge of an aggregate that is declined or reversed is closed, that of a
\* pending one was not cancelled.
Closed(c) ==
  /\ Pending(c) => challenges[c].status \in {"created", "expired", "confirmed"}
  /\ Phase(c) \in {"declined", "reversed", "exception"} =>
       challenges[c].status \in {"cancelled", "expired"}

AllClosed == \A c \in ChallengeIds : Closed(c)

\* An aggregate whose state stays: its challenge may stay, or be consumed or found
\* late while it can be, or be cancelled when nothing is pending.
LEMMA ClosedKept ==
  ASSUME NEW c \in ChallengeIds, Closed(c), Phase(c)' = Phase(c),
         \/ challenges'[c].status = challenges[c].status
         \/ /\ challenges[c].status = "created"
            /\ \/ challenges'[c].status \in {"confirmed", "expired"}
               \/ challenges'[c].status = "cancelled" /\ ~Pending(c)
  PROVE  Closed(c)'
BY PendingPhase DEF Closed

\* A step in which one challenge changes, and aggregates as ClosedKept has it.
LEMMA ClosedBut ==
  ASSUME TypeOK, AllClosed, NEW c \in ChallengeIds, NEW r, Becomes(c, r), Closed(c)',
         NEW a \in ChallengeIds, KeptBut(a), Closed(a)'
  PROVE  AllClosed'
<1>1. ASSUME NEW e \in ChallengeIds, e # c, e # a
      PROVE  Closed(e)'
  <2>1. Phase(e)' = Phase(e) /\ challenges'[e] = challenges[e]
    BY <1>1, BecomesFacts DEF KeptBut, Kept
  <2> QED BY <2>1, ClosedKept DEF AllClosed
<1> QED BY <1>1 DEF AllClosed

\* Invalidation closes the challenges of the aggregates it declines: the plan has
\* checked that each can be cancelled, and the consumed ones are passed over.
LEMMA ClosedInvalidated ==
  ASSUME TypeOK, AllClosed, NEW d \in Devices, NEW now \in Instants, Invalidates(d, now),
         NEW c \in ChallengeIds
  PROVE  Closed(c)'
<1>1. CASE c \in InvalidatedAt(d)
  <2>1. /\ Pending(c) /\ Phase(c)' = "declined" /\ c \in OutstandingAt(d)
        /\ challenges[c].status # "confirmed"
    BY <1>1 DEF Invalidates, InvalidatedAt
  <2>2. challenges[c].status \in {"created", "expired"}
    BY <2>1 DEF AllClosed, Closed
  <2>3. challenges[c].status = "created" => CancelAllowed(c, now)
    BY <2>1 DEF Invalidates, PlanIsValid, CancelAllowed
  <2>4. challenges'[c] = IF CancelAllowed(c, now) THEN Cancelled(challenges[c], now)
                                                 ELSE challenges[c]
    BY <1>1 DEF Invalidates
  <2>5. Cancelled(challenges[c], now).status = "cancelled"
    <3>1. challenges[c] \in ChallengeRecord /\ now \in Nat
      BY InstantsAreTimes DEF TypeOK
    <3> QED BY <3>1, RecordFacts
  <2>6. challenges'[c].status \in {"cancelled", "expired"}
    BY <2>2, <2>3, <2>4, <2>5
  <2>7. ~Pending(c)'
    BY <2>1, PendingPhase
  <2> QED BY <2>1, <2>6, <2>7 DEF Closed
<1>2. CASE c \notin InvalidatedAt(d)
  <2>1. Phase(c)' = Phase(c) /\ challenges'[c] = challenges[c]
    BY <1>2 DEF Invalidates, Kept
  <2> QED BY <2>1, ClosedKept DEF AllClosed
<1> QED BY <1>1, <1>2

\* Every kind of step keeps closed what is closed.
LEMMA ClosedStep ==
  ASSUME TypeOK, AllClosed, Kinds
  PROVE  AllClosed'
<1>0. ASSUME NEW c \in ChallengeIds, NEW now \in Instants
      PROVE  /\ Confirmed(challenges[c], now).status = "confirmed"
             /\ Cancelled(challenges[c], now).status = "cancelled"
             /\ Expired(challenges[c]).status = "expired"
  <2>1. challenges[c] \in ChallengeRecord /\ now \in Nat
    BY InstantsAreTimes DEF TypeOK
  <2> QED BY <2>1, RecordFacts
<1>1. ASSUME \A c \in ChallengeIds : Kept(c), UNCHANGED challenges
      PROVE  AllClosed'
  <2>1. ASSUME NEW c \in ChallengeIds
        PROVE  Closed(c)'
    <3>1. Phase(c)' = Phase(c) /\ challenges'[c] = challenges[c]
      BY <1>1 DEF Kept
    <3> QED BY <3>1, ClosedKept DEF AllClosed
  <2> QED BY <2>1 DEF AllClosed
<1>2. ASSUME Waits PROVE AllClosed'
  BY <1>1, <1>2 DEF Waits
<1>3. ASSUME NEW d \in Devices, Enrols(d) PROVE AllClosed'
  BY <1>1, <1>3 DEF Enrols
<1>4. ASSUME NEW d \in Devices, NEW now \in Instants, Invalidates(d, now)
      PROVE  AllClosed'
  BY <1>4, ClosedInvalidated DEF AllClosed
<1>5. ASSUME NEW n \in ChallengeIds, NEW d \in Devices, NEW issuedAt \in Time,
             NEW ttl \in Nat, Starts(n, d, issuedAt, ttl)
      PROVE  AllClosed'
  <2>1. Becomes(n, Created(issuedAt, ttl)) /\ KeptBut(n) /\ Pending(n)'
    BY <1>5 DEF Starts
  <2>2. challenges'[n].status = "created"
    BY <2>1, BecomesFacts DEF Created
  <2>3. Closed(n)'
    BY <2>1, <2>2, PendingPhase DEF Closed
  <2> QED BY <2>1, <2>3, ClosedBut
<1>6. ASSUME NEW a \in ChallengeIds, NEW now \in Instants, NEW c \in ChallengeIds,
             Accepts(a, c, now)
      PROVE  AllClosed'
  <2>1. /\ Becomes(c, Confirmed(challenges[c], now)) /\ KeptBut(a)
        /\ Phase(a)' \in {"token_active_capped", "token_active_full", "confirmed"}
        /\ challenges[c].status = "created"
    BY <1>6 DEF Accepts, Moves
  <2>2. challenges'[c].status = "confirmed"
    BY <1>0, <2>1, BecomesFacts
  <2>3. Closed(a)'
    BY <2>1, PendingPhase DEF Closed
  <2>4. Closed(c)'
    <3>1. CASE c = a
      BY <2>3, <3>1
    <3>2. CASE c # a
      BY <2>1, <2>2, <3>2, ClosedKept DEF KeptBut, Kept, AllClosed
    <3> QED BY <3>1, <3>2
  <2> QED BY <2>1, <2>3, <2>4, ClosedBut
<1>7. ASSUME NEW c \in ChallengeIds, NEW r, Becomes(c, r),
             challenges[c].status = "created",
             \/ r.status \in {"confirmed", "expired"}
             \/ r.status = "cancelled" /\ ~Pending(c),
             \A e \in ChallengeIds : Kept(e)
      PROVE  AllClosed'
  <2>1. challenges'[c] = r /\ Phase(c)' = Phase(c) /\ KeptBut(c)
    BY <1>7, BecomesFacts DEF Kept, KeptBut
  <2>2. Closed(c)'
    BY <1>7, <2>1, ClosedKept DEF AllClosed
  <2> QED BY <1>7, <2>1, <2>2, ClosedBut
<1>8. ASSUME NEW a \in ChallengeIds, NEW now \in Instants, NEW c \in ChallengeIds,
             Spends(a, c, now) \/ Overruns(c)
      PROVE  AllClosed'
  BY <1>0, <1>7, <1>8 DEF Spends, Overruns
<1>9. ASSUME NEW x \in Transactions, NEW now \in Instants, Withdraws(x, now)
      PROVE  AllClosed'
  <2>1. x \in ChallengeIds /\ challenges[x].status = "created"
    BY <1>9, ConstantsAssumption DEF Withdraws, CancelAllowed
  <2> QED BY <1>0, <1>7, <1>9, <2>1 DEF Withdraws
<1>10. ASSUME NEW x \in Transactions, NEW now \in Instants, Reverses(x, now)
       PROVE  AllClosed'
  <2>1. /\ Becomes(x, Cancelled(challenges[x], now)) /\ KeptBut(x)
        /\ Phase(x)' = "reversed" /\ x \in ChallengeIds
    BY <1>10, ConstantsAssumption DEF Reverses, Moves
  <2>2. challenges'[x].status = "cancelled"
    BY <1>0, <2>1, BecomesFacts
  <2>3. Closed(x)'
    BY <2>1, <2>2, PendingPhase DEF Closed
  <2> QED BY <2>1, <2>3, ClosedBut
<1>11. ASSUME NEW x \in Transactions, Clears(x)
       PROVE  AllClosed'
  <2>1. /\ UNCHANGED challenges /\ KeptBut(x) /\ x \in ChallengeIds
        /\ \/ Phase(x) = "confirmed" /\ Phase(x)' = "settled"
           \/ Phase(x) = "reversed" /\ Phase(x)' = "exception"
    BY <1>11, ConstantsAssumption DEF Clears, Moves
  <2>2. Closed(x)'
    BY <2>1, PendingPhase DEF Closed, AllClosed
  <2>3. ASSUME NEW c \in ChallengeIds, c # x
        PROVE  Closed(c)'
    <3>1. Phase(c)' = Phase(c) /\ challenges'[c] = challenges[c]
      BY <2>1, <2>3 DEF KeptBut, Kept
    <3> QED BY <3>1, ClosedKept DEF AllClosed
  <2> QED BY <2>2, <2>3 DEF AllClosed
<1> QED BY <1>2, <1>3, <1>4, <1>5, <1>6, <1>8, <1>9, <1>10, <1>11 DEF Kinds

\* What was accepted took exactly one challenge, which is consumed; nothing else
\* took one, and no two took the same.
Taken(a) == Phase(a) \in {"token_active_capped", "token_active_full", "confirmed", "settled"}
Approved(a) ==
  IF Taken(a)
    THEN \E c \in ChallengeIds : ApprovedBy(a) = {c} /\ challenges[c].status = "confirmed"
    ELSE ApprovedBy(a) = {}
AllApproved ==
  /\ \A a \in ChallengeIds : Approved(a)
  /\ \A a, b \in ChallengeIds : a # b => ApprovedBy(a) \cap ApprovedBy(b) = {}

\* A trail that stays names the same challenges.
LEMMA ApprovedByKept ==
  ASSUME NEW c \in ChallengeIds, Kept(c)
  PROVE  ApprovedBy(c)' = ApprovedBy(c) /\ (Taken(c)' <=> Taken(c))
<1>1. audit'[c] = audit[c]
  BY DEF Kept
<1>2. ApprovedBy(c)' = ApprovedBy(c)
  BY <1>1 DEF ApprovedBy
<1> QED BY <1>2 DEF Kept, Taken

\* A step that approves nothing.
LEMMA NothingApproved ==
  ASSUME ConfirmedStays, AllApproved,
         \A a \in ChallengeIds : ApprovedBy(a)' = ApprovedBy(a) /\ (Taken(a)' <=> Taken(a))
  PROVE  AllApproved'
<1>1. ASSUME NEW a \in ChallengeIds PROVE Approved(a)'
  BY DEF AllApproved, Approved, ConfirmedStays
<1> QED BY <1>1 DEF AllApproved

\* An approval: the aggregate took none before, and the challenge it takes could
\* be consumed, so nothing else has taken it.
LEMMA OneApproved ==
  ASSUME TypeOK, ConfirmedStays, AllApproved, NEW a \in ChallengeIds,
         NEW now \in Instants, NEW c \in ChallengeIds, Accepts(a, c, now)
  PROVE  AllApproved'
<1>1. /\ ApprovedBy(a)' = ApprovedBy(a) \cup {c} /\ Pending(a) /\ KeptBut(a)
      /\ challenges[c].status = "created" /\ Taken(a)'
      /\ Becomes(c, Confirmed(challenges[c], now))
  BY DEF Accepts, Moves, Taken
<1>2. ApprovedBy(a) = {}
  <2>1. ~Taken(a)
    BY <1>1, PendingPhase DEF Taken
  <2> QED BY <2>1 DEF AllApproved, Approved
<1>3. ASSUME NEW b \in ChallengeIds PROVE c \notin ApprovedBy(b)
  <2>1. Approved(b)
    BY DEF AllApproved
  <2> QED BY <1>1, <2>1 DEF Approved
<1>4. challenges'[c].status = "confirmed"
  <2>1. challenges[c] \in ChallengeRecord /\ now \in Nat
    BY InstantsAreTimes DEF TypeOK
  <2>2. Confirmed(challenges[c], now).status = "confirmed"
    BY <2>1, RecordFacts
  <2> QED BY <1>1, <2>2, BecomesFacts
<1>5. ASSUME NEW b \in ChallengeIds, b # a
      PROVE  ApprovedBy(b)' = ApprovedBy(b) /\ (Taken(b)' <=> Taken(b))
  BY <1>1, <1>5, ApprovedByKept DEF KeptBut
<1>6. ASSUME NEW b \in ChallengeIds PROVE Approved(b)'
  <2>1. CASE b = a
    BY <1>1, <1>2, <1>4, <2>1 DEF Approved
  <2>2. CASE b # a
    BY <1>5, <2>2 DEF AllApproved, Approved, ConfirmedStays
  <2> QED BY <2>1, <2>2
<1>7. ASSUME NEW b \in ChallengeIds, NEW e \in ChallengeIds, b # e
      PROVE  ApprovedBy(b)' \cap ApprovedBy(e)' = {}
  <2>0. ApprovedBy(a)' = {c}
    BY <1>1, <1>2
  <2>1. CASE b = a
    BY <1>3, <1>5, <1>7, <2>0, <2>1
  <2>2. CASE e = a
    BY <1>3, <1>5, <1>7, <2>0, <2>2
  <2>3. CASE b # a /\ e # a
    BY <1>5, <1>7, <2>3 DEF AllApproved
  <2> QED BY <2>1, <2>2, <2>3
<1> QED BY <1>6, <1>7 DEF AllApproved

\* Every kind of step keeps one approval for each accepted aggregate.
LEMMA ApprovedStep ==
  ASSUME TypeOK, ConfirmedStays, AllApproved, Kinds
  PROVE  AllApproved'
<1>1. ASSUME \A c \in ChallengeIds : Kept(c)
      PROVE  AllApproved'
  BY <1>1, ApprovedByKept, NothingApproved
<1>2. ASSUME NEW a \in ChallengeIds, KeptBut(a), ApprovedBy(a)' = ApprovedBy(a),
             Taken(a)' <=> Taken(a)
      PROVE  AllApproved'
  <2>1. ASSUME NEW c \in ChallengeIds
        PROVE  ApprovedBy(c)' = ApprovedBy(c) /\ (Taken(c)' <=> Taken(c))
    BY <1>2, ApprovedByKept DEF KeptBut
  <2> QED BY <2>1, NothingApproved
<1>3. ASSUME Waits PROVE AllApproved'
  BY <1>1, <1>3 DEF Waits
<1>4. ASSUME NEW d \in Devices, Enrols(d) PROVE AllApproved'
  BY <1>1, <1>4 DEF Enrols
<1>5. ASSUME NEW d \in Devices, NEW now \in Instants, Invalidates(d, now)
      PROVE  AllApproved'
  <2>1. ASSUME NEW c \in ChallengeIds
        PROVE  ApprovedBy(c)' = ApprovedBy(c) /\ (Taken(c)' <=> Taken(c))
    <3>1. CASE c \in InvalidatedAt(d)
      <4>1. Pending(c) /\ Phase(c)' = "declined" /\ audit'[c] = audit[c]
        BY <1>5, <3>1 DEF Invalidates
      <4>2. ~Taken(c) /\ ~Taken(c)'
        BY <4>1, PendingPhase DEF Taken
      <4>3. ApprovedBy(c)' = ApprovedBy(c)
        BY <4>1 DEF ApprovedBy
      <4> QED BY <4>2, <4>3
    <3>2. CASE c \notin InvalidatedAt(d)
      BY <1>5, <3>2, ApprovedByKept DEF Invalidates
    <3> QED BY <3>1, <3>2
  <2> QED BY <2>1, NothingApproved
<1>6. ASSUME NEW n \in ChallengeIds, NEW d \in Devices, NEW issuedAt \in Time,
             NEW ttl \in Nat, Starts(n, d, issuedAt, ttl)
      PROVE  AllApproved'
  <2>1. KeptBut(n) /\ ApprovedBy(n)' = ApprovedBy(n) /\ ~Taken(n) /\ ~Taken(n)'
    BY <1>6, PendingPhase DEF Starts, Taken
  <2> QED BY <1>2, <2>1
<1>7. ASSUME NEW a \in ChallengeIds, NEW now \in Instants, NEW c \in ChallengeIds,
             Accepts(a, c, now) \/ Spends(a, c, now) \/ Overruns(c)
      PROVE  AllApproved'
  BY <1>1, <1>7, OneApproved DEF Spends, Overruns
<1>8. ASSUME NEW x \in Transactions, NEW now \in Instants, Withdraws(x, now)
      PROVE  AllApproved'
  BY <1>1, <1>8 DEF Withdraws
<1>9. ASSUME NEW x \in Transactions, NEW now \in Instants, Reverses(x, now)
      PROVE  AllApproved'
  <2>1. /\ KeptBut(x) /\ ApprovedBy(x)' = ApprovedBy(x) /\ x \in ChallengeIds
        /\ Pending(x) /\ Phase(x)' = "reversed"
    BY <1>9, ConstantsAssumption DEF Reverses, Moves
  <2>2. ~Taken(x) /\ ~Taken(x)'
    BY <2>1, PendingPhase DEF Taken
  <2> QED BY <1>2, <2>1, <2>2
<1>10. ASSUME NEW x \in Transactions, Clears(x)
       PROVE  AllApproved'
  <2>1. /\ KeptBut(x) /\ ApprovedBy(x)' = ApprovedBy(x) /\ x \in ChallengeIds
        /\ Taken(x)' <=> Taken(x)
    BY <1>10, ConstantsAssumption DEF Clears, Moves, Taken
  <2> QED BY <1>2, <2>1
<1> QED BY <1>3, <1>4, <1>5, <1>6, <1>7, <1>8, <1>9, <1>10 DEF Kinds

\* What Closed and Approved say of tokens and transactions.
LEMMA OutcomesMean ==
  ASSUME AggregatesLinked, AllClosed, AllApproved
  PROVE  OneApprovalEach /\ ClosedForGood
<1>0. /\ Tokens \subseteq ChallengeIds /\ Transactions \subseteq ChallengeIds
      /\ ChallengeIds = Tokens \cup Transactions /\ Tokens \cap Transactions = {}
  BY ConstantsAssumption
<1>1. ASSUME NEW a \in ChallengeIds PROVE Accepted(a) <=> Taken(a)
  <2>1. CASE a \in Tokens
    BY <2>1 DEF Accepted, Taken, Phase, AggregatesLinked
  <2>2. CASE a \in Transactions
    <3>1. a \notin Tokens
      BY <1>0, <2>2
    <3>2. transactions[a].state \in {"absent", "confirmation_pending", "confirmed",
                                     "declined", "reversed", "settled", "exception"}
      BY <2>2 DEF AggregatesLinked
    <3> QED BY <3>1, <3>2 DEF Accepted, Taken, Phase
  <2> QED BY <1>0, <2>1, <2>2
<1>2. OneApprovalEach
  BY <1>1 DEF OneApprovalEach, AllApproved, Approved
<1>3. ClosedForGood
  BY DEF ClosedForGood, AllClosed, Closed, Phase
<1> QED BY <1>2, <1>3

\* Retiring a device declines all that waits for it but what has a consumed
\* challenge, which is all that invalidation passes over.
LEMMA QuietStep ==
  ASSUME TypeOK, AggregatesLinked, ConfirmedStays, RevokedIsQuiet, Kinds
  PROVE  RevokedIsQuiet'
<1> SUFFICES ASSUME NEW c \in ChallengeIds, DeviceOf(c)' # None, Pending(c)',
                    challenges'[c].status # "confirmed"
             PROVE  devices'[DeviceOf(c)'].status = "active"
  BY DEF RevokedIsQuiet
<1>1. ASSUME Kept(c)
      PROVE  /\ DeviceOf(c) \in Devices /\ DeviceOf(c)' = DeviceOf(c)
             /\ Pending(c) /\ devices[DeviceOf(c)].status = "active"
  <2>1. DeviceOf(c)' = DeviceOf(c) /\ Pending(c)
    BY <1>1, PendingPhase DEF Kept
  <2>2. challenges[c].status # "confirmed"
    BY DEF ConfirmedStays
  <2> QED BY <2>1, <2>2, PendingHasDevice DEF RevokedIsQuiet
<1>2. ASSUME Kept(c), UNCHANGED devices
      PROVE  devices'[DeviceOf(c)'].status = "active"
  BY <1>1, <1>2
<1>3. ASSUME Waits PROVE devices'[DeviceOf(c)'].status = "active"
  BY <1>2, <1>3 DEF Waits, DevicesKept
<1>4. ASSUME NEW d \in Devices, Enrols(d) PROVE devices'[DeviceOf(c)'].status = "active"
  BY <1>1, <1>4 DEF Enrols, Lists
<1>5. ASSUME NEW d \in Devices, NEW now \in Instants, Invalidates(d, now)
      PROVE  devices'[DeviceOf(c)'].status = "active"
  <2>1. c \notin InvalidatedAt(d)
    <3>1. c \in InvalidatedAt(d) => Phase(c)' = "declined"
      BY <1>5 DEF Invalidates
    <3> QED BY <3>1, PendingPhase
  <2>2. Kept(c)
    BY <1>5, <2>1 DEF Invalidates
  <2>3. challenges[c].status # "confirmed"
    BY DEF ConfirmedStays
  <2>4. DeviceOf(c) # d
    BY <1>1, <2>1, <2>2, <2>3 DEF InvalidatedAt, OutstandingAt
  <2>5. devices'[DeviceOf(c)] = devices[DeviceOf(c)]
    BY <1>1, <1>5, <2>2, <2>4 DEF Invalidates, Lists
  <2> QED BY <1>1, <2>2, <2>5
<1>6. ASSUME NEW n \in ChallengeIds, NEW d \in Devices, NEW issuedAt \in Time,
             NEW ttl \in Nat, Starts(n, d, issuedAt, ttl)
      PROVE  devices'[DeviceOf(c)'].status = "active"
  <2>1. /\ UNCHANGED devices /\ devices[d].status = "active" /\ DeviceOf(n)' = d
        /\ c # n => Kept(c)
    BY <1>6 DEF Starts, DevicesKept, KeptBut
  <2> QED BY <1>2, <2>1
<1>7. ASSUME NEW a \in ChallengeIds, Moves(a), DevicesKept,
             Phase(a)' \notin {"trusted_device_challenge", "confirmation_pending"}
      PROVE  devices'[DeviceOf(c)'].status = "active"
  <2>1. c # a
    BY <1>7, PendingPhase
  <2>2. Kept(c) /\ UNCHANGED devices
    BY <1>7, <2>1 DEF Moves, KeptBut, DevicesKept
  <2> QED BY <1>2, <2>2
<1>8. ASSUME NEW a \in ChallengeIds, NEW now \in Instants, NEW e \in ChallengeIds,
             Accepts(a, e, now) \/ Spends(a, e, now) \/ Overruns(e)
      PROVE  devices'[DeviceOf(c)'].status = "active"
  <2>1. ASSUME Accepts(a, e, now)
        PROVE  devices'[DeviceOf(c)'].status = "active"
    BY <1>7, <2>1 DEF Accepts
  <2>2. ASSUME Spends(a, e, now) \/ Overruns(e)
        PROVE  devices'[DeviceOf(c)'].status = "active"
    BY <1>2, <2>2 DEF Spends, Overruns, DevicesKept
  <2> QED BY <1>8, <2>1, <2>2
<1>9. ASSUME NEW x \in Transactions, NEW now \in Instants, Withdraws(x, now)
      PROVE  devices'[DeviceOf(c)'].status = "active"
  BY <1>2, <1>9 DEF Withdraws, DevicesKept
<1>10. ASSUME NEW x \in Transactions, NEW now \in Instants, Reverses(x, now)
       PROVE  devices'[DeviceOf(c)'].status = "active"
  BY <1>7, <1>10, ConstantsAssumption DEF Reverses
<1>11. ASSUME NEW x \in Transactions, Clears(x)
       PROVE  devices'[DeviceOf(c)'].status = "active"
  BY <1>7, <1>11, ConstantsAssumption DEF Clears
<1> QED BY <1>3, <1>4, <1>5, <1>6, <1>8, <1>9, <1>10, <1>11 DEF Kinds

\* The initial states.
LEMMA OutcomesInit ==
  ASSUME Init
  PROVE  AllClosed /\ AllApproved /\ RevokedIsQuiet
<1>1. ASSUME NEW c \in ChallengeIds
      PROVE  Phase(c) = "absent" /\ DeviceOf(c) = None /\ audit[c] = <<>>
  BY <1>1, ConstantsAssumption DEF Init, Phase, DeviceOf
<1>2. \A c \in ChallengeIds : ~Pending(c)
  BY <1>1, PendingPhase
<1>3. ASSUME NEW c \in ChallengeIds
      PROVE  ApprovedBy(c) = {}
  <2>1. 1 .. Len(audit[c]) = {}
    BY <1>1
  <2> QED BY <2>1 DEF ApprovedBy
<1>4. AllApproved
  BY <1>1, <1>3 DEF AllApproved, Approved, Taken
<1> QED BY <1>1, <1>2, <1>4 DEF AllClosed, Closed, RevokedIsQuiet

\* INV-04 and what is left of INV-02: for any number of aggregates and devices,
\* whatever challenges approvals name and whatever instants callers pass, what
\* was accepted was accepted by exactly one challenge, no challenge served two
\* aggregates, and what was declined or reversed has a challenge that nobody
\* can consume and nobody consumed.
THEOREM OutcomesStayDecided == Spec => [](OneApprovalEach /\ ClosedForGood)
<1>1. Init => AllClosed /\ AllApproved
  BY OutcomesInit
<1>2. TypeOK /\ AggregatesLinked /\ AllClosed /\ AllApproved /\ [Next]_vars =>
        AllClosed' /\ AllApproved'
  BY EngineKinds, ConfirmedStep, ClosedStep, ApprovedStep
<1>3. AggregatesLinked /\ AllClosed /\ AllApproved => OneApprovalEach /\ ClosedForGood
  BY OutcomesMean
<1> QED BY <1>1, <1>2, <1>3, TypeCorrect, AggregatesStayLinked, PTL DEF Spec

\* invalidateOutstandingChallenges: a revoked device leaves nothing pending but
\* what a misdirected approval has cut off from its challenge, in any
\* environment.
THEOREM RevokedStaysQuiet == Spec => []RevokedIsQuiet
<1>1. Init => RevokedIsQuiet
  BY OutcomesInit
<1>2. TypeOK /\ AggregatesLinked /\ RevokedIsQuiet /\ [Next]_vars => RevokedIsQuiet'
  BY EngineKinds, ConfirmedStep, QuietStep
<1> QED BY <1>1, <1>2, TypeCorrect, AggregatesStayLinked, PTL DEF Spec

\* A challenge record that restores, issued no later than the clock.
Timely(r, time) ==
  r.status # "unissued" =>
    /\ r.issuedAt <= time /\ r.expiresAt > r.issuedAt
    /\ r.status \in {"confirmed", "cancelled"} => r.consumedAt # None
    /\ r.consumedAt # None => r.consumedAt >= r.issuedAt
    /\ r.status = "created" => r.consumedAt = None

AllTimely == \A c \in ChallengeIds : Timely(challenges[c], clock)

\* Operations at the clock's instant keep a record restorable.
LEMMA TimelyOperations ==
  ASSUME NEW r \in ChallengeRecord, NEW now \in Nat, Timely(r, now),
         r.status = "created"
  PROVE  /\ Timely(Expired(r), now) /\ Timely(Confirmed(r, now), now)
         /\ Timely(Cancelled(r, now), now)
<1>1. None \notin Nat
  BY ConstantsAssumption
<1>2. /\ Expired(r).status = "expired" /\ Confirmed(r, now).status = "confirmed"
      /\ Cancelled(r, now).status = "cancelled"
      /\ Expired(r).consumedAt = r.consumedAt
      /\ Confirmed(r, now).consumedAt = now /\ Cancelled(r, now).consumedAt = now
      /\ Expired(r).issuedAt = r.issuedAt /\ Confirmed(r, now).issuedAt = r.issuedAt
      /\ Cancelled(r, now).issuedAt = r.issuedAt
      /\ Expired(r).expiresAt = r.expiresAt /\ Confirmed(r, now).expiresAt = r.expiresAt
      /\ Cancelled(r, now).expiresAt = r.expiresAt
  BY RecordFacts
<1>3. r.issuedAt \in Nat /\ r.expiresAt \in Nat
  BY DEF ChallengeRecord
<1> QED BY <1>1, <1>2, <1>3 DEF Timely

\* A record that restores still does later.
LEMMA TimelyLater ==
  ASSUME NEW r \in ChallengeRecord, NEW m \in Nat, NEW n \in Nat, m <= n, Timely(r, m)
  PROVE  Timely(r, n)
BY DEF Timely, ChallengeRecord

\* A new record restores.
LEMMA TimelyCreated ==
  ASSUME NEW now \in Nat, NEW ttl \in Nat, ttl # 0
  PROVE  Timely(Created(now, ttl), now)
BY DEF Timely, Created

\* With the process's own clock, every kind of step keeps every record restorable.
LEMMA TimelyStep ==
  ASSUME ~CallerClock, TypeOK, TypeOK', AllTimely, Kinds, clock' >= clock
  PROVE  AllTimely'
<1>0. /\ clock \in Nat /\ clock' \in Nat
      /\ \A now \in Instants : now = clock
      /\ \A c \in ChallengeIds : challenges[c] \in ChallengeRecord
  BY ConstantsAssumption DEF TypeOK, Time, Instants
<1>1. ASSUME NEW c \in ChallengeIds, challenges'[c] = challenges[c]
      PROVE  Timely(challenges[c], clock)'
  BY <1>0, <1>1, TimelyLater DEF AllTimely
<1>2. ASSUME UNCHANGED challenges
      PROVE  AllTimely'
  BY <1>1, <1>2 DEF AllTimely
<1>3. ASSUME NEW a \in ChallengeIds, NEW r, Becomes(a, r), Timely(r, clock')
      PROVE  AllTimely'
  <2>1. /\ challenges'[a] = r
        /\ \A c \in ChallengeIds : c # a => challenges'[c] = challenges[c]
    BY <1>3, BecomesFacts
  <2>2. ASSUME NEW c \in ChallengeIds
        PROVE  Timely(challenges[c], clock)'
    BY <1>1, <1>3, <2>1
  <2> QED BY <2>2 DEF AllTimely
<1>4. ASSUME NEW c \in ChallengeIds, NEW now \in Instants, challenges[c].status = "created"
      PROVE  /\ Timely(Expired(challenges[c]), clock)
             /\ Timely(Confirmed(challenges[c], now), clock)
             /\ Timely(Cancelled(challenges[c], now), clock)
  <2>1. Timely(challenges[c], clock)
    BY DEF AllTimely
  <2> QED BY <1>0, <1>4, <2>1, TimelyOperations
<1>5. ASSUME Waits PROVE AllTimely'
  BY <1>2, <1>5 DEF Waits
<1>6. ASSUME NEW d \in Devices, Enrols(d) PROVE AllTimely'
  BY <1>2, <1>6 DEF Enrols
<1>7. ASSUME NEW d \in Devices, NEW now \in Instants, Invalidates(d, now) PROVE AllTimely'
  <2>1. ASSUME NEW c \in ChallengeIds
        PROVE  Timely(challenges[c], clock)'
    <3>1. /\ challenges'[c] = IF c \in InvalidatedAt(d) /\ CancelAllowed(c, now)
                                THEN Cancelled(challenges[c], now) ELSE challenges[c]
          /\ clock' = clock
      BY <1>7 DEF Invalidates
    <3>2. CASE c \in InvalidatedAt(d) /\ CancelAllowed(c, now)
      BY <1>4, <3>1, <3>2 DEF CancelAllowed
    <3>3. CASE ~(c \in InvalidatedAt(d) /\ CancelAllowed(c, now))
      BY <1>1, <3>1, <3>3
    <3> QED BY <3>2, <3>3
  <2> QED BY <2>1 DEF AllTimely
<1>8. ASSUME NEW n \in ChallengeIds, NEW d \in Devices, NEW issuedAt \in Time,
             NEW ttl \in Nat, Starts(n, d, issuedAt, ttl)
      PROVE  AllTimely'
  <2>1. Becomes(n, Created(issuedAt, ttl)) /\ ttl # 0 /\ issuedAt = clock'
    BY <1>8 DEF Starts
  <2>2. Timely(Created(issuedAt, ttl), clock')
    BY <1>0, <2>1, TimelyCreated
  <2> QED BY <1>3, <2>1, <2>2
<1>9. ASSUME NEW a \in ChallengeIds, NEW now \in Instants, NEW c \in ChallengeIds,
             Accepts(a, c, now) \/ Spends(a, c, now) \/ Overruns(c)
      PROVE  AllTimely'
  <2>1. /\ challenges[c].status = "created" /\ clock' = clock
        /\ Becomes(c, Confirmed(challenges[c], now)) \/ Becomes(c, Expired(challenges[c]))
    BY <1>9 DEF Accepts, Spends, Overruns
  <2>2. c \in ChallengeIds
    OBVIOUS
  <2> QED BY <1>3, <1>4, <2>1, <2>2
<1>10. ASSUME NEW x \in Transactions, NEW now \in Instants, Withdraws(x, now) \/ Reverses(x, now)
       PROVE  AllTimely'
  <2>1. /\ challenges[x].status = "created" /\ clock' = clock
        /\ Becomes(x, Cancelled(challenges[x], now)) /\ x \in ChallengeIds
    BY <1>10, ConstantsAssumption DEF Withdraws, Reverses, CancelAllowed
  <2> QED BY <1>3, <1>4, <2>1
<1>11. ASSUME NEW x \in Transactions, Clears(x) PROVE AllTimely'
  BY <1>2, <1>11 DEF Clears
<1> QED BY <1>5, <1>6, <1>7, <1>8, <1>9, <1>10, <1>11 DEF Kinds

\* The clock never goes back.
LEMMA ClockStep ==
  ASSUME TypeOK, [Next]_vars
  PROVE  clock' >= clock
<1>0. clock \in Nat
  BY ConstantsAssumption DEF TypeOK, Time
<1>1. ASSUME NEW x \in Transactions, NEW t \in Tokens, NEW d \in Devices,
             NEW amount \in Amounts, NEW now \in Instants,
             NEW issuedAt \in IssueInstants(now),
             authorize(x, t, d, amount, now, issuedAt)
      PROVE  clock' >= clock
  BY <1>0, <1>1 DEF authorize, IssueInstants, Instants
<1>2. CASE DeviceNext
  <2>1. \E d \in Devices : Enrols(d) \/ \E now \in Instants : Invalidates(d, now)
    BY <1>2, DeviceKinds
  <2>2. UNCHANGED clock
    BY <2>1 DEF Enrols, Invalidates
  <2> QED BY <1>0, <2>2
<1>3. CASE ProvisioningNext
  BY <1>0, <1>3 DEF ProvisioningNext, requestProvisioning
<1>4. CASE ApprovalNext
  BY <1>0, <1>4 DEF ApprovalNext, LateApproval, SpentApproval, approveProvisioning,
     confirmTransaction
<1>5. CASE TransactionNext
  BY <1>0, <1>1, <1>5 DEF TransactionNext, receiveClearing, expireAndReverse,
     ExpireAfterDecision
<1>6. CASE Tick \/ UNCHANGED vars
  BY <1>0, <1>6 DEF Tick, vars
<1> QED BY <1>2, <1>3, <1>4, <1>5, <1>6 DEF Next

\* With the process's own clock every challenge record is moreover one that
\* ChallengeStore.restore accepts, whatever late, repeated or misdirected calls
\* came before.
THEOREM OutcomesStandAndRestore ==
  ASSUME ~CallerClock
  PROVE  Spec => []OutcomesStand
<1>1. Init => AllTimely
  BY DEF Init, AllTimely, Timely, Unissued
<1>2. TypeOK /\ TypeOK' /\ AggregatesLinked /\ AllTimely /\ [Next]_vars => AllTimely'
  BY EngineKinds, TimelyStep, ClockStep
<1>3. AllTimely => RestoreChallenges
  BY DEF AllTimely, Timely, RestoreChallenges
<1>4. OneApprovalEach /\ ClosedForGood /\ RestoreChallenges => OutcomesStand
  BY DEF OutcomesStand
<1> QED BY <1>1, <1>2, <1>3, <1>4, OutcomesStayDecided, TypeCorrect,
           AggregatesStayLinked, PTL DEF Spec

-----------------------------------------------------------------------------
(* What the audit log tells                                                *)

\* No device event names c; exactly one does, at c's own device.
Unlisted(c) ==
  \A d \in Devices : \A i \in 1 .. Len(audit[d]) : c \notin audit[d][i].named
ListedOnce(c) ==
  /\ DeviceOf(c) \in Devices
  /\ \E i \in 1 .. Len(audit[DeviceOf(c)]) : \A d \in Devices :
       \A j \in 1 .. Len(audit[d]) : c \in audit[d][j].named <=> d = DeviceOf(c) /\ j = i

\* The trail of an aggregate has its history since it was requested, ends with
\* the event of its present state, and stops at the request when the aggregate
\* is declined: that is told by its device's trail.
TrailOf(c) ==
  /\ Phase(c) = "absent" <=> Len(audit[c]) = 0
  /\ Phase(c) \notin {"absent", "declined"} =>
       audit[c][Len(audit[c])].result = Result(Phase(c))
  /\ Pending(c) \/ Phase(c) = "declined" => Len(audit[c]) = 1
  /\ IF Phase(c) = "declined" THEN ListedOnce(c) ELSE Unlisted(c)

AllTrails == \A c \in ChallengeIds : TrailOf(c)

\* The trails of devices, within the bound of the model.
DeviceTrails ==
  \A d \in Devices :
    /\ devices[d].status = "absent" => Len(audit[d]) = 0
    /\ devices[d].status = "active" => Len(audit[d]) <= MaxDeviceEvents
    /\ Len(audit[d]) <= MaxDeviceEvents + 1

\* An extended trail keeps its events and ends with the new one.
LEMMA ExtendsFacts ==
  ASSUME NEW g, NEW h \in Seq(Event), NEW e \in Event, Extends(g, h, e)
  PROVE  /\ Len(h) \in Nat /\ Len(g) = Len(h) + 1 /\ g[Len(h) + 1] = e
         /\ \A i \in 1 .. Len(h) : g[i] = h[i]
BY DEF Extends

\* Trails are sequences.
LEMMA TrailTypes ==
  ASSUME TypeOK, NEW b \in Devices \cup ChallengeIds
  PROVE  audit[b] \in Seq(Event) /\ Len(audit[b]) \in Nat
BY DEF TypeOK

\* When no device's trail changes, the same events name c.
LEMMA ListingKept ==
  ASSUME NEW c, \A d \in Devices : audit'[d] = audit[d], DeviceOf(c)' = DeviceOf(c)
  PROVE  /\ Unlisted(c) => Unlisted(c)'
         /\ ListedOnce(c) => ListedOnce(c)'
BY DEF Unlisted, ListedOnce

\* An aggregate that is left alone, with the devices.
LEMMA TrailKept ==
  ASSUME NEW c \in ChallengeIds, TrailOf(c), Kept(c), DevicesKept
  PROVE  TrailOf(c)'
<1>1. Phase(c)' = Phase(c) /\ audit'[c] = audit[c] /\ DeviceOf(c)' = DeviceOf(c)
  BY DEF Kept
<1>2. /\ Unlisted(c) => Unlisted(c)'
      /\ ListedOnce(c) => ListedOnce(c)'
  BY <1>1, ListingKept DEF DevicesKept
<1>3. Pending(c)' = Pending(c)
  BY <1>1, PendingPhase
<1> QED BY <1>1, <1>2, <1>3 DEF TrailOf

\* The event of a device step names S: what is outside S is listed as before.
LEMMA ListingElsewhere ==
  ASSUME TypeOK, NEW d \in Devices, NEW S, Lists(d, S), NEW c, c \notin S,
         DeviceOf(c)' = DeviceOf(c)
  PROVE  /\ Unlisted(c) => Unlisted(c)'
         /\ ListedOnce(c) => ListedOnce(c)'
<1>1. PICK e \in Event : Extends(audit'[d], audit[d], e) /\ e.named = S
  BY DEF Lists
<1>2. \A f \in Devices \ {d} : audit'[f] = audit[f]
  BY DEF Lists
<1>3. audit[d] \in Seq(Event)
  BY TrailTypes
<1>4. /\ Len(audit[d]) \in Nat /\ Len(audit'[d]) = Len(audit[d]) + 1
      /\ audit'[d][Len(audit[d]) + 1] = e
      /\ \A i \in 1 .. Len(audit[d]) : audit'[d][i] = audit[d][i]
  BY <1>1, <1>3, ExtendsFacts
<1>5. \A f \in Devices : \A j \in 1 .. Len(audit'[f]) :
        c \in audit'[f][j].named <=> j \in 1 .. Len(audit[f]) /\ c \in audit[f][j].named
  BY <1>1, <1>2, <1>4
<1>6. \A f \in Devices : \A j \in 1 .. Len(audit[f]) : j \in 1 .. Len(audit'[f])
  BY <1>2, <1>4
<1>7. Unlisted(c) => Unlisted(c)'
  BY <1>5 DEF Unlisted
<1>8. ASSUME ListedOnce(c)
      PROVE  ListedOnce(c)'
  <2>1. PICK i \in 1 .. Len(audit[DeviceOf(c)]) : \A f \in Devices :
          \A j \in 1 .. Len(audit[f]) : c \in audit[f][j].named <=> f = DeviceOf(c) /\ j = i
    BY <1>8 DEF ListedOnce
  <2>2. PICK own \in Devices : own = DeviceOf(c) /\ own = DeviceOf(c)'
    BY <1>8 DEF ListedOnce
  <2>3. i \in 1 .. Len(audit'[own]) /\ i \in 1 .. Len(audit[own])
    BY <1>6, <2>1, <2>2
  <2>4. \A f \in Devices : \A j \in 1 .. Len(audit'[f]) :
          c \in audit'[f][j].named <=> f = own /\ j = i
    BY <1>5, <2>1, <2>2, <2>3
  <2> QED BY <2>2, <2>3, <2>4 DEF ListedOnce
<1> QED BY <1>7, <1>8

\* What is in S is listed once.
LEMMA ListingNew ==
  ASSUME TypeOK, NEW d \in Devices, NEW S, Lists(d, S), NEW c \in S,
         Unlisted(c), DeviceOf(c)' = d
  PROVE  ListedOnce(c)'
<1>1. PICK e \in Event : Extends(audit'[d], audit[d], e) /\ e.named = S
  BY DEF Lists
<1>2. \A f \in Devices \ {d} : audit'[f] = audit[f]
  BY DEF Lists
<1>3. audit[d] \in Seq(Event)
  BY TrailTypes
<1>4. /\ Len(audit[d]) \in Nat /\ Len(audit'[d]) = Len(audit[d]) + 1
      /\ audit'[d][Len(audit[d]) + 1] = e
      /\ \A i \in 1 .. Len(audit[d]) : audit'[d][i] = audit[d][i]
  BY <1>1, <1>3, ExtendsFacts
<1>5. PICK i : i = Len(audit[d]) + 1
  OBVIOUS
<1>6. i \in 1 .. Len(audit'[d])
  BY <1>4, <1>5
<1>7. ASSUME NEW f \in Devices, NEW j \in 1 .. Len(audit'[f])
      PROVE  c \in audit'[f][j].named <=> f = d /\ j = i
  <2>1. CASE f = d /\ j = i
    BY <1>1, <1>4, <1>5, <2>1
  <2>2. CASE f = d /\ j # i
    <3>1. j \in 1 .. Len(audit[d])
      BY <1>4, <1>5, <2>2
    <3> QED BY <1>4, <2>2, <3>1 DEF Unlisted
  <2>3. CASE f # d
    BY <1>2, <2>3 DEF Unlisted
  <2> QED BY <2>1, <2>2, <2>3
<1> QED BY <1>6, <1>7 DEF ListedOnce

\* An aggregate whose trail records where it went, the devices being left alone.
LEMMA TrailMoves ==
  ASSUME TypeOK, NEW a \in ChallengeIds, TrailOf(a), Phase(a) # "declined", DevicesKept,
         \E e \in Event : Extends(audit'[a], audit[a], e) /\ e.result = Result(Phase(a)'),
         Phase(a)' \notin {"absent", "declined"},
         Pending(a)' => Phase(a) = "absent"
  PROVE  TrailOf(a)'
<1>1. PICK e \in Event : Extends(audit'[a], audit[a], e) /\ e.result = Result(Phase(a)')
  OBVIOUS
<1>2. audit[a] \in Seq(Event)
  BY TrailTypes
<1>3. /\ Len(audit[a]) \in Nat /\ Len(audit'[a]) = Len(audit[a]) + 1
      /\ audit'[a][Len(audit[a]) + 1] = e
  BY <1>1, <1>2, ExtendsFacts
<1>4. Unlisted(a)'
  <2>1. Unlisted(a)
    BY DEF TrailOf
  <2> QED BY <2>1 DEF DevicesKept, Unlisted
<1>5. Phase(a) = "absent" => Len(audit[a]) = 0
  BY DEF TrailOf
<1>6. audit'[a][Len(audit'[a])].result = Result(Phase(a)')
  BY <1>1, <1>3
<1>7. Len(audit'[a]) # 0 /\ (Phase(a) = "absent" => Len(audit'[a]) = 1)
  BY <1>3, <1>5
<1> QED BY <1>4, <1>6, <1>7 DEF TrailOf

\* Every kind of step keeps the trails in agreement with the states.
LEMMA TrailStep ==
  ASSUME TypeOK, AllTrails, Kinds
  PROVE  AllTrails'
<1>1. ASSUME \A c \in ChallengeIds : Kept(c), DevicesKept
      PROVE  AllTrails'
  BY <1>1, TrailKept DEF AllTrails
<1>2. ASSUME NEW a \in ChallengeIds, KeptBut(a), DevicesKept, TrailOf(a)'
      PROVE  AllTrails'
  <2>1. ASSUME NEW c \in ChallengeIds, c # a
        PROVE  TrailOf(c)'
    BY <1>2, <2>1, TrailKept DEF AllTrails, KeptBut
  <2> QED BY <1>2, <2>1 DEF AllTrails
<1>3. ASSUME NEW d \in Devices, NEW S, Lists(d, S), NEW c \in ChallengeIds, Kept(c), c \notin S
      PROVE  TrailOf(c)'
  <2>1. Phase(c)' = Phase(c) /\ audit'[c] = audit[c] /\ DeviceOf(c)' = DeviceOf(c)
    BY <1>3 DEF Kept
  <2>2. Pending(c)' = Pending(c)
    BY <2>1, PendingPhase
  <2>3. /\ Unlisted(c) => Unlisted(c)'
        /\ ListedOnce(c) => ListedOnce(c)'
    BY <1>3, <2>1, ListingElsewhere
  <2> QED BY <2>1, <2>2, <2>3 DEF TrailOf, AllTrails
<1>4. ASSUME Waits PROVE AllTrails'
  BY <1>1, <1>4 DEF Waits
<1>5. ASSUME NEW d \in Devices, Enrols(d) PROVE AllTrails'
  <2>1. PICK S : S = {} /\ Lists(d, S)
    BY <1>5 DEF Enrols
  <2>2. \A c \in ChallengeIds : Kept(c) /\ c \notin S
    BY <1>5, <2>1 DEF Enrols
  <2> QED BY <1>3, <2>1, <2>2 DEF AllTrails
<1>6. ASSUME NEW d \in Devices, NEW now \in Instants, Invalidates(d, now) PROVE AllTrails'
  <2>1. PICK S : S = InvalidatedAt(d) /\ Lists(d, S)
    BY <1>6 DEF Invalidates
  <2>2. ASSUME NEW c \in ChallengeIds, c \notin S
        PROVE  TrailOf(c)'
    <3>1. Kept(c)
      BY <1>6, <2>1, <2>2 DEF Invalidates
    <3> QED BY <1>3, <2>1, <2>2, <3>1
  <2>3. ASSUME NEW c \in ChallengeIds, c \in S
        PROVE  TrailOf(c)'
    <3>1. /\ Pending(c) /\ Phase(c)' = "declined" /\ DeviceOf(c)' = d /\ audit'[c] = audit[c]
      BY <1>6, <2>1, <2>3 DEF Invalidates
    <3>2. Unlisted(c) /\ Len(audit[c]) = 1
      BY <3>1, PendingPhase DEF TrailOf, AllTrails
    <3>3. ListedOnce(c)'
      BY <2>1, <2>3, <3>1, <3>2, ListingNew
    <3>4. ~Pending(c)'
      BY <3>1, PendingPhase
    <3> QED BY <3>1, <3>2, <3>3, <3>4 DEF TrailOf
  <2> QED BY <2>2, <2>3 DEF AllTrails
<1>7. ASSUME NEW n \in ChallengeIds, NEW d \in Devices, NEW issuedAt \in Time,
             NEW ttl \in Nat, Starts(n, d, issuedAt, ttl)
      PROVE  AllTrails'
  <2>1. /\ Phase(n) = "absent" /\ Pending(n)' /\ KeptBut(n) /\ DevicesKept
        /\ \E e \in Event : Extends(audit'[n], audit[n], e) /\ e.result = Result(Phase(n)')
    BY <1>7 DEF Starts
  <2>2. Phase(n)' \notin {"absent", "declined"}
    BY <2>1, PendingPhase
  <2>3. TrailOf(n)'
    BY <2>1, <2>2, TrailMoves DEF AllTrails
  <2> QED BY <1>2, <2>1, <2>3
<1>8. ASSUME NEW a \in ChallengeIds, Moves(a), DevicesKept,
             Phase(a) # "declined",
             Phase(a)' \in {"token_active_capped", "token_active_full", "confirmed",
                            "reversed", "settled", "exception"}
      PROVE  AllTrails'
  <2>1. /\ KeptBut(a)
        /\ \E e \in Event : Extends(audit'[a], audit[a], e) /\ e.result = Result(Phase(a)')
    BY <1>8 DEF Moves
  <2>2. ~Pending(a)' /\ Phase(a)' \notin {"absent", "declined"}
    BY <1>8, PendingPhase
  <2>3. TrailOf(a)'
    BY <1>8, <2>1, <2>2, TrailMoves DEF AllTrails
  <2> QED BY <1>2, <1>8, <2>1, <2>3
<1>9. ASSUME NEW a \in ChallengeIds, NEW now \in Instants, NEW c \in ChallengeIds,
             Accepts(a, c, now) \/ Spends(a, c, now) \/ Overruns(c)
      PROVE  AllTrails'
  <2>1. ASSUME Accepts(a, c, now)
        PROVE  AllTrails'
    <3>1. Phase(a) # "declined"
      BY <2>1, PendingPhase DEF Accepts
    <3>2. /\ Moves(a) /\ DevicesKept
          /\ Phase(a)' \in {"token_active_capped", "token_active_full", "confirmed"}
      BY <2>1 DEF Accepts
    <3> QED BY <1>8, <3>1, <3>2
  <2>2. ASSUME Spends(a, c, now) \/ Overruns(c)
        PROVE  AllTrails'
    BY <1>1, <2>2 DEF Spends, Overruns
  <2> QED BY <1>9, <2>1, <2>2
<1>10. ASSUME NEW x \in Transactions, NEW now \in Instants, Withdraws(x, now)
       PROVE  AllTrails'
  BY <1>1, <1>10 DEF Withdraws
<1>11. ASSUME NEW x \in Transactions, NEW now \in Instants, Reverses(x, now)
       PROVE  AllTrails'
  <2>1. x \in ChallengeIds
    BY ConstantsAssumption
  <2>2. Pending(x) /\ Phase(x)' = "reversed" /\ Moves(x) /\ DevicesKept
    BY <1>11 DEF Reverses
  <2>3. Phase(x) # "declined"
    BY <2>1, <2>2, PendingPhase
  <2> QED BY <1>8, <2>1, <2>2, <2>3
<1>12. ASSUME NEW x \in Transactions, Clears(x)
       PROVE  AllTrails'
  <2>1. x \in ChallengeIds
    BY ConstantsAssumption
  <2> QED BY <1>8, <1>12, <2>1 DEF Clears
<1> QED BY <1>4, <1>5, <1>6, <1>7, <1>9, <1>10, <1>11, <1>12 DEF Kinds

\* Every kind of step keeps the trails of devices within the model's bound.
LEMMA DeviceTrailStep ==
  ASSUME TypeOK, DeviceTrails, Kinds
  PROVE  DeviceTrails'
<1>1. ASSUME DevicesKept
      PROVE  DeviceTrails'
  BY <1>1 DEF DevicesKept, DeviceTrails
<1>2. ASSUME NEW d \in Devices, NEW S, Lists(d, S),
             \/ devices[d].status = "absent" /\ devices'[d].status = "active"
             \/ /\ devices[d].status = "active"
                /\ \/ devices'[d].status = "active" /\ Len(audit[d]) < MaxDeviceEvents
                   \/ devices'[d].status = "revoked"
      PROVE  DeviceTrails'
  <2>1. PICK e \in Event : Extends(audit'[d], audit[d], e)
    BY <1>2 DEF Lists
  <2>2. audit[d] \in Seq(Event)
    BY TrailTypes
  <2>3. Len(audit[d]) \in Nat /\ Len(audit'[d]) = Len(audit[d]) + 1
    BY <2>1, <2>2, ExtendsFacts
  <2>4. MaxDeviceEvents \in Nat /\ MaxDeviceEvents # 0
    BY ConstantsAssumption
  <2>5. /\ devices'[d].status = "absent" => Len(audit'[d]) = 0
        /\ devices'[d].status = "active" => Len(audit'[d]) <= MaxDeviceEvents
        /\ Len(audit'[d]) <= MaxDeviceEvents + 1
    BY <1>2, <2>3, <2>4 DEF DeviceTrails
  <2>6. \A f \in Devices \ {d} : audit'[f] = audit[f] /\ devices'[f] = devices[f]
    BY <1>2 DEF Lists
  <2> QED BY <2>5, <2>6 DEF DeviceTrails
<1>3. Waits => DevicesKept
  BY DEF Waits
<1>4. \A n \in ChallengeIds, d \in Devices, issuedAt \in Time, ttl \in Nat :
        Starts(n, d, issuedAt, ttl) => DevicesKept
  BY DEF Starts
<1>5. \A a \in ChallengeIds, now \in Instants : \A c \in ChallengeIds :
        Accepts(a, c, now) \/ Spends(a, c, now) \/ Overruns(c) => DevicesKept
  BY DEF Accepts, Spends, Overruns
<1>6. \A x \in Transactions :
        /\ Clears(x) => DevicesKept
        /\ \A now \in Instants : Withdraws(x, now) \/ Reverses(x, now) => DevicesKept
  BY DEF Clears, Withdraws, Reverses
<1>7. ASSUME NEW d \in Devices, Enrols(d) PROVE DeviceTrails'
  BY <1>2, <1>7 DEF Enrols
<1>8. ASSUME NEW d \in Devices, NEW now \in Instants, Invalidates(d, now) PROVE DeviceTrails'
  BY <1>2, <1>8 DEF Invalidates
<1> QED BY <1>1, <1>3, <1>4, <1>5, <1>6, <1>7, <1>8 DEF Kinds

\* The device events that list an aggregate, as ListedAt collects them.
LEMMA ListedAtFacts ==
  ASSUME TypeOK, DeviceTrails, NEW c \in ChallengeIds, TrailOf(c)
  PROVE  /\ Phase(c) # "declined" => ListedAt(c) = {}
         /\ Phase(c) = "declined" => \E i : ListedAt(c) = {<<DeviceOf(c), i>>}
<1>1. \A d \in Devices : Len(audit[d]) \in Nat /\ Len(audit[d]) <= MaxDeviceEvents + 1
  BY TrailTypes DEF DeviceTrails
<1>2. MaxDeviceEvents \in Nat
  BY ConstantsAssumption
<1>3. ASSUME Phase(c) # "declined"
      PROVE  ListedAt(c) = {}
  <2>1. Unlisted(c)
    BY <1>3 DEF TrailOf
  <2>2. ASSUME NEW l \in ListedAt(c)
        PROVE  FALSE
    <3>1. /\ l[1] \in Devices /\ l[2] \in 1 .. MaxDeviceEvents + 1
          /\ l[2] <= Len(audit[l[1]]) /\ c \in audit[l[1]][l[2]].named
      BY <2>2 DEF ListedAt
    <3>2. l[2] \in 1 .. Len(audit[l[1]])
      BY <1>1, <1>2, <3>1
    <3> QED BY <2>1, <3>1, <3>2 DEF Unlisted
  <2> QED BY <2>2
<1>4. ASSUME Phase(c) = "declined"
      PROVE  \E i : ListedAt(c) = {<<DeviceOf(c), i>>}
  <2>1. PICK own \in Devices : own = DeviceOf(c)
    BY <1>4 DEF TrailOf, ListedOnce
  <2>2. PICK i \in 1 .. Len(audit[own]) : \A d \in Devices : \A j \in 1 .. Len(audit[d]) :
          c \in audit[d][j].named <=> d = own /\ j = i
    BY <1>4, <2>1 DEF TrailOf, ListedOnce
  <2>3. <<own, i>> \in ListedAt(c)
    <3>1. i \in 1 .. MaxDeviceEvents + 1 /\ i <= Len(audit[own]) /\ c \in audit[own][i].named
      BY <1>1, <1>2, <2>2
    <3> QED BY <3>1 DEF ListedAt
  <2>4. ASSUME NEW l \in ListedAt(c)
        PROVE  l = <<own, i>>
    <3>1. /\ l \in Devices \X (1 .. MaxDeviceEvents + 1)
          /\ l[2] <= Len(audit[l[1]]) /\ c \in audit[l[1]][l[2]].named
      BY <2>4 DEF ListedAt
    <3>2. l[1] \in Devices /\ l[2] \in 1 .. Len(audit[l[1]]) /\ l = <<l[1], l[2]>>
      BY <1>1, <1>2, <3>1
    <3>3. l[1] = own /\ l[2] = i
      BY <2>2, <3>1, <3>2
    <3> QED BY <3>2, <3>3
  <2>5. ListedAt(c) = {<<own, i>>}
    BY <2>3, <2>4
  <2> QED BY <2>1, <2>5
<1> QED BY <1>3, <1>4

\* The trails explain the state.
LEMMA TrailsExplain ==
  ASSUME TypeOK, AggregatesLinked, DeviceTrails, AllTrails
  PROVE  AuditExplainsState
<1>0. /\ Tokens \subseteq ChallengeIds /\ Transactions \subseteq ChallengeIds
      /\ Tokens \cap Transactions = {}
  BY ConstantsAssumption
<1>1. ASSUME NEW c \in ChallengeIds
      PROVE  /\ ListedAt(c) # {} <=> Phase(c) = "declined"
             /\ Cardinality(ListedAt(c)) <= 1
             /\ \A l \in ListedAt(c) : l[1] = DeviceOf(c) /\ Len(audit[c]) = 1
  <2>1. TrailOf(c)
    BY DEF AllTrails
  <2>2. CASE Phase(c) # "declined"
    <3>1. ListedAt(c) = {}
      BY <2>1, <2>2, ListedAtFacts
    <3> QED BY <2>2, <3>1, FS_EmptySet
  <2>3. CASE Phase(c) = "declined"
    <3>1. PICK i : ListedAt(c) = {<<DeviceOf(c), i>>}
      BY <2>1, <2>3, ListedAtFacts
    <3>2. Cardinality({<<DeviceOf(c), i>>}) = 1
      BY FS_Singleton
    <3>3. Cardinality(ListedAt(c)) <= 1
      BY <3>1, <3>2
    <3>4. Len(audit[c]) = 1
      BY <2>1, <2>3 DEF TrailOf
    <3> QED BY <2>3, <3>1, <3>3, <3>4
  <2> QED BY <2>2, <2>3
<1>2. ASSUME NEW c \in ChallengeIds, Phase(c) # "declined"
      PROVE  Told(c) = IF Phase(c) = "absent" THEN "absent" ELSE Result(Phase(c))
  <2>1. TrailOf(c) /\ audit[c] \in Seq(Event)
    BY TrailTypes DEF AllTrails
  <2>2. audit[c] = <<>> <=> Len(audit[c]) = 0
    BY <2>1
  <2>3. CASE Phase(c) = "absent"
    BY <2>1, <2>2, <2>3 DEF TrailOf, Told
  <2>4. CASE Phase(c) # "absent"
    BY <1>2, <2>1, <2>2, <2>4 DEF TrailOf, Told
  <2> QED BY <2>3, <2>4
<1>3. ASSUME NEW t \in Tokens
      PROVE  tokens[t].state =
               IF ListedAt(t) # {} THEN "declined"
               ELSE CASE Told(t) = "capped" -> "active_capped"
                      [] Told(t) = "full" -> "active_full"
                      [] OTHER -> Told(t)
  <2>1. /\ <<tokens[t].state, Phase(t)>> \in
            {<<"absent", "absent">>, <<"pending", "trusted_device_challenge">>,
             <<"active_capped", "token_active_capped">>,
             <<"active_full", "token_active_full">>, <<"declined", "declined">>}
    BY DEF AggregatesLinked, Phase
  <2>2. t \in ChallengeIds
    BY <1>0
  <2>3. CASE Phase(t) = "declined"
    BY <1>1, <2>1, <2>2, <2>3
  <2>4. CASE Phase(t) # "declined"
    <3>1. ListedAt(t) = {}
      BY <1>1, <2>2, <2>4
    <3>2. Told(t) = IF Phase(t) = "absent" THEN "absent" ELSE Result(Phase(t))
      BY <1>2, <2>2, <2>4
    <3> QED BY <2>1, <2>4, <3>1, <3>2, ResultFacts
  <2> QED BY <2>3, <2>4
<1>4. ASSUME NEW x \in Transactions
      PROVE  transactions[x].state = IF ListedAt(x) # {} THEN "declined" ELSE Told(x)
  <2>1. /\ Phase(x) = transactions[x].state
        /\ Phase(x) \in {"absent", "confirmation_pending", "confirmed", "declined",
                         "reversed", "settled", "exception"}
    BY <1>0 DEF AggregatesLinked, Phase
  <2>2. x \in ChallengeIds
    BY <1>0
  <2>3. CASE Phase(x) = "declined"
    BY <1>1, <2>1, <2>2, <2>3
  <2>4. CASE Phase(x) # "declined"
    <3>1. ListedAt(x) = {}
      BY <1>1, <2>2, <2>4
    <3>2. Told(x) = IF Phase(x) = "absent" THEN "absent" ELSE Result(Phase(x))
      BY <1>2, <2>2, <2>4
    <3> QED BY <2>1, <2>4, <3>1, <3>2, ResultFacts
  <2> QED BY <2>3, <2>4
<1> QED BY <1>1, <1>3, <1>4 DEF AuditExplainsState

\* For any number of devices, keys, rotations and aggregates, and whatever
\* approvals and instants callers pass, the audit log explains the state: a
\* declined aggregate is listed by exactly one event of its own device, and any
\* other is in the state its last event tells.
THEOREM AuditAlwaysExplains == Spec => []AuditExplainsState
<1>1. Init => DeviceTrails /\ AllTrails
  <2>1. ASSUME Init
        PROVE  DeviceTrails
    BY <2>1, ConstantsAssumption DEF Init, DeviceTrails
  <2>2. ASSUME Init, NEW c \in ChallengeIds
        PROVE  TrailOf(c)
    <3>1. Phase(c) = "absent" /\ audit[c] = <<>>
      BY <2>2, ConstantsAssumption DEF Init, Phase
    <3>2. ~Pending(c)
      BY <3>1, PendingPhase
    <3>3. \A d \in Devices : audit[d] = <<>>
      BY <2>2 DEF Init
    <3>4. Unlisted(c)
      BY <3>3 DEF Unlisted
    <3> QED BY <3>1, <3>2, <3>4 DEF TrailOf
  <2> QED BY <2>1, <2>2 DEF AllTrails
<1>2. TypeOK /\ AggregatesLinked /\ DeviceTrails /\ AllTrails /\ [Next]_vars =>
        DeviceTrails' /\ AllTrails'
  BY EngineKinds, TrailStep, DeviceTrailStep
<1>3. TypeOK /\ AggregatesLinked /\ DeviceTrails /\ AllTrails => AuditExplainsState
  BY TrailsExplain
<1> QED BY <1>1, <1>2, <1>3, TypeCorrect, AggregatesStayLinked, PTL DEF Spec

-----------------------------------------------------------------------------
(* Reservations add up to the daily spend                                  *)

\* The reservations of S under the spend key of a token and a day, and the
\* amount of every transaction.
Booked(S, t, day) ==
  {x \in S : transactions[x].token = t /\ transactions[x].reserved = day}
Amount == [x \in Transactions |-> transactions[x].amount]

\* The books of the caps: the spend of a key is the sum of its reservations, and
\* a transaction that does not exist has reserved nothing.
AddsUp ==
  /\ \A t \in Tokens, day \in Day :
       dailySpend[<<t, day>>] = Total(Amount, Booked(Transactions, t, day))
  /\ \A x \in Transactions : transactions[x].state = "absent" => transactions[x].reserved = None

\* What a step does to the books: nothing; give the reservations of S back;
\* reserve for a new transaction.
SameBooking(x) ==
  /\ transactions'[x].token = transactions[x].token
  /\ transactions'[x].amount = transactions[x].amount
  /\ transactions'[x].reserved = transactions[x].reserved
  /\ transactions'[x].state = "absent" => transactions[x].state = "absent"
KeepsBooks == UNCHANGED dailySpend /\ \A x \in Transactions : SameBooking(x)
GivesBack(S) ==
  /\ dailySpend' = releaseCapReservation(S)
  /\ \A x \in S : transactions'[x].reserved = None
  /\ \A x \in Transactions \ S : SameBooking(x)
Books(x, t, amount, now) ==
  /\ transactions[x].state = "absent" /\ transactions'[x].state # "absent"
  /\ transactions'[x].token = t /\ transactions'[x].amount = amount
  /\ \A y \in Transactions \ {x} : SameBooking(y)
  /\ \/ /\ transactions'[x].reserved = DayOf(now)
        /\ dailySpend' = [dailySpend EXCEPT ![<<t, DayOf(now)>>] = @ + amount]
     \/ transactions'[x].reserved = None /\ UNCHANGED dailySpend
  /\ challenges'[x].issuedAt \in {now, now + 1}

SpendKinds ==
  \/ KeepsBooks
  \/ \E S \in SUBSET Transactions : GivesBack(S)
  \/ \E x \in Transactions, t \in Tokens, amount \in Nat, now \in Time :
       Books(x, t, amount, now)

\* Every step of the engine is of one of these kinds.
LEMMA SpendSteps ==
  ASSUME TypeOK, [Next]_vars
  PROVE  SpendKinds
<1>0. /\ ChallengeIds = Tokens \cup Transactions /\ Tokens \cap Transactions = {}
  BY ConstantsAssumption
<1>1. ASSUME UNCHANGED <<transactions, dailySpend>>
      PROVE  SpendKinds
  BY <1>1 DEF SpendKinds, KeepsBooks, SameBooking
<1>2. CASE DeviceNext
  <2>1. ASSUME NEW d \in Devices, NEW s \in Subjects, NEW k \in KeyIds,
               NEW p \in PublicKeys, enrollTrustedDevice(d, s, k, p)
        PROVE  SpendKinds
    BY <1>1, <2>1 DEF enrollTrustedDevice
  <2>2. ASSUME NEW d \in Devices, NEW now \in Instants,
               invalidateOutstandingChallenges(d, now)
        PROVE  SpendKinds
    <3>1. PICK S \in SUBSET Transactions : S = InvalidatedAt(d) \cap Transactions
      OBVIOUS
    <3>2. /\ dailySpend' = releaseCapReservation(S)
          /\ \A x \in S : transactions'[x] = Released(x, "declined")
          /\ \A x \in Transactions \ S : transactions'[x] = transactions[x]
      BY <2>2, <3>1 DEF invalidateOutstandingChallenges
    <3>3. \A x \in S : transactions'[x].reserved = None
      BY <3>2 DEF Released, TypeOK, TransactionRecord
    <3>4. GivesBack(S)
      BY <3>2, <3>3 DEF GivesBack, SameBooking
    <3> QED BY <3>4 DEF SpendKinds
  <2> QED BY <1>2, <2>1, <2>2
          DEF DeviceNext, revokeTrustedDevice, markTrustedDeviceCompromised,
              retireTrustedDevice, rotateTrustedDeviceKey
<1>3. CASE ProvisioningNext
  BY <1>1, <1>3 DEF ProvisioningNext, requestProvisioning
<1>4. ASSUME NEW x \in Transactions, NEW state, state # "absent", UNCHANGED dailySpend,
             transactions' = [transactions EXCEPT ![x].state = state]
      PROVE  SpendKinds
  <2>1. \A y \in Transactions : SameBooking(y)
    BY <1>4 DEF SameBooking, TypeOK, TransactionRecord
  <2> QED BY <1>4, <2>1 DEF SpendKinds, KeepsBooks
<1>5. CASE ApprovalNext
  <2>1. ASSUME NEW a \in ChallengeIds, NEW now \in Instants, NEW c, NEW signer,
               NEW activation,
               \/ LateApproval(a, c, now) \/ SpentApproval(a, c, signer, now)
               \/ approveProvisioning(a, c, signer, now, activation)
        PROVE  SpendKinds
    BY <1>1, <2>1 DEF LateApproval, SpentApproval, approveProvisioning
  <2>2. ASSUME NEW a \in Transactions, NEW now \in Instants, NEW c, NEW signer,
               confirmTransaction(a, c, signer, now)
        PROVE  SpendKinds
    BY <1>4, <2>2 DEF confirmTransaction
  <2> QED BY <1>5, <2>1, <2>2 DEF ApprovalNext
<1>6. CASE TransactionNext
  <2>1. ASSUME NEW x \in Transactions, receiveClearing(x)
        PROVE  SpendKinds
    BY <1>4, <2>1 DEF receiveClearing
  <2>2. ASSUME NEW x \in Transactions, NEW now \in Instants, ExpireAfterDecision(x, now)
        PROVE  SpendKinds
    BY <1>1, <2>2 DEF ExpireAfterDecision
  <2>3. ASSUME NEW x \in Transactions, NEW now \in Instants, expireAndReverse(x, now)
        PROVE  SpendKinds
    <3>1. PICK S \in SUBSET Transactions : S = {x}
      OBVIOUS
    <3>2. /\ dailySpend' = releaseCapReservation(S)
          /\ transactions'[x] = Released(x, "reversed")
          /\ \A y \in Transactions \ S : transactions'[y] = transactions[y]
      BY <2>3, <3>1 DEF expireAndReverse, TypeOK
    <3>3. \A y \in S : transactions'[y].reserved = None
      <4>1. transactions'[x].reserved = None
        BY <3>2 DEF Released, TypeOK, TransactionRecord
      <4> QED BY <3>1, <4>1
    <3>4. GivesBack(S)
      BY <3>2, <3>3 DEF GivesBack, SameBooking
    <3> QED BY <3>4 DEF SpendKinds
  <2>4. ASSUME NEW x \in Transactions, NEW now \in Instants, NEW t \in Tokens,
               NEW d \in Devices, NEW amount \in Amounts,
               NEW issuedAt \in IssueInstants(now),
               authorize(x, t, d, amount, now, issuedAt)
        PROVE  SpendKinds
    <3>1. amount \in Nat /\ now \in Time
      BY InstantsAreTimes, ConstantsAssumption
    <3>2. /\ transactions[x].state = "absent"
          /\ transactions'[x] =
               [state |-> "confirmation_pending", token |-> t, amount |-> amount, device |-> d,
                reserved |-> IF tokens[t].state = "active_capped" THEN DayOf(now) ELSE None]
          /\ \A y \in Transactions \ {x} : transactions'[y] = transactions[y]
      BY <2>4 DEF authorize, TypeOK
    <3>3. dailySpend' = IF tokens[t].state = "active_capped"
                          THEN [dailySpend EXCEPT ![<<t, DayOf(now)>>] = @ + amount]
                          ELSE dailySpend
      BY <2>4 DEF authorize
    <3>4. x \in ChallengeIds
      BY <1>0
    <3>5. challenges'[x].issuedAt = issuedAt
      BY <2>4, <3>4 DEF authorize, Created, TypeOK
    <3>6. issuedAt \in {now, now + 1}
      BY DEF IssueInstants
    <3>7. Books(x, t, amount, now)
      BY <3>2, <3>3, <3>5, <3>6 DEF Books, SameBooking
    <3> QED BY <3>1, <3>7 DEF SpendKinds
  <2> QED BY <1>6, <2>1, <2>2, <2>3, <2>4 DEF TransactionNext
<1>7. CASE Tick \/ UNCHANGED vars
  BY <1>1, <1>7 DEF Tick, vars
<1> QED BY <1>2, <1>3, <1>5, <1>6, <1>7 DEF Next

\* A finite set of transactions has finitely many reservations, each with its
\* amount.
LEMMA BookedFacts ==
  ASSUME IsFiniteSet(Transactions), TypeOK, NEW S \in SUBSET Transactions, NEW t, NEW day
  PROVE  /\ IsFiniteSet(Booked(S, t, day)) /\ Booked(S, t, day) \in SUBSET Transactions
         /\ \A x \in Booked(S, t, day) :
              Amount[x] \in Nat /\ Amount[x] = transactions[x].amount
<1>1. Booked(S, t, day) \in SUBSET Transactions
  BY DEF Booked
<1>2. IsFiniteSet(Booked(S, t, day))
  BY <1>1, FS_Subset
<1>3. \A x \in Transactions : Amount[x] = transactions[x].amount /\ transactions[x].amount \in Nat
  BY DEF Amount, TypeOK, TransactionRecord
<1> QED BY <1>1, <1>2, <1>3

\* ReservedAmount is that sum.
LEMMA ReservedIsTotal ==
  ASSUME IsFiniteSet(Transactions), TypeOK, NEW S \in SUBSET Transactions, NEW t, NEW day
  PROVE  ReservedAmount(S, t, day) = Total(Amount, Booked(S, t, day))
<1> DEFINE B == Booked(S, t, day)
           first(s) == CHOOSE x \in s : TRUE
           sums(g) == [s \in SUBSET B |-> IF s = {} THEN 0
                         ELSE transactions[first(s)].amount + g[s \ {first(s)}]]
           g0 == CHOOSE g : g = sums(g)
           units == [s \in SUBSET B |-> Cardinality(Units(Amount, s))]
<1>1. IsFiniteSet(B) /\ \A x \in B : Amount[x] \in Nat
                                     /\ Amount[x] = transactions[x].amount
  BY BookedFacts
<1>2. \A s \in SUBSET B : s # {} => first(s) \in B
  OBVIOUS
<1>3. ReservedAmount(S, t, day) = g0[B]
  BY DEF ReservedAmount, Booked, MapThenSumSet, MapThenFoldSet
<1> HIDE DEF B, first
<1>4. ASSUME NEW g PROVE IsSum(g, Amount, B) <=> g = sums(g)
  <2>1. sums(g) = [s \in SUBSET B |-> IF s = {} THEN 0
                     ELSE Amount[first(s)] + g[s \ {first(s)}]]
    BY <1>1, <1>2
  <2> QED BY <2>1 DEF IsSum, first
<1>5. units = sums(units)
  BY <1>1, <1>4, UnitsAreSum
<1>6. g0 = sums(g0)
  BY <1>5
<1> HIDE DEF g0, sums
<1>7. g0[B] = Cardinality(Units(Amount, B))
  BY <1>1, <1>4, <1>6, SumIsUnits
<1>8. Total(Amount, B) = Cardinality(Units(Amount, B))
  BY <1>1, TotalCounts
<1> QED BY <1>3, <1>7, <1>8 DEF B

\* Steps that keep the books.
LEMMA BooksKept ==
  ASSUME IsFiniteSet(Transactions), TypeOK, AddsUp, KeepsBooks
  PROVE  AddsUp'
<1>1. ASSUME NEW t \in Tokens, NEW day \in Day
      PROVE  dailySpend'[<<t, day>>] = Total(Amount', Booked(Transactions, t, day)')
  <2>1. PICK B : B = Booked(Transactions, t, day)
    OBVIOUS
  <2>2. Booked(Transactions, t, day)' = B
    BY <2>1 DEF KeepsBooks, SameBooking, Booked
  <2>3. IsFiniteSet(B) /\ \A x \in B : Amount[x] \in Nat
    BY <2>1, BookedFacts
  <2>4. \A x \in B : Amount'[x] = Amount[x]
    BY <2>1 DEF KeepsBooks, SameBooking, Booked, Amount
  <2>5. Total(Amount, B) = Total(Amount', B)
    BY <2>3, <2>4, TotalDependsOn
  <2>6. dailySpend'[<<t, day>>] = Total(Amount, B)
    BY <2>1 DEF AddsUp, KeepsBooks
  <2> QED BY <2>2, <2>5, <2>6, Zenon
<1>2. \A x \in Transactions : transactions'[x].state = "absent" => transactions'[x].reserved = None
  BY DEF AddsUp, KeepsBooks, SameBooking
<1> QED BY <1>1, <1>2 DEF AddsUp

\* Reservations that are given back leave the spend with the rest.
LEMMA BooksGivenBack ==
  ASSUME IsFiniteSet(Transactions), TypeOK, TypeOK', AddsUp,
         NEW S \in SUBSET Transactions, GivesBack(S)
  PROVE  AddsUp'
<1>0. None \notin Day
  BY ConstantsAssumption DEF Day
<1>1. ASSUME NEW t \in Tokens, NEW day \in Day
      PROVE  dailySpend'[<<t, day>>] = Total(Amount', Booked(Transactions, t, day)')
  <2>1. PICK B : B = Booked(Transactions, t, day)
    OBVIOUS
  <2>2. PICK R : R = Booked(S, t, day)
    OBVIOUS
  <2>3. PICK T : T = B \ R
    OBVIOUS
  <2>4. IsFiniteSet(B) /\ R \in SUBSET B /\ \A x \in B : Amount[x] \in Nat
    <3>1. IsFiniteSet(B) /\ \A x \in B : Amount[x] \in Nat
      BY <2>1, BookedFacts
    <3>2. R \in SUBSET B
      BY <2>1, <2>2 DEF Booked
    <3> QED BY <3>1, <3>2
  <2>5. Booked(Transactions, t, day)' = T
    <3>1. ASSUME NEW x \in Transactions
          PROVE  x \in Booked(Transactions, t, day)' <=> x \in T
      <4>1. CASE x \in S
        BY <1>0, <2>1, <2>2, <2>3, <4>1 DEF GivesBack, Booked
      <4>2. CASE x \notin S
        BY <2>1, <2>2, <2>3, <4>2 DEF GivesBack, SameBooking, Booked
      <4> QED BY <4>1, <4>2
    <3>2. Booked(Transactions, t, day)' \subseteq Transactions /\ T \subseteq Transactions
      BY <2>1, <2>3 DEF Booked
    <3> QED BY <3>1, <3>2
  <2>6. \A x \in T : Amount'[x] = Amount[x] /\ Amount[x] \in Nat
    <3>1. ASSUME NEW x \in T
          PROVE  x \in Transactions \ S
      BY <2>1, <2>2, <2>3 DEF Booked
    <3> QED BY <2>3, <2>4, <3>1 DEF GivesBack, SameBooking, Amount
  <2>7. IsFiniteSet(T)
    BY <2>3, <2>4, FS_Subset
  <2>8. Total(Amount, T) = Total(Amount', T)
    BY <2>6, <2>7, TotalDependsOn
  <2>9. /\ Total(Amount, B) = Total(Amount, R) + Total(Amount, T)
        /\ Total(Amount, R) \in Nat /\ Total(Amount, T) \in Nat
    <3>1. Splits(B, R, T)
      BY <2>3, <2>4 DEF Splits
    <3> QED BY <2>4, <3>1, TotalSplits
  <2>10. dailySpend[<<t, day>>] = Total(Amount, B)
    BY <2>1 DEF AddsUp
  <2>11. ReservedAmount(S, t, day) = Total(Amount, R)
    BY <2>2, ReservedIsTotal
  <2>12. dailySpend'[<<t, day>>] = Less(dailySpend[<<t, day>>], ReservedAmount(S, t, day))
    BY DEF GivesBack, releaseCapReservation
  <2>13. dailySpend'[<<t, day>>] = Less(Total(Amount, R) + Total(Amount, T), Total(Amount, R))
    BY <2>9, <2>10, <2>11, <2>12, Zenon
  <2>14. \A m, n \in Nat : Less(m + n, m) = n
    BY DEF Less
  <2>15. dailySpend'[<<t, day>>] = Total(Amount, T)
    BY <2>9, <2>13, <2>14
  <2> QED BY <2>5, <2>8, <2>15, Zenon
<1>2. \A x \in Transactions : transactions'[x].state = "absent" => transactions'[x].reserved = None
  BY DEF AddsUp, GivesBack, SameBooking
<1> QED BY <1>1, <1>2 DEF AddsUp

\* A new reservation raises the spend of its key by its amount.
LEMMA BooksEntered ==
  ASSUME IsFiniteSet(Transactions), TypeOK, AddsUp,
         NEW x \in Transactions, NEW u \in Tokens, NEW amount \in Nat, NEW now \in Time,
         Books(x, u, amount, now)
  PROVE  AddsUp'
<1>0. None \notin Day /\ DayOf(now) \in Day
  BY DayOfTime, ConstantsAssumption DEF Day
<1>1. transactions[x].reserved = None
  BY DEF Books, AddsUp
<1>2. ASSUME NEW t \in Tokens, NEW day \in Day
      PROVE  dailySpend'[<<t, day>>] = Total(Amount', Booked(Transactions, t, day)')
  <2>1. PICK B : B = Booked(Transactions, t, day)
    OBVIOUS
  <2>2. IsFiniteSet(B) /\ \A y \in B : Amount[y] \in Nat
    BY <2>1, BookedFacts
  <2>3. x \notin B
    BY <1>0, <1>1, <2>1 DEF Booked
  <2>4. \A y \in B : Amount'[y] = Amount[y]
    BY <2>1, <2>3 DEF Books, SameBooking, Booked, Amount
  <2>5. \A y \in Transactions \ {x} : y \in Booked(Transactions, t, day)' <=> y \in B
    BY <2>1 DEF Books, SameBooking, Booked
  <2>6. dailySpend[<<t, day>>] = Total(Amount, B)
    BY <2>1 DEF AddsUp
  <2>7. CASE t = u /\ day = transactions'[x].reserved
    <3>1. /\ day = DayOf(now)
          /\ dailySpend' = [dailySpend EXCEPT ![<<t, day>>] = @ + amount]
      BY <1>0, <2>7 DEF Books
    <3>2. dailySpend'[<<t, day>>] = dailySpend[<<t, day>>] + amount
      BY <3>1 DEF TypeOK
    <3>3. PICK T : T = B \cup {x}
      OBVIOUS
    <3>4. Booked(Transactions, t, day)' = T
      <4>1. x \in Booked(Transactions, t, day)'
        BY <2>7 DEF Books, Booked
      <4>2. Booked(Transactions, t, day)' \subseteq Transactions /\ B \subseteq Transactions
        BY <2>1 DEF Booked
      <4> QED BY <2>5, <3>3, <4>1, <4>2
    <3>5. Amount'[x] = amount
      BY DEF Books, Amount
    <3>6. Total(Amount', T) = Total(Amount, B) + Amount'[x]
      BY <2>2, <2>3, <2>4, <3>3, <3>5, TotalEnters
    <3> QED BY <2>6, <3>2, <3>4, <3>5, <3>6, Zenon
  <2>8. CASE ~(t = u /\ day = transactions'[x].reserved)
    <3>1. dailySpend'[<<t, day>>] = dailySpend[<<t, day>>]
      BY <2>8 DEF Books, TypeOK
    <3>2. Booked(Transactions, t, day)' = B
      <4>1. x \notin Booked(Transactions, t, day)'
        BY <2>8 DEF Books, Booked
      <4>2. Booked(Transactions, t, day)' \subseteq Transactions /\ B \subseteq Transactions
        BY <2>1 DEF Booked
      <4> QED BY <2>3, <2>5, <4>1, <4>2
    <3>3. Total(Amount, B) = Total(Amount', B)
      BY <2>2, <2>4, TotalDependsOn
    <3> QED BY <2>6, <3>1, <3>2, <3>3, Zenon
  <2> QED BY <2>7, <2>8
<1>3. \A y \in Transactions : transactions'[y].state = "absent" => transactions'[y].reserved = None
  BY DEF AddsUp, Books, SameBooking
<1> QED BY <1>2, <1>3 DEF AddsUp

\* Every step keeps the books.
LEMMA BooksStep ==
  ASSUME IsFiniteSet(Transactions), TypeOK, TypeOK', AddsUp, SpendKinds
  PROVE  AddsUp'
BY BooksKept, BooksGivenBack, BooksEntered DEF SpendKinds

\* A challenge keeps its time of issue for as long as its aggregate exists.
LEMMA IssueTimeStays ==
  ASSUME TypeOK, Kinds, NEW x \in ChallengeIds, Phase(x) # "absent"
  PROVE  challenges'[x].issuedAt = challenges[x].issuedAt
<1>0. ASSUME NEW c \in ChallengeIds, NEW now \in Instants
      PROVE  /\ Expired(challenges[c]).issuedAt = challenges[c].issuedAt
             /\ Confirmed(challenges[c], now).issuedAt = challenges[c].issuedAt
             /\ Cancelled(challenges[c], now).issuedAt = challenges[c].issuedAt
  <2>1. challenges[c] \in ChallengeRecord /\ now \in Nat
    BY InstantsAreTimes DEF TypeOK
  <2> QED BY <2>1, RecordFacts
<1>1. ASSUME NEW c \in ChallengeIds, NEW r, Becomes(c, r),
             c = x => r.issuedAt = challenges[c].issuedAt
      PROVE  challenges'[x].issuedAt = challenges[x].issuedAt
  BY <1>1, BecomesFacts
<1>2. CASE UNCHANGED challenges
  BY <1>2
<1>3. ASSUME NEW d \in Devices, NEW now \in Instants, Invalidates(d, now)
      PROVE  challenges'[x].issuedAt = challenges[x].issuedAt
  <2>1. challenges'[x] = Cancelled(challenges[x], now) \/ challenges'[x] = challenges[x]
    BY <1>3 DEF Invalidates
  <2> QED BY <1>0, <2>1
<1>4. ASSUME NEW n \in ChallengeIds, NEW d \in Devices, NEW issuedAt \in Time,
             NEW ttl \in Nat, Starts(n, d, issuedAt, ttl)
      PROVE  challenges'[x].issuedAt = challenges[x].issuedAt
  BY <1>1, <1>4 DEF Starts
<1>5. ASSUME NEW a \in ChallengeIds, NEW now \in Instants, NEW c \in ChallengeIds,
             Accepts(a, c, now) \/ Spends(a, c, now) \/ Overruns(c)
      PROVE  challenges'[x].issuedAt = challenges[x].issuedAt
  <2>1. c \in ChallengeIds
    OBVIOUS
  <2>2. Becomes(c, Confirmed(challenges[c], now)) \/ Becomes(c, Expired(challenges[c]))
    BY <1>5 DEF Accepts, Spends, Overruns
  <2> QED BY <1>0, <1>1, <2>1, <2>2
<1>6. ASSUME NEW y \in Transactions, NEW now \in Instants, Withdraws(y, now) \/ Reverses(y, now)
      PROVE  challenges'[x].issuedAt = challenges[x].issuedAt
  <2>1. y \in ChallengeIds /\ Becomes(y, Cancelled(challenges[y], now))
    BY <1>6, ConstantsAssumption DEF Withdraws, Reverses
  <2> QED BY <1>0, <1>1, <2>1
<1> QED BY <1>2, <1>3, <1>4, <1>5, <1>6 DEF Kinds, Waits, Enrols, Clears

\* Every reservation is booked on the day its challenge was issued, or on that
\* of the instant before.
BookedNearIssue ==
  \A x \in Transactions :
    transactions[x].reserved # None =>
      transactions[x].reserved \in
        {DayOf(challenges[x].issuedAt), DayOf(Less(challenges[x].issuedAt, 1))}

\* A reservation that stays is of a transaction that exists, whose challenge keeps
\* its time of issue; a new one is of the first of authorize's two readings, the
\* challenge of the second.
LEMMA IssueDayStep ==
  ASSUME TypeOK, AddsUp, BookedNearIssue, Kinds, SpendKinds
  PROVE  BookedNearIssue'
<1> DEFINE Near(x) == transactions'[x].reserved \in
                        {DayOf(challenges'[x].issuedAt),
                         DayOf(Less(challenges'[x].issuedAt, 1))}
<1> SUFFICES ASSUME NEW x \in Transactions, transactions'[x].reserved # None
             PROVE  Near(x)
  BY DEF BookedNearIssue
<1>1. ASSUME transactions'[x].reserved = transactions[x].reserved
      PROVE  Near(x)
  <2>1. transactions[x].state # "absent"
    BY <1>1 DEF AddsUp
  <2>2. x \in ChallengeIds /\ Phase(x) # "absent"
    BY <2>1, ConstantsAssumption DEF Phase
  <2>3. challenges'[x].issuedAt = challenges[x].issuedAt
    BY <2>2, IssueTimeStays
  <2> QED BY <1>1, <2>3 DEF BookedNearIssue
<1>2. ASSUME NEW y \in Transactions, NEW t \in Tokens, NEW amount \in Nat, NEW now \in Time,
             Books(y, t, amount, now)
      PROVE  Near(x)
  <2>1. CASE x # y
    <3>1. SameBooking(x)
      BY <1>2, <2>1 DEF Books
    <3> QED BY <1>1, <3>1 DEF SameBooking
  <2>2. CASE x = y
    <3>1. /\ transactions'[x].reserved = DayOf(now)
          /\ challenges'[x].issuedAt \in {now, now + 1}
      BY <1>2, <2>2 DEF Books
    <3>2. now \in Nat
      BY DEF Time
    <3>3. Less(now + 1, 1) = now
      BY <3>2 DEF Less
    <3> QED BY <3>1, <3>3
  <2> QED BY <2>1, <2>2
<1>3. ASSUME NEW S \in SUBSET Transactions, GivesBack(S)
      PROVE  Near(x)
  <2>1. SameBooking(x)
    BY <1>3 DEF GivesBack
  <2> QED BY <1>1, <2>1 DEF SameBooking
<1>4. CASE KeepsBooks
  <2>1. SameBooking(x)
    BY <1>4 DEF KeepsBooks
  <2> QED BY <1>1, <2>1 DEF SameBooking
<1> QED BY <1>2, <1>3, <1>4 DEF SpendKinds

\* The initial books are empty.
LEMMA BooksInit ==
  ASSUME Init
  PROVE  AddsUp /\ BookedNearIssue
<1>0. None \notin Day
  BY ConstantsAssumption DEF Day
<1>1. ASSUME NEW t \in Tokens, NEW day \in Day
      PROVE  dailySpend[<<t, day>>] = Total(Amount, Booked(Transactions, t, day))
  <2>1. Booked(Transactions, t, day) = {}
    BY <1>0 DEF Init, Booked
  <2>2. Total(Amount, {}) = 0
    BY TotalEmpty
  <2>3. dailySpend[<<t, day>>] = 0
    BY DEF Init
  <2> QED BY <2>1, <2>2, <2>3, Zenon
<1>2. \A x \in Transactions : transactions[x].reserved = None
  BY DEF Init
<1> QED BY <1>1, <1>2 DEF AddsUp, BookedNearIssue

\* For any finite set of transactions, and whatever instants the steps see, the
\* daily spend of a token is the sum of the reservations its transactions hold:
\* reversals, declines and repeated calls neither lose nor free an amount twice.
THEOREM SpendAddsUp ==
  ASSUME IsFiniteSet(Transactions)
  PROVE  Spec => [](\A t \in Tokens, day \in Day :
                      dailySpend[<<t, day>>] = ReservedAmount(Transactions, t, day))
<1>1. Init => AddsUp
  BY BooksInit
<1>2. TypeOK /\ TypeOK' /\ AddsUp /\ [Next]_vars => AddsUp'
  BY SpendSteps, BooksStep
<1>3. TypeOK /\ AddsUp => \A t \in Tokens, day \in Day :
        dailySpend[<<t, day>>] = ReservedAmount(Transactions, t, day)
  BY ReservedIsTotal DEF AddsUp
<1> QED BY <1>1, <1>2, <1>3, TypeCorrect, PTL DEF Spec

\* For any finite set of transactions, and whether callers pass the instant of a
\* call or authorize reads the clock twice: the reservations add up to the spend,
\* spend belongs to capped tokens, and no reservation is further from the day that
\* AirlockEngine.restore compares it with than the two readings are apart.
THEOREM SpendRestoresButMidnight ==
  ASSUME IsFiniteSet(Transactions)
  PROVE  Spec => []RestoreSpend
<1>1. Init => AddsUp /\ BookedNearIssue /\ CapInv
  BY BooksInit DEF Init, CapInv, SpendOnlyCapped, SpendWithinCap
<1>2. TypeOK /\ TypeOK' /\ AggregatesLinked /\ AddsUp /\ BookedNearIssue /\ CapInv
        /\ [Next]_vars => AddsUp' /\ BookedNearIssue' /\ CapInv'
  BY SpendSteps, BooksStep, EngineKinds, IssueDayStep, CapStep
<1>3. TypeOK /\ AddsUp /\ BookedNearIssue /\ CapInv => RestoreSpend
  <2> SUFFICES ASSUME TypeOK, AddsUp, BookedNearIssue, CapInv
               PROVE  RestoreSpend
    OBVIOUS
  <2>1. \A t \in Tokens, day \in Day :
          dailySpend[<<t, day>>] = ReservedAmount(Transactions, t, day)
    BY ReservedIsTotal DEF AddsUp
  <2>2. \A t \in Tokens, day \in Day :
          dailySpend[<<t, day>>] > 0 => tokens[t].state = "active_capped"
    BY DEF CapInv, SpendOnlyCapped
  <2> QED BY <2>1, <2>2 DEF BookedNearIssue, RestoreSpend
<1> QED BY <1>1, <1>2, <1>3, TypeCorrect, AggregatesStayLinked, PTL DEF Spec

=============================================================================
