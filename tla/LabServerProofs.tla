---------------------------- MODULE LabServerProofs ----------------------------
(***************************************************************************)
(* For any number of processes and idempotency keys, any faults and any    *)
(* lab states an earlier run left: an answer given stands, no committed    *)
(* request is lost, a key takes effect once and a restart finds a state it *)
(* accepts, unless a signature was reused late.  The argument is the       *)
(* version check of compareAndSwap: a process that still has the version   *)
(* of the row has the state of the row, or one request more (Fits), so     *)
(* that what it swaps in builds on it.                                     *)
(***************************************************************************)
EXTENDS LabServer, SumFacts, TLAPS

Row == [version : Nat, schema : {1, 2}, value : LabState]
Answer == [request : Routes, response : Response]

\* What a process may rely on.  It holds a lab state unless it is down:
Holds(s) ==
  /\ s.phase # "down" => s.state \in LabState
  /\ s.phase = "creating" => s.state = Fresh /\ s.persistedVersion = 0

\* it has seen a row, which is no older than what it remembers of it;
Seen(s) ==
  s.phase \in {"migrating", "idle", "commit", "replayed", "failed"} =>
    row # NoRow /\ s.persistedVersion <= row.version

\* at the row's version it holds the row's state;
Agrees(s) ==
  s.phase \in {"migrating", "idle"} /\ s.persistedVersion = row.version =>
    Restored(s.state) = Restored(row.value)

\* and at finalize the row's requests and its own;
BuildsOn(s) ==
  s.phase = "commit" =>
    /\ s.response \in Response
    /\ s.persistedVersion = row.version =>
         s.state.history = Append(row.value.history, s.key)

\* until it is idle again it knows its request, and what it would go back to
\* has the row's requests;
GoesBack(s) ==
  s.phase \in {"commit", "replayed", "failed"} =>
    /\ s.key \in Keys /\ s.route \in Routes
    /\ s.rollback # None /\ s.persistedVersion = row.version =>
         s.rollback.history = row.value.history

\* what it is about to send again is recorded.
Repeats(s) ==
  s.phase = "replayed" =>
    s.key \in Keys /\ records[s.key] # None /\ records[s.key].response = s.response

\* All of it.
Fits(s) ==
  Holds(s) /\ Seen(s) /\ Agrees(s) /\ BuildsOn(s) /\ GoesBack(s) /\ Repeats(s)

\* Nothing is recorded before there is a row.
RecordsNeedRow == row = NoRow => \A k \in Keys : records[k] = None

\* The inductive invariant.
Inv ==
  /\ TypeOK
  /\ \A p \in Processes : Fits(server[p])
  /\ AnswersStand
  /\ RecordsNeedRow

-----------------------------------------------------------------------------
(* The routes *)

\* A fresh lab is a lab state.
LEMMA FreshIsLab == Fresh \in LabState /\ Fresh.history = <<>>
BY DEF Fresh, LabState, ProvisioningState, TransactionState, ChallengeStatus

\* A restore gives a lab state with the same requests, and does nothing more
\* when it is repeated.
LEMMA RestoreFacts ==
  ASSUME NEW lab \in LabState
  PROVE  /\ Restored(lab) \in LabState
         /\ Restored(lab).history = lab.history
         /\ Restored(Restored(lab)) = Restored(lab)
<1>1. Restored(lab) \in LabState /\ Restored(lab).history = lab.history
  BY DEF Restored, LabState, ProvisioningState, TransactionState
<1>2. Restored(Restored(lab)) = Restored(lab)
  BY DEF Restored, LabState
<1>3. QED BY <1>1, <1>2

\* A revocation leaves a lab state, in which what was pending is declined and
\* its challenge cancelled.
LEMMA RevokedFacts ==
  ASSUME NEW lab \in LabState, NEW r, r = Revoked(lab)
  PROVE  /\ r \in LabState
         /\ r.provisioning = IF lab.provisioning = "trusted_device_challenge"
                             THEN "declined" ELSE lab.provisioning
         /\ r.provisioningChallenge = IF lab.provisioningChallenge = "created"
                                      THEN "cancelled" ELSE lab.provisioningChallenge
         /\ r.transaction = IF lab.transaction = "confirmation_pending"
                            THEN "declined" ELSE lab.transaction
         /\ r.transactionChallenge = IF lab.transactionChallenge = "created"
                                     THEN "cancelled" ELSE lab.transactionChallenge
         /\ r.transactionView = lab.transactionView
         /\ r.history = lab.history
<1> DEFINE
      cancelled(status) == IF status = "created" THEN "cancelled" ELSE status
      pc == cancelled(lab.provisioningChallenge)
      tc == cancelled(lab.transactionChallenge)
      ps == IF lab.provisioning = "trusted_device_challenge" THEN "declined"
            ELSE lab.provisioning
      ts == IF lab.transaction = "confirmation_pending" THEN "declined"
            ELSE lab.transaction
<1>1. r = [lab EXCEPT !.device = "revoked", !.provisioning = ps,
                       !.provisioningChallenge = pc, !.transaction = ts,
                       !.transactionChallenge = tc]
  BY DEF Revoked
<1>2. /\ ps \in ProvisioningState /\ pc \in ChallengeStatus
      /\ ts \in TransactionState /\ tc \in ChallengeStatus
  BY DEF LabState, ProvisioningState, TransactionState, ChallengeStatus
<1> HIDE DEF ps, pc, ts, tc
<1>3. /\ r \in LabState /\ r.provisioning = ps /\ r.provisioningChallenge = pc
      /\ r.transaction = ts /\ r.transactionChallenge = tc
      /\ r.transactionView = lab.transactionView /\ r.history = lab.history
  BY <1>1, <1>2 DEF LabState
<1>4. QED BY <1>3 DEF ps, pc, ts, tc

\* A handler leaves a lab state.
LEMMA EffectIsLab ==
  ASSUME NEW lab \in LabState, NEW route \in Routes, NEW late \in BOOLEAN
  PROVE  Effect(lab, route, late) \in LabState
<1> USE DEF LabState, ProvisioningState, TransactionState, ChallengeStatus
<1>1. CASE route = "reset"
  BY <1>1 DEF Effect, Fresh
<1>2. CASE route = "provisionRequest"
  BY <1>2 DEF Effect
<1>3. CASE route = "provisionApprove"
  BY <1>3 DEF Effect
<1>4. CASE route = "deviceRevoke"
  BY <1>4, RevokedFacts DEF Effect
<1>5. CASE route = "transactionRequest"
  BY <1>5 DEF Effect
<1>6. CASE route = "transactionConfirm"
  BY <1>6 DEF Effect, Confirmed
<1>7. CASE route = "transactionExpire"
  BY <1>7 DEF Effect, Reversed
<1>8. CASE route = "transactionClear"
  BY <1>8 DEF Effect
<1>9. CASE route = "expired-challenge"
  BY <1>9 DEF Effect, Reversed
<1>10. CASE route = "reused-signature"
  BY <1>10 DEF Effect, Confirmed, FoundLate
<1>11. CASE route \in {"provisionAttack", "auditTamper", "altered-binding"}
  BY <1>11 DEF Effect
<1>12. QED BY <1>1, <1>2, <1>3, <1>4, <1>5, <1>6, <1>7, <1>8, <1>9, <1>10, <1>11
         DEF Routes, Demonstrations

\* It leaves the requests behind it alone, a reset too.
LEMMA EffectKeepsHistory ==
  ASSUME NEW lab \in LabState, NEW route \in Routes, NEW late \in BOOLEAN
  PROVE  Effect(lab, route, late).history = lab.history
<1>1. CASE route = "reset"
  BY <1>1 DEF Effect, Fresh
<1>2. CASE route \in {"provisionRequest", "provisionApprove", "transactionRequest"}
  BY <1>2 DEF Effect, LabState
<1>3. CASE route = "deviceRevoke"
  BY <1>3, RevokedFacts DEF Effect
<1>4. CASE route \in {"transactionConfirm", "transactionExpire"}
  BY <1>4 DEF Effect, Confirmed, Reversed, LabState
<1>5. CASE route = "transactionClear"
  BY <1>5 DEF Effect, LabState
<1>6. CASE route = "expired-challenge"
  BY <1>6 DEF Effect, Reversed, LabState
<1>7. CASE route = "reused-signature"
  BY <1>7 DEF Effect, Confirmed, FoundLate, LabState
<1>8. CASE route \in {"provisionAttack", "auditTamper", "altered-binding"}
  BY <1>8 DEF Effect
<1>9. QED BY <1>1, <1>2, <1>3, <1>4, <1>5, <1>6, <1>7, <1>8
        DEF Routes, Demonstrations
-----------------------------------------------------------------------------
(* Steps *)

\* The row and the records, where they are there.
LEMMA StoreFacts ==
  ASSUME TypeOK
  PROVE  /\ row # NoRow => row \in Row /\ row.version \in Nat /\ row.value \in LabState
         /\ \A k \in Keys : records[k] # None =>
              records[k] \in Answer /\ records[k].response \in Response
         /\ \A p \in Processes : server[p] \in Process /\ server[p].persistedVersion \in Nat
<1>1. row # NoRow => row \in Row
  BY DEF TypeOK, Row
<1>2. \A k \in Keys : records[k] # None => records[k] \in Answer
  BY DEF TypeOK, Answer
<1>3. QED BY <1>1, <1>2 DEF Row, Answer, TypeOK, Process

\* A process that does not move goes on to fit when the row stays, is created or
\* gets its next version, and records stay.
LEMMA StillFits ==
  ASSUME TypeOK, NEW o \in Processes, Fits(server[o]), server'[o] = server[o],
         \/ row' = row
         \/ row = NoRow /\ row' # NoRow
         \/ row # NoRow /\ row' # NoRow /\ row'.version = row.version + 1,
         \A k \in Keys : records[k] # None => records'[k] = records[k]
  PROVE  Fits(server[o])'
<1>1. /\ server[o].persistedVersion \in Nat
      /\ row # NoRow => row.version \in Nat
  BY StoreFacts
<1>2. Holds(server[o])'
  BY DEF Fits, Holds
<1>3. Repeats(server[o])'
  BY DEF Fits, Repeats
<1>4. CASE row' = row
  BY <1>2, <1>3, <1>4 DEF Fits, Seen, Agrees, BuildsOn, GoesBack
<1>5. CASE row = NoRow /\ row' # NoRow
  <2>1. server[o].phase \notin {"migrating", "idle", "commit", "replayed", "failed"}
    BY <1>5 DEF Fits, Seen
  <2>2. QED BY <1>2, <1>3, <2>1 DEF Fits, Seen, Agrees, BuildsOn, GoesBack
<1>6. CASE row # NoRow /\ row' # NoRow /\ row'.version = row.version + 1
  <2>1. Seen(server[o])'
    BY <1>1, <1>6 DEF Fits, Seen
  <2>2. Agrees(server[o])' /\ BuildsOn(server[o])' /\ GoesBack(server[o])'
    BY <1>1, <1>6 DEF Fits, Seen, Agrees, BuildsOn, GoesBack
  <2>3. QED BY <1>2, <1>3, <2>1, <2>2 DEF Fits
<1>7. QED BY <1>4, <1>5, <1>6

\* A process fits, and goes on to fit, when it is down.
LEMMA DownFits == Down \in Process /\ Fits(Down)
BY DEF Down, Process, Fits, Holds, Seen, Agrees, BuildsOn, GoesBack, Repeats

\* A step of one process that leaves the store alone.
LEMMA Moves ==
  ASSUME Inv, NEW p \in Processes, NEW s \in Process, Fits(s),
         server' = [server EXCEPT ![p] = s], UNCHANGED <<row, records>>,
         told' \in [Keys -> SUBSET Response], AnswersStand',
         faults' \in 0 .. MaxFaults
  PROVE  Inv'
<1>1. TypeOK'
  BY DEF Inv, TypeOK, NoRow
<1>2. RecordsNeedRow'
  BY DEF Inv, RecordsNeedRow, NoRow
<1>3. ASSUME NEW o \in Processes PROVE Fits(server[o])'
  <2>1. CASE o = p
    <3>1. server'[o] = s
      BY <2>1 DEF Inv, TypeOK
    <3>2. Holds(server[o])' /\ Seen(server[o])' /\ Agrees(server[o])'
      BY <3>1 DEF Fits, Holds, Seen, Agrees
    <3>3. BuildsOn(server[o])' /\ GoesBack(server[o])' /\ Repeats(server[o])'
      BY <3>1 DEF Fits, BuildsOn, GoesBack, Repeats
    <3>4. QED BY <3>2, <3>3 DEF Fits
  <2>2. CASE o # p
    <3>1. server'[o] = server[o] /\ Fits(server[o])
      BY <2>2 DEF Inv, TypeOK
    <3>2. QED BY <3>1, StillFits DEF Inv
  <2>3. QED BY <2>1, <2>2
<1>4. QED BY <1>1, <1>2, <1>3 DEF Inv

\* The same when the client is not answered, and when it is sent what is recorded.
LEMMA MovesUnanswered ==
  ASSUME Inv, NEW p \in Processes, NEW s \in Process, Fits(s),
         server' = [server EXCEPT ![p] = s], UNCHANGED <<row, records, told, faults>>
  PROVE  Inv'
BY Moves DEF Inv, TypeOK, AnswersStand

\* Telling a client the recorded response keeps AnswersStand.
LEMMA AnswerSent ==
  ASSUME Inv, NEW k \in Keys, records[k] # None, UNCHANGED records,
         told' = [told EXCEPT ![k] = told[k] \cup {records[k].response}]
  PROVE  told' \in [Keys -> SUBSET Response] /\ AnswersStand'
<1>1. records[k].response \in Response
  BY StoreFacts DEF Inv
<1>2. told' \in [Keys -> SUBSET Response]
  BY <1>1 DEF Inv, TypeOK
<1>3. ASSUME NEW j \in Keys, NEW r \in told'[j]
      PROVE  records[j] # None /\ records[j].response = r
  BY <1>3 DEF Inv, TypeOK, AnswersStand
<1>4. QED BY <1>2, <1>3 DEF AnswersStand
-----------------------------------------------------------------------------
(* The actions *)

\* What a step does to the store: no request is committed, or one is.
Calm ==
  /\ UNCHANGED records
  /\ \/ UNCHANGED row
     \/ row = NoRow /\ row' # NoRow /\ row'.value.history = <<>>
     \/ row # NoRow /\ row' # NoRow /\ row'.value.history = row.value.history
Committed(k) ==
  /\ records[k] = None
  /\ \E r \in Answer : records' = [records EXCEPT ![k] = r]
  /\ row # NoRow /\ row' # NoRow
  /\ row'.value.history = Append(row.value.history, k)

\* A process that goes idle with the state of the row.
LEMMA IdleWithRow ==
  ASSUME Inv, row # NoRow, NEW phase \in {"idle", "migrating"}, NEW s,
         s = [Idle(Restored(row.value), row.version) EXCEPT !.phase = phase]
  PROVE  s \in Process /\ Fits(s)
<1>1. row \in Row /\ row.version \in Nat /\ row.value \in LabState
  BY StoreFacts DEF Inv
<1>2. /\ Restored(row.value) \in LabState
      /\ Restored(Restored(row.value)) = Restored(row.value)
  BY <1>1, RestoreFacts
<1>3. /\ s.phase = phase /\ s.state = Restored(row.value)
      /\ s.persistedVersion = row.version
      /\ s.key = None /\ s.route = None /\ s.response = None
      /\ s \in Process
  BY <1>1, <1>2 DEF Idle, Down, Process
<1>4. Holds(s) /\ Seen(s)
  BY <1>1, <1>2, <1>3 DEF Holds, Seen
<1>5. Agrees(s) /\ BuildsOn(s) /\ GoesBack(s) /\ Repeats(s)
  BY <1>2, <1>3 DEF Agrees, BuildsOn, GoesBack, Repeats
<1>6. QED BY <1>3, <1>4, <1>5 DEF Fits

\* createLabServer reads the row.
LEMMA StartKeeps ==
  ASSUME Inv, NEW p \in Processes, Start(p)
  PROVE  Inv' /\ Calm
<1>1. UNCHANGED <<row, records, told, faults>>
  BY DEF Start
<1>2. CASE row = NoRow
  <2> DEFINE s == [Idle(Fresh, 0) EXCEPT !.phase = "creating"]
  <2>1. server' = [server EXCEPT ![p] = s]
    BY <1>2 DEF Start
  <2>2. /\ s \in Process /\ s.phase = "creating" /\ s.state = Fresh
        /\ s.persistedVersion = 0
    BY FreshIsLab DEF Idle, Down, Process
  <2> HIDE DEF s
  <2>3. Fits(s)
    BY <2>2, FreshIsLab DEF Fits, Holds, Seen, Agrees, BuildsOn, GoesBack, Repeats
  <2>4. QED BY <1>1, <2>1, <2>2, <2>3, MovesUnanswered DEF Calm
<1>3. CASE row # NoRow
  <2> DEFINE phase == IF row.schema = 1 THEN "migrating" ELSE "idle"
             s == [Idle(Restored(row.value), row.version) EXCEPT !.phase = phase]
  <2>1. server' = [server EXCEPT ![p] = s]
    BY <1>3 DEF Start
  <2>2. phase \in {"idle", "migrating"}
    OBVIOUS
  <2> HIDE DEF phase
  <2>3. s \in Process /\ Fits(s)
    BY <1>3, <2>2, IdleWithRow
  <2> HIDE DEF s
  <2>4. QED BY <1>1, <2>1, <2>3, MovesUnanswered DEF Calm
<1>4. QED BY <1>2, <1>3

\* A stored response is sent again.
LEMMA ReplayKeeps ==
  ASSUME Inv, NEW p \in Processes, NEW k \in Keys, NEW route \in Routes,
         Replay(p, k, route)
  PROVE  Inv' /\ Calm
<1>1. /\ records[k] # None /\ UNCHANGED <<row, records, server, faults>>
      /\ told' = [told EXCEPT ![k] = told[k] \cup {records[k].response}]
  BY DEF Replay, Replays
<1>2. told' \in [Keys -> SUBSET Response] /\ AnswersStand'
  BY <1>1, AnswerSent
<1>3. server[p] \in Process /\ Fits(server[p]) /\ server' = [server EXCEPT ![p] = server[p]]
  BY <1>1 DEF Inv, TypeOK
<1>4. faults' \in 0 .. MaxFaults
  BY <1>1 DEF Inv, TypeOK
<1>5. QED BY <1>1, <1>2, <1>3, <1>4, Moves DEF Calm

\* The lab with one request more.
Requested(lab, k) == [lab EXCEPT !.history = Append(lab.history, k)]

\* A process at finalize holds a request more than the lab it started from,
\* which has the row's requests if it is of the row's version.
LEMMA FinalizingFits ==
  ASSUME Inv, NEW p \in Processes, NEW k \in Keys, NEW route \in Routes,
         NEW lab \in LabState, NEW response \in Response,
         NEW r \in LabState \cup {None},
         server[p].phase \in {"idle", "failed"},
         server[p].persistedVersion = row.version =>
           /\ lab.history = row.value.history
           /\ r # None => r.history = row.value.history,
         NEW s, s = Finalizing(p, k, route, lab, response, r)
  PROVE  /\ s \in Process /\ Fits(s) /\ s.phase = "commit"
         /\ s.route = route /\ s.response = response
         /\ s.state = Requested(lab, k)
<1> DEFINE state == Requested(lab, k)
<1>1. server[p] \in Process /\ Fits(server[p])
  BY DEF Inv, TypeOK
<1>2. Append(lab.history, k) \in Seq(Keys)
  BY DEF LabState
<1>3. state \in LabState /\ state.history = Append(lab.history, k)
  BY <1>2 DEF Requested, LabState
<1>4. s = [server[p] EXCEPT !.phase = "commit", !.key = k, !.route = route,
              !.response = response, !.state = state, !.rollback = r]
  BY DEF Finalizing, Requested
<1> HIDE DEF state
<1>5. /\ s \in Process /\ s.phase = "commit" /\ s.key = k /\ s.route = route
      /\ s.state = state /\ s.response = response /\ s.rollback = r
      /\ s.persistedVersion = server[p].persistedVersion
  BY <1>1, <1>3, <1>4 DEF Process
<1>6. row # NoRow /\ s.persistedVersion <= row.version
  BY <1>1, <1>5 DEF Fits, Seen
<1>7. Holds(s) /\ Seen(s) /\ Agrees(s) /\ Repeats(s)
  BY <1>3, <1>5, <1>6 DEF Holds, Seen, Agrees, Repeats
<1>8. BuildsOn(s) /\ GoesBack(s)
  BY <1>3, <1>5 DEF BuildsOn, GoesBack
<1>9. QED BY <1>5, <1>7, <1>8 DEF Fits, state

\* An idle process of the row's version has the row's requests.
LEMMA IdleHistory ==
  ASSUME Inv, NEW p \in Processes, server[p].phase = "idle"
  PROVE  /\ server[p].state \in LabState /\ row # NoRow
         /\ server[p].persistedVersion = row.version =>
              server[p].state.history = row.value.history
<1>1. /\ Fits(server[p]) /\ server[p].state \in LabState /\ row # NoRow
  BY DEF Inv, Fits, Holds, Seen
<1>2. row.value \in LabState
  BY <1>1, StoreFacts DEF Inv
<1>3. server[p].persistedVersion = row.version =>
        Restored(server[p].state) = Restored(row.value)
  BY <1>1 DEF Fits, Agrees
<1>4. QED BY <1>1, <1>2, <1>3, RestoreFacts

\* The handler runs to finalize: it adds its request to what it holds.
LEMMA HandleKeeps ==
  ASSUME Inv, NEW p \in Processes, NEW k \in Keys, NEW route \in Routes,
         NEW late \in BOOLEAN, Handle(p, k, route, late)
  PROVE  Inv' /\ Calm
<1> DEFINE lab == server[p].state
           serves == Serves(lab, route, late)
           next == IF serves THEN Effect(lab, route, late) ELSE RollBack(lab)
           response == IF serves THEN Outcome(route) ELSE "refused"
           before == IF serves THEN lab ELSE None
<1>1. /\ server[p].phase = "idle" /\ UNCHANGED <<row, records, told, faults>>
  BY DEF Handle
<1>2. /\ lab \in LabState
      /\ server[p].persistedVersion = row.version => lab.history = row.value.history
  BY <1>1, IdleHistory
<1>3. CASE ~serves /\ ~Restorable(lab)
  <2>1. server' = [server EXCEPT ![p] = Down]
    BY <1>3 DEF Handle
  <2>2. QED BY <1>1, <2>1, DownFits, MovesUnanswered DEF Calm
<1>4. CASE serves \/ Restorable(lab)
  <2> DEFINE s == Finalizing(p, k, route, next, response, before)
  <2>1. server' = [server EXCEPT ![p] = s]
    BY <1>4 DEF Handle
  <2>2. next \in LabState /\ next.history = lab.history
    BY <1>2, EffectIsLab, EffectKeepsHistory, RestoreFacts DEF RollBack
  <2>3. response \in Response /\ before \in LabState \cup {None}
    BY <1>2 DEF Response, Outcome
  <2>4. before # None => before.history = lab.history
    OBVIOUS
  <2>5. server[p].persistedVersion = row.version =>
          /\ next.history = row.value.history
          /\ before # None => before.history = row.value.history
    BY <1>2, <2>2, <2>4
  <2>6. /\ s = Finalizing(p, k, route, next, response, before)
        /\ server[p].phase \in {"idle", "failed"}
    BY <1>1
  <2> HIDE DEF next, response, before, s
  <2>7. s \in Process /\ Fits(s)
    BY <1>1, <2>2, <2>3, <2>5, <2>6, FinalizingFits
  <2>8. QED BY <1>1, <2>1, <2>7, MovesUnanswered DEF Calm
<1>5. QED BY <1>3, <1>4

\* One more fault is within the bound.
LEMMA FaultCounted ==
  ASSUME Inv, Fault
  PROVE  faults' \in 0 .. MaxFaults
BY LabAssumption DEF Inv, TypeOK, Fault

\* The lookup of the key throws: the refusal adds the request to what the
\* process holds.
LEMMA LookupFailsKeeps ==
  ASSUME Inv, NEW p \in Processes, NEW k \in Keys, NEW route \in Routes,
         LookupFails(p, k, route)
  PROVE  Inv' /\ Calm
<1> DEFINE s == Finalizing(p, k, route, server[p].state, "refused", None)
<1>1. /\ server[p].phase = "idle" /\ UNCHANGED <<row, records, told>> /\ Fault
      /\ server' = [server EXCEPT ![p] = s]
  BY DEF LookupFails
<1>2. /\ server[p].state \in LabState
      /\ server[p].persistedVersion = row.version =>
           /\ server[p].state.history = row.value.history
           /\ None # None => None.history = row.value.history
  BY <1>1, IdleHistory
<1>3. "refused" \in Response /\ None \in LabState \cup {None}
  BY DEF Response
<1>4. /\ s = Finalizing(p, k, route, server[p].state, "refused", None)
      /\ server[p].phase \in {"idle", "failed"}
  BY <1>1
<1> HIDE DEF s
<1>5. s \in Process /\ Fits(s)
  BY <1>1, <1>2, <1>3, <1>4, FinalizingFits
<1>6. told' \in [Keys -> SUBSET Response] /\ AnswersStand'
  BY <1>1 DEF Inv, TypeOK, AnswersStand
<1>7. QED BY <1>1, <1>5, <1>6, FaultCounted, Moves DEF Calm

\* A step of one process that writes the row.
LEMMA Writes ==
  ASSUME Inv, NEW p \in Processes, NEW s \in Process,
         server' = [server EXCEPT ![p] = s], Fits(server[p])',
         row' \in Row,
         row = NoRow \/ (row # NoRow /\ row'.version = row.version + 1),
         records' \in [Keys -> Answer \cup {None}],
         \A k \in Keys : records[k] # None => records'[k] = records[k],
         told' \in [Keys -> SUBSET Response], AnswersStand',
         faults' \in 0 .. MaxFaults
  PROVE  Inv'
<1>1. row' # NoRow
  BY DEF Row, NoRow
<1>2. TypeOK'
  BY DEF Inv, TypeOK, Row, Answer
<1>3. RecordsNeedRow'
  BY <1>1 DEF RecordsNeedRow, NoRow
<1>4. ASSUME NEW o \in Processes PROVE Fits(server[o])'
  <2>1. CASE o = p
    BY <2>1
  <2>2. CASE o # p
    <3>1. server'[o] = server[o] /\ Fits(server[o])
      BY <2>2 DEF Inv, TypeOK
    <3>2. QED BY <1>1, <3>1, StillFits DEF Inv
  <2>3. QED BY <2>1, <2>2
<1>5. QED BY <1>2, <1>3, <1>4 DEF Inv

\* The snapshot is created or migrated.
LEMMA FinishStartKeeps ==
  ASSUME Inv, NEW p \in Processes, FinishStart(p)
  PROVE  Inv' /\ Calm
<1> DEFINE lab == server[p].state
<1>1. /\ server[p].phase \in {"creating", "migrating"}
      /\ UNCHANGED <<records, told, faults>>
      /\ server[p] \in Process /\ Fits(server[p]) /\ server \in [Processes -> Process]
  BY DEF FinishStart, Inv, TypeOK
<1>2. lab \in LabState /\ server[p].persistedVersion \in Nat
  BY <1>1 DEF Fits, Holds, Process
<1>3. /\ records' \in [Keys -> Answer \cup {None}]
      /\ told' \in [Keys -> SUBSET Response]
      /\ faults' \in 0 .. MaxFaults
      /\ AnswersStand'
  BY <1>1 DEF Inv, TypeOK, Answer, AnswersStand
<1>4. CASE server[p].phase = "creating" /\ MayCreate /\ Created(2, lab)
             /\ server' = [server EXCEPT ![p].phase = "idle"]
  <2> DEFINE s == [server[p] EXCEPT !.phase = "idle"]
  <2>1. /\ row = NoRow /\ row' = [version |-> 0, schema |-> 2, value |-> lab]
        /\ lab = Fresh
    BY <1>1, <1>4 DEF MayCreate, Created, Fits, Holds
  <2>2. /\ row' \in Row /\ row'.version = 0 /\ row'.value = lab
        /\ row' # NoRow /\ row'.value.history = <<>>
    BY <1>2, <2>1, FreshIsLab DEF Row, NoRow
  <2>3. server' = [server EXCEPT ![p] = s]
    BY <1>1, <1>4
  <2>4. s \in Process /\ s.phase = "idle" /\ s.state = lab
    BY <1>1 DEF Process
  <2>5. /\ server'[p].phase = "idle" /\ server'[p].state = lab
        /\ server'[p].persistedVersion = 0
    BY <1>1, <1>4 DEF Fits, Holds, Process
  <2>6. Fits(server[p])'
    BY <1>2, <2>2, <2>5 DEF Fits, Holds, Seen, Agrees, BuildsOn, GoesBack, Repeats
  <2> HIDE DEF s
  <2>7. QED BY <1>1, <1>3, <2>1, <2>2, <2>3, <2>4, <2>6, Writes DEF Calm
<1>5. CASE /\ server[p].phase = "migrating" /\ Current(server[p].persistedVersion)
           /\ Swapped(2, lab)
           /\ server' = [server EXCEPT ![p].phase = "idle", ![p].persistedVersion = @ + 1]
  <2> DEFINE v == server[p].persistedVersion + 1
             s == [server[p] EXCEPT !.phase = "idle", !.persistedVersion = v]
  <2>1. /\ row # NoRow /\ server[p].persistedVersion = row.version
        /\ row' = [version |-> row.version + 1, schema |-> 2, value |-> lab]
        /\ row.version \in Nat /\ row.value \in LabState
    BY <1>5, StoreFacts DEF Current, Swapped, Inv
  <2>2. /\ row' \in Row /\ row'.version = row.version + 1 /\ row'.value = lab
        /\ row' # NoRow
    BY <1>2, <2>1 DEF Row, NoRow
  <2>3. lab.history = row.value.history
    <3>1. Restored(lab) = Restored(row.value)
      BY <1>1, <1>5, <2>1 DEF Fits, Agrees
    <3>2. QED BY <1>2, <2>1, <3>1, RestoreFacts
  <2>4. server' = [server EXCEPT ![p] = s]
    BY <1>1, <1>5
  <2>5. v \in Nat /\ v = row'.version
    BY <1>2, <2>1, <2>2
  <2> HIDE DEF v
  <2>6. s \in Process /\ s.phase = "idle" /\ s.state = lab /\ s.persistedVersion = v
    BY <1>1, <2>5 DEF Process
  <2> HIDE DEF s
  <2>7. /\ server'[p].phase = "idle" /\ server'[p].state = lab
        /\ server'[p].persistedVersion = row'.version
    BY <1>1, <2>4, <2>5, <2>6
  <2>8. Fits(server[p])'
    BY <1>2, <2>1, <2>2, <2>7 DEF Fits, Holds, Seen, Agrees, BuildsOn, GoesBack, Repeats
  <2>9. QED BY <1>1, <1>3, <2>1, <2>2, <2>3, <2>4, <2>6, <2>8, Writes DEF Calm
<1>6. CASE server' = [server EXCEPT ![p] = Down] /\ UNCHANGED row
  BY <1>1, <1>6, DownFits, MovesUnanswered DEF Calm
<1>7. QED BY <1>4, <1>5, <1>6 DEF FinishStart

\* persistResponse: a swap that passes adds the request to the row's, and its
\* record is there before anybody is told.
LEMMA CommitKeeps ==
  ASSUME Inv, NEW p \in Processes, Commit(p)
  PROVE  Inv' /\ (Calm \/ \E k \in Keys : Committed(k))
<1> DEFINE k == server[p].key
           lab == server[p].state
           r == [request |-> server[p].route, response |-> server[p].response]
<1>1. /\ server[p].phase = "commit" /\ UNCHANGED faults
      /\ server[p] \in Process /\ Fits(server[p]) /\ server \in [Processes -> Process]
      /\ records \in [Keys -> Answer \cup {None}]
      /\ told \in [Keys -> SUBSET Response] /\ faults \in 0 .. MaxFaults
  BY DEF Commit, Inv, TypeOK, Answer
<1>2. /\ k \in Keys /\ server[p].route \in Routes /\ server[p].response \in Response
      /\ lab \in LabState /\ server[p].persistedVersion \in Nat
      /\ row # NoRow /\ server[p].persistedVersion <= row.version
  BY <1>1 DEF Fits, BuildsOn, GoesBack, Holds, Seen, Process
<1>3. CASE /\ Replays(k, server[p].route)
           /\ server' = [server EXCEPT ![p].phase = "replayed",
                                       ![p].response = records[k].response]
           /\ UNCHANGED <<row, records, told>>
  <2> DEFINE s == [server[p] EXCEPT !.phase = "replayed",
                                    !.response = records[k].response]
  <2>1. records[k] # None /\ records[k].response \in Response
    BY <1>2, <1>3, StoreFacts DEF Replays, Inv
  <2>2. server' = [server EXCEPT ![p] = s]
    BY <1>1, <1>3
  <2>3. /\ s \in Process /\ s.phase = "replayed" /\ s.key = k /\ s.state = lab
        /\ s.response = records[k].response /\ s.route = server[p].route
        /\ s.persistedVersion = server[p].persistedVersion
        /\ s.rollback = server[p].rollback
    BY <1>1, <2>1 DEF Process
  <2> HIDE DEF s
  <2>4. Fits(s)
    BY <1>1, <1>2, <2>1, <2>3 DEF Fits, Holds, Seen, Agrees, BuildsOn, GoesBack, Repeats
  <2>5. QED BY <1>1, <1>3, <2>2, <2>3, <2>4, MovesUnanswered DEF Calm
<1>4. CASE /\ RolledBack(p) /\ server' = [server EXCEPT ![p].phase = "failed"]
           /\ UNCHANGED told
  <2> DEFINE s == [server[p] EXCEPT !.phase = "failed"]
  <2>1. server' = [server EXCEPT ![p] = s] /\ UNCHANGED <<row, records, told>>
    BY <1>1, <1>4 DEF RolledBack
  <2>2. /\ s \in Process /\ s.phase = "failed" /\ s.state = lab
        /\ s.persistedVersion = server[p].persistedVersion
        /\ s.key = k /\ s.route = server[p].route
        /\ s.rollback = server[p].rollback
    BY <1>1 DEF Process
  <2> HIDE DEF s
  <2>3. Fits(s)
    BY <1>1, <1>2, <2>2 DEF Fits, Holds, Seen, Agrees, BuildsOn, GoesBack, Repeats
  <2>4. QED BY <1>1, <2>1, <2>2, <2>3, MovesUnanswered DEF Calm
<1>5. CASE /\ Commits(p) /\ RanOnce(k, server[p].route, server[p].response, 2, lab)
           /\ told' = [told EXCEPT ![k] = @ \cup {server[p].response}]
           /\ server' = [server EXCEPT ![p] = Idle(lab, server[p].persistedVersion + 1)]
  <2>1. /\ records[k] = None /\ server[p].persistedVersion = row.version
        /\ row' = [version |-> row.version + 1, schema |-> 2, value |-> lab]
        /\ row.version \in Nat
    BY <1>2, <1>5, StoreFacts DEF Commits, Unrecorded, Current, RanOnce, Swapped, Inv
  <2>2. records' = [records EXCEPT ![k] = r]
    BY <1>5 DEF RanOnce
  <2>3. r \in Answer /\ r.response = server[p].response /\ r # None
    BY <1>2, LabAssumption DEF Answer
  <2> HIDE DEF r
  <2>4. /\ row' \in Row /\ row'.version = row.version + 1 /\ row'.value = lab
        /\ row' # NoRow
    BY <1>2, <2>1 DEF Row, NoRow
  <2>5. lab.history = Append(row.value.history, k)
    BY <1>1, <2>1 DEF Fits, BuildsOn
  <2>6. Committed(k)
    BY <1>2, <2>1, <2>2, <2>3, <2>4, <2>5 DEF Committed
  <2>7. /\ records' \in [Keys -> Answer \cup {None}]
        /\ \A j \in Keys : records[j] # None => records'[j] = records[j]
    BY <1>1, <1>2, <2>1, <2>2, <2>3
  <2>8. told' \in [Keys -> SUBSET Response]
    BY <1>1, <1>2, <1>5
  <2>9. AnswersStand'
    <3>1. ASSUME NEW j \in Keys, NEW a \in told'[j]
          PROVE  records'[j] # None /\ records'[j].response = a
      <4>1. CASE j = k
        <5>1. records'[k] = r /\ told[k] = {}
          BY <1>1, <1>2, <2>1, <2>2 DEF Inv, AnswersStand
        <5>2. a = server[p].response
          BY <1>1, <1>2, <1>5, <3>1, <4>1, <5>1
        <5>3. QED BY <2>3, <4>1, <5>1, <5>2
      <4>2. CASE j # k
        BY <1>1, <1>2, <1>5, <2>2, <3>1, <4>2 DEF Inv, AnswersStand
      <4>3. QED BY <4>1, <4>2
    <3>2. QED BY <3>1 DEF AnswersStand
  <2> DEFINE v == server[p].persistedVersion + 1
             s == Idle(lab, v)
  <2>10. server' = [server EXCEPT ![p] = s]
    BY <1>5
  <2>11. v \in Nat /\ v = row'.version
    BY <1>2, <2>1, <2>4
  <2> HIDE DEF v
  <2>12. s \in Process /\ s.phase = "idle" /\ s.state = lab /\ s.persistedVersion = v
    BY <1>2, <2>11 DEF Idle, Down, Process
  <2> HIDE DEF s
  <2>13. /\ server'[p].phase = "idle" /\ server'[p].state = lab
         /\ server'[p].persistedVersion = row'.version
    BY <1>1, <2>10, <2>11, <2>12
  <2>14. Fits(server[p])'
    BY <1>2, <2>1, <2>4, <2>13 DEF Fits, Holds, Seen, Agrees, BuildsOn, GoesBack, Repeats
  <2>15. QED BY <1>1, <1>2, <2>1, <2>4, <2>6, <2>7, <2>8, <2>9, <2>10, <2>12, <2>14,
                Writes
<1>6. QED BY <1>3, <1>4, <1>5 DEF Commit

\* After a replay or a failure the process takes over the row.
LEMMA RefreshKeeps ==
  ASSUME Inv, NEW p \in Processes, Refresh(p)
  PROVE  Inv' /\ Calm
<1>1. /\ server[p].phase \in {"replayed", "failed"}
      /\ UNCHANGED <<row, records, faults>> /\ Fits(server[p])
      /\ faults' \in 0 .. MaxFaults
  BY DEF Refresh, Inv, TypeOK
<1>2. row # NoRow
  BY <1>1 DEF Fits, Seen
<1>3. CASE /\ server' = [server EXCEPT ![p] = Refreshed(p)]
           /\ told' = IF server[p].phase = "failed" THEN told
                      ELSE [told EXCEPT ![server[p].key] = @ \cup {server[p].response}]
  <2> DEFINE s == Refreshed(p)
  <2>1. s = [Idle(Restored(row.value), row.version) EXCEPT !.phase = "idle"]
    BY DEF Refreshed, Idle, Down
  <2>2. s \in Process /\ Fits(s)
    BY <1>2, <2>1, IdleWithRow
  <2> HIDE DEF s
  <2>3. CASE server[p].phase = "failed"
    <3>1. UNCHANGED told
      BY <1>3, <2>3
    <3>2. server' = [server EXCEPT ![p] = s]
      BY <1>3 DEF s
    <3>3. QED BY <1>1, <2>2, <3>1, <3>2, MovesUnanswered DEF Calm
  <2>4. CASE server[p].phase = "replayed"
    <3>1. /\ server[p].key \in Keys /\ records[server[p].key] # None
          /\ records[server[p].key].response = server[p].response
      BY <1>1, <2>4 DEF Fits, Repeats
    <3>2. told' = [told EXCEPT ![server[p].key] =
                     told[server[p].key] \cup {records[server[p].key].response}]
      BY <1>3, <2>4, <3>1
    <3>3. told' \in [Keys -> SUBSET Response] /\ AnswersStand'
      BY <1>1, <3>1, <3>2, AnswerSent
    <3>4. server' = [server EXCEPT ![p] = s]
      BY <1>3 DEF s
    <3>5. QED BY <1>1, <2>2, <3>3, <3>4, Moves DEF Calm
  <2>5. QED BY <1>1, <2>3, <2>4
<1>4. QED BY <1>3 DEF Refresh

\* The read fails: it is tried again, or the error is finalized on the snapshot,
\* or the process is down.
LEMMA RefreshFailsKeeps ==
  ASSUME Inv, NEW p \in Processes, RefreshFails(p)
  PROVE  Inv' /\ Calm
<1> DEFINE before == server[p].rollback
           again == before # None /\ Restorable(before)
<1>1. /\ server[p].phase \in {"replayed", "failed"} /\ UNCHANGED <<row, records, told>>
      /\ server[p] \in Process /\ Fits(server[p]) /\ server \in [Processes -> Process]
  BY DEF RefreshFails, Inv, TypeOK
<1>2. faults' \in 0 .. MaxFaults
  <2>1. CASE Fault
    BY <2>1, FaultCounted
  <2>2. CASE UNCHANGED faults
    BY <2>2 DEF Inv, TypeOK
  <2>3. QED BY <2>1, <2>2 DEF RefreshFails
<1>3. told' \in [Keys -> SUBSET Response] /\ AnswersStand'
  BY <1>1 DEF Inv, TypeOK, AnswersStand
<1>4. CASE server[p].phase = "replayed"
  <2> DEFINE s == [server[p] EXCEPT !.phase = "failed"]
  <2>1. server' = [server EXCEPT ![p] = s]
    BY <1>1, <1>4 DEF RefreshFails
  <2>2. /\ s \in Process /\ s.phase = "failed" /\ s.state = server[p].state
        /\ s.persistedVersion = server[p].persistedVersion
        /\ s.key = server[p].key /\ s.route = server[p].route
        /\ s.rollback = server[p].rollback
    BY <1>1 DEF Process
  <2> HIDE DEF s
  <2>3. Fits(s)
    BY <1>1, <1>4, <2>2 DEF Fits, Holds, Seen, Agrees, BuildsOn, GoesBack, Repeats
  <2>4. QED BY <1>1, <1>2, <1>3, <2>1, <2>2, <2>3, Moves DEF Calm
<1>5. CASE server[p].phase = "failed" /\ again
  <2> DEFINE s == Finalizing(p, server[p].key, server[p].route, RollBack(before),
                             "refused", None)
  <2>1. server' = [server EXCEPT ![p] = s]
    BY <1>1, <1>5 DEF RefreshFails
  <2>2. /\ server[p].key \in Keys /\ server[p].route \in Routes
        /\ server[p].persistedVersion = row.version =>
             before.history = row.value.history
    BY <1>1, <1>5 DEF Fits, GoesBack
  <2>3. before \in LabState
    BY <1>1, <1>5 DEF Process
  <2>4. RollBack(before) \in LabState /\ RollBack(before).history = before.history
    BY <2>3, RestoreFacts DEF RollBack
  <2>5. "refused" \in Response /\ None \in LabState \cup {None}
    BY DEF Response
  <2>6. server[p].persistedVersion = row.version =>
          /\ RollBack(before).history = row.value.history
          /\ None # None => None.history = row.value.history
    BY <2>2, <2>4
  <2>7. /\ s = Finalizing(p, server[p].key, server[p].route, RollBack(before),
                           "refused", None)
        /\ server[p].phase \in {"idle", "failed"}
    BY <1>5
  <2> HIDE DEF s
  <2>8. s \in Process /\ Fits(s)
    BY <1>5, <2>2, <2>4, <2>5, <2>6, <2>7, FinalizingFits
  <2>9. QED BY <1>1, <1>2, <1>3, <2>1, <2>8, Moves DEF Calm
<1>6. CASE server[p].phase = "failed" /\ ~again
  <2>1. server' = [server EXCEPT ![p] = Down]
    BY <1>1, <1>6 DEF RefreshFails
  <2>2. QED BY <1>1, <1>2, <1>3, <2>1, DownFits, Moves DEF Calm
<1>7. QED BY <1>1, <1>4, <1>5, <1>6

\* A process dies.
LEMMA CrashKeeps ==
  ASSUME Inv, NEW p \in Processes, Crash(p)
  PROVE  Inv' /\ Calm
<1>1. /\ server' = [server EXCEPT ![p] = Down] /\ UNCHANGED <<row, records, told>>
      /\ Fault
  BY DEF Crash
<1>2. faults' \in 0 .. MaxFaults
  BY <1>1, FaultCounted
<1>3. told' \in [Keys -> SUBSET Response] /\ AnswersStand'
  BY <1>1 DEF Inv, TypeOK, AnswersStand
<1>4. QED BY <1>1, <1>2, <1>3, DownFits, Moves DEF Calm

\* Every step: it commits one request or none.
LEMMA NextKeeps ==
  ASSUME Inv, [Next]_vars
  PROVE  Inv' /\ (Calm \/ \E k \in Keys : Committed(k))
<1>1. CASE UNCHANGED vars
  <2>1. TypeOK' /\ AnswersStand' /\ RecordsNeedRow' /\ Calm
    BY <1>1 DEF Inv, TypeOK, AnswersStand, RecordsNeedRow, vars, Calm, NoRow
  <2>2. ASSUME NEW o \in Processes PROVE Fits(server[o])'
    BY <1>1, StillFits DEF Inv, vars
  <2>3. QED BY <2>1, <2>2 DEF Inv
<1>2. ASSUME NEW p \in Processes, Start(p) PROVE Inv' /\ Calm
  BY <1>2, StartKeeps
<1>3. ASSUME NEW p \in Processes, FinishStart(p) PROVE Inv' /\ Calm
  BY <1>3, FinishStartKeeps
<1>4. ASSUME NEW p \in Processes, Commit(p)
      PROVE  Inv' /\ (Calm \/ \E k \in Keys : Committed(k))
  BY <1>4, CommitKeeps
<1>5. ASSUME NEW p \in Processes, Refresh(p) PROVE Inv' /\ Calm
  BY <1>5, RefreshKeeps
<1>6. ASSUME NEW p \in Processes, Crash(p) PROVE Inv' /\ Calm
  BY <1>6, CrashKeeps
<1>7. ASSUME NEW p \in Processes, NEW k \in Keys, NEW route \in Routes,
             Replay(p, k, route)
      PROVE  Inv' /\ Calm
  BY <1>7, ReplayKeeps
<1>8. ASSUME NEW p \in Processes, NEW k \in Keys, NEW route \in Routes,
             NEW late \in BOOLEAN, Handle(p, k, route, late)
      PROVE  Inv' /\ Calm
  BY <1>8, HandleKeeps
<1>9. ASSUME NEW p \in Processes, NEW k \in Keys, NEW route \in Routes,
             LookupFails(p, k, route)
      PROVE  Inv' /\ Calm
  BY <1>9, LookupFailsKeeps
<1>10. ASSUME NEW p \in Processes, RefreshFails(p) PROVE Inv' /\ Calm
  BY <1>10, RefreshFailsKeeps
<1>11. QED BY <1>1, <1>2, <1>3, <1>4, <1>5, <1>6, <1>7, <1>8, <1>9, <1>10 DEF Next

\* Nobody is up at the start and nothing is recorded.
LEMMA InitKeeps == Init => Inv
<1>1. SUFFICES ASSUME Init PROVE Inv
  OBVIOUS
<1>2. row \in Row \cup {NoRow}
  <2>1. CASE row = NoRow
    BY <2>1
  <2>2. CASE \E lab \in InitialLabs, schema \in {1, 2} :
               row = [version |-> 0, schema |-> schema, value |-> lab]
    BY <2>2, LabAssumption DEF Row
  <2>3. QED BY <1>1, <2>1, <2>2 DEF Init
<1>3. 0 \in 0 .. MaxFaults
  BY LabAssumption
<1>4. TypeOK
  BY <1>1, <1>2, <1>3, DownFits DEF Init, TypeOK, Row
<1>5. AnswersStand /\ RecordsNeedRow
  BY <1>1 DEF Init, AnswersStand, RecordsNeedRow
<1>6. \A p \in Processes : Fits(server[p])
  BY <1>1, DownFits DEF Init
<1>7. QED BY <1>4, <1>5, <1>6 DEF Inv

-----------------------------------------------------------------------------
(* Theorems *)

\* server.ts: whatever the processes do at once and whenever they die, each one
\* that remembers the version of the row holds the row's state or one request
\* more, and what it will send again is recorded.
THEOREM ProcessesFit == Spec => []Inv
<1>1. Inv /\ [Next]_vars => Inv'
  BY NextKeeps
<1>2. QED BY <1>1, InitKeeps, PTL DEF Spec

\* Every definite answer a client got under a key is the recorded one.
THEOREM AnswersAlwaysStand == Spec => []AnswersStand
<1>1. Inv => AnswersStand
  BY DEF Inv
<1>2. QED BY <1>1, ProcessesFit, PTL

\* An idle process at the row's version holds the row's state: persistedVersion
\* and state are assigned together.
THEOREM MemoryIsSound == Spec => []MemorySound
<1>1. Inv => MemorySound
  BY DEF Inv, Fits, Seen, Agrees, MemorySound, MemoryMatchesVersion
<1>2. QED BY <1>1, ProcessesFit, PTL

\* compareAndSwap: the requests in the row are those before, and at most one more.
THEOREM NothingIsLost == Spec => NoLostUpdate
<1>1. Inv /\ [Next]_vars =>
        [row # NoRow =>
           \/ row'.value.history = row.value.history
           \/ \E k \in Keys : row'.value.history = Append(row.value.history, k)]_vars
  BY NextKeeps DEF Calm, Committed
<1>2. QED BY <1>1, ProcessesFit, PTL DEF Spec, NoLostUpdate

-----------------------------------------------------------------------------
(* Effects per key *)

\* A key has one effect if it has a response, and none before.
EffectsCounted ==
  \A k \in Keys : Effects(k) = IF records[k] # None THEN 1 ELSE 0

\* Every step keeps one effect per answered key, and is a step of
\* IdempotentEffect.
LEMMA EffectsKept ==
  ASSUME Inv, EffectsCounted, [Next]_vars
  PROVE  EffectsCounted' /\ [PerKey!Next]_(PerKey!vars)
<1>1. CASE Calm
  <2>1. \A k \in Keys : Effects(k)' = Effects(k)
    <3>1. CASE row = NoRow /\ row' # NoRow /\ row'.value.history = <<>>
      <4>1. \A k \in Keys : Count(row'.value.history, k) = 0
        BY <3>1, NothingInEmpty
      <4>2. QED BY <3>1, <4>1 DEF Effects, Count, NoRow
    <3>2. QED BY <1>1, <3>1 DEF Calm, Effects, NoRow
  <2>2. EffectsCounted'
    BY <1>1, <2>1 DEF EffectsCounted, Calm
  <2>3. [k \in Keys |-> Effects(k)]' = [k \in Keys |-> Effects(k)]
    BY <2>1
  <2>4. UNCHANGED PerKey!vars
    BY <1>1, <2>3 DEF PerKey!vars, Calm
  <2>5. QED BY <2>2, <2>4
<1>2. ASSUME NEW k \in Keys, Committed(k)
      PROVE  EffectsCounted' /\ PerKey!Next
  <2>1. /\ records[k] = None /\ row # NoRow /\ row' # NoRow
        /\ row'.value.history = Append(row.value.history, k)
    BY <1>2 DEF Committed
  <2>2. row.value.history \in Seq(Keys)
    BY <2>1, StoreFacts DEF Inv, LabState
  <2>3. PICK r \in Answer : records' = [records EXCEPT ![k] = r]
    BY <1>2 DEF Committed
  <2>4. /\ r # None
        /\ \A j \in Keys : records'[j] = IF j = k THEN r ELSE records[j]
    BY <2>3, LabAssumption DEF Answer, Inv, TypeOK
  <2>5. /\ \A j \in Keys : Effects(j) = Count(row.value.history, j)
        /\ \A j \in Keys : Effects(j)' = Count(row'.value.history, j)
    BY <2>1 DEF Effects, Count, NoRow
  <2>6. \A j \in Keys : Effects(j)' = IF j = k THEN Effects(j) + 1 ELSE Effects(j)
    BY <2>1, <2>2, <2>5, HistoryGrows
  <2>7. Effects(k) = 0
    BY <2>1 DEF EffectsCounted
  <2>8. EffectsCounted'
    BY <2>4, <2>6, <2>7 DEF EffectsCounted
  <2> DEFINE old == [j \in Keys |-> Effects(j)]
             new == [j \in Keys |-> Effects(j)']
  <2>9. \A j \in Keys : new[j] = [old EXCEPT ![k] = 1][j]
    BY <2>6, <2>7
  <2>10. new = [old EXCEPT ![k] = 1]
    BY <2>9
  <2>11. {j \in Keys : records'[j] # None} = {j \in Keys : records[j] # None} \cup {k}
    BY <2>4
  <2>12. k \notin {j \in Keys : records[j] # None}
    BY <2>1
  <2>13. PerKey!Decide(k)
    BY <2>10, <2>11, <2>12 DEF PerKey!Decide
  <2>14. QED BY <2>8, <2>13 DEF PerKey!Next
<1>3. QED BY <1>1, <1>2, NextKeeps

\* At the start no key has an effect: the requests behind an initial row are
\* those of an earlier run.
LEMMA NoEffectsYet == Init => EffectsCounted /\ PerKey!Init
<1>1. SUFFICES ASSUME Init PROVE EffectsCounted /\ PerKey!Init
  OBVIOUS
<1>2. row # NoRow => row.value.history = <<>>
  BY <1>1, LabAssumption DEF Init
<1>3. \A k \in Keys : Effects(k) = 0
  BY <1>2, NothingInEmpty DEF Effects, Count
<1>4. \A k \in Keys : records[k] = None
  BY <1>1 DEF Init
<1>5. QED BY <1>3, <1>4 DEF EffectsCounted, PerKey!Init

\* runIdempotent: the requests under one key change the lab at most once, and
\* never after a response is stored.
THEOREM EffectsAreKeyed == Spec => KeyedEffects
<1>1. Inv /\ EffectsCounted /\ [Next]_vars
        => EffectsCounted' /\ [PerKey!Next]_(PerKey!vars)
  BY EffectsKept
<1>2. QED BY <1>1, NoEffectsYet, ProcessesFit, PTL DEF Spec, KeyedEffects, PerKey!Spec

-----------------------------------------------------------------------------
(* Restart *)

\* The server's copy of a transaction that has been decided is the engine's.
CopyIsCurrent(lab) ==
  lab.transactionView \in {"confirmed", "reversed"} =>
    lab.transaction = lab.transactionView

\* restore accepts the lab, or objects only to a pending transaction whose
\* challenge has expired; its clauses on the provisioning hold in either case.
Overdue(lab) ==
  /\ lab.transaction = "confirmation_pending"
  /\ lab.transactionChallenge = "expired"
ProvisioningRestores(lab) ==
  /\ lab.provisioning = "trusted_device_challenge" =>
       lab.provisioningChallenge = "created"
  /\ lab.provisioning = "token_active_full" =>
       lab.provisioningChallenge = "confirmed"
  /\ lab.provisioning = "declined" =>
       lab.provisioningChallenge \in {"cancelled", "expired"}
Nearly(lab) == ProvisioningRestores(lab) /\ (Restorable(lab) \/ Overdue(lab))

\* Somebody was answered a demonstration of a reused signature.
Demonstration == [request |-> "reused-signature", response |-> "blocked"]
Demonstrated == \E k \in Keys : records[k] = Demonstration

\* What a process holds is nearly accepted, and if it is not, a demonstration
\* was answered, or is what the process is about to answer.
Explained(s, demonstrated) ==
  s.phase \in {"creating", "migrating", "idle", "commit"} =>
    /\ CopyIsCurrent(s.state) /\ Nearly(s.state)
    /\ Restorable(s.state) \/ demonstrated
         \/ /\ s.phase = "commit" /\ s.route = "reused-signature"
            /\ s.response = "blocked"
RowExplained ==
  row # NoRow => Nearly(row.value) /\ (Restorable(row.value) \/ Demonstrated)
AllExplained == RowExplained /\ \A p \in Processes : Explained(server[p], Demonstrated)

\* A restore keeps what it checked.
LEMMA RestoredRestores ==
  ASSUME NEW lab \in LabState, Restorable(lab)
  PROVE  /\ Restorable(Restored(lab)) /\ CopyIsCurrent(Restored(lab))
         /\ Nearly(Restored(lab))
<1>1. /\ Restored(lab).provisioning = lab.provisioning
      /\ Restored(lab).provisioningChallenge = lab.provisioningChallenge
      /\ Restored(lab).transaction = lab.transaction
      /\ Restored(lab).transactionChallenge = lab.transactionChallenge
      /\ Restored(lab).transactionView \in {"none", lab.transaction}
  BY DEF Restored, LabState
<1>2. Restorable(Restored(lab)) /\ CopyIsCurrent(Restored(lab))
  BY <1>1 DEF Restorable, CopyIsCurrent
<1>3. QED BY <1>2 DEF Nearly, ProvisioningRestores, Restorable

\* The requests behind a lab do not matter to a restore.
LEMMA RequestedRestores ==
  ASSUME NEW lab \in LabState, NEW k \in Keys
  PROVE  /\ Restorable(Requested(lab, k)) <=> Restorable(lab)
         /\ Nearly(Requested(lab, k)) <=> Nearly(lab)
         /\ CopyIsCurrent(Requested(lab, k)) <=> CopyIsCurrent(lab)
<1> DEFINE r == Requested(lab, k)
<1>1. /\ r.provisioning = lab.provisioning
      /\ r.provisioningChallenge = lab.provisioningChallenge
      /\ r.transaction = lab.transaction
      /\ r.transactionChallenge = lab.transactionChallenge
      /\ r.transactionView = lab.transactionView
  BY DEF Requested, LabState
<1> HIDE DEF r
<1>2. /\ Restorable(r) <=> Restorable(lab)
      /\ CopyIsCurrent(r) <=> CopyIsCurrent(lab)
      /\ Overdue(r) <=> Overdue(lab)
      /\ ProvisioningRestores(r) <=> ProvisioningRestores(lab)
  BY <1>1 DEF Restorable, CopyIsCurrent, Overdue, ProvisioningRestores
<1>3. QED BY <1>2 DEF Nearly, r

\* A handler that is served leaves a lab that is nearly accepted, and makes one
\* that is not only when it finds a reused signature's challenge past its
\* lifetime.
LEMMA EffectRestores ==
  ASSUME NEW lab \in LabState, NEW route \in Routes, NEW late \in BOOLEAN,
         Nearly(lab), CopyIsCurrent(lab), Serves(lab, route, late)
  PROVE  /\ Nearly(Effect(lab, route, late))
         /\ CopyIsCurrent(Effect(lab, route, late))
         /\ \/ Restorable(Effect(lab, route, late))
            \/ ~Restorable(lab) \/ route = "reused-signature"
<1> USE DEF Effect, Nearly, ProvisioningRestores, Overdue, Restorable,
            CopyIsCurrent, LabState
<1>1. CASE route = "reset"
  BY <1>1 DEF Fresh
<1>2. CASE route = "provisionRequest"
  BY <1>2
<1>3. CASE route = "provisionApprove"
  BY <1>3
<1>4. CASE route = "deviceRevoke"
  <2> DEFINE r == Revoked(lab)
  <2>1. Effect(lab, route, late) = r
    BY <1>4
  <2>2. /\ r.provisioning = IF lab.provisioning = "trusted_device_challenge"
                            THEN "declined" ELSE lab.provisioning
        /\ r.provisioningChallenge = IF lab.provisioningChallenge = "created"
                                     THEN "cancelled" ELSE lab.provisioningChallenge
        /\ r.transaction = IF lab.transaction = "confirmation_pending"
                           THEN "declined" ELSE lab.transaction
        /\ r.transactionChallenge = IF lab.transactionChallenge = "created"
                                    THEN "cancelled" ELSE lab.transactionChallenge
        /\ r.transactionView = lab.transactionView
    BY RevokedFacts, Zenon
  <2> HIDE DEF r
  <2>3. Restorable(r)
    BY <2>2
  <2>4. CopyIsCurrent(r) /\ ProvisioningRestores(r)
    BY <2>2
  <2>5. Nearly(r)
    BY <2>3, <2>4, Zenon DEF Nearly
  <2>6. QED BY <2>1, <2>3, <2>4, <2>5, Zenon
<1>5. CASE route = "transactionRequest"
  BY <1>5
<1>6. CASE route = "transactionConfirm"
  BY <1>6 DEF Confirmed
<1>7. CASE route = "transactionExpire"
  BY <1>7 DEF Reversed
<1>8. CASE route = "transactionClear"
  BY <1>8 DEF Serves, Demonstrations
<1>9. CASE route = "expired-challenge"
  BY <1>9 DEF Reversed
<1>10. CASE route = "reused-signature"
  <2>1. CASE ~Confirmable(lab)
    <3>1. Effect(lab, route, late) = lab
      BY <1>10, <2>1
    <3>2. QED BY <3>1, Zenon
  <2>2. CASE Confirmable(lab) /\ ~late
    BY <1>10, <2>2 DEF Confirmed
  <2>3. CASE Confirmable(lab) /\ late
    <3> DEFINE r == FoundLate(lab)
    <3>1. Effect(lab, route, late) = r
      BY <1>10, <2>3
    <3>2. /\ r.provisioning = lab.provisioning
          /\ r.provisioningChallenge = lab.provisioningChallenge
          /\ r.transaction = lab.transaction
          /\ r.transactionChallenge = "expired"
          /\ r.transactionView = lab.transactionView
      BY DEF FoundLate
    <3>3. lab.transactionChallenge = "created"
      BY <2>3 DEF Confirmable
    <3> HIDE DEF r
    <3>4. Nearly(r) /\ CopyIsCurrent(r)
      BY <3>2, <3>3
    <3> HIDE DEF Effect, Nearly, CopyIsCurrent, Restorable
    <3>5. QED BY <1>10, <3>1, <3>4
  <2>4. QED BY <2>1, <2>2, <2>3
<1>11. CASE route \in {"provisionAttack", "auditTamper", "altered-binding"}
  <2>1. Effect(lab, route, late) = lab
    BY <1>11
  <2>2. QED BY <2>1, Zenon
<1>12. QED BY <1>1, <1>2, <1>3, <1>4, <1>5, <1>6, <1>7, <1>8, <1>9, <1>10, <1>11
         DEF Routes, Demonstrations

\* An answer that was recorded stays.
LEMMA DemonstratedStays ==
  ASSUME Inv, Demonstrated, [Next]_vars
  PROVE  Demonstrated'
<1>1. Demonstration # None
  BY LabAssumption DEF Demonstration, Routes, Demonstrations, Response
<1>2. PICK k \in Keys : records[k] = Demonstration
  BY DEF Demonstrated
<1>3. records'[k] = records[k]
  <2>1. CASE Calm
    BY <2>1 DEF Calm
  <2>2. ASSUME NEW j \in Keys, Committed(j) PROVE records'[k] = records[k]
    BY <1>1, <1>2, <2>2 DEF Committed, Inv, TypeOK
  <2>3. QED BY <2>1, <2>2, NextKeeps
<1>4. QED BY <1>2, <1>3 DEF Demonstrated

\* A process that is down has nothing to explain.
LEMMA DownIsExplained == ASSUME NEW d PROVE Explained(Down, d)
BY DEF Explained, Down

\* A step of one process that leaves the row alone, or writes what it holds:
\* what was a demonstration under way is then an answered one.
LEMMA Explains ==
  ASSUME Inv, AllExplained, Demonstrated => Demonstrated',
         NEW p \in Processes, NEW s, server' = [server EXCEPT ![p] = s],
         Explained(s, Demonstrated'),
         \/ UNCHANGED row
         \/ /\ row'.value = server[p].state
            /\ server[p].phase \in {"creating", "migrating", "commit"}
            /\ \/ server[p].phase # "commit"
               \/ server[p].route # "reused-signature"
               \/ server[p].response # "blocked"
               \/ Demonstrated'
  PROVE  AllExplained'
<1>1. RowExplained'
  <2>1. CASE UNCHANGED row
    BY <2>1 DEF AllExplained, RowExplained, NoRow
  <2>2. CASE ~UNCHANGED row
    <3>1. Explained(server[p], Demonstrated)
      BY DEF AllExplained
    <3>2. /\ row'.value = server[p].state /\ Nearly(server[p].state)
          /\ Restorable(server[p].state) \/ Demonstrated'
      BY <2>2, <3>1 DEF Explained
    <3>3. QED BY <3>2 DEF RowExplained
  <2>3. QED BY <2>1, <2>2
<1>2. ASSUME NEW o \in Processes PROVE Explained(server[o], Demonstrated)'
  <2>1. server \in [Processes -> Process]
    BY DEF Inv, TypeOK
  <2>2. CASE o = p
    BY <2>1, <2>2
  <2>3. CASE o # p
    <3>1. server'[o] = server[o] /\ Explained(server[o], Demonstrated)
      BY <2>1, <2>3 DEF AllExplained
    <3>2. QED BY <3>1 DEF Explained
  <2>4. QED BY <2>2, <2>3
<1>3. QED BY <1>1, <1>2 DEF AllExplained

\* Every step: what is not accepted is explained by an answered demonstration.
LEMMA ExplainedKept ==
  ASSUME Inv, AllExplained, [Next]_vars
  PROVE  AllExplained'
<1>0. /\ server \in [Processes -> Process] /\ (Demonstrated => Demonstrated')
      /\ \A p \in Processes : Fits(server[p]) /\ Explained(server[p], Demonstrated)
  BY DemonstratedStays DEF Inv, TypeOK, AllExplained
<1>1. CASE UNCHANGED vars
  BY <1>1 DEF AllExplained, RowExplained, Explained, Demonstrated, vars, NoRow
<1>2. Explained(Down, Demonstrated')
  BY DownIsExplained DEF Explained, Down
<1>3. ASSUME NEW s, Restorable(s.state), Nearly(s.state), CopyIsCurrent(s.state)
      PROVE  Explained(s, Demonstrated')
  BY <1>3 DEF Explained
<1>4. ASSUME NEW p \in Processes, Start(p) PROVE AllExplained'
  <2>1. CASE row = NoRow
    <3> DEFINE s == [Idle(Fresh, 0) EXCEPT !.phase = "creating"]
    <3>1. server' = [server EXCEPT ![p] = s] /\ UNCHANGED row
      BY <1>4, <2>1 DEF Start
    <3>2. s.state = Fresh
      BY DEF Idle, Down
    <3>3. Restorable(Fresh) /\ CopyIsCurrent(Fresh) /\ Nearly(Fresh)
      BY DEF Restorable, CopyIsCurrent, Nearly, ProvisioningRestores, Fresh
    <3> HIDE DEF s
    <3>4. Explained(s, Demonstrated')
      BY <1>3, <3>2, <3>3
    <3>5. QED BY <1>0, <3>1, <3>4, Explains
  <2>2. CASE row # NoRow
    <3> DEFINE phase == IF row.schema = 1 THEN "migrating" ELSE "idle"
               s == [Idle(Restored(row.value), row.version) EXCEPT !.phase = phase]
    <3>1. /\ server' = [server EXCEPT ![p] = s] /\ UNCHANGED row
          /\ Restorable(row.value) /\ row.value \in LabState
      BY <1>4, <2>2, StoreFacts DEF Start, Inv
    <3>2. s.state = Restored(row.value)
      BY DEF Idle, Down
    <3> HIDE DEF s
    <3>3. Explained(s, Demonstrated')
      BY <1>3, <3>1, <3>2, RestoredRestores
    <3>4. QED BY <1>0, <3>1, <3>3, Explains
  <2>3. QED BY <2>1, <2>2
<1>5. ASSUME NEW p \in Processes, FinishStart(p) PROVE AllExplained'
  <2>1. CASE server' = [server EXCEPT ![p] = Down] /\ UNCHANGED row
    BY <1>0, <1>2, <2>1, Explains
  <2>2. ASSUME NEW s, server' = [server EXCEPT ![p] = s], s.phase = "idle",
               s.state = server[p].state, row'.value = server[p].state,
               server[p].phase \in {"creating", "migrating"}
        PROVE  AllExplained'
    <3>1. /\ CopyIsCurrent(s.state) /\ Nearly(s.state)
          /\ Restorable(s.state) \/ Demonstrated
      BY <1>0, <2>2 DEF Explained
    <3>2. Explained(s, Demonstrated')
      BY <1>0, <3>1 DEF Explained
    <3>3. QED BY <1>0, <2>2, <3>2, Explains
  <2>3. CASE server[p].phase = "creating" /\ Created(2, server[p].state)
             /\ server' = [server EXCEPT ![p].phase = "idle"]
    <3> DEFINE s == [server[p] EXCEPT !.phase = "idle"]
    <3>1. server' = [server EXCEPT ![p] = s]
      BY <1>0, <2>3
    <3>2. s.phase = "idle" /\ s.state = server[p].state
      BY <1>0 DEF Process
    <3> HIDE DEF s
    <3>3. QED BY <2>2, <2>3, <3>1, <3>2 DEF Created
  <2>4. CASE server[p].phase = "migrating" /\ Swapped(2, server[p].state)
             /\ server' = [server EXCEPT ![p].phase = "idle",
                                         ![p].persistedVersion = @ + 1]
    <3> DEFINE v == server[p].persistedVersion + 1
               s == [server[p] EXCEPT !.phase = "idle", !.persistedVersion = v]
    <3>1. server' = [server EXCEPT ![p] = s]
      BY <1>0, <2>4
    <3>2. s.phase = "idle" /\ s.state = server[p].state
      BY <1>0 DEF Process
    <3> HIDE DEF s
    <3>3. QED BY <2>2, <2>4, <3>1, <3>2 DEF Swapped
  <2>5. QED BY <1>5, <2>1, <2>3, <2>4 DEF FinishStart
<1>6. ASSUME NEW p \in Processes, NEW k \in Keys, NEW route \in Routes,
             NEW late \in BOOLEAN, Handle(p, k, route, late)
      PROVE  AllExplained'
  <2> DEFINE lab == server[p].state
             serves == Serves(lab, route, late)
             next == IF serves THEN Effect(lab, route, late) ELSE RollBack(lab)
             response == IF serves THEN Outcome(route) ELSE "refused"
             before == IF serves THEN lab ELSE None
             s == Finalizing(p, k, route, next, response, before)
  <2>1. /\ server[p].phase = "idle" /\ UNCHANGED row /\ server[p] \in Process
        /\ CopyIsCurrent(lab) /\ Nearly(lab) /\ (Restorable(lab) \/ Demonstrated)
        /\ lab \in LabState
    BY <1>0, <1>6, IdleHistory DEF Handle, Explained
  <2>2. CASE ~serves /\ ~Restorable(lab)
    BY <1>0, <1>2, <1>6, <2>1, <2>2, Explains DEF Handle
  <2>3. CASE serves \/ Restorable(lab)
    <3>1. server' = [server EXCEPT ![p] = s]
      BY <1>6, <2>3 DEF Handle
    <3>2. /\ next \in LabState /\ Nearly(next) /\ CopyIsCurrent(next)
          /\ \/ Restorable(next) \/ Demonstrated
             \/ route = "reused-signature" /\ response = "blocked"
      <4>1. CASE serves
        <5>1. next = Effect(lab, route, late) /\ response = Outcome(route)
          BY <4>1
        <5>2. route = "reused-signature" => Outcome(route) = "blocked"
          BY DEF Outcome, Demonstrations
        <5> HIDE DEF next, response
        <5>3. QED BY <2>1, <4>1, <5>1, <5>2, EffectIsLab, EffectRestores
      <4>2. CASE ~serves
        BY <2>1, <2>3, <4>2, RestoreFacts, RestoredRestores DEF RollBack
      <4>3. QED BY <4>1, <4>2
    <3> HIDE DEF next, response, before
    <3>3. /\ s.phase = "commit" /\ s.route = route /\ s.response = response
          /\ s.state = Requested(next, k)
      BY <2>1 DEF Finalizing, Requested, Process
    <3> HIDE DEF s
    <3>4. /\ Nearly(s.state) /\ CopyIsCurrent(s.state)
          /\ Restorable(s.state) <=> Restorable(next)
      BY <3>2, <3>3, RequestedRestores
    <3>5. Explained(s, Demonstrated')
      BY <1>0, <3>2, <3>3, <3>4 DEF Explained
    <3>6. QED BY <1>0, <2>1, <3>1, <3>5, Explains
  <2>4. QED BY <2>2, <2>3
<1>7. ASSUME NEW p \in Processes, NEW k \in Keys, NEW route \in Routes,
             LookupFails(p, k, route)
      PROVE  AllExplained'
  <2> DEFINE lab == server[p].state
             s == Finalizing(p, k, route, lab, "refused", None)
  <2>1. /\ server[p].phase = "idle" /\ UNCHANGED row /\ server[p] \in Process
        /\ server' = [server EXCEPT ![p] = s]
        /\ CopyIsCurrent(lab) /\ Nearly(lab) /\ (Restorable(lab) \/ Demonstrated)
        /\ lab \in LabState
    BY <1>0, <1>7, IdleHistory DEF LookupFails, Explained
  <2>2. s.state = Requested(lab, k)
    BY <2>1 DEF Finalizing, Requested, Process
  <2> HIDE DEF s
  <2>3. /\ Nearly(s.state) /\ CopyIsCurrent(s.state)
        /\ Restorable(s.state) \/ Demonstrated
    BY <2>1, <2>2, RequestedRestores
  <2>4. Explained(s, Demonstrated')
    BY <1>0, <2>3 DEF Explained
  <2>5. QED BY <1>0, <2>1, <2>4, Explains
<1>8. ASSUME NEW p \in Processes, Commit(p) PROVE AllExplained'
  <2>1. server[p].phase = "commit" /\ server[p] \in Process
    BY <1>0, <1>8 DEF Commit
  <2>2. ASSUME NEW s, server' = [server EXCEPT ![p] = s], UNCHANGED row,
               s.phase \in {"replayed", "failed"}
        PROVE  AllExplained'
    BY <1>0, <2>2, Explains DEF Explained
  <2>3. CASE server' = [server EXCEPT ![p].phase = "replayed",
                                      ![p].response = records[server[p].key].response]
             /\ UNCHANGED row
    <3> DEFINE s == [server[p] EXCEPT !.phase = "replayed",
                                      !.response = records[server[p].key].response]
    <3>1. server' = [server EXCEPT ![p] = s] /\ s.phase = "replayed"
      BY <1>0, <2>1, <2>3 DEF Process
    <3> HIDE DEF s
    <3>2. QED BY <2>2, <2>3, <3>1
  <2>4. CASE server' = [server EXCEPT ![p].phase = "failed"] /\ UNCHANGED row
    <3> DEFINE s == [server[p] EXCEPT !.phase = "failed"]
    <3>1. server' = [server EXCEPT ![p] = s] /\ s.phase = "failed"
      BY <1>0, <2>1, <2>4 DEF Process
    <3> HIDE DEF s
    <3>2. QED BY <2>2, <2>4, <3>1
  <2>5. CASE /\ server' = [server EXCEPT ![p] =
                             Idle(server[p].state, server[p].persistedVersion + 1)]
             /\ RanOnce(server[p].key, server[p].route, server[p].response, 2,
                        server[p].state)
    <3> DEFINE s == Idle(server[p].state, server[p].persistedVersion + 1)
    <3>1. s.state = server[p].state /\ s.phase = "idle"
      BY DEF Idle, Down
    <3>2. row'.value = server[p].state
      BY <2>5 DEF RanOnce, Swapped
    <3>3. server[p].route = "reused-signature" /\ server[p].response = "blocked" =>
            Demonstrated'
      <4>1. server[p].key \in Keys
        BY <1>0, <2>1 DEF Fits, GoesBack
      <4>2. records'[server[p].key] = [request |-> server[p].route,
                                       response |-> server[p].response]
        BY <2>5, <4>1 DEF RanOnce, Inv, TypeOK
      <4>3. QED BY <4>1, <4>2 DEF Demonstrated, Demonstration
    <3>4. server' = [server EXCEPT ![p] = s]
      BY <2>5
    <3> HIDE DEF s
    <3>5. Explained(s, Demonstrated')
      BY <1>0, <2>1, <3>1, <3>3 DEF Explained
    <3>6. QED BY <1>0, <2>1, <3>2, <3>3, <3>4, <3>5, Explains
  <2>6. QED BY <1>8, <2>3, <2>4, <2>5 DEF Commit, RolledBack
<1>9. ASSUME NEW p \in Processes, Refresh(p) PROVE AllExplained'
  <2>1. row # NoRow /\ Restorable(row.value) /\ UNCHANGED row
    BY <1>9 DEF Inv, Fits, Seen, Refresh
  <2>2. row.value \in LabState
    BY <2>1, StoreFacts DEF Inv
  <2>3. Refreshed(p).state = Restored(row.value)
    BY DEF Refreshed, Idle, Down
  <2>4. Explained(Refreshed(p), Demonstrated')
    <3> DEFINE s == Refreshed(p)
    <3>1. /\ Restorable(s.state) /\ Nearly(s.state) /\ CopyIsCurrent(s.state)
      BY <2>1, <2>2, <2>3, RestoredRestores
    <3>2. QED BY <3>1 DEF Explained
  <2>5. QED BY <1>0, <1>9, <2>1, <2>4, Explains DEF Refresh
<1>10. ASSUME NEW p \in Processes, RefreshFails(p) PROVE AllExplained'
  <2> DEFINE before == server[p].rollback
             again == before # None /\ Restorable(before)
  <2>1. /\ server[p].phase \in {"replayed", "failed"} /\ UNCHANGED row
        /\ server[p] \in Process
    BY <1>0, <1>10 DEF RefreshFails
  <2>2. CASE server[p].phase = "replayed"
    <3> DEFINE s == [server[p] EXCEPT !.phase = "failed"]
    <3>1. server' = [server EXCEPT ![p] = s] /\ s.phase = "failed"
      BY <1>0, <1>10, <2>1, <2>2 DEF RefreshFails, Process
    <3> HIDE DEF s
    <3>2. Explained(s, Demonstrated')
      BY <3>1 DEF Explained
    <3>3. QED BY <1>0, <2>1, <3>1, <3>2, Explains
  <2>3. CASE server[p].phase = "failed" /\ again
    <3> DEFINE k == server[p].key
               s == Finalizing(p, k, server[p].route, RollBack(before), "refused", None)
    <3>1. server' = [server EXCEPT ![p] = s]
      BY <1>10, <2>1, <2>3 DEF RefreshFails
    <3>2. k \in Keys /\ before \in LabState
      BY <1>0, <2>1, <2>3 DEF Fits, GoesBack, Process
    <3>3. /\ RollBack(before) \in LabState /\ Restorable(RollBack(before))
          /\ Nearly(RollBack(before)) /\ CopyIsCurrent(RollBack(before))
      BY <2>3, <3>2, RestoreFacts, RestoredRestores DEF RollBack
    <3>4. s.state = Requested(RollBack(before), k)
      BY <2>1 DEF Finalizing, Requested, Process
    <3> HIDE DEF s, k
    <3>5. /\ Restorable(s.state) /\ Nearly(s.state) /\ CopyIsCurrent(s.state)
      BY <3>2, <3>3, <3>4, RequestedRestores
    <3>6. Explained(s, Demonstrated')
      BY <1>3, <3>5
    <3>7. QED BY <1>0, <2>1, <3>1, <3>6, Explains
  <2>4. CASE server[p].phase = "failed" /\ ~again
    <3>1. server' = [server EXCEPT ![p] = Down]
      BY <1>10, <2>1, <2>4 DEF RefreshFails
    <3>2. QED BY <1>0, <1>2, <2>1, <3>1, Explains
  <2>5. QED BY <2>1, <2>2, <2>3, <2>4
<1>11. ASSUME NEW p \in Processes, Crash(p) PROVE AllExplained'
  BY <1>0, <1>2, <1>11, Explains DEF Crash
<1>12. ASSUME NEW p \in Processes, NEW k \in Keys, NEW route \in Routes,
              Replay(p, k, route)
       PROVE  AllExplained'
  BY <1>12 DEF Replay, AllExplained, RowExplained, Explained, Demonstrated, NoRow
<1>13. QED BY <1>1, <1>4, <1>5, <1>6, <1>7, <1>8, <1>9, <1>10, <1>11, <1>12 DEF Next

\* README.md, "Stop and restart the process with the same path": provided that
\* what an earlier run left restores, a start refuses what was committed only
\* when a signature was reused late: the transaction is pending, its challenge
\* has expired, and the demonstration is on record.
THEOREM RefusalsAreLateDemonstrations ==
  ASSUME \A lab \in InitialLabs : Restorable(lab)
  PROVE  Spec => []RefusedOnlyAfterDemonstration
<1>1. Init => AllExplained
  <2>1. SUFFICES ASSUME Init PROVE AllExplained
    OBVIOUS
  <2>2. row # NoRow => Restorable(row.value)
    BY <2>1 DEF Init
  <2>3. RowExplained
    BY <2>2 DEF RowExplained, Nearly, ProvisioningRestores, Restorable
  <2>4. QED BY <2>1, <2>3, DownIsExplained DEF Init, AllExplained
<1>2. Inv /\ AllExplained /\ [Next]_vars => AllExplained'
  BY ExplainedKept
<1>3. AllExplained => RefusedOnlyAfterDemonstration
  BY DEF AllExplained, RowExplained, Nearly, Overdue, Demonstrated, Demonstration,
         RefusedOnlyAfterDemonstration
<1>4. QED BY <1>1, <1>2, <1>3, ProcessesFit, PTL DEF Spec

=============================================================================
