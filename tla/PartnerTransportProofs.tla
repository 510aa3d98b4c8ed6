------------------------ MODULE PartnerTransportProofs ------------------------
(***************************************************************************)
(* Both ends of the partner transport.  For any events, processes, lease   *)
(* and retry times, batch size and retry budget: the types hold, the       *)
(* dispatcher implements AtLeastOnce, and a live lease is left to its      *)
(* holder.  For any nonces, keys, bodies, replay window and clock skew:    *)
(* the receiver remembers an accepted request while it could be replayed,  *)
(* and an event takes effect at most once.                                 *)
(***************************************************************************)
EXTENDS PartnerDispatcher, WebhookReceiver, FiniteSetTheorems, SequenceTheorems, TLAPS

\* The events that were enqueued.
Known == {e \in Events : outbox[e].created > 0}

\* A process state that is well formed, works on events of E only, and holds a
\* 2xx answer only for an event whose effect is in A.
Sound(p, E, A) ==
  /\ p \in Process
  /\ p.pc = "idle" <=> p.batch = <<>>
  /\ \A i \in 1 .. Len(p.batch) : p.batch[i].event \in E
  /\ p.reply = "ok" => p.batch # <<>> /\ p.batch[1].event \in A

\* The inductive invariant: besides the types, every process is sound, only
\* enqueued events travel, and every acknowledged event was handled.
Inv ==
  /\ TypeOK
  /\ \A w \in Workers : Sound(workers[w], Known, applied)
  /\ late \subseteq Known /\ applied \cup deadLetters \subseteq Known
  /\ \A e \in Events : outbox[e].delivered =>
       outbox[e].created > 0 /\ e \in applied \cup deadLetters

\* What a process's own step does: its state stays sound, at most one event is
\* recorded in the sink, and at most that event, or one that was handled
\* before, is acknowledged.
SameExcept(c) ==
  \A e \in Events : /\ outbox'[e].created = outbox[e].created
                    /\ e # c => outbox'[e].delivered = outbox[e].delivered

Keeps ==
  \A e \in Events : /\ outbox'[e].created = outbox[e].created
                    /\ outbox'[e].delivered = outbox[e].delivered

Closes(c) ==
  /\ SameExcept(c)
  /\ ~outbox[c].delivered /\ outbox'[c].delivered

Moves(w) ==
  /\ outbox' \in [Events -> Row]
  /\ workers' \in [Workers -> Process]
  /\ \A v \in Workers \ {w} : workers'[v] = workers[v]
  /\ Sound(workers'[w], Known, applied)

-----------------------------------------------------------------------------
(* Rows and processes *)

\* The outbox operations leave rows behind.
LEMMA RowTypes ==
  ASSUME NEW r \in Row
  PROVE  /\ NoRow \in Row
         /\ \A c \in Nat : Enqueued(c) \in Row
         /\ \A w \in Workers : Claimed(r, w, LeaseTime) \in Row
         /\ Acknowledged(r) \in Row
         /\ \A t \in Nat : ReleasedFor(r, t) \in Row
         /\ Aged(r) \in Row
<1>1. MaximumAttempts \in Nat /\ LeaseTime \in Nat
  BY DispatcherAssumption
<1>2. NoRow \in Row
  BY <1>1 DEF NoRow, Row
<1>3. \A c \in Nat : Enqueued(c) \in Row
  BY <1>2 DEF Enqueued, Row
<1>4. \A w \in Workers : Claimed(r, w, LeaseTime) \in Row
  <2>1. (IF r.attempts < MaximumAttempts THEN r.attempts + 1 ELSE r.attempts)
          \in 0 .. MaximumAttempts
    BY <1>1 DEF Row
  <2>2. QED BY <1>1, <2>1 DEF Claimed, Row
<1>5. Acknowledged(r) \in Row
  BY <1>1 DEF Acknowledged, Row
<1>6. \A t \in Nat : ReleasedFor(r, t) \in Row
  BY <1>1 DEF ReleasedFor, Row
<1>7. Aged(r) \in Row
  <2>1. /\ (IF r.wait = 0 THEN 0 ELSE r.wait - 1) \in Nat
        /\ (IF r.lease = 0 THEN 0 ELSE r.lease - 1) \in Nat
    BY DEF Row
  <2>2. Aged(r) = [r EXCEPT !.wait = IF r.wait = 0 THEN 0 ELSE r.wait - 1,
                            !.lease = IF r.lease = 0 THEN 0 ELSE r.lease - 1]
    BY DEF Aged, Row
  <2>3. QED BY <2>1, <2>2 DEF Row
<1>8. QED BY <1>2, <1>3, <1>4, <1>5, <1>6, <1>7

\* The helpers that move a process on keep it sound.
LEMMA SoundSteps ==
  ASSUME NEW E, NEW A, NEW p, Sound(p, E, A), p.batch # <<>>
  PROVE  /\ Sound(Advance(p), E, A)
         /\ Sound(recordFailure(p), E, A)
         /\ recordFailure(p).batch = p.batch
         /\ \A e, pc : pc \in {"parking", "reparking"} =>
              Sound(AwaitSink(p, e, pc), E, A)
<1>0. /\ FailureThreshold \in Nat \ {0} /\ CooldownTime \in Nat
      /\ RetryDelay \in Nat
  BY DispatcherAssumption
<1>1. p \in Process /\ p.batch \in Seq(ClaimedEvent) /\ Len(p.batch) \in Nat \ {0}
  BY DEF Sound, Process
<1>2. Sound(Advance(p), E, A)
  <2>1. Tail(p.batch) \in Seq(ClaimedEvent)
    BY <1>1
  <2>2. Advance(p) \in Process
    BY <1>1, <2>1 DEF Advance, Process, Reply
  <2>3. /\ Advance(p).batch = Tail(p.batch) /\ Advance(p).reply = "none"
        /\ Advance(p).pc = IF Len(p.batch) = 1 THEN "idle" ELSE "ready"
    BY <1>1 DEF Advance, Process
  <2>4. Tail(p.batch) = <<>> <=> Len(p.batch) = 1
    <3>1. Len(Tail(p.batch)) = Len(p.batch) - 1
      BY <1>1
    <3>2. Tail(p.batch) = <<>> <=> Len(Tail(p.batch)) = 0
      BY <2>1, EmptySeq
    <3>3. QED BY <1>1, <3>1, <3>2
  <2>5. \A i \in 1 .. Len(Tail(p.batch)) : Tail(p.batch)[i].event \in E
    BY <1>1 DEF Sound
  <2>6. QED BY <2>2, <2>3, <2>4, <2>5 DEF Sound
<1>3. Sound(recordFailure(p), E, A) /\ recordFailure(p).batch = p.batch
  <2>1. recordFailure(p) \in Process
    <3>1. /\ (IF p.failures < FailureThreshold THEN p.failures + 1
                                              ELSE p.failures)
               \in 0 .. FailureThreshold
          /\ (IF p.failures + 1 >= FailureThreshold THEN CooldownTime
                                                   ELSE p.cooldown) \in Nat
      BY <1>0, <1>1 DEF Process
    <3>2. recordFailure(p) =
            [p EXCEPT !.failures = IF p.failures < FailureThreshold
                                     THEN p.failures + 1 ELSE p.failures,
                      !.cooldown = IF p.failures + 1 >= FailureThreshold
                                     THEN CooldownTime ELSE p.cooldown]
      BY <1>1 DEF recordFailure, Process
    <3>3. QED BY <1>1, <3>1, <3>2 DEF Process
  <2>2. /\ recordFailure(p).batch = p.batch /\ recordFailure(p).pc = p.pc
        /\ recordFailure(p).reply = p.reply
    BY <1>1 DEF recordFailure, Process
  <2>3. QED BY <2>1, <2>2 DEF Sound
<1>4. ASSUME NEW e, NEW pc \in {"parking", "reparking"}
      PROVE  Sound(AwaitSink(p, e, pc), E, A)
  <2>1. AwaitSink(p, e, pc) \in Process
    <3>1. (outbox[e].lease > 0) \in BOOLEAN
      OBVIOUS
    <3>2. QED BY <1>0, <1>1, <3>1 DEF AwaitSink, Process
  <2>2. /\ AwaitSink(p, e, pc).batch = p.batch
        /\ AwaitSink(p, e, pc).pc = pc
        /\ AwaitSink(p, e, pc).reply = p.reply
    BY <1>1 DEF AwaitSink, Process
  <2>3. QED BY <2>1, <2>2 DEF Sound
<1>5. QED BY <1>2, <1>3, <1>4

\* A sound process stays sound when more events are known and applied.
LEMMA SoundGrows ==
  ASSUME NEW E, NEW A, NEW F, NEW B, E \subseteq F, A \subseteq B,
         NEW p, Sound(p, E, A)
  PROVE  Sound(p, F, B)
  BY DEF Sound

-----------------------------------------------------------------------------
(* Processes *)

\* Replacing the state of one process by a sound one.
LEMMA MoveOne ==
  ASSUME TypeOK, NEW w \in Workers, NEW p, Sound(p, Known, applied),
         outbox' \in [Events -> Row], workers' = [workers EXCEPT ![w] = p]
  PROVE  Moves(w)
<1>1. p \in Process
  BY DEF Sound
<1>2. workers'[w] = p /\ workers' \in [Workers -> Process]
  BY <1>1 DEF TypeOK
<1>3. \A v \in Workers \ {w} : workers'[v] = workers[v]
  BY DEF TypeOK
<1>4. QED BY <1>2, <1>3 DEF Moves

\* The event a busy process works on was enqueued.
LEMMA CurrentKnown ==
  ASSUME Inv, NEW w \in Workers, workers[w].pc # "idle"
  PROVE  /\ Sound(workers[w], Known, applied)
         /\ workers[w].batch # <<>>
         /\ Current(w) \in Known /\ Current(w) \in Events
<1>1. Sound(workers[w], Known, applied) /\ workers[w].batch # <<>>
  BY DEF Inv, Sound
<1>2. workers[w].batch \in Seq(ClaimedEvent)
  BY <1>1 DEF Sound, Process
<1>3. 1 \in 1 .. Len(workers[w].batch)
  BY <1>1, <1>2, EmptySeq
<1>4. QED BY <1>1, <1>3 DEF Sound, Current, Known

\* A release changes no row's created or delivered.
LEMMA ReleaseKeeps ==
  ASSUME TypeOK, NEW e \in Events, NEW t \in Nat
  PROVE  LET o == [outbox EXCEPT ![e] = ReleasedFor(@, t)] IN
         /\ o \in [Events -> Row]
         /\ \A d \in Events : /\ o[d].created = outbox[d].created
                              /\ o[d].delivered = outbox[d].delivered
<1>1. outbox[e] \in Row /\ outbox \in [Events -> Row]
  BY DEF TypeOK
<1>2. ReleasedFor(outbox[e], t) \in Row
  BY <1>1, RowTypes
<1>3. /\ ReleasedFor(outbox[e], t).created = outbox[e].created
      /\ ReleasedFor(outbox[e], t).delivered = outbox[e].delivered
  BY <1>1 DEF ReleasedFor, Row
<1>4. QED BY <1>1, <1>2, <1>3

\* The catch clause keeps the process sound and closes no row.
LEMMA CaughtEffect ==
  ASSUME Inv, NEW w \in Workers, workers[w].pc # "idle",
         NEW p, Sound(p, Known, applied), p.batch = workers[w].batch,
         Caught(w, p)
  PROVE  Moves(w) /\ Keeps
<1>1. p.batch # <<>> /\ Current(w) \in Events
  BY CurrentKnown
<1>2. TypeOK /\ RetryDelay \in Nat
  BY DispatcherAssumption DEF Inv
<1> DEFINE f == recordFailure(p)
           e == Current(w)
<1>3. Sound(f, Known, applied) /\ f.batch # <<>>
  BY <1>1, SoundSteps
<1> HIDE DEF f, e
<1>4. CASE /\ workers' = [workers EXCEPT ![w] = AwaitSink(f, e, "reparking")]
           /\ outbox' = outbox
  <2>1. Sound(AwaitSink(f, e, "reparking"), Known, applied)
    BY <1>3, SoundSteps
  <2>2. QED BY <1>2, <1>4, <2>1, MoveOne DEF Keeps, TypeOK
<1>5. CASE /\ workers' = [workers EXCEPT ![w] = Advance(f)]
           /\ outbox' = TryRelease(w, e, outbox[e].lease > 0, RetryDelay)
  <2>1. Sound(Advance(f), Known, applied)
    BY <1>3, SoundSteps
  <2>2. outbox' \in [Events -> Row] /\ Keeps
    <3>1. CASE outbox' = outbox
      BY <3>1, <1>2 DEF Keeps, TypeOK
    <3>2. CASE outbox' = [outbox EXCEPT ![e] = ReleasedFor(@, RetryDelay)]
      BY <1>1, <1>2, <3>2, ReleaseKeeps DEF Keeps, e
    <3>3. QED BY <1>5, <3>1, <3>2 DEF TryRelease
  <2>3. QED BY <1>2, <1>5, <2>1, <2>2, MoveOne
<1>6. QED BY <1>4, <1>5 DEF Caught, f, e

\* An acknowledgement that may be made closes the current event's row.
LEMMA AcknowledgeEffect ==
  ASSUME Inv, NEW w \in Workers, workers[w].pc # "idle",
         NEW p, Sound(p, Known, applied), p.batch = workers[w].batch,
         NEW l, MayUpdate(Current(w), w, l), Acknowledge(w, p)
  PROVE  Moves(w) /\ Closes(Current(w))
<1>1. p.batch # <<>> /\ Current(w) \in Events /\ TypeOK
  BY CurrentKnown DEF Inv
<1> DEFINE e == Current(w)
<1>2. outbox \in [Events -> Row] /\ outbox[e] \in Row
  BY <1>1 DEF TypeOK
<1>3. Acknowledged(outbox[e]) \in Row
  BY <1>2, RowTypes
<1>4. /\ Acknowledged(outbox[e]).created = outbox[e].created
      /\ Acknowledged(outbox[e]).delivered
  BY <1>2 DEF Acknowledged, Row
<1>5. Sound(Advance(p), Known, applied)
  BY <1>1, SoundSteps
<1> HIDE DEF e
<1>6. outbox' = [outbox EXCEPT ![e] = Acknowledged(@)]
  BY DEF Acknowledge, e
<1>7. outbox' \in [Events -> Row] /\ Closes(e)
  <2>1. e \in Events /\ ~outbox[e].delivered
    BY <1>1 DEF MayUpdate, e
  <2>2. QED BY <1>2, <1>3, <1>4, <1>6, <2>1 DEF Closes, SameExcept
<1>8. Moves(w)
  BY <1>1, <1>5, <1>7, MoveOne DEF Acknowledge
<1>9. QED BY <1>7, <1>8 DEF e

-----------------------------------------------------------------------------
(* The steps of a process *)

\* What a process's own step does to the events.
Progress ==
  \/ Keeps /\ deadLetters' = deadLetters
  \/ \E c \in Known :
       /\ deadLetters' \in {deadLetters, deadLetters \cup {c}}
       /\ Keeps \/ (Closes(c) /\ c \in applied \cup deadLetters')

\* A claim hands out enqueued, undelivered rows and closes none.
LEMMA ClaimEffect ==
  ASSUME Inv, NEW w \in Workers, claimOutbox(w)
  PROVE  Moves(w) /\ Keeps
<1>0. TypeOK /\ outbox \in [Events -> Row] /\ workers \in [Workers -> Process]
  BY DEF Inv, TypeOK
<1>1. IsFiniteSet(Claimable)
  <2>1. Claimable \subseteq Events
    BY DEF Claimable
  <2>2. QED BY <2>1, FS_Subset, DispatcherAssumption
<1> DEFINE n == IF Cardinality(Claimable) < BatchSize
                  THEN Cardinality(Claimable) ELSE BatchSize
<1>2. n \in Nat
  BY <1>1, FS_CardinalityType, DispatcherAssumption
<1>3. PICK s \in ClaimLists(BatchSize) :
        /\ s # <<>>
        /\ outbox' = [e \in Events |->
             IF \E i \in DOMAIN s : s[i] = e
               THEN Claimed(outbox[e], w, LeaseTime) ELSE outbox[e]]
        /\ workers' = [workers EXCEPT
             ![w].pc = "ready",
             ![w].batch = [i \in DOMAIN s |->
                   [event |-> s[i], attempts |-> outbox'[s[i]].attempts]]]
  BY DEF claimOutbox
<1>4. s \in [1 .. n -> Claimable]
  BY DEF ClaimLists
<1> HIDE DEF n
<1>5. outbox' \in [Events -> Row] /\ Keeps
  <2>1. ASSUME NEW e \in Events
        PROVE  /\ outbox'[e] \in Row
               /\ outbox'[e].created = outbox[e].created
               /\ outbox'[e].delivered = outbox[e].delivered
    <3>1. outbox[e] \in Row
      BY <1>0
    <3>2. Claimed(outbox[e], w, LeaseTime) \in Row
      BY <3>1, RowTypes
    <3>3. /\ Claimed(outbox[e], w, LeaseTime).created = outbox[e].created
          /\ Claimed(outbox[e], w, LeaseTime).delivered = outbox[e].delivered
      BY <3>1 DEF Claimed, Row
    <3>4. \/ outbox'[e] = Claimed(outbox[e], w, LeaseTime)
          \/ outbox'[e] = outbox[e]
      BY <1>3
    <3>5. QED BY <3>1, <3>2, <3>3, <3>4
  <2>2. outbox' = [e \in Events |-> outbox'[e]]
    BY <1>3
  <2>3. QED BY <2>1, <2>2 DEF Keeps
<1> DEFINE b == [i \in 1 .. n |->
                   [event |-> s[i], attempts |-> outbox'[s[i]].attempts]]
<1>6. b \in Seq(ClaimedEvent) /\ Len(b) = n
  <2>1. ASSUME NEW i \in 1 .. n PROVE b[i] \in ClaimedEvent
    <3>1. s[i] \in Events
      BY <1>4 DEF Claimable
    <3>2. outbox'[s[i]] \in Row
      BY <1>5, <3>1
    <3>3. QED BY <3>1, <3>2 DEF ClaimedEvent, Row
  <2>2. b \in [1 .. n -> ClaimedEvent]
    BY <2>1
  <2>3. QED BY <1>2, <2>2
<1>7. b # <<>>
  <2>1. n # 0
    <3>1. SUFFICES ASSUME n = 0 PROVE FALSE
      OBVIOUS
    <3>2. s \in Seq(Claimable) /\ Len(s) = 0
      BY <1>4, <3>1
    <3>3. QED BY <1>3, <3>2, EmptySeq
  <2>2. QED BY <1>6, <2>1, EmptySeq
<1>8. \A i \in 1 .. n : b[i].event \in Known
  BY <1>4 DEF Claimable, Known
<1> DEFINE p == [workers[w] EXCEPT !.pc = "ready", !.batch = b]
<1>9. Sound(p, Known, applied)
  <2>1. workers[w] \in Process /\ workers[w].reply # "ok"
    <3>1. workers[w].pc = "idle" /\ workers[w] \in Process
      BY <1>0 DEF claimOutbox
    <3>2. QED BY <3>1 DEF Inv, Sound
  <2> HIDE DEF b
  <2>2. p \in Process /\ p.pc = "ready" /\ p.batch = b /\ p.reply # "ok"
    BY <1>6, <2>1 DEF Process
  <2>3. QED BY <1>6, <1>7, <1>8, <2>2 DEF Sound
<1>10. workers' = [workers EXCEPT ![w] = p]
  <2>1. DOMAIN s = 1 .. n
    BY <1>4
  <2>2. QED BY <1>3, <2>1
<1>11. QED BY <1>0, <1>5, <1>9, <1>10, MoveOne

\* A release inside the lease, with the process moving on.
LEMMA ReleaseEffect ==
  ASSUME Inv, NEW w \in Workers, workers[w].pc # "idle", NEW t \in Nat,
         NEW p, Sound(p, Known, applied), p.batch = workers[w].batch,
         \/ outbox' = [outbox EXCEPT ![Current(w)] = ReleasedFor(@, t)]
         \/ outbox' = outbox,
         workers' = [workers EXCEPT ![w] = Advance(p)]
  PROVE  Moves(w) /\ Keeps
<1>1. p.batch # <<>> /\ Current(w) \in Events /\ TypeOK
  BY CurrentKnown DEF Inv
<1>2. Sound(Advance(p), Known, applied)
  BY <1>1, SoundSteps
<1>3. outbox' \in [Events -> Row] /\ Keeps
  <2>1. CASE outbox' = outbox
    BY <1>1, <2>1 DEF Keeps, TypeOK
  <2>2. CASE outbox' = [outbox EXCEPT ![Current(w)] = ReleasedFor(@, t)]
    BY <1>1, <2>2, ReleaseKeeps DEF Keeps
  <2>3. QED BY <2>1, <2>2
<1>4. QED BY <1>1, <1>2, <1>3, MoveOne

\* Changing only a process's phase, within a batch, keeps it sound.
LEMMA PhaseEffect ==
  ASSUME Inv, NEW w \in Workers, workers[w].pc # "idle", NEW p,
         Sound(p, Known, applied), workers' = [workers EXCEPT ![w] = p],
         outbox' = outbox
  PROVE  Moves(w) /\ Keeps
  BY MoveOne DEF Inv, TypeOK, Keeps

\* Every step of dispatchOnce makes progress in this sense.
LEMMA DispatchEffect ==
  ASSUME Inv, NEW w \in Workers, dispatchOnce(w)
  PROVE  /\ Moves(w) /\ Progress
         /\ late' \subseteq Known
         /\ applied' = applied /\ crashes' = crashes
<1> DEFINE e == Current(w)
           Rest == late' \subseteq Known /\ applied' = applied
                     /\ crashes' = crashes
<1>0. TypeOK /\ late \subseteq Known
  BY DEF Inv
<1>1. ASSUME workers[w].pc # "idle"
      PROVE  /\ Sound(workers[w], Known, applied)
             /\ workers[w].batch # <<>> /\ e \in Known /\ e \in Events
             /\ Sound(recordFailure(workers[w]), Known, applied)
             /\ recordFailure(workers[w]).batch = workers[w].batch
  BY <1>1, CurrentKnown, SoundSteps
<1>2. RetryDelay \in Nat
  BY DispatcherAssumption
<1>3. CASE claimOutbox(w)
  BY <1>0, <1>3, ClaimEffect DEF claimOutbox, Progress
<1>4. CASE deferWhileOpen(w)
  <2>1. workers[w].pc # "idle" /\ Rest /\ deadLetters' = deadLetters
    BY <1>0, <1>4 DEF deferWhileOpen
  <2>2. CASE /\ outbox' = [outbox EXCEPT ![e] =
                             ReleasedFor(@, workers[w].cooldown)]
             /\ workers' = [workers EXCEPT ![w] = Advance(@)]
    <3>1. workers[w].cooldown \in Nat
      BY <1>1, <2>1 DEF Sound, Process
    <3>2. workers' = [workers EXCEPT ![w] = Advance(workers[w])]
      BY <2>2
    <3>3. Moves(w) /\ Keeps
      BY <1>1, <2>1, <2>2, <3>1, <3>2, ReleaseEffect
    <3>4. QED BY <2>1, <3>3 DEF Progress
  <2>3. CASE Caught(w, workers[w])
    BY <1>1, <2>1, <2>3, CaughtEffect DEF Progress
  <2>4. QED BY <1>4, <2>2, <2>3 DEF deferWhileOpen
<1>5. CASE rejectMalformed(w)
  <2>1. /\ workers[w].pc # "idle" /\ Rest /\ deadLetters' = deadLetters
        /\ Caught(w, workers[w])
    BY <1>0, <1>5 DEF rejectMalformed
  <2>2. QED BY <1>1, <2>1, CaughtEffect DEF Progress
<1>6. CASE send(w)
  <2>1. /\ workers[w].pc # "idle" /\ Rest /\ deadLetters' = deadLetters
        /\ outbox' = outbox
        /\ workers' = [workers EXCEPT ![w] = [workers[w] EXCEPT !.pc = "sending"]]
    BY <1>0, <1>6 DEF send
  <2>2. Sound([workers[w] EXCEPT !.pc = "sending"], Known, applied)
    BY <1>1, <2>1 DEF Sound, Process
  <2>3. QED BY <2>1, <2>2, PhaseEffect DEF Progress
<1>7. CASE delivered(w)
  <2> DEFINE p == [workers[w] EXCEPT !.failures = 0, !.cooldown = 0]
  <2>1. /\ workers[w].pc # "idle" /\ Rest /\ deadLetters' = deadLetters
        /\ workers[w].reply = "ok"
    BY <1>0, <1>7 DEF delivered
  <2>2. Sound(p, Known, applied) /\ p.batch = workers[w].batch
    <3>1. 0 \in 0 .. FailureThreshold
      BY DispatcherAssumption
    <3>2. QED BY <1>1, <2>1, <3>1 DEF Sound, Process
  <2>3. e \in applied
    BY <1>1, <2>1 DEF Sound, Current
  <2>4. CASE /\ MayUpdate(e, w, outbox[e].lease > 0) /\ Acknowledge(w, p)
    <3>1. Moves(w) /\ Closes(e)
      BY <2>1, <2>2, <2>4, AcknowledgeEffect
    <3>2. QED BY <1>1, <2>1, <2>3, <3>1 DEF Progress
  <2>5. CASE Caught(w, p)
    <3>1. Moves(w) /\ Keeps
      BY <2>1, <2>2, <2>5, CaughtEffect
    <3>2. QED BY <2>1, <3>1 DEF Progress
  <2>6. QED BY <1>7, <2>4, <2>5 DEF delivered
<1>8. CASE retryable(w)
  <2> DEFINE p == recordFailure(workers[w])
  <2>1. workers[w].pc # "idle" /\ Rest /\ deadLetters' = deadLetters
    BY <1>0, <1>8 DEF retryable
  <2>2. Sound(p, Known, applied) /\ p.batch = workers[w].batch
    BY <1>1, <2>1
  <2> HIDE DEF p
  <2>3. CASE /\ workers' = [workers EXCEPT ![w] = AwaitSink(p, e, "parking")]
             /\ outbox' = outbox
    <3>1. Sound(AwaitSink(p, e, "parking"), Known, applied)
      BY <1>1, <2>1, <2>2, SoundSteps
    <3>2. QED BY <2>1, <2>3, <3>1, PhaseEffect DEF Progress
  <2>4. CASE /\ outbox' = [outbox EXCEPT ![e] = ReleasedFor(@, RetryDelay)]
             /\ workers' = [workers EXCEPT ![w] = Advance(p)]
    <3>1. Moves(w) /\ Keeps
      BY <1>2, <2>1, <2>2, <2>4, ReleaseEffect
    <3>2. QED BY <2>1, <3>1 DEF Progress
  <2>5. CASE Caught(w, p)
    <3>1. Moves(w) /\ Keeps
      BY <2>1, <2>2, <2>5, CaughtEffect
    <3>2. QED BY <2>1, <3>1 DEF Progress
  <2>6. QED BY <1>8, <2>3, <2>4, <2>5 DEF retryable, p
<1>9. CASE permanent(w)
  <2>1. /\ workers[w].pc # "idle" /\ Rest /\ deadLetters' = deadLetters
        /\ outbox' = outbox
        /\ workers' = [workers EXCEPT ![w] = AwaitSink(workers[w], e, "parking")]
    BY <1>0, <1>9 DEF permanent
  <2>2. Sound(AwaitSink(workers[w], e, "parking"), Known, applied)
    BY <1>1, <2>1, SoundSteps
  <2>3. QED BY <2>1, <2>2, PhaseEffect DEF Progress
<1>10. CASE sendFails(w)
  <2>1. /\ workers[w].pc # "idle" /\ deadLetters' = deadLetters
        /\ applied' = applied /\ crashes' = crashes
        /\ Caught(w, workers[w]) /\ GiveUp(w)
    BY <1>10 DEF sendFails
  <2>2. late' \subseteq Known
    BY <1>0, <1>1, <2>1 DEF GiveUp
  <2>3. QED BY <1>1, <2>1, <2>2, CaughtEffect DEF Progress
<1>11. CASE deadLetter(w)
  <2>1. /\ workers[w].pc # "idle" /\ Rest
        /\ deadLetters' = deadLetters \cup {e}
    BY <1>0, <1>11 DEF deadLetter
  <2>2. CASE MayUpdate(e, w, workers[w].inLease) /\ Acknowledge(w, workers[w])
    <3>1. Moves(w) /\ Closes(e)
      BY <1>1, <2>1, <2>2, AcknowledgeEffect
    <3>2. QED BY <1>1, <2>1, <3>1 DEF Progress
  <2>3. CASE Caught(w, workers[w])
    <3>1. Moves(w) /\ Keeps
      BY <1>1, <2>1, <2>3, CaughtEffect
    <3>2. QED BY <1>1, <2>1, <3>1 DEF Progress
  <2>4. CASE workers' = [workers EXCEPT ![w] = Advance(@)] /\ outbox' = outbox
    <3>1. workers' = [workers EXCEPT ![w] = Advance(workers[w])]
      BY <2>4
    <3>2. Moves(w) /\ Keeps
      BY <1>1, <1>2, <2>1, <2>4, <3>1, ReleaseEffect
    <3>3. QED BY <1>1, <2>1, <3>2 DEF Progress
  <2>5. QED BY <1>11, <2>2, <2>3, <2>4 DEF deadLetter
<1>12. CASE deadLetterFails(w)
  <2>1. /\ workers[w].pc # "idle" /\ Rest
        /\ deadLetters' \in {deadLetters, deadLetters \cup {e}}
    BY <1>0, <1>12 DEF deadLetterFails
  <2>2. CASE Caught(w, workers[w])
    <3>1. Moves(w) /\ Keeps
      BY <1>1, <2>1, <2>2, CaughtEffect
    <3>2. QED BY <1>1, <2>1, <3>1 DEF Progress
  <2>3. CASE /\ workers' = [workers EXCEPT ![w] = Advance(@)]
             /\ outbox' = TryRelease(w, e, workers[w].inLease, workers[w].retryIn)
    <3>1. workers' = [workers EXCEPT ![w] = Advance(workers[w])]
      BY <2>3
    <3>2. workers[w].retryIn \in Nat
      BY <1>1, <2>1 DEF Sound, Process
    <3>3. \/ outbox' = [outbox EXCEPT ![e] = ReleasedFor(@, workers[w].retryIn)]
          \/ outbox' = outbox
      BY <2>3 DEF TryRelease
    <3>4. Moves(w) /\ Keeps
      BY <1>1, <2>1, <3>1, <3>2, <3>3, ReleaseEffect
    <3>5. QED BY <1>1, <2>1, <3>4 DEF Progress
  <2>4. QED BY <1>12, <2>2, <2>3 DEF deadLetterFails
<1>13. QED
  BY <1>3, <1>4, <1>5, <1>6, <1>7, <1>8, <1>9, <1>10, <1>11, <1>12
  DEF dispatchOnce

-----------------------------------------------------------------------------
(* The invariant *)

\* Types, soundness and origin of the events make up Inv, whatever step led to
\* them, provided that acknowledged events were handled.
LEMMA InvFromParts ==
  ASSUME outbox \in [Events -> Row], workers \in [Workers -> Process],
         \A w \in Workers : Sound(workers[w], Known, applied),
         late \subseteq Known, applied \subseteq Known, deadLetters \subseteq Known,
         crashes \in 0 .. MaxCrashes,
         \A e \in Events : outbox[e].delivered =>
           outbox[e].created > 0 /\ e \in applied \cup deadLetters
  PROVE  Inv
<1>1. Known \subseteq Events
  BY DEF Known
<1>2. \A w \in Workers : workers[w].pc = "idle" <=> workers[w].batch = <<>>
  BY DEF Sound
<1>3. QED BY <1>1, <1>2 DEF Inv, TypeOK

\* The same after a step.
LEMMA InvAfterStep ==
  ASSUME outbox' \in [Events -> Row], workers' \in [Workers -> Process],
         \A w \in Workers : Sound(workers'[w], Known', applied'),
         late' \subseteq Known', applied' \subseteq Known',
         deadLetters' \subseteq Known', crashes' \in 0 .. MaxCrashes,
         \A e \in Events : outbox'[e].delivered =>
           outbox'[e].created > 0 /\ e \in applied' \cup deadLetters'
  PROVE  Inv'
<1>1. Known' \subseteq Events
  BY DEF Known
<1>2. \A w \in Workers : workers'[w].pc = "idle" <=> workers'[w].batch = <<>>
  BY DEF Sound
<1>3. QED BY <1>1, <1>2 DEF Inv, TypeOK

\* The empty system satisfies the invariant.
LEMMA InvInit == Init => Inv
<1> SUFFICES ASSUME Init PROVE Inv
  OBVIOUS
<1>0. /\ MaximumAttempts \in Nat /\ FailureThreshold \in Nat
      /\ MaxCrashes \in Nat
  BY DispatcherAssumption
<1>1. NoRow \in Row /\ ~NoRow.delivered
  BY <1>0 DEF NoRow, Row
<1>2. Fresh \in Process
  BY <1>0, EmptySeq DEF Fresh, Process, Reply
<1>3. Sound(Fresh, Known, applied)
  <2>1. Fresh.pc = "idle" /\ Fresh.batch = <<>> /\ Fresh.reply # "ok"
    BY DEF Fresh
  <2>2. 1 .. Len(Fresh.batch) = {}
    BY <2>1, EmptySeq
  <2>3. QED BY <1>2, <2>1, <2>2 DEF Sound
<1>4. /\ outbox \in [Events -> Row] /\ workers \in [Workers -> Process]
      /\ \A w \in Workers : workers[w] = Fresh
      /\ \A e \in Events : ~outbox[e].delivered
  BY <1>1, <1>2 DEF Init
<1>5. late = {} /\ applied = {} /\ deadLetters = {} /\ crashes \in 0 .. MaxCrashes
  BY <1>0 DEF Init
<1>6. QED BY <1>3, <1>4, <1>5, InvFromParts

\* A step of one process, or of the partner for it, preserves the invariant.
LEMMA InvByMove ==
  ASSUME Inv, NEW w \in Workers, Moves(w), Progress, late' \subseteq Known,
         applied' = applied, crashes' = crashes
  PROVE  Inv'
<1>1. \A e \in Events : outbox'[e].created = outbox[e].created
  BY DEF Progress, Keeps, Closes, SameExcept
<1>2. Known' = Known
  BY <1>1 DEF Known
<1>3. \A v \in Workers : Sound(workers'[v], Known, applied)
  BY DEF Moves, Inv
<1>4. /\ deadLetters' \subseteq Known /\ applied \subseteq Known
      /\ deadLetters \subseteq deadLetters'
  BY DEF Progress, Inv
<1>5. \A e \in Events : outbox'[e].delivered =>
        outbox'[e].created > 0 /\ e \in applied' \cup deadLetters'
  <2>1. SUFFICES ASSUME NEW e \in Events, outbox'[e].delivered
                 PROVE  outbox[e].created > 0 /\ e \in applied \cup deadLetters'
    BY <1>1
  <2>2. CASE outbox[e].delivered
    BY <1>4, <2>2 DEF Inv
  <2>3. CASE ~outbox[e].delivered
    <3>1. PICK c \in Known : Closes(c) /\ c \in applied \cup deadLetters'
      BY <2>1, <2>3 DEF Progress, Keeps
    <3>2. e = c
      BY <2>1, <2>3, <3>1 DEF Closes, SameExcept
    <3>3. QED BY <3>1, <3>2 DEF Known
  <2>4. QED BY <2>2, <2>3
<1>6. crashes' \in 0 .. MaxCrashes
  BY DEF Inv, TypeOK
<1>7. \A v \in Workers : Sound(workers'[v], Known', applied')
  BY <1>2, <1>3
<1>8. QED BY <1>2, <1>4, <1>5, <1>6, <1>7, InvAfterStep DEF Moves

\* A new row has a positive place in the order of creation.
LEMMA EnqueueEffect ==
  ASSUME TypeOK, NEW e \in Events, enqueue(e)
  PROVE  \E c \in Nat \ {0} : outbox' = [outbox EXCEPT ![e] = Enqueued(c)]
<1>1. PICK c0 \in LatestCreated : \E c \in {c0, c0 + 1} \ {0} :
        outbox' = [outbox EXCEPT ![e] = Enqueued(c)]
  BY DEF enqueue
<1>2. c0 \in Nat
  BY DEF TypeOK, LatestCreated, Row
<1>3. {c0, c0 + 1} \ {0} \subseteq Nat \ {0}
  BY <1>2
<1>4. PICK c \in {c0, c0 + 1} \ {0} :
        outbox' = [outbox EXCEPT ![e] = Enqueued(c)]
  BY <1>1
<1>5. QED BY <1>3, <1>4

\* Every step preserves the invariant.
LEMMA InvStep == Inv /\ [Next]_vars => Inv'
<1> SUFFICES ASSUME Inv, [Next]_vars PROVE Inv'
  OBVIOUS
<1>0. /\ TypeOK /\ outbox \in [Events -> Row]
      /\ workers \in [Workers -> Process] /\ crashes \in 0 .. MaxCrashes
  BY DEF Inv, TypeOK
<1>1. ASSUME NEW e \in Events, enqueue(e) PROVE Inv'
  <2>1. PICK c \in Nat \ {0} : outbox' = [outbox EXCEPT ![e] = Enqueued(c)]
    BY <1>0, <1>1, EnqueueEffect
  <2>2. Enqueued(c) \in Row /\ Enqueued(c).created = c /\ ~Enqueued(c).delivered
    <3>1. outbox[e] \in Row
      BY <1>0
    <3>2. Enqueued(c) \in Row
      BY <3>1, RowTypes
    <3>3. QED BY <3>2 DEF Enqueued, NoRow
  <2>3. outbox' \in [Events -> Row] /\ Known \subseteq Known'
    BY <1>0, <2>1, <2>2 DEF Known
  <2>4. UNCHANGED <<workers, late, applied, deadLetters, crashes>>
    BY <1>1 DEF enqueue
  <2>5. \A w \in Workers : Sound(workers'[w], Known', applied')
    BY <2>3, <2>4, SoundGrows DEF Inv
  <2>6. \A d \in Events : outbox'[d].delivered =>
          outbox'[d].created > 0 /\ d \in applied' \cup deadLetters'
    BY <1>0, <2>1, <2>2, <2>4 DEF Inv
  <2>7. /\ workers' \in [Workers -> Process] /\ late' \subseteq Known'
        /\ applied' \subseteq Known' /\ deadLetters' \subseteq Known'
        /\ crashes' \in 0 .. MaxCrashes
    BY <1>0, <2>3, <2>4 DEF Inv
  <2>8. QED BY <2>3, <2>5, <2>6, <2>7, InvAfterStep
<1>2. ASSUME NEW e \in Events, lateRequest(e) PROVE Inv'
  <2>1. /\ e \in late /\ applied' = applied \cup {e} /\ late' = late \ {e}
        /\ UNCHANGED <<outbox, workers, deadLetters, crashes>>
    BY <1>2 DEF lateRequest
  <2>2. Known' = Known
    BY <2>1 DEF Known
  <2>3. \A w \in Workers : Sound(workers'[w], Known', applied')
    BY <2>1, <2>2, SoundGrows DEF Inv
  <2>4. late' \subseteq Known' /\ applied' \subseteq Known'
          /\ deadLetters' \subseteq Known'
    BY <2>1, <2>2 DEF Inv
  <2>5. QED BY <1>0, <2>1, <2>3, <2>4, InvAfterStep DEF Inv
<1>3. ASSUME NEW w \in Workers, dispatchOnce(w) PROVE Inv'
  BY <1>3, DispatchEffect, InvByMove
<1>4. ASSUME NEW w \in Workers, Crash(w) PROVE Inv'
  <2>1. /\ crashes < MaxCrashes /\ crashes' = crashes + 1
        /\ workers[w].pc # "idle" /\ GiveUp(w)
        /\ workers' = [workers EXCEPT ![w] = Fresh]
        /\ UNCHANGED <<outbox, applied, deadLetters>>
    BY <1>4 DEF Crash
  <2>2. Known' = Known
    BY <2>1 DEF Known
  <2>3. Sound(Fresh, Known, applied)
    <3>1. Fresh.pc = "idle" /\ Fresh.batch = <<>> /\ Fresh.reply # "ok"
      BY DEF Fresh
    <3>2. 1 .. Len(Fresh.batch) = {}
      BY <3>1, EmptySeq
    <3>3. Fresh \in Process
      BY DispatcherAssumption, EmptySeq DEF Fresh, Process, Reply
    <3>4. QED BY <3>1, <3>2, <3>3 DEF Sound
  <2>4. workers' \in [Workers -> Process]
    BY <1>0, <2>1, <2>3 DEF Sound
  <2>5. \A v \in Workers : Sound(workers'[v], Known', applied')
    BY <1>0, <2>1, <2>2, <2>3 DEF Inv
  <2>6. late' \subseteq Known'
    BY <2>1, <2>2, CurrentKnown DEF GiveUp, Inv
  <2>7. crashes' \in 0 .. MaxCrashes
    BY <1>0, <2>1, DispatcherAssumption
  <2>8. QED BY <1>0, <2>1, <2>2, <2>4, <2>5, <2>6, <2>7, InvAfterStep DEF Inv
<1>5. ASSUME NEW w \in Workers, NEW status \in Reply \ {"none"},
             partnerAnswers(w, status)
      PROVE  Inv'
  <2> DEFINE p == [workers[w] EXCEPT !.reply = status]
  <2>1. /\ workers[w].pc # "idle" /\ workers' = [workers EXCEPT ![w] = p]
        /\ applied' = IF status = "ok" THEN applied \cup {Current(w)} ELSE applied
        /\ UNCHANGED <<outbox, late, deadLetters, crashes>>
    BY <1>5 DEF partnerAnswers
  <2>2. Known' = Known
    BY <2>1 DEF Known
  <2>3. Current(w) \in Known /\ Sound(workers[w], Known, applied)
          /\ workers[w].batch # <<>>
    BY <2>1, CurrentKnown
  <2>4. p \in Process /\ p.reply = status /\ p.batch = workers[w].batch
          /\ p.pc = workers[w].pc
    BY <2>3 DEF Sound, Process
  <2>5. Sound(p, Known, applied')
    BY <2>1, <2>3, <2>4 DEF Sound, Current
  <2> HIDE DEF p
  <2>6. workers' \in [Workers -> Process]
    BY <1>0, <2>1, <2>4
  <2>7. applied \subseteq applied' /\ applied' \subseteq Known
    BY <2>1, <2>3 DEF Inv
  <2>8. \A v \in Workers : Sound(workers'[v], Known, applied')
    BY <1>0, <2>1, <2>5, <2>7, SoundGrows DEF Inv
  <2>9. \A v \in Workers : Sound(workers'[v], Known', applied')
    BY <2>2, <2>8
  <2>10. QED BY <1>0, <2>1, <2>2, <2>6, <2>7, <2>9, InvAfterStep DEF Inv
<1>6. CASE Tick
  <2>1. /\ outbox' = [e \in Events |-> Aged(outbox[e])]
        /\ workers' = [w \in Workers |-> Cooled(workers[w])]
        /\ UNCHANGED <<late, applied, deadLetters, crashes>>
    BY <1>6 DEF Tick
  <2>2. ASSUME NEW e \in Events
        PROVE  /\ Aged(outbox[e]) \in Row
               /\ Aged(outbox[e]).created = outbox[e].created
               /\ Aged(outbox[e]).delivered = outbox[e].delivered
    <3>1. outbox[e] \in Row
      BY <1>0
    <3>2. Aged(outbox[e]) \in Row
      BY <3>1, RowTypes
    <3>3. QED BY <3>1, <3>2 DEF Aged, Row
  <2>3. outbox' \in [Events -> Row] /\ Known' = Known
    BY <2>1, <2>2 DEF Known
  <2>4. ASSUME NEW w \in Workers PROVE Sound(Cooled(workers[w]), Known, applied)
    <3> DEFINE p == workers[w]
    <3>1. p \in Process /\ Sound(p, Known, applied)
      BY <1>0 DEF Inv
    <3>2. /\ (IF p.cooldown = 0 THEN 0 ELSE p.cooldown - 1) \in Nat
          /\ (IF p.retryIn = 0 THEN 0 ELSE p.retryIn - 1) \in Nat
      BY <3>1 DEF Process
    <3>3. Cooled(p) =
            [p EXCEPT !.cooldown = IF p.cooldown = 0 THEN 0 ELSE p.cooldown - 1,
                      !.retryIn = IF p.retryIn = 0 THEN 0 ELSE p.retryIn - 1]
      BY <3>1 DEF Cooled, Process
    <3>4. /\ Cooled(p) \in Process /\ Cooled(p).pc = p.pc
          /\ Cooled(p).batch = p.batch /\ Cooled(p).reply = p.reply
      BY <3>1, <3>2, <3>3 DEF Process
    <3>5. QED BY <3>1, <3>4 DEF Sound
  <2>5. \A w \in Workers : Sound(workers'[w], Known, applied)
    BY <2>1, <2>4
  <2>6. workers' \in [Workers -> Process]
    BY <2>1, <2>4 DEF Sound
  <2>7. \A w \in Workers : Sound(workers'[w], Known', applied')
    BY <2>1, <2>3, <2>5
  <2>8. \A e \in Events : outbox'[e].delivered =>
          outbox'[e].created > 0 /\ e \in applied' \cup deadLetters'
    BY <2>1, <2>2 DEF Inv
  <2>9. QED BY <1>0, <2>1, <2>3, <2>6, <2>7, <2>8, InvAfterStep DEF Inv
<1>7. CASE UNCHANGED vars
  BY <1>7 DEF vars, Inv, TypeOK, Sound, Known
<1>8. QED BY <1>1, <1>2, <1>3, <1>4, <1>5, <1>6, <1>7 DEF Next

\* Spec => []TypeOK: rows and processes keep their shape, an idle process has
\* no batch and a busy one always has an event to work on, through every catch
\* clause, crash and restart.
THEOREM DispatcherTypes == Spec => []TypeOK
<1>1. Inv => TypeOK
  BY DEF Inv
<1>2. QED BY <1>1, InvInit, InvStep, PTL DEF Spec

-----------------------------------------------------------------------------
(* The refinement *)

\* A step that closes no row and handles at most one enqueued event.
LEMMA HandleStep ==
  ASSUME Inv, Keeps, NEW c \in Known,
         Handled' \in {Handled, Handled \cup {c}}
  PROVE  [Promise!Next]_<<Queued, Handled, Closed>>
<1>1. Queued' = Queued /\ Closed' = Closed
  BY DEF Keeps, Queued, Closed
<1>2. c \in Events /\ c \in Queued \cup Closed
  BY DEF Known, Queued, Closed
<1>3. CASE Handled' = Handled
  BY <1>1, <1>3
<1>4. CASE Handled' = Handled \cup {c}
  <2>1. Promise!Handle(c)
    BY <1>1, <1>2, <1>4 DEF Promise!Handle
  <2>2. QED BY <1>2, <2>1 DEF Promise!Next
<1>5. QED BY <1>3, <1>4

\* A step that closes the row of c.
LEMMA CloseStep ==
  ASSUME Inv, NEW c \in Known, Closes(c), c \in Handled',
         Handled' \in {Handled, Handled \cup {c}}
  PROVE  Promise!Next
<1>1. c \in Events /\ c \in Queued
  BY DEF Known, Queued, Closes
<1>2. Queued' = Queued \ {c} /\ Closed' = Closed \cup {c}
  BY <1>1 DEF Queued, Closed, Closes, SameExcept
<1>3. Promise!Close(c)
  BY <1>1, <1>2 DEF Promise!Close
<1>4. QED BY <1>1, <1>3 DEF Promise!Next

\* A step of a process maps to a step of the promise, or to none.
LEMMA ProgressStep ==
  ASSUME Inv, Progress, applied' = applied
  PROVE  [Promise!Next]_<<Queued, Handled, Closed>>
<1>1. CASE Keeps /\ deadLetters' = deadLetters
  BY <1>1 DEF Keeps, Queued, Handled, Closed
<1>2. CASE \E c \in Known :
             /\ deadLetters' \in {deadLetters, deadLetters \cup {c}}
             /\ Keeps \/ (Closes(c) /\ c \in applied \cup deadLetters')
  <2>1. PICK c \in Known :
          /\ deadLetters' \in {deadLetters, deadLetters \cup {c}}
          /\ Keeps \/ (Closes(c) /\ c \in applied \cup deadLetters')
    BY <1>2
  <2>2. Handled' \in {Handled, Handled \cup {c}}
    BY <2>1 DEF Handled
  <2>3. CASE Keeps
    BY <2>2, <2>3, HandleStep
  <2>4. CASE Closes(c) /\ c \in applied \cup deadLetters'
    <3>1. c \in Handled'
      BY <2>4 DEF Handled
    <3>2. QED BY <2>2, <2>4, <3>1, CloseStep
  <2>5. QED BY <2>1, <2>3, <2>4
<1>3. QED BY <1>1, <1>2 DEF Progress

\* Every step maps to a step of the promise, or to none.
LEMMA PromiseStep ==
  Inv /\ [Next]_vars => [Promise!Next]_<<Queued, Handled, Closed>>
<1> SUFFICES ASSUME Inv, [Next]_vars
             PROVE  [Promise!Next]_<<Queued, Handled, Closed>>
  OBVIOUS
<1>0. TypeOK /\ outbox \in [Events -> Row]
  BY DEF Inv, TypeOK
<1>1. ASSUME NEW e \in Events, enqueue(e) PROVE Promise!Next
  <2>1. PICK c \in Nat \ {0} : outbox' = [outbox EXCEPT ![e] = Enqueued(c)]
    BY <1>0, <1>1, EnqueueEffect
  <2>2. Enqueued(c).created = c /\ ~Enqueued(c).delivered
    BY DEF Enqueued, NoRow
  <2>3. ~outbox[e].delivered /\ outbox[e].created = 0
    BY <1>1 DEF enqueue, Inv
  <2>4. e \notin Queued \cup Closed
    BY <2>3 DEF Queued, Closed
  <2>5. /\ outbox'[e].created > 0 /\ ~outbox'[e].delivered
        /\ \A d \in Events \ {e} : outbox'[d] = outbox[d]
    BY <1>0, <2>1, <2>2
  <2>6. Queued' = Queued \cup {e} /\ Closed' = Closed
    BY <2>3, <2>5 DEF Queued, Closed
  <2>7. Handled' = Handled
    BY <1>1 DEF enqueue, Handled
  <2>8. Promise!Enqueue(e)
    BY <2>4, <2>6, <2>7 DEF Promise!Enqueue
  <2>9. QED BY <2>8 DEF Promise!Next
<1>2. ASSUME NEW e \in Events, lateRequest(e)
      PROVE  [Promise!Next]_<<Queued, Handled, Closed>>
  <2>1. e \in Known /\ Handled' = Handled \cup {e} /\ Keeps
    BY <1>2 DEF lateRequest, Inv, Handled, Keeps
  <2>2. QED BY <2>1, HandleStep
<1>3. ASSUME NEW w \in Workers, dispatchOnce(w)
      PROVE  [Promise!Next]_<<Queued, Handled, Closed>>
  BY <1>3, DispatchEffect, ProgressStep
<1>4. ASSUME NEW w \in Workers, Crash(w)
      PROVE  [Promise!Next]_<<Queued, Handled, Closed>>
  BY <1>4 DEF Crash, Queued, Handled, Closed
<1>5. ASSUME NEW w \in Workers, NEW status \in Reply \ {"none"},
             partnerAnswers(w, status)
      PROVE  [Promise!Next]_<<Queued, Handled, Closed>>
  <2>1. Current(w) \in Known
    BY <1>5, CurrentKnown DEF partnerAnswers
  <2>2. Keeps /\ Handled' \in {Handled, Handled \cup {Current(w)}}
    BY <1>5 DEF partnerAnswers, Keeps, Handled
  <2>3. QED BY <2>1, <2>2, HandleStep
<1>6. CASE Tick
  <2>1. ASSUME NEW e \in Events
        PROVE  /\ outbox'[e].created = outbox[e].created
               /\ outbox'[e].delivered = outbox[e].delivered
    <3>1. outbox'[e] = Aged(outbox[e]) /\ outbox[e] \in Row
      BY <1>0, <1>6 DEF Tick
    <3>2. QED BY <3>1 DEF Aged, Row
  <2>2. QED BY <1>6, <2>1 DEF Tick, Queued, Handled, Closed
<1>7. CASE UNCHANGED vars
  BY <1>7 DEF vars, Queued, Handled, Closed
<1>8. QED BY <1>1, <1>2, <1>3, <1>4, <1>5, <1>6, <1>7 DEF Next

\* The dispatcher implements AtLeastOnce: with any number of processes, leases
\* that run out under a working process, lost answers, failing sinks and
\* crashes, dispatchOnce acknowledges an event only after it was handled.
THEOREM DispatcherDeliversAtLeastOnce == Spec => DeliversAtLeastOnce
<1>1. Init => Promise!Init
  BY DEF Init, NoRow, Promise!Init, Queued, Handled, Closed
<1>2. QED BY <1>1, InvInit, InvStep, PromiseStep, PTL
          DEF Spec, DeliversAtLeastOnce, Promise!Spec

-----------------------------------------------------------------------------
(* Leases *)

\* Nothing is claimed that was not enqueued.
Unheld == \A e \in Events : outbox[e].created = 0 => outbox[e].claimedBy = None

\* What a step of process v may do to a row: nothing, claim it when no lease is
\* left, or give it back when v holds it, moving on in the same step.
OwnRows(v) ==
  \A e \in Events :
    \/ outbox'[e] = outbox[e]
    \/ outbox[e].lease = 0 /\ outbox[e].created > 0
    \/ /\ outbox[e].claimedBy = v /\ outbox'[e].claimedBy = None
       /\ workers'[v] # workers[v]

\* A process that gives its current row back and turns to the next event.
LEMMA GivesBack ==
  ASSUME Inv, NEW v \in Workers, workers[v].pc # "idle",
         NEW p, Sound(p, Known, applied), p.batch = workers[v].batch,
         outbox[Current(v)].claimedBy = v,
         NEW r, r.claimedBy = None,
         outbox' = [outbox EXCEPT ![Current(v)] = r],
         workers' = [workers EXCEPT ![v] = Advance(p)]
  PROVE  OwnRows(v)
<1>1. p.batch # <<>> /\ Current(v) \in Events /\ TypeOK
  BY CurrentKnown DEF Inv
<1>2. /\ outbox \in [Events -> Row] /\ workers \in [Workers -> Process]
      /\ p.batch \in Seq(ClaimedEvent) /\ p \in Process
  BY <1>1 DEF TypeOK, Sound, Process
<1>3. Advance(p).batch = Tail(p.batch)
  BY <1>2 DEF Advance, Process
<1>4. Len(Tail(p.batch)) # Len(p.batch)
  BY <1>1, <1>2
<1>5. workers'[v] # workers[v]
  <2>1. workers'[v] = Advance(p)
    BY <1>2
  <2>2. QED BY <1>3, <1>4, <2>1
<1>6. /\ outbox'[Current(v)] = r
      /\ \A e \in Events \ {Current(v)} : outbox'[e] = outbox[e]
  BY <1>1, <1>2
<1>7. QED BY <1>5, <1>6 DEF OwnRows

\* Released and acknowledged rows have no holder.
LEMMA GivenBack ==
  ASSUME NEW r \in Row, NEW t
  PROVE  ReleasedFor(r, t).claimedBy = None /\ Acknowledged(r).claimedBy = None
  BY DEF Row, ReleasedFor, Acknowledged

\* A release of the current row by its holder.
LEMMA ReleaseOwn ==
  ASSUME Inv, NEW v \in Workers, workers[v].pc # "idle",
         NEW p, Sound(p, Known, applied), p.batch = workers[v].batch, NEW l, NEW t,
         \/ outbox' = TryRelease(v, Current(v), l, t)
         \/ /\ MayUpdate(Current(v), v, l)
            /\ outbox' = [outbox EXCEPT ![Current(v)] = ReleasedFor(@, t)],
         workers' = [workers EXCEPT ![v] = Advance(p)]
  PROVE  OwnRows(v)
<1>1. CASE outbox' = outbox
  BY <1>1 DEF OwnRows
<1>2. CASE /\ MayUpdate(Current(v), v, l)
           /\ outbox' = [outbox EXCEPT ![Current(v)] = ReleasedFor(@, t)]
  <2>1. outbox \in [Events -> Row] /\ Current(v) \in Events
    BY CurrentKnown DEF Inv, TypeOK
  <2>2. outbox[Current(v)] \in Row
    BY <2>1
  <2>3. /\ ReleasedFor(outbox[Current(v)], t).claimedBy = None
        /\ outbox' = [outbox EXCEPT
                        ![Current(v)] = ReleasedFor(outbox[Current(v)], t)]
    BY <1>2, <2>1, <2>2, GivenBack
  <2>4. outbox[Current(v)].claimedBy = v
    BY <1>2 DEF MayUpdate
  <2>5. QED BY <2>3, <2>4, GivesBack
<1>3. QED BY <1>1, <1>2 DEF TryRelease

\* An acknowledgement of the current row by its holder.
LEMMA AcknowledgeOwn ==
  ASSUME Inv, NEW v \in Workers, workers[v].pc # "idle",
         NEW p, Sound(p, Known, applied), p.batch = workers[v].batch, NEW l,
         MayUpdate(Current(v), v, l), Acknowledge(v, p)
  PROVE  OwnRows(v)
<1>1. outbox \in [Events -> Row] /\ Current(v) \in Events
  BY CurrentKnown DEF Inv, TypeOK
<1>2. outbox[Current(v)] \in Row
  BY <1>1
<1>3. /\ Acknowledged(outbox[Current(v)]).claimedBy = None
      /\ outbox' = [outbox EXCEPT
                      ![Current(v)] = Acknowledged(outbox[Current(v)])]
  BY <1>1, <1>2, GivenBack DEF Acknowledge
<1>4. outbox[Current(v)].claimedBy = v
  BY DEF MayUpdate
<1>5. workers' = [workers EXCEPT ![v] = Advance(p)]
  BY DEF Acknowledge
<1>6. QED BY <1>3, <1>4, <1>5, GivesBack

\* The catch clause.
LEMMA CaughtOwn ==
  ASSUME Inv, NEW v \in Workers, workers[v].pc # "idle",
         NEW p, Sound(p, Known, applied), p.batch = workers[v].batch,
         Caught(v, p)
  PROVE  OwnRows(v)
<1>1. p.batch # <<>>
  BY CurrentKnown
<1>2. /\ Sound(recordFailure(p), Known, applied)
      /\ recordFailure(p).batch = workers[v].batch
  BY <1>1, SoundSteps
<1>3. CASE outbox' = outbox
  BY <1>3 DEF OwnRows
<1>4. CASE /\ workers' = [workers EXCEPT ![v] = Advance(recordFailure(p))]
           /\ outbox' = TryRelease(v, Current(v), outbox[Current(v)].lease > 0,
                                   RetryDelay)
  BY <1>2, <1>4, ReleaseOwn
<1>5. QED BY <1>3, <1>4 DEF Caught

\* Every step of a process keeps to these rows.
LEMMA DispatchOwn ==
  ASSUME Inv, NEW v \in Workers, dispatchOnce(v)
  PROVE  OwnRows(v)
<1> DEFINE p == workers[v]
           c == Current(v)
<1>1. ASSUME workers[v].pc # "idle"
      PROVE  /\ Sound(p, Known, applied)
             /\ Sound(recordFailure(p), Known, applied)
             /\ recordFailure(p).batch = p.batch
  BY <1>1, CurrentKnown, SoundSteps
<1>2. CASE outbox' = outbox
  BY <1>2 DEF OwnRows
<1>3. CASE claimOutbox(v)
  <2>1. PICK s \in ClaimLists(BatchSize) :
          outbox' = [e \in Events |->
             IF \E i \in DOMAIN s : s[i] = e
               THEN Claimed(outbox[e], v, LeaseTime) ELSE outbox[e]]
    BY <1>3 DEF claimOutbox
  <2>2. \A i \in DOMAIN s : s[i] \in Claimable
    BY DEF ClaimLists
  <2>3. QED BY <2>1, <2>2 DEF OwnRows, Claimable
<1>4. CASE deferWhileOpen(v)
  <2>1. workers[v].pc # "idle"
    BY <1>4 DEF deferWhileOpen
  <2>2. CASE /\ MayUpdate(c, v, outbox[c].lease > 0)
             /\ outbox' = [outbox EXCEPT ![c] = ReleasedFor(@, p.cooldown)]
             /\ workers' = [workers EXCEPT ![v] = Advance(@)]
    <3>1. workers' = [workers EXCEPT ![v] = Advance(p)]
      BY <2>2
    <3>2. QED BY <1>1, <2>1, <2>2, <3>1, ReleaseOwn
  <2>3. CASE Caught(v, p)
    BY <1>1, <2>1, <2>3, CaughtOwn
  <2>4. QED BY <1>4, <2>2, <2>3 DEF deferWhileOpen
<1>5. CASE rejectMalformed(v) \/ sendFails(v)
  <2>1. workers[v].pc # "idle" /\ Caught(v, p)
    BY <1>5 DEF rejectMalformed, sendFails
  <2>2. QED BY <1>1, <2>1, CaughtOwn
<1>6. CASE delivered(v)
  <2> DEFINE q == [p EXCEPT !.failures = 0, !.cooldown = 0]
  <2>1. workers[v].pc # "idle"
    BY <1>6 DEF delivered
  <2>2. Sound(q, Known, applied) /\ q.batch = workers[v].batch
    <3>1. 0 \in 0 .. FailureThreshold
      BY DispatcherAssumption
    <3>2. QED BY <1>1, <2>1, <3>1 DEF Sound, Process
  <2>3. CASE MayUpdate(c, v, outbox[c].lease > 0) /\ Acknowledge(v, q)
    BY <2>1, <2>2, <2>3, AcknowledgeOwn
  <2>4. CASE Caught(v, q)
    BY <2>1, <2>2, <2>4, CaughtOwn
  <2>5. QED BY <1>6, <2>3, <2>4 DEF delivered
<1>7. CASE retryable(v)
  <2>1. workers[v].pc # "idle"
    BY <1>7 DEF retryable
  <2>2. CASE /\ MayUpdate(c, v, outbox[c].lease > 0)
             /\ outbox' = [outbox EXCEPT ![c] = ReleasedFor(@, RetryDelay)]
             /\ workers' = [workers EXCEPT ![v] = Advance(recordFailure(p))]
    BY <1>1, <2>1, <2>2, ReleaseOwn
  <2>3. CASE Caught(v, recordFailure(p))
    BY <1>1, <2>1, <2>3, CaughtOwn
  <2>4. QED BY <1>2, <1>7, <2>2, <2>3 DEF retryable
<1>8. CASE deadLetter(v)
  <2>1. workers[v].pc # "idle"
    BY <1>8 DEF deadLetter
  <2>2. CASE MayUpdate(c, v, p.inLease) /\ Acknowledge(v, p)
    BY <1>1, <2>1, <2>2, AcknowledgeOwn
  <2>3. CASE Caught(v, p)
    BY <1>1, <2>1, <2>3, CaughtOwn
  <2>4. QED BY <1>2, <1>8, <2>2, <2>3 DEF deadLetter
<1>9. CASE deadLetterFails(v)
  <2>1. workers[v].pc # "idle"
    BY <1>9 DEF deadLetterFails
  <2>2. CASE Caught(v, p)
    BY <1>1, <2>1, <2>2, CaughtOwn
  <2>3. CASE /\ workers' = [workers EXCEPT ![v] = Advance(@)]
             /\ outbox' = TryRelease(v, c, p.inLease, p.retryIn)
    <3>1. workers' = [workers EXCEPT ![v] = Advance(p)]
      BY <2>3
    <3>2. QED BY <1>1, <2>1, <2>3, <3>1, ReleaseOwn
  <2>4. QED BY <1>9, <2>2, <2>3 DEF deadLetterFails
<1>10. QED BY <1>2, <1>3, <1>4, <1>5, <1>6, <1>7, <1>8, <1>9
           DEF dispatchOnce, send, permanent

\* What a step leaves of the rows: a process keeps to its own, an enqueue fills
\* a row nobody held, time passes for all of them, and nothing else touches one.
LEMMA RowsStep ==
  ASSUME Inv, [Next]_vars
  PROVE  \/ outbox' = outbox
         \/ \E v \in Workers : OwnRows(v) /\ Progress
         \/ \E e \in Events : /\ outbox[e].created = 0 /\ outbox'[e].created > 0
                              /\ \A d \in Events \ {e} : outbox'[d] = outbox[d]
         \/ \A e \in Events : /\ outbox'[e].created = outbox[e].created
                              /\ outbox'[e].claimedBy = outbox[e].claimedBy
                              /\ outbox'[e].delivered = outbox[e].delivered
<1>0. TypeOK /\ outbox \in [Events -> Row]
  BY DEF Inv, TypeOK
<1>1. ASSUME NEW e \in Events, enqueue(e)
      PROVE  /\ outbox[e].created = 0 /\ outbox'[e].created > 0
             /\ \A d \in Events \ {e} : outbox'[d] = outbox[d]
  <2>1. PICK c \in Nat \ {0} : outbox' = [outbox EXCEPT ![e] = Enqueued(c)]
    BY <1>0, <1>1, EnqueueEffect
  <2>2. Enqueued(c).created = c
    BY DEF Enqueued, NoRow
  <2>3. QED BY <1>0, <1>1, <2>1, <2>2 DEF enqueue
<1>2. ASSUME NEW v \in Workers, dispatchOnce(v) PROVE OwnRows(v) /\ Progress
  BY <1>2, DispatchOwn, DispatchEffect
<1>3. ASSUME Tick, NEW e \in Events
      PROVE  /\ outbox'[e].created = outbox[e].created
             /\ outbox'[e].claimedBy = outbox[e].claimedBy
             /\ outbox'[e].delivered = outbox[e].delivered
  <2>1. outbox'[e] = Aged(outbox[e]) /\ outbox[e] \in Row
    BY <1>0, <1>3 DEF Tick
  <2>2. QED BY <2>1 DEF Aged, Row
<1>4. QED BY <1>1, <1>2, <1>3
          DEF Next, vars, lateRequest, Crash, partnerAnswers

\* Only enqueued rows are ever held.
LEMMA UnheldStep == Inv /\ Unheld /\ [Next]_vars => Unheld'
<1> SUFFICES ASSUME Inv, Unheld, [Next]_vars, NEW e \in Events,
                    outbox'[e].created = 0
             PROVE  outbox'[e].claimedBy = None
  BY DEF Unheld
<1>0. outbox[e].created \in Nat
  BY DEF Inv, TypeOK, Row
<1>1. ASSUME NEW v \in Workers, OwnRows(v), Progress
      PROVE  outbox'[e].claimedBy = None
  <2>1. outbox[e].created = 0
    BY <1>1 DEF Progress, Keeps, Closes, SameExcept
  <2>2. QED BY <1>0, <1>1, <2>1 DEF OwnRows, Unheld
<1>2. QED BY <1>0, <1>1, RowsStep DEF Unheld

\* Every step respects a live lease.
LEMMA LeaseStep ==
  ASSUME Inv, Unheld, [Next]_vars, NEW e \in Events, NEW w \in Workers,
         outbox[e].claimedBy = w, outbox[e].lease > 1
  PROVE  \/ outbox'[e].claimedBy = w /\ outbox'[e].delivered = outbox[e].delivered
         \/ workers'[w] # workers[w]
<1>1. outbox[e].created # 0
  BY DispatcherAssumption DEF Unheld
<1>2. outbox[e].lease # 0
  OBVIOUS
<1>3. ASSUME NEW v \in Workers, OwnRows(v)
      PROVE  outbox'[e] = outbox[e] \/ workers'[w] # workers[w]
  BY <1>2, <1>3 DEF OwnRows
<1>4. QED BY <1>1, <1>3, RowsStep

\* Spec => LeaseRespected: for any number of processes, whatever times out,
\* crashes or is claimed in between, claimOutbox, acknowledgeOutbox and
\* releaseOutbox leave a row under a live lease to the process that holds it.
THEOREM LeasesHold == Spec => LeaseRespected
<1>1. Init => Unheld
  BY DEF Init, NoRow, Unheld
<1>2. Inv /\ Unheld /\ [Next]_vars =>
    [\A e \in Events, w \in Workers :
        outbox[e].claimedBy = w /\ outbox[e].lease > 1 =>
          \/ outbox'[e].claimedBy = w /\ outbox'[e].delivered = outbox[e].delivered
          \/ workers'[w] # workers[w]]_vars
  BY LeaseStep
<1>3. QED BY <1>1, <1>2, InvInit, InvStep, UnheldStep, PTL
          DEF Spec, LeaseRespected

-----------------------------------------------------------------------------
(* The receiving side *)

\* What consumeOnce keeps for an accepted request: until the last second of its
\* window, its entry carries the expiry that was computed from the request, and
\* the request was accepted once.
EntriesLast ==
  \A n \in Nonces :
    /\ requests[n] = NoRequest => accepted[n] = 0
    /\ accepted[n] > 0 /\ now < requests[n].sentAt + Window =>
         replay[n] = requests[n].sentAt + Window /\ accepted[n] = 1

\* The inductive invariant.
ReceiverInv == ReceiverTypeOK /\ EntriesLast

-----------------------------------------------------------------------------
(* The receiver's stores *)

\* A request that was signed carries a key, a body and a time.
LEMMA SignedRequests ==
  ASSUME ReceiverTypeOK, NEW n \in Nonces,
         requests[n] # NoRequest
  PROVE  /\ requests[n] \in Request
         /\ requests[n].key \in Keys /\ requests[n].body \in Bodies
         /\ requests[n].sentAt \in 0 .. MaxTime + MaxSkew
         /\ requests[n].sentAt + Window \in 0 .. MaxTime + MaxSkew + Window
  BY ReceiverAssumption DEF ReceiverTypeOK, Request

\* The purge in consumeOnce forgets exactly the entries whose expiry has come.
LEMMA PurgeKeepsTheLiving ==
  ASSUME ReceiverTypeOK
  PROVE  /\ Purged \in [Nonces -> (0 .. MaxTime + MaxSkew + Window) \cup {Nothing}]
         /\ \A n \in Nonces : replay[n] # Nothing /\ now < replay[n]
                                => Purged[n] = replay[n]
BY ReceiverAssumption DEF ReceiverTypeOK, Purged

\* runOnce keeps the types of the idempotency store and of the effects, and the
\* agreement between them.
LEMMA RunsOnce ==
  ASSUME ReceiverTypeOK, NEW k \in Keys, NEW b \in Bodies,
         runOnce(k, b)
  PROVE  /\ results' \in [Keys -> Bodies \cup {Nothing}]
         /\ effects' \in [Keys -> Seq(Bodies)]
         /\ EffectOnce => EffectOnce'
<1>1. CASE results[k] # Nothing
  BY <1>1 DEF runOnce, ReceiverTypeOK, EffectOnce
<1>2. CASE results[k] = Nothing
  <2>1. /\ results' = [results EXCEPT ![k] = b]
        /\ effects' = [effects EXCEPT ![k] = Append(effects[k], b)]
    BY <1>2 DEF runOnce
  <2>2. effects[k] \in Seq(Bodies) /\ Append(effects[k], b) \in Seq(Bodies)
    BY DEF ReceiverTypeOK
  <2>3. EffectOnce => effects'[k] = <<b>>
    <3>1. Append(<<>>, b) = <<b>>
      OBVIOUS
    <3>2. effects'[k] = Append(effects[k], b)
      BY <2>1 DEF ReceiverTypeOK
    <3>3. EffectOnce => effects[k] = <<>>
      BY <1>2 DEF EffectOnce
    <3>4. QED BY <3>1, <3>2, <3>3
  <2>4. b # Nothing
    BY ReceiverAssumption
  <2>5. results'[k] = b /\ \A j \in Keys \ {k} : /\ results'[j] = results[j]
                                               /\ effects'[j] = effects[j]
    BY <2>1 DEF ReceiverTypeOK
  <2>6. QED BY <2>1, <2>2, <2>3, <2>4, <2>5 DEF ReceiverTypeOK, EffectOnce
<1>3. QED BY <1>1, <1>2

-----------------------------------------------------------------------------
(* The receiver's steps *)

\* Verification of a request: one more acceptance, which is the first unless
\* the request is in the last second of its window.
LEMMA VerifyKeeps ==
  ASSUME ReceiverInv, NEW n \in Nonces,
         verifyPartnerWebhook(n), UNCHANGED <<requests, now>>
  PROVE  /\ replay' \in [Nonces -> (0 .. MaxTime + MaxSkew + Window) \cup {Nothing}]
         /\ accepted' \in [Nonces -> 0 .. MaxAccepts]
         /\ EntriesLast'
<1> DEFINE expiry == requests[n].sentAt + Window
<1> USE DEF ReceiverInv
<1>1. /\ requests[n] # NoRequest /\ accepted[n] < MaxAccepts
      /\ Purged[n] = Nothing
      /\ replay' = [Purged EXCEPT ![n] = expiry]
      /\ accepted' = [accepted EXCEPT ![n] = accepted[n] + 1]
  BY DEF verifyPartnerWebhook, consumeOnce
<1>2. requests[n].sentAt \in Nat /\ expiry \in 0 .. MaxTime + MaxSkew + Window
      /\ now \in Nat
  BY <1>1, SignedRequests DEF ReceiverTypeOK
<1>3. replay' \in [Nonces -> (0 .. MaxTime + MaxSkew + Window) \cup {Nothing}]
  BY <1>1, <1>2, PurgeKeepsTheLiving
<1>4. accepted' \in [Nonces -> 0 .. MaxAccepts]
  BY <1>1, ReceiverAssumption DEF ReceiverTypeOK
<1>5. now < expiry => accepted[n] = 0
  <2>1. SUFFICES ASSUME now < expiry, accepted[n] > 0 PROVE FALSE
    BY DEF ReceiverTypeOK
  <2>2. replay[n] = expiry
    BY <2>1 DEF EntriesLast
  <2>3. expiry # Nothing
    BY <1>2, ReceiverAssumption
  <2>4. QED BY <1>1, <2>1, <2>2, <2>3, PurgeKeepsTheLiving
<1>6. ASSUME NEW m \in Nonces
      PROVE  /\ requests'[m] = NoRequest => accepted'[m] = 0
             /\ accepted'[m] > 0 /\ now' < requests'[m].sentAt + Window =>
                  replay'[m] = requests'[m].sentAt + Window /\ accepted'[m] = 1
  <2>1. CASE m = n
    <3>1. replay'[n] = expiry /\ accepted'[n] = accepted[n] + 1
      BY <1>1, PurgeKeepsTheLiving DEF ReceiverTypeOK
    <3>2. QED BY <1>1, <1>5, <2>1, <3>1
  <2>2. CASE m # n
    <3>1. replay'[m] = Purged[m] /\ accepted'[m] = accepted[m]
      BY <1>1, <2>2, PurgeKeepsTheLiving DEF ReceiverTypeOK
    <3>2. requests[m] = NoRequest => accepted[m] = 0
      BY DEF EntriesLast
    <3>3. ASSUME accepted[m] > 0, now < requests[m].sentAt + Window
          PROVE  Purged[m] = requests[m].sentAt + Window /\ accepted[m] = 1
      <4>1. replay[m] = requests[m].sentAt + Window /\ accepted[m] = 1
        BY <3>3 DEF EntriesLast
      <4>2. requests[m] # NoRequest
        BY <3>2, <3>3 DEF ReceiverTypeOK
      <4>3. requests[m].sentAt + Window # Nothing
        BY <4>2, SignedRequests, ReceiverAssumption
      <4>4. QED BY <3>3, <4>1, <4>3, PurgeKeepsTheLiving
    <3>4. QED BY <3>1, <3>2, <3>3
  <2>3. QED BY <2>1, <2>2
<1>7. QED BY <1>3, <1>4, <1>6 DEF EntriesLast

\* A refused replay purges the store, and forgets nothing that is needed.
LEMMA RefusalKeeps ==
  ASSUME ReceiverInv, NEW n \in Nonces, replayDetected(n)
  PROVE  ReceiverInv'
<1> USE DEF ReceiverInv
<1>1. replay' = Purged /\ UNCHANGED <<requests, results, effects, accepted, now>>
  BY DEF replayDetected
<1>2. ReceiverTypeOK'
  BY <1>1, PurgeKeepsTheLiving DEF ReceiverTypeOK
<1>3. ASSUME NEW m \in Nonces,
             accepted[m] > 0, now < requests[m].sentAt + Window
      PROVE  Purged[m] = requests[m].sentAt + Window /\ accepted[m] = 1
  <2>1. /\ replay[m] = requests[m].sentAt + Window /\ accepted[m] = 1
        /\ requests[m] # NoRequest
    BY <1>3 DEF EntriesLast, ReceiverTypeOK
  <2>2. requests[m].sentAt + Window # Nothing
    BY <2>1, SignedRequests, ReceiverAssumption
  <2>3. QED BY <1>3, <2>1, <2>2, PurgeKeepsTheLiving
<1>4. EntriesLast'
  BY <1>1, <1>3 DEF EntriesLast
<1>5. QED BY <1>2, <1>4

\* Signing a request with a fresh nonce.
LEMMA SigningKeeps ==
  ASSUME ReceiverInv, NEW n \in Nonces, NEW k \in Keys,
         NEW b \in Bodies,
         NEW sentAt \in 0 .. MaxTime + MaxSkew,
         signPartnerWebhook(n, k, b, sentAt)
  PROVE  ReceiverInv'
<1> DEFINE r == [key |-> k, body |-> b, sentAt |-> sentAt]
<1> USE DEF ReceiverInv
<1>1. /\ requests[n] = NoRequest /\ requests' = [requests EXCEPT ![n] = r]
      /\ UNCHANGED <<replay, results, effects, accepted, now>>
  BY DEF signPartnerWebhook
<1>2. r \in Request
  BY DEF Request
<1>3. ReceiverTypeOK'
  BY <1>1, <1>2 DEF ReceiverTypeOK
<1>4. accepted[n] = 0
  BY <1>1 DEF EntriesLast
<1>5. \A m \in Nonces : m # n => requests'[m] = requests[m]
  BY <1>1 DEF ReceiverTypeOK
<1>6. EntriesLast'
  BY <1>1, <1>4, <1>5 DEF EntriesLast
<1>7. QED BY <1>3, <1>6

\* Every step keeps the invariant and the agreement of results and effects.
LEMMA ReceiverStep ==
  ASSUME ReceiverInv, ReceiverNext
  PROVE  ReceiverInv' /\ (EffectOnce => EffectOnce')
<1> USE DEF ReceiverInv
<1>1. CASE \E n \in Nonces, k \in Keys, b \in Bodies,
              sentAt \in 0 .. MaxTime + MaxSkew : signPartnerWebhook(n, k, b, sentAt)
  BY <1>1, SigningKeeps DEF signPartnerWebhook, EffectOnce
<1>2. ASSUME NEW n \in Nonces, receivePartnerWebhook(n)
      PROVE  ReceiverInv' /\ (EffectOnce => EffectOnce')
  <2>1. /\ verifyPartnerWebhook(n)
        /\ runOnce(requests[n].key, requests[n].body)
        /\ UNCHANGED <<requests, now>>
    BY <1>2 DEF receivePartnerWebhook
  <2>2. requests[n].key \in Keys /\ requests[n].body \in Bodies
    BY <2>1, SignedRequests DEF verifyPartnerWebhook
  <2>3. /\ results' \in [Keys -> Bodies \cup {Nothing}]
        /\ effects' \in [Keys -> Seq(Bodies)]
        /\ EffectOnce => EffectOnce'
    BY <2>1, <2>2, RunsOnce
  <2>4. QED BY <2>1, <2>3, VerifyKeeps DEF ReceiverTypeOK
<1>3. ASSUME NEW n \in Nonces, applyFails(n)
      PROVE  ReceiverInv' /\ (EffectOnce => EffectOnce')
  <2>1. /\ verifyPartnerWebhook(n)
        /\ UNCHANGED <<requests, results, effects, now>>
    BY <1>3 DEF applyFails
  <2>2. ReceiverTypeOK' /\ EntriesLast'
    BY <2>1, VerifyKeeps DEF ReceiverTypeOK
  <2>3. QED BY <2>1, <2>2 DEF EffectOnce
<1>4. CASE \E n \in Nonces : replayDetected(n)
  BY <1>4, RefusalKeeps DEF replayDetected, EffectOnce
<1>5. CASE ReceiverTick
  <2>1. /\ now < MaxTime /\ now' = now + 1
        /\ UNCHANGED <<requests, replay, results, effects, accepted>>
    BY <1>5 DEF ReceiverTick
  <2>2. ReceiverTypeOK'
    BY <2>1, ReceiverAssumption DEF ReceiverTypeOK
  <2>3. ASSUME NEW n \in Nonces, accepted[n] > 0, now' < requests[n].sentAt + Window
        PROVE  now < requests[n].sentAt + Window
    <3>1. requests[n].sentAt + Window \in Nat
      BY <2>3, SignedRequests DEF EntriesLast, ReceiverTypeOK
    <3>2. QED BY <2>1, <2>3, <3>1 DEF ReceiverTypeOK
  <2>4. EntriesLast' /\ (EffectOnce => EffectOnce')
    BY <2>1, <2>3 DEF EntriesLast, EffectOnce
  <2>5. QED BY <2>2, <2>4
<1>6. QED BY <1>1, <1>2, <1>3, <1>4, <1>5 DEF ReceiverNext

\* The empty stores satisfy the invariant.
LEMMA ReceiverStarts == ReceiverInit => ReceiverInv /\ EffectOnce
<1>1. SUFFICES ASSUME ReceiverInit PROVE ReceiverInv /\ EffectOnce
  OBVIOUS
<1>2. ReceiverTypeOK
  BY <1>1, ReceiverAssumption DEF ReceiverInit, ReceiverTypeOK
<1>3. EntriesLast /\ EffectOnce
  BY <1>1 DEF ReceiverInit, EntriesLast, EffectOnce
<1>4. QED BY <1>2, <1>3 DEF ReceiverInv

-----------------------------------------------------------------------------
(* The receiver's theorems *)

\* The replay store of receiver.ts forgets no accepted request before the last
\* second of its window, and accepts none twice until then, whatever the clock
\* of the sender and however often the purge runs.
THEOREM RequestsRemembered == ReceiverSpec => []ReplayMemory
<1>1. ReceiverInit => ReceiverInv
  BY ReceiverStarts
<1>2. ReceiverInv /\ [ReceiverNext]_receiverVars => ReceiverInv'
  <2>1. SUFFICES ASSUME ReceiverInv, UNCHANGED receiverVars PROVE ReceiverInv'
    BY ReceiverStep
  <2>2. QED BY <2>1 DEF receiverVars, ReceiverInv, ReceiverTypeOK, EntriesLast
<1>3. ReceiverInv => ReplayMemory
  <2>1. SUFFICES ASSUME ReceiverInv, NEW n \in Nonces, accepted[n] > 0,
                        now < requests[n].sentAt + Window
                 PROVE  replay[n] # Nothing /\ accepted[n] = 1
    BY DEF ReceiverInv, ReplayMemory, RememberedInsideWindow
  <2>2. requests[n].sentAt + Window \in Nat
    BY <2>1, SignedRequests DEF ReceiverInv, EntriesLast, ReceiverTypeOK
  <2>3. QED BY <2>1, <2>2, ReceiverAssumption DEF ReceiverInv, EntriesLast
<1>4. QED BY <1>1, <1>2, <1>3, PTL DEF ReceiverSpec

\* receivePartnerWebhook applies an event at most once, and the stored result
\* is the one of that application, for any number of requests under one key
\* and any mixture of failed, repeated and altered ones.
THEOREM EventAppliedOnce == ReceiverSpec => []EffectOnce
<1>1. ReceiverInit => ReceiverInv /\ EffectOnce
  BY ReceiverStarts
<1>2. (ReceiverInv /\ EffectOnce) /\ [ReceiverNext]_receiverVars
        => (ReceiverInv /\ EffectOnce)'
  <2>1. SUFFICES ASSUME ReceiverInv, EffectOnce, UNCHANGED receiverVars
                 PROVE  ReceiverInv' /\ EffectOnce'
    BY ReceiverStep
  <2>2. QED BY <2>1 DEF receiverVars, ReceiverInv, ReceiverTypeOK, EntriesLast,
                       EffectOnce
<1>3. QED BY <1>1, <1>2, PTL DEF ReceiverSpec

=============================================================================
