--------------------------- MODULE PartnerDispatcher ---------------------------
(***************************************************************************)
(* packages/partner-transport/dispatcher.ts: dispatcher processes that     *)
(* share one outbox.  A process runs dispatchOnce over and over: it claims *)
(* a batch and works through it, one event at a time.  The code between    *)
(* two awaits is one step; the awaits are the request to the partner       *)
(* (sending) and the write to the dead-letter sink, reached from the main  *)
(* path (parking) or from the catch clause (reparking).                    *)
(*                                                                         *)
(* Abstractions.  Bodies, signatures and nonces are those of               *)
(* WebhookReceiver.  A stalled process may notice its request timeout      *)
(* arbitrarily late, so the timeout is a step that may always happen while *)
(* a request is out.  The partner and the dead-letter sink are external.   *)
(***************************************************************************)
EXTENDS Outbox

CONSTANTS
  Malformed,         \* events whose payload is not a partner envelope
  LeaseTime,         \* leaseMs
  RetryDelay,        \* retryDelayMs
  CooldownTime,      \* circuitCooldownMs
  FailureThreshold,  \* circuitFailureThreshold
  BatchSize,         \* batchSize
  Prompt,            \* TRUE: no process outlives the lease of the event it works
                     \* on (the request timeout is shorter than the lease)
  MaxCrashes         \* bound: how often processes may crash

VARIABLES
  workers,       \* [Workers -> Process]
  late,          \* events of requests the sender gave up but that still travel
  applied,       \* events whose effect the partner has applied
  deadLetters,   \* events the dead-letter sink has recorded
  crashes

vars == <<outbox, workers, late, applied, deadLetters, crashes>>

ASSUME DispatcherAssumption ==
  /\ None \notin Workers
  /\ Malformed \subseteq Events
  /\ MaximumAttempts \in Nat \ {0} /\ FailureThreshold \in Nat \ {0}
  /\ LeaseTime \in Nat \ {0} /\ RetryDelay \in Nat \ {0}
  /\ CooldownTime \in Nat \ {0} /\ BatchSize \in Nat \ {0}
  /\ IsFiniteSet(Events)
  /\ MaxCrashes \in Nat /\ Prompt \in BOOLEAN

\* An event as claimed: attempts is the count the claim left in the row.
ClaimedEvent == [event : Events, attempts : 0 .. MaximumAttempts]

Reply == {"none", "ok", "retry", "permanent"}

\* inLease: the lease was held at the time passed to a later acknowledge or
\* release; retryIn: the time left until the retry computed with it.
Process ==
  [pc : {"idle", "ready", "sending", "parking", "reparking"},
   batch : Seq(ClaimedEvent), reply : Reply, failures : 0 .. FailureThreshold,
   cooldown : Nat, inLease : BOOLEAN, retryIn : Nat]

Fresh ==
  [pc |-> "idle", batch |-> <<>>, reply |-> "none", failures |-> 0,
   cooldown |-> 0, inLease |-> FALSE, retryIn |-> 0]

TypeOK ==
  /\ outbox \in [Events -> Row]
  /\ workers \in [Workers -> Process]
  /\ \A w \in Workers : workers[w].pc = "idle" <=> workers[w].batch = <<>>
  /\ late \subseteq Events /\ applied \subseteq Events
  /\ deadLetters \subseteq Events
  /\ crashes \in 0 .. MaxCrashes

Init ==
  /\ outbox = [e \in Events |-> NoRow]
  /\ workers = [w \in Workers |-> Fresh]
  /\ late = {} /\ applied = {} /\ deadLetters = {}
  /\ crashes = 0

-----------------------------------------------------------------------------
(* Helpers *)

Current(w) == workers[w].batch[1].event

Exhausted(p) == p.batch[1].attempts >= MaximumAttempts

\* Faulty: the loop does not end with the batch.
NextInBatch(p) ==
  [p EXCEPT !.pc = "ready", !.batch = Tail(@), !.reply = "none",
            !.inLease = FALSE, !.retryIn = 0]

\* The process turns to the next event of its batch, or returns.
Advance(p) ==
  [p EXCEPT !.pc = IF Len(p.batch) = 1 THEN "idle" ELSE "ready",
            !.batch = Tail(@), !.reply = "none", !.inLease = FALSE,
            !.retryIn = 0]

\* recordFailure: from the threshold on, every failure opens the circuit.
recordFailure(p) ==
  [p EXCEPT !.failures = IF @ < FailureThreshold THEN @ + 1 ELSE @,
            !.cooldown = IF p.failures + 1 >= FailureThreshold
                           THEN CooldownTime ELSE @]

\* One unit of time passes for a process: the moments circuitOpenUntil and
\* retryAt come closer.
Cooled(p) ==
  [p EXCEPT !.cooldown = IF @ = 0 THEN 0 ELSE @ - 1,
            !.retryIn = IF @ = 0 THEN 0 ELSE @ - 1]

\* The process starts to wait for the sink; completed was read just before.
AwaitSink(p, e, pc) ==
  [p EXCEPT !.pc = pc, !.inLease = outbox[e].lease > 0, !.retryIn = RetryDelay]

\* The outbox after a release that is ignored when the lease was lost.
TryRelease(w, e, inLease, wait) ==
  IF MayUpdate(e, w, inLease)
    THEN [outbox EXCEPT ![e] = ReleasedFor(@, wait)] ELSE outbox

\* Faulty: an event that failed for good is acknowledged without its record.
CaughtAcknowledges(w, p) ==
  /\ workers' = [workers EXCEPT ![w] = Advance(recordFailure(p))]
  /\ outbox' = IF MayUpdate(Current(w), w, outbox[Current(w)].lease > 0)
                 THEN [outbox EXCEPT ![Current(w)] = Acknowledged(@)]
                 ELSE outbox

\* The catch clause of dispatchOnce, for process state p: the failure counts,
\* an exhausted event goes to the sink, any other is released if it can be.
Caught(w, p) ==
  LET e == Current(w)  f == recordFailure(p) IN
  \/ /\ Exhausted(p)
     /\ workers' = [workers EXCEPT ![w] = AwaitSink(f, e, "reparking")]
     /\ outbox' = outbox
  \/ /\ ~Exhausted(p)
     /\ workers' = [workers EXCEPT ![w] = Advance(f)]
     /\ outbox' = TryRelease(w, e, outbox[e].lease > 0, RetryDelay)

\* acknowledgeOutbox as the last step of an event.
Acknowledge(w, p) ==
  /\ outbox' = [outbox EXCEPT ![Current(w)] = Acknowledged(@)]
  /\ workers' = [workers EXCEPT ![w] = Advance(p)]

\* The request of a process that stops waiting may still reach the partner.
GiveUp(w) ==
  late' = IF workers[w].pc = "sending" /\ workers[w].reply = "none"
            THEN late \cup {Current(w)} ELSE late

-----------------------------------------------------------------------------
(* The outbox's producers *)

LatestCreated == {outbox[e].created : e \in Events} \cup {0}

enqueue(e) ==
  /\ outbox[e].created = 0
  /\ \E c \in LatestCreated :
       /\ \A d \in LatestCreated : d <= c
       /\ \E created \in {c, c + 1} \ {0} :
            outbox' = [outbox EXCEPT ![e] = Enqueued(created)]
  /\ UNCHANGED <<workers, late, applied, deadLetters, crashes>>

-----------------------------------------------------------------------------
(* dispatchOnce *)

\* The call: claimOutbox hands out a batch under this worker's lease.
claimOutbox(w) ==
  /\ workers[w].pc = "idle"
  /\ \E s \in ClaimLists(BatchSize) :
       /\ s # <<>>
       /\ outbox' = [e \in Events |->
            IF \E i \in DOMAIN s : s[i] = e
              THEN Claimed(outbox[e], w, LeaseTime) ELSE outbox[e]]
       /\ workers' = [workers EXCEPT
            ![w].pc = "ready",
            ![w].batch = [i \in DOMAIN s |->
                            [event |-> s[i], attempts |-> outbox'[s[i]].attempts]]]
  /\ UNCHANGED <<late, applied, deadLetters, crashes>>

\* The circuit is open: the event is released until it closes.
deferWhileOpen(w) ==
  LET e == Current(w) IN
  /\ workers[w].pc = "ready" /\ workers[w].cooldown > 0
  /\ \/ /\ MayUpdate(e, w, outbox[e].lease > 0)
        /\ outbox' = [outbox EXCEPT ![e] = ReleasedFor(@, workers[w].cooldown)]
        /\ workers' = [workers EXCEPT ![w] = Advance(@)]
     \/ /\ ~MayUpdate(e, w, outbox[e].lease > 0)
        /\ Caught(w, workers[w])
  /\ UNCHANGED <<late, applied, deadLetters, crashes>>

\* A payload that is no envelope never leaves the process.
rejectMalformed(w) ==
  /\ workers[w].pc = "ready" /\ workers[w].cooldown = 0
  /\ Current(w) \in Malformed
  /\ Caught(w, workers[w])
  /\ UNCHANGED <<late, applied, deadLetters, crashes>>

\* The lease is not looked at before a request is sent.
send(w) ==
  LET e == Current(w) IN
  /\ workers[w].pc = "ready" /\ workers[w].cooldown = 0
  /\ e \notin Malformed
  /\ workers' = [workers EXCEPT ![w].pc = "sending"]
  /\ UNCHANGED <<outbox, late, applied, deadLetters, crashes>>

\* A 2xx answer.
delivered(w) ==
  LET p == [workers[w] EXCEPT !.failures = 0, !.cooldown = 0]  e == Current(w)
  IN
  /\ workers[w].pc = "sending" /\ workers[w].reply = "ok"
  /\ \/ MayUpdate(e, w, outbox[e].lease > 0) /\ Acknowledge(w, p)
     \/ ~MayUpdate(e, w, outbox[e].lease > 0) /\ Caught(w, p)
  /\ UNCHANGED <<late, applied, deadLetters, crashes>>

\* A 429 or 5xx answer.
retryable(w) ==
  LET p == recordFailure(workers[w])  e == Current(w) IN
  /\ workers[w].pc = "sending" /\ workers[w].reply = "retry"
  /\ \/ /\ Exhausted(p)
        /\ workers' = [workers EXCEPT ![w] = AwaitSink(p, e, "parking")]
        /\ outbox' = outbox
     \/ /\ ~Exhausted(p) /\ MayUpdate(e, w, outbox[e].lease > 0)
        /\ outbox' = [outbox EXCEPT ![e] = ReleasedFor(@, RetryDelay)]
        /\ workers' = [workers EXCEPT ![w] = Advance(p)]
     \/ /\ ~Exhausted(p) /\ ~MayUpdate(e, w, outbox[e].lease > 0)
        /\ Caught(w, p)
  /\ UNCHANGED <<late, applied, deadLetters, crashes>>

\* Any other answer.
permanent(w) ==
  /\ workers[w].pc = "sending" /\ workers[w].reply = "permanent"
  /\ workers' = [workers EXCEPT
                   ![w] = AwaitSink(@, Current(w), "parking")]
  /\ UNCHANGED <<outbox, late, applied, deadLetters, crashes>>

\* The timeout wins the race, or the transport fails; the partner may have
\* answered, or may still receive the request.
sendFails(w) ==
  /\ workers[w].pc = "sending"
  /\ Caught(w, workers[w])
  /\ GiveUp(w)
  /\ UNCHANGED <<applied, deadLetters, crashes>>

\* deadLetter with the record written: the source event is acknowledged with
\* the time read before the write.
deadLetter(w) ==
  LET p == workers[w]  e == Current(w) IN
  /\ p.pc \in {"parking", "reparking"}
  /\ deadLetters' = deadLetters \cup {e}
  /\ \/ MayUpdate(e, w, p.inLease) /\ Acknowledge(w, p)
     \/ /\ ~MayUpdate(e, w, p.inLease) /\ p.pc = "parking"
        /\ Caught(w, p)
     \/ /\ ~MayUpdate(e, w, p.inLease) /\ p.pc = "reparking"
        /\ workers' = [workers EXCEPT ![w] = Advance(@)]
        /\ outbox' = outbox
  /\ UNCHANGED <<late, applied, crashes>>

\* deadLetter with the sink failing, whether or not the record was stored.
deadLetterFails(w) ==
  LET p == workers[w]  e == Current(w) IN
  /\ p.pc \in {"parking", "reparking"}
  /\ deadLetters' \in {deadLetters, deadLetters \cup {e}}
  /\ \/ p.pc = "parking" /\ Caught(w, p)
     \/ /\ p.pc = "reparking"
        /\ workers' = [workers EXCEPT ![w] = Advance(@)]
        /\ outbox' = TryRelease(w, e, p.inLease, p.retryIn)
  /\ UNCHANGED <<late, applied, crashes>>

-----------------------------------------------------------------------------
(* The environment *)

\* The partner answers the request a process is waiting for; a 2xx means that
\* receivePartnerWebhook returned, so the event's effect has been applied.
partnerAnswers(w, status) ==
  /\ workers[w].pc = "sending" /\ workers[w].reply = "none"
  /\ workers' = [workers EXCEPT ![w].reply = status]
  /\ applied' = IF status = "ok" THEN applied \cup {Current(w)} ELSE applied
  /\ UNCHANGED <<outbox, late, deadLetters, crashes>>

\* A request reaches the partner after its sender gave up.
lateRequest(e) ==
  /\ e \in late
  /\ applied' = applied \cup {e}
  /\ late' = late \ {e}
  /\ UNCHANGED <<outbox, workers, deadLetters, crashes>>

\* A process dies and is restarted: its rows keep their lease.
Crash(w) ==
  /\ crashes < MaxCrashes /\ workers[w].pc # "idle"
  /\ crashes' = crashes + 1
  /\ workers' = [workers EXCEPT ![w] = Fresh]
  /\ GiveUp(w)
  /\ UNCHANGED <<outbox, applied, deadLetters>>

\* The lease of the event that process w works on is about to end.
MustSettle(w) ==
  /\ workers[w].pc # "idle"
  /\ outbox[Current(w)].claimedBy = w /\ outbox[Current(w)].lease = 1

Tick ==
  /\ Prompt => \A w \in Workers : ~MustSettle(w)
  /\ \/ \E e \in Events : outbox[e].wait > 0 \/ outbox[e].lease > 0
     \/ \E w \in Workers : workers[w].cooldown > 0 \/ workers[w].retryIn > 0
  /\ outbox' = [e \in Events |-> Aged(outbox[e])]
  /\ workers' = [w \in Workers |-> Cooled(workers[w])]
  /\ UNCHANGED <<late, applied, deadLetters, crashes>>

\* The steps a process takes by itself.
dispatchOnce(w) ==
  \/ claimOutbox(w) \/ deferWhileOpen(w) \/ rejectMalformed(w) \/ send(w)
  \/ delivered(w) \/ retryable(w) \/ permanent(w) \/ sendFails(w)
  \/ deadLetter(w) \/ deadLetterFails(w)

Next ==
  \/ \E e \in Events : enqueue(e) \/ lateRequest(e)
  \/ \E w \in Workers :
       \/ dispatchOnce(w) \/ Crash(w)
       \/ \E status \in Reply \ {"none"} : partnerAnswers(w, status)
  \/ Tick

Spec == Init /\ [][Next]_vars

\* Processes keep running dispatchOnce and time passes; the sink, when an event
\* is brought to it again and again, does not fail for ever.  Nothing is asked
\* of the partner: a request it never answers ends by its timeout.
Fairness ==
  /\ WF_vars(Tick)
  /\ \A w \in Workers :
       /\ WF_vars(dispatchOnce(w))
       /\ \A e \in Events : SF_vars(deadLetter(w) /\ Current(w) = e)

FairSpec == Spec /\ Fairness

-----------------------------------------------------------------------------
(* Properties *)

\* A live lease is ended by its holder only: no other process's claim,
\* acknowledgement or release touches the row before the lease runs out.
LeaseRespected ==
  [][\A e \in Events, w \in Workers :
       outbox[e].claimedBy = w /\ outbox[e].lease > 1 =>
         \/ outbox'[e].claimedBy = w /\ outbox'[e].delivered = outbox[e].delivered
         \/ workers'[w] # workers[w]]_vars

Queued == {e \in Events : outbox[e].created > 0 /\ ~outbox[e].delivered}
Handled == applied \cup deadLetters
Closed == {e \in Events : outbox[e].delivered}

Promise ==
  INSTANCE AtLeastOnce WITH
    Ids <- Events, queued <- Queued, handled <- Handled, closed <- Closed

\* The dispatcher implements at-least-once delivery: an event leaves the outbox
\* only after the partner applied it or the dead-letter sink recorded it, and
\* it does not come back, whatever times out, crashes or answers late.
DeliversAtLeastOnce == Promise!Spec

\* Every event that was enqueued is applied by the partner or reaches the
\* dead-letter sink, even when the circuit keeps deferring it.
EventuallyHandled ==
  \A e \in Events :
    outbox[e].created > 0 ~> e \in applied \cup deadLetters

=============================================================================
