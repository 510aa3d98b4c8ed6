--------------------------- MODULE WebhookReceiver ---------------------------
(***************************************************************************)
(* packages/partner-transport/signing.ts and receiver.ts: the receiving    *)
(* side of the partner transport.  A request that was signed with the      *)
(* shared key may arrive at any later time, any number of times (the       *)
(* sender's retries carry a new nonce, a network's carry the same one).    *)
(* verifyPartnerWebhook and receivePartnerWebhook are synchronous: one     *)
(* delivery is one step.                                                   *)
(*                                                                         *)
(* Abstractions.  Only requests whose signature verifies are modelled: any *)
(* other is refused before a store is touched.  The nonce names the        *)
(* request, the idempotency key the event; one signing key.                *)
(***************************************************************************)
EXTENDS Naturals, Sequences

CONSTANTS
  Nonces, Keys, Bodies,
  Window,      \* replayWindowSeconds
  MaxSkew,     \* bound: how far the sender's clock is off
  MaxTime,     \* bound: the last second of the model
  MaxAccepts,  \* bound: deliveries of one request that are counted
  Nothing

VARIABLES
  requests,  \* [Nonces -> request signed with that nonce, or NoRequest]
  replay,    \* [Nonces -> expiry in the replay store, or Nothing]
  results,   \* [Keys -> body recorded in the idempotency store, or Nothing]
  effects,   \* [Keys -> the bodies that apply completed with, in order]
  accepted,  \* [Nonces -> how often the request passed verification]
  now        \* the receiver's clock, in seconds

receiverVars == <<requests, replay, results, effects, accepted, now>>

ASSUME ReceiverAssumption ==
  /\ Nothing \notin Keys \cup Bodies \cup Nat
  /\ Window \in Nat \ {0} /\ MaxSkew \in Nat /\ MaxTime \in Nat
  /\ MaxAccepts \in Nat \ {0}

Request == [key : Keys, body : Bodies, sentAt : 0 .. MaxTime + MaxSkew]

NoRequest == [key |-> Nothing, body |-> Nothing, sentAt |-> 0]

ReceiverTypeOK ==
  /\ requests \in [Nonces -> Request \cup {NoRequest}]
  /\ replay \in [Nonces -> (0 .. MaxTime + MaxSkew + Window) \cup {Nothing}]
  /\ results \in [Keys -> Bodies \cup {Nothing}]
  /\ effects \in [Keys -> Seq(Bodies)]
  /\ accepted \in [Nonces -> 0 .. MaxAccepts]
  /\ now \in 0 .. MaxTime

ReceiverInit ==
  /\ requests = [n \in Nonces |-> NoRequest]
  /\ replay = [n \in Nonces |-> Nothing]
  /\ results = [k \in Keys |-> Nothing]
  /\ effects = [k \in Keys |-> <<>>]
  /\ accepted = [n \in Nonces |-> 0]
  /\ now = 0

-----------------------------------------------------------------------------
(* The sender *)

\* signPartnerWebhook with a fresh nonce, by a clock that is off by at most
\* MaxSkew.
signPartnerWebhook(n, k, b, sentAt) ==
  /\ requests[n] = NoRequest
  /\ now <= sentAt + MaxSkew /\ sentAt <= now + MaxSkew
  /\ requests' = [requests EXCEPT
                    ![n] = [key |-> k, body |-> b, sentAt |-> sentAt]]
  /\ UNCHANGED <<replay, results, effects, accepted, now>>

-----------------------------------------------------------------------------
(* The receiver *)

\* Math.abs(now - sentAt) <= window.
InWindow(r) == now <= r.sentAt + Window /\ r.sentAt <= now + Window

\* Faulty: entries go one second early.
PurgedEarly ==
  [n \in Nonces |-> IF replay[n] # Nothing /\ replay[n] <= now + 1
                      THEN Nothing ELSE replay[n]]

\* consumeOnce drops the entries whose expiry has come, in every call.
Purged ==
  [n \in Nonces |-> IF replay[n] # Nothing /\ replay[n] <= now
                      THEN Nothing ELSE replay[n]]

\* consumeOnce: the nonce is new and is remembered until expiry.
consumeOnce(n, expiry) ==
  /\ Purged[n] = Nothing
  /\ replay' = [Purged EXCEPT ![n] = expiry]

\* Faulty: the result of an earlier request is not looked up.
RunAlways(k, b) ==
  /\ results' = [results EXCEPT ![k] = b]
  /\ effects' = [effects EXCEPT ![k] = Append(@, b)]

\* runOnce for the idempotency key of a request: work is done for the first
\* request; the same body again gets its result and any other body is refused,
\* both without a trace in the store.
runOnce(k, b) ==
  \/ /\ results[k] = Nothing
     /\ results' = [results EXCEPT ![k] = b]
     /\ effects' = [effects EXCEPT ![k] = Append(@, b)]
  \/ /\ results[k] # Nothing
     /\ UNCHANGED <<results, effects>>

\* The request passes verifyPartnerWebhook: its nonce is consumed.
verifyPartnerWebhook(n) ==
  /\ requests[n] # NoRequest /\ accepted[n] < MaxAccepts
  /\ InWindow(requests[n])
  /\ consumeOnce(n, requests[n].sentAt + Window)
  /\ accepted' = [accepted EXCEPT ![n] = @ + 1]

receivePartnerWebhook(n) ==
  /\ verifyPartnerWebhook(n)
  /\ runOnce(requests[n].key, requests[n].body)
  /\ UNCHANGED <<requests, now>>

\* The verified body is no envelope, or apply throws: the nonce is consumed, no
\* result is recorded.
applyFails(n) ==
  /\ verifyPartnerWebhook(n)
  /\ UNCHANGED <<requests, results, effects, now>>

\* A replay is refused, but the store has been purged on the way.
replayDetected(n) ==
  /\ requests[n] # NoRequest
  /\ InWindow(requests[n])
  /\ Purged[n] # Nothing
  /\ replay' = Purged
  /\ UNCHANGED <<requests, results, effects, accepted, now>>

ReceiverTick ==
  /\ now < MaxTime
  /\ now' = now + 1
  /\ UNCHANGED <<requests, replay, results, effects, accepted>>

ReceiverNext ==
  \/ \E n \in Nonces :
       \/ \E k \in Keys, b \in Bodies, sentAt \in 0 .. MaxTime + MaxSkew :
            signPartnerWebhook(n, k, b, sentAt)
       \/ receivePartnerWebhook(n) \/ applyFails(n) \/ replayDetected(n)
  \/ ReceiverTick

ReceiverSpec == ReceiverInit /\ [][ReceiverNext]_receiverVars

-----------------------------------------------------------------------------
(* Properties *)

\* INV-09: the effect of an event happens at most once, and it is the effect
\* whose result the store replays, however often, late or altered its requests
\* arrive.
EffectOnce ==
  \A k \in Keys : effects[k] = IF results[k] = Nothing THEN <<>> ELSE <<results[k]>>

\* Before the last second of its window a request that was accepted is still
\* remembered, so that it cannot be accepted again: entries never go too soon,
\* also for requests of a sender whose clock runs ahead.
RememberedInsideWindow ==
  \A n \in Nonces :
    accepted[n] > 0 /\ now < requests[n].sentAt + Window =>
      replay[n] # Nothing /\ accepted[n] = 1

\* Types, and the memory of the replay store: no nonce is forgotten too early.
ReplayMemory == ReceiverTypeOK /\ RememberedInsideWindow

=============================================================================
