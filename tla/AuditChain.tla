------------------------------- MODULE AuditChain -------------------------------
(***************************************************************************)
(* packages/audit/auditLog.ts: the authenticated event chain, its trust    *)
(* anchor, the key ring and AuditLog.restore; remoteAudit.ts keeps logs of *)
(* the same format.                                                        *)
(*                                                                         *)
(* Abstraction: digests and tags are collision free, so the hash and the   *)
(* tag of an event are its id (a UUID); an event names its predecessor     *)
(* once for previousHash and previousAuthenticationTag.                    *)
(***************************************************************************)
EXTENDS Naturals, Sequences, SequencesExt

CONSTANTS None, EventIds, KeyIds

AuditEvent ==
  [id : EventIds, sequence : Nat, previous : EventIds \cup {None},
   keyId : KeyIds, keyVersion : Nat]

AuditTrustAnchor ==
  [eventCount : Nat, tip : EventIds \cup {None},
   tipKeyId : KeyIds \cup {None}, tipKeyVersion : Nat,
   activeKeyId : KeyIds, activeKeyVersion : Nat]

-----------------------------------------------------------------------------
(* InMemoryAuditKeyring: keyVersion 0 is a key that was never active. *)

KeyRecord == [status : {"provisioned", "active", "retired"}, keyVersion : Nat]

ActiveKeyId(ring) == CHOOSE k \in DOMAIN ring : ring[k].status = "active"

LatestKeyVersion(ring) == ring[ActiveKeyId(ring)].keyVersion

MayActivate(ring, k) == k \in DOMAIN ring /\ ring[k].status = "provisioned"

Activated(ring, k) ==
  [ring EXCEPT ![ActiveKeyId(ring)].status = "retired",
               ![k] = [status |-> "active",
                       keyVersion |-> LatestKeyVersion(ring) + 1]]

\* keyFor
Known(ring, k) == k \in DOMAIN ring /\ ring[k].status # "provisioned"

-----------------------------------------------------------------------------
(* The chain *)

TipId(events) == IF events = <<>> THEN None ELSE Last(events).id

\* append and #authenticate, on the predecessor the caller read.
EventAfterOffByOne(previous, count, id, k, version) ==
  [id |-> id, sequence |-> count, previous |-> previous,
   keyId |-> k, keyVersion |-> version]
EventAfter(previous, count, id, k, version) ==
  [id |-> id, sequence |-> count + 1, previous |-> previous,
   keyId |-> k, keyVersion |-> version]

\* trustAnchor, anchorFor
AnchorFor(events, k, version) ==
  [eventCount |-> Len(events), tip |-> TipId(events),
   tipKeyId |-> IF events = <<>> THEN None ELSE Last(events).keyId,
   tipKeyVersion |-> IF events = <<>> THEN 0 ELSE Last(events).keyVersion,
   activeKeyId |-> k, activeKeyVersion |-> version]

\* verifySnapshot
Verifies(events, ring) ==
  \A i \in DOMAIN events :
    /\ events[i].sequence = i
    /\ events[i].previous = IF i = 1 THEN None ELSE events[i - 1].id
    /\ Known(ring, events[i].keyId)
    /\ events[i].keyVersion = ring[events[i].keyId].keyVersion
    /\ i > 1 => \/ events[i].keyVersion > events[i - 1].keyVersion
                \/ /\ events[i].keyVersion = events[i - 1].keyVersion
                   /\ events[i].keyId = events[i - 1].keyId

-----------------------------------------------------------------------------
(* AuditLog.restore of an authenticated snapshot *)

\* verify compares every event with the hash, tag and key that the walk has
\* reached before it, which start at genesis.
Walk(events, i) ==
  IF i = 0 THEN [hash |-> None, keyId |-> None, keyVersion |-> 0]
  ELSE [hash |-> events[i].id, keyId |-> events[i].keyId,
        keyVersion |-> events[i].keyVersion]

Verify(events, ring) ==
  \A i \in DOMAIN events :
    LET event == events[i]
        walk == Walk(events, i - 1)
    IN /\ event.previous = walk.hash
       /\ Known(ring, event.keyId)
       /\ ring[event.keyId].keyVersion = event.keyVersion
       /\ event.keyVersion >= walk.keyVersion
       /\ event.keyVersion = walk.keyVersion => event.keyId = walk.keyId

\* The anchor must name the key that is active now.
VerifyTrustAnchor(events, anchor, ring) ==
  anchor = AnchorFor(events, ActiveKeyId(ring), LatestKeyVersion(ring))

RestoresFaulty(events, anchor, ring) ==
  /\ \A i \in DOMAIN events : events[i].sequence = i
  /\ Verify(events, ring)
Restores(events, anchor, ring) ==
  /\ \A i \in DOMAIN events : events[i].sequence = i
  /\ Verify(events, ring)
  /\ VerifyTrustAnchor(events, anchor, ring)

=============================================================================
