--------------------------- MODULE RemoteAuditProofs ---------------------------
(***************************************************************************)
(* For any number of processes, events and keys, and one append at a time  *)
(* in a process: the log verifies, the anchor is stranded by nothing but   *)
(* an abort, and store and anchor implement the anchored log.  (Two        *)
(* appends at once break the chain: run custody_stale_writer.)             *)
(*                                                                         *)
(* The argument is that revisions tell what is current.  A process whose   *)
(* revision is the store's holds the store's events, so that what it       *)
(* prepares extends them; one whose anchor is the published one knows that *)
(* the log is anchored up to those events, so that what it publishes is    *)
(* the next.                                                               *)
(***************************************************************************)
EXTENDS RemoteAudit, TLAPS

\* What REMOTE_AUDIT_KEY_CUSTODY.md leaves to the caller: appends of a process
\* come one after the other.
OneAtATime == \A s, t \in Slots : s = t

IdsOf(events) == {events[i].id : i \in DOMAIN events}
Begins(h, g) == Len(h) <= Len(g) /\ \A i \in 1 .. Len(h) : h[i] = g[i]

\* A key was active under this version.
Signs(key, version) == Known(ring, key) /\ version = ring[key].keyVersion
Named(anchor) == Signs(anchor.activeKeyId, anchor.activeKeyVersion)

\* The provider has an active key, and versions count from 1.
RingOK ==
  /\ \E k \in KeyIds : ring[k].status = "active"
  /\ \A k \in KeyIds : Known(ring, k) => ring[k].keyVersion > 0

\* The pending commit is one event more than the log, and a new one; once its
\* anchor is published the anchored log is what it would commit.
PendingIsAnchored ==
  store.pending # None /\ store.pending.commitId \in Range(anchored)
PendingOK ==
  /\ store.pending # None =>
       /\ \E e \in AuditEvent : /\ e.id = store.pending.commitId
                                /\ store.pending.events = Append(store.events, e)
       /\ Attests(store.pending.events, store.pending.anchor)
       /\ store.pending.commitId \notin aborted
       /\ store.pending.commitId \notin IdsOf(store.events)
       /\ store.pending.commitId \in used
  /\ PendingIsAnchored =>
       /\ published # None /\ published.anchor = store.pending.anchor
       /\ anchored = Ids(store.pending.events)

\* The published anchor attests the log, or the pending commit, or an abort
\* stranded it.
AnchorOK ==
  /\ published = None => store.events = <<>> /\ anchored = <<>>
  /\ published # None =>
       /\ published.revision > 0 /\ Named(published.anchor)
       /\ published.anchor.tip \in Range(anchored) \cup {None}
       /\ \/ anchored = Ids(store.events) /\ Attests(store.events, published.anchor)
          \/ /\ store.pending # None /\ anchored = Ids(store.pending.events)
             /\ published.anchor = store.pending.anchor
          \/ published.anchor.tip \in aborted

\* Ids are used once, and what was aborted is not in the log.
IdsOK ==
  /\ Range(anchored) \subseteq used /\ aborted \subseteq used
  /\ IdsOf(store.events) \subseteq used
  /\ \A id \in IdsOf(store.events) : id \notin aborted

\* What the services hold.
Services == RingOK /\ ChainVerifies /\ PendingOK /\ AnchorOK /\ IdsOK

\* What a process m read of the store and of the anchor, however long ago.
ReadState(m) ==
  m.state # None =>
    /\ m.state.revision <= store.revision
    /\ m.state.revision = store.revision => m.state.events = store.events
    /\ Begins(m.state.events, store.events)
    /\ m.state.pending # None => m.state.pending.anchor.tip = m.state.pending.commitId
ReadAnchor(m) ==
  m.published # None =>
    /\ published # None /\ m.published.revision <= published.revision
    /\ m.published.revision = published.revision => m.published = published
    /\ m.published.anchor.tip \in Range(anchored) \cup {None}
Stands(m) ==
  /\ m.phase # "closed" => m.state # None
  /\ m.phase = "recover" => m.state.pending # None
  /\ m.phase = "open" =>
       /\ m.published # None
       /\ m.published.revision = published.revision => anchored = Ids(m.state.events)
Fits(m) == ReadState(m) /\ ReadAnchor(m) /\ Stands(m)

\* What an append a of the process m relies on.
Unheard(id) ==
  /\ id \notin IdsOf(store.events) /\ id \notin aborted
  /\ id \notin Range(anchored) /\ ~IsPending(id)
BusyFits(m, a) ==
  a.phase # "idle" => m.phase = "open" /\ a.event # None /\ a.event.id \in used
SignedFits(m, a) ==
  a.phase = "signed" =>
    LET events == m.state.events IN
    /\ Unheard(a.event.id)
    /\ a.event.sequence = Len(events) + 1 /\ a.event.previous = TipId(events)
    /\ Signs(a.event.keyId, a.event.keyVersion)
    /\ events # <<>> =>
         \/ a.event.keyVersion > Last(events).keyVersion
         \/ a.event.keyVersion = Last(events).keyVersion /\ a.event.keyId = Last(events).keyId
PreparedFits(m, a) ==
  a.phase = "prepared" =>
    /\ a.pending # None /\ a.pending.commitId = a.event.id
    /\ a.pending.events = Append(m.state.events, a.event)
    /\ Attests(a.pending.events, a.pending.anchor) /\ Named(a.pending.anchor)
    /\ store.pending = a.pending \/ a.event.id \in aborted
    /\ a.event.id \notin Range(anchored)
    /\ PendingIsAnchored => m.published.revision < published.revision
PublishedFits(a) ==
  a.phase \in {"published", "committed"} =>
    /\ a.event.id \in Range(anchored)
    /\ a.published # None /\ published # None
    /\ a.published.revision <= published.revision
    /\ a.published.revision = published.revision => a.published = published
    /\ a.published.anchor.tip \in Range(anchored)
CommittedFits(a) ==
  a.phase = "committed" =>
    /\ a.event.id \in IdsOf(store.events)
    /\ a.published.revision = published.revision => anchored = Ids(store.events)
AppendFits(m, a) ==
  /\ BusyFits(m, a) /\ SignedFits(m, a) /\ PreparedFits(m, a)
  /\ PublishedFits(a) /\ CommittedFits(a)

\* No two appends have one event.
Distinct ==
  \A p, q \in Processes, s, t \in Slots :
    append[p][s].phase # "idle" /\ append[q][t].phase # "idle" =>
      (append[p][s].event.id = append[q][t].event.id => p = q /\ s = t)

\* The inductive invariant.
Inv ==
  /\ TypeOK /\ Services
  /\ \A p \in Processes : Fits(process[p])
  /\ \A p \in Processes, s \in Slots : AppendFits(process[p], append[p][s])
  /\ Distinct

-----------------------------------------------------------------------------
(* Sequences of events *)

\* Ids of a log are a sequence of ids.
LEMMA IdsFacts ==
  ASSUME NEW h \in Seq(AuditEvent)
  PROVE  /\ Len(h) \in Nat /\ DOMAIN h = 1 .. Len(h)
         /\ Ids(h) \in Seq(EventIds) /\ Len(Ids(h)) = Len(h)
         /\ \A i \in 1 .. Len(h) : h[i] \in AuditEvent /\ Ids(h)[i] = h[i].id
         /\ Range(Ids(h)) = IdsOf(h) /\ IdsOf(h) \subseteq EventIds
<1>1. Len(h) \in Nat /\ DOMAIN h = 1 .. Len(h) /\ \A i \in 1 .. Len(h) : h[i] \in AuditEvent
  OBVIOUS
<1>2. \A i \in 1 .. Len(h) : h[i].id \in EventIds
  BY <1>1 DEF AuditEvent
<1>3. Ids(h) = [i \in 1 .. Len(h) |-> h[i].id]
  BY <1>1 DEF Ids
<1>4. Ids(h) \in Seq(EventIds) /\ Len(Ids(h)) = Len(h)
  BY <1>1, <1>2, <1>3
<1>5. Range(Ids(h)) = IdsOf(h)
  BY <1>1, <1>3 DEF Range, IdsOf
<1>6. IdsOf(h) \subseteq EventIds
  BY <1>1, <1>2 DEF IdsOf
<1>7. QED BY <1>1, <1>3, <1>4, <1>5, <1>6

\* A log with one more event (a predicate, so that Append is not expanded where
\* the facts about it are used).
Extends(g, h, e) == g = Append(h, e)

\* What that makes of the log, its ids and its tip.
LEMMA AppendFacts ==
  ASSUME NEW h \in Seq(AuditEvent), NEW e \in AuditEvent, NEW g, Extends(g, h, e)
  PROVE  /\ g \in Seq(AuditEvent) /\ Len(g) = Len(h) + 1 /\ g[Len(h) + 1] = e
         /\ \A i \in 1 .. Len(h) : g[i] = h[i]
         /\ g # <<>> /\ Last(g) = e /\ TipId(g) = e.id
         /\ Ids(g) = Append(Ids(h), e.id) /\ IdsOf(g) = IdsOf(h) \cup {e.id}
         /\ Begins(h, g)
<1>1. /\ g \in Seq(AuditEvent) /\ Len(g) = Len(h) + 1 /\ g[Len(h) + 1] = e
      /\ \A i \in 1 .. Len(h) : g[i] = h[i]
      /\ Len(h) \in Nat /\ DOMAIN h = 1 .. Len(h) /\ DOMAIN g = 1 .. Len(h) + 1
  BY DEF Extends
<1>2. g # <<>> /\ Last(g) = e /\ TipId(g) = e.id
  BY <1>1 DEF Last, TipId
<1>3. IdsOf(g) = IdsOf(h) \cup {e.id}
  <2>1. ASSUME NEW x \in IdsOf(g) PROVE x \in IdsOf(h) \cup {e.id}
    <3>1. PICK i \in 1 .. Len(h) + 1 : x = g[i].id
      BY <1>1, <2>1 DEF IdsOf
    <3>2. CASE i = Len(h) + 1
      BY <1>1, <3>1, <3>2
    <3>3. CASE i # Len(h) + 1
      <4>1. i \in 1 .. Len(h)
        BY <1>1, <3>3
      <4>2. QED BY <1>1, <3>1, <4>1 DEF IdsOf
    <3>4. QED BY <3>2, <3>3
  <2>2. ASSUME NEW x \in IdsOf(h) PROVE x \in IdsOf(g)
    <3>1. PICK i \in 1 .. Len(h) : x = h[i].id
      BY <1>1, <2>2 DEF IdsOf
    <3>2. i \in DOMAIN g /\ g[i] = h[i]
      BY <1>1
    <3>3. QED BY <3>1, <3>2 DEF IdsOf
  <2>3. e.id \in IdsOf(g)
    <3>1. Len(h) + 1 \in DOMAIN g
      BY <1>1
    <3>2. QED BY <1>1, <3>1 DEF IdsOf
  <2>4. QED BY <2>1, <2>2, <2>3
<1>4. Ids(g) = Append(Ids(h), e.id)
  <2>1. Ids(h) \in Seq(EventIds) /\ Len(Ids(h)) = Len(h) /\ e.id \in EventIds
    BY IdsFacts DEF AuditEvent
  <2>2. \A i \in 1 .. Len(h) : Ids(h)[i] = h[i].id
    BY IdsFacts
  <2>3. /\ Ids(g) \in Seq(EventIds) /\ Len(Ids(g)) = Len(h) + 1
        /\ \A i \in 1 .. Len(h) + 1 : Ids(g)[i] = g[i].id
    BY <1>1, IdsFacts
  <2>4. \A i \in 1 .. Len(h) + 1 : Ids(g)[i] = Append(Ids(h), e.id)[i]
    <3>1. ASSUME NEW i \in 1 .. Len(h) PROVE Ids(g)[i] = Append(Ids(h), e.id)[i]
      BY <1>1, <2>1, <2>2, <2>3
    <3>2. Ids(g)[Len(h) + 1] = Append(Ids(h), e.id)[Len(h) + 1]
      BY <1>1, <2>1, <2>3
    <3>3. ASSUME NEW i \in 1 .. Len(h) + 1 PROVE i \in 1 .. Len(h) \/ i = Len(h) + 1
      BY <1>1
    <3>4. QED BY <3>1, <3>2, <3>3
  <2>5. Append(Ids(h), e.id) \in Seq(EventIds) /\ Len(Append(Ids(h), e.id)) = Len(h) + 1
    BY <1>1, <2>1
  <2>6. QED BY <1>1, <2>3, <2>4, <2>5
<1>5. Begins(h, g)
  BY <1>1 DEF Begins
<1>6. QED BY <1>1, <1>2, <1>3, <1>4, <1>5

\* One more id.
LEMMA RangeGrows ==
  ASSUME NEW h \in Seq(EventIds), NEW id \in EventIds, NEW g, g = Append(h, id)
  PROVE  g \in Seq(EventIds) /\ Range(g) = Range(h) \cup {id}
<1>1. /\ g \in Seq(EventIds) /\ Len(h) \in Nat /\ DOMAIN h = 1 .. Len(h)
      /\ DOMAIN g = 1 .. Len(h) + 1 /\ g[Len(h) + 1] = id
      /\ \A i \in 1 .. Len(h) : g[i] = h[i]
  OBVIOUS
<1>2. ASSUME NEW x \in Range(g) PROVE x \in Range(h) \cup {id}
  <2>1. PICK i \in 1 .. Len(h) + 1 : x = g[i]
    BY <1>1, <1>2 DEF Range
  <2>2. i \in 1 .. Len(h) \/ i = Len(h) + 1
    BY <1>1
  <2>3. QED BY <1>1, <2>1, <2>2 DEF Range
<1>3. ASSUME NEW x \in Range(h) PROVE x \in Range(g)
  <2>1. PICK i \in 1 .. Len(h) : x = h[i]
    BY <1>1, <1>3 DEF Range
  <2>2. i \in DOMAIN g
    BY <1>1
  <2>3. QED BY <1>1, <2>1, <2>2 DEF Range
<1>4. id \in Range(g)
  <2>1. Len(h) + 1 \in DOMAIN g
    BY <1>1
  <2>2. QED BY <1>1, <2>1 DEF Range
<1>5. QED BY <1>1, <1>2, <1>3, <1>4

\* What an anchor attests has its length and its tip.
LEMMA AttestsFacts ==
  ASSUME NEW h \in Seq(AuditEvent), NEW anchor, Attests(h, anchor)
  PROVE  anchor.eventCount = Len(h) /\ anchor.tip = TipId(h)
BY DEF Attests, AnchorFor

\* The beginning of a log that has its length is the log.
LEMMA BeginsWhole ==
  ASSUME NEW h \in Seq(AuditEvent), NEW g \in Seq(AuditEvent), Begins(h, g), Len(h) = Len(g)
  PROVE  h = g
BY DEF Begins

\* The tip of a beginning is an event of the log.
LEMMA TipInside ==
  ASSUME NEW h \in Seq(AuditEvent), NEW g \in Seq(AuditEvent), Begins(h, g)
  PROVE  TipId(h) \in IdsOf(g) \cup {None}
<1>1. CASE h = <<>>
  BY <1>1 DEF TipId
<1>2. CASE h # <<>>
  <2>1. Len(h) \in 1 .. Len(g) /\ Len(g) \in Nat /\ DOMAIN g = 1 .. Len(g)
    BY <1>2 DEF Begins
  <2>2. TipId(h) = g[Len(h)].id
    BY <1>2, <2>1 DEF TipId, Last, Begins
  <2>3. QED BY <2>1, <2>2 DEF IdsOf
<1>3. QED BY <1>1, <1>2

-----------------------------------------------------------------------------
(* The provider's keys *)

\* Keys that were active keep their versions.
Grows == \A k, v : Signs(k, v) => Signs(k, v)'

\* The key that activeKey() returns.
LEMMA ActiveFacts ==
  ASSUME TypeOK, RingOK
  PROVE  /\ ActiveKeyId(ring) \in KeyIds /\ ring[ActiveKeyId(ring)].status = "active"
         /\ LatestKeyVersion(ring) \in Nat /\ LatestKeyVersion(ring) > 0
         /\ Signs(ActiveKeyId(ring), LatestKeyVersion(ring))
<1>1. DOMAIN ring = KeyIds /\ \A k \in KeyIds : ring[k] \in KeyRecord
  BY DEF TypeOK
<1>2. ActiveKeyId(ring) \in KeyIds /\ ring[ActiveKeyId(ring)].status = "active"
  BY <1>1 DEF RingOK, ActiveKeyId
<1>3. LatestKeyVersion(ring) \in Nat
  BY <1>1, <1>2 DEF LatestKeyVersion, KeyRecord
<1>4. Signs(ActiveKeyId(ring), LatestKeyVersion(ring))
  BY <1>1, <1>2 DEF Signs, Known, LatestKeyVersion
<1>5. LatestKeyVersion(ring) > 0
  BY <1>2, <1>4 DEF RingOK, Signs, LatestKeyVersion
<1>6. QED BY <1>2, <1>3, <1>4, <1>5

\* Activation retires one key and adds one.
LEMMA RingKept ==
  ASSUME TypeOK, RingOK, UNCHANGED ring \/ \E k \in KeyIds : Activate(k)
  PROVE  ring' \in [KeyIds -> KeyRecord] /\ RingOK' /\ Grows
<1>1. CASE UNCHANGED ring
  BY <1>1 DEF TypeOK, RingOK, Grows, Signs, Known
<1>2. ASSUME NEW k \in KeyIds, Activate(k)
      PROVE  ring' \in [KeyIds -> KeyRecord] /\ RingOK' /\ Grows
  <2>1. PICK old \in KeyIds : old = ActiveKeyId(ring)
    BY ActiveFacts
  <2>2. PICK latest \in Nat : latest = LatestKeyVersion(ring)
    BY ActiveFacts
  <2>3. /\ ring' = [ring EXCEPT ![old].status = "retired",
                                ![k] = [status |-> "active", keyVersion |-> latest + 1]]
        /\ ring[k].status = "provisioned" /\ ring[old].status = "active"
    BY <1>2, <2>1, <2>2, ActiveFacts DEF Activate, MayActivate, Activated
  <2>4. ring \in [KeyIds -> KeyRecord] /\ old # k
    BY <2>3 DEF TypeOK
  <2>5. /\ ring'[k] = [status |-> "active", keyVersion |-> latest + 1]
        /\ ring'[old].status = "retired" /\ ring'[old].keyVersion = ring[old].keyVersion
        /\ \A j \in KeyIds : j # k /\ j # old => ring'[j] = ring[j]
        /\ DOMAIN ring' = KeyIds
    BY <2>3, <2>4 DEF KeyRecord
  <2>6. ring' \in [KeyIds -> KeyRecord]
    BY <2>3, <2>4 DEF KeyRecord
  <2>7. RingOK'
    BY <2>3, <2>4, <2>5 DEF RingOK, Known
  <2>8. Grows
    BY <2>3, <2>4, <2>5 DEF Grows, Signs, Known
  <2>9. QED BY <2>6, <2>7, <2>8
<1>3. QED BY <1>1, <1>2

\* A chain that verifies still does when another key is activated.
LEMMA ChainKept ==
  ASSUME NEW h \in Seq(AuditEvent), Verifies(h, ring), Grows
  PROVE  Verifies(h, ring')
<1>1. \A i \in DOMAIN h : Signs(h[i].keyId, h[i].keyVersion)
  BY DEF Verifies, Signs
<1>2. \A i \in DOMAIN h : Signs(h[i].keyId, h[i].keyVersion)'
  BY <1>1 DEF Grows
<1>3. QED BY <1>2 DEF Verifies, Signs

\* An event that was made for the end of a chain extends it.
LEMMA ChainExtended ==
  ASSUME NEW h \in Seq(AuditEvent), Verifies(h, ring), NEW e \in AuditEvent,
         NEW g, g = Append(h, e),
         e.sequence = Len(h) + 1, e.previous = TipId(h), Signs(e.keyId, e.keyVersion),
         h # <<>> => \/ e.keyVersion > Last(h).keyVersion
                     \/ e.keyVersion = Last(h).keyVersion /\ e.keyId = Last(h).keyId
  PROVE  Verifies(g, ring)
<1>1. /\ Len(h) \in Nat /\ DOMAIN h = 1 .. Len(h) /\ DOMAIN g = 1 .. Len(h) + 1
      /\ g[Len(h) + 1] = e /\ \A i \in 1 .. Len(h) : g[i] = h[i]
  OBVIOUS
<1>2. ASSUME NEW i \in 1 .. Len(h) + 1
      PROVE  /\ g[i].sequence = i
             /\ g[i].previous = IF i = 1 THEN None ELSE g[i - 1].id
             /\ Known(ring, g[i].keyId)
             /\ g[i].keyVersion = ring[g[i].keyId].keyVersion
             /\ i > 1 => \/ g[i].keyVersion > g[i - 1].keyVersion
                         \/ /\ g[i].keyVersion = g[i - 1].keyVersion
                            /\ g[i].keyId = g[i - 1].keyId
  <2>1. CASE i \in 1 .. Len(h)
    <3>1. g[i] = h[i] /\ i \in DOMAIN h
      BY <1>1, <2>1
    <3>2. i # 1 => g[i - 1] = h[i - 1]
      BY <1>1, <2>1
    <3>3. QED BY <3>1, <3>2 DEF Verifies
  <2>2. CASE i = Len(h) + 1
    <3>1. g[i] = e
      BY <1>1, <2>2
    <3>2. CASE h = <<>>
      <4>1. i = 1 /\ Len(h) = 0
        BY <1>1, <2>2, <3>2
      <4>2. QED BY <3>1, <3>2, <4>1 DEF TipId, Signs
    <3>3. CASE h # <<>>
      <4>0. Len(h) \in 1 .. Len(h)
        BY <3>3
      <4>1. i # 1 /\ i - 1 = Len(h) /\ g[i - 1] = Last(h)
        BY <1>1, <2>2, <4>0 DEF Last
      <4>2. QED BY <2>2, <3>1, <3>3, <4>1 DEF TipId, Signs
    <3>4. QED BY <3>2, <3>3
  <2>3. QED BY <1>1, <2>1, <2>2
<1>3. QED BY <1>1, <1>2 DEF Verifies

-----------------------------------------------------------------------------
(* What a step does to the store and to the anchor *)

Still == UNCHANGED <<store, published, anchored, aborted>>

Commits ==
  PendingIsAnchored /\ Committed /\ UNCHANGED <<published, anchored, aborted>>

Aborts ==
  /\ store.pending # None /\ store' = [store EXCEPT !.pending = None]
  /\ aborted' = aborted \cup {store.pending.commitId}
  /\ UNCHANGED <<published, anchored>>

\* The first anchor attests the empty log.
Begun ==
  /\ published = None
  /\ \E k \in KeyIds, v \in Nat :
       Signs(k, v) /\ published' = [revision |-> 1, anchor |-> AnchorFor(<<>>, k, v)]
  /\ UNCHANGED <<store, anchored, aborted>>

Prepares(id, z) ==
  /\ store.pending = None /\ store' = [store EXCEPT !.pending = z]
  /\ id \in EventIds /\ z.commitId = id /\ id \in used /\ Unheard(id)
  /\ \E e \in AuditEvent : e.id = id /\ z.events = Append(store.events, e)
  /\ Attests(z.events, z.anchor) /\ Verifies(z.events, ring)
  /\ UNCHANGED <<published, anchored, aborted>>

Publishes(id, z) ==
  /\ published # None
  /\ published' = [revision |-> published.revision + 1, anchor |-> z.anchor]
  /\ anchored' = Append(anchored, id)
  /\ id \in EventIds /\ z.anchor.tip = id /\ Named(z.anchor)
  /\ id \in used /\ id \notin Range(anchored) /\ ~PendingIsAnchored
  /\ \/ id \in aborted
     \/ store.pending = z /\ z.commitId = id /\ Append(anchored, id) = Ids(z.events)
  /\ UNCHANGED <<store, aborted>>

\* Any of these, on behalf of the append with this id.
Serves(id) ==
  \/ Still \/ Commits \/ Aborts \/ Begun
  \/ \E z \in Pending : Prepares(id, z) \/ Publishes(id, z)

\* The pending commit, its event and its anchor.
LEMMA PendingFacts ==
  ASSUME TypeOK, PendingOK, store.pending # None
  PROVE  /\ store.pending \in Pending /\ store.pending.commitId \in EventIds
         /\ store.pending.events \in Seq(AuditEvent)
         /\ IdsOf(store.pending.events) = IdsOf(store.events) \cup {store.pending.commitId}
         /\ Begins(store.events, store.pending.events)
         /\ store.pending.anchor.tip = store.pending.commitId
<1>1. store.pending \in Pending /\ store.events \in Seq(AuditEvent)
  BY DEF TypeOK, RemoteAuditState
<1>2. store.pending.commitId \in EventIds /\ store.pending.events \in Seq(AuditEvent)
  BY <1>1 DEF Pending
<1>3. PICK e \in AuditEvent : /\ e.id = store.pending.commitId
                              /\ store.pending.events = Append(store.events, e)
  BY DEF PendingOK
<1>4. /\ IdsOf(store.pending.events) = IdsOf(store.events) \cup {store.pending.commitId}
      /\ Begins(store.events, store.pending.events)
      /\ TipId(store.pending.events) = store.pending.commitId
  <2>1. PICK h \in Seq(AuditEvent) : h = store.events
    BY <1>1
  <2>2. PICK g : g = store.pending.events
    OBVIOUS
  <2>3. Extends(g, h, e)
    BY <1>3, <2>1, <2>2 DEF Extends
  <2>4. IdsOf(g) = IdsOf(h) \cup {e.id} /\ Begins(h, g) /\ TipId(g) = e.id
    BY <2>3, AppendFacts
  <2>5. QED BY <1>3, <2>1, <2>2, <2>4
<1>5. store.pending.anchor.tip = TipId(store.pending.events)
  BY <1>2, AttestsFacts DEF PendingOK
<1>6. QED BY <1>1, <1>2, <1>4, <1>5

\* The next anchor.
LEMMA PublishedNext ==
  ASSUME TypeOK, NEW id, NEW z \in Pending, Publishes(id, z)
  PROVE  /\ published \in PublishedAuditAnchor /\ published.revision \in Nat
         /\ published' \in PublishedAuditAnchor /\ published' # None
         /\ published'.revision = published.revision + 1 /\ published'.anchor = z.anchor
<1>1. published \in PublishedAuditAnchor
  BY DEF TypeOK, Publishes
<1>2. published.revision \in Nat
  BY <1>1 DEF PublishedAuditAnchor
<1>3. z.anchor \in AuditTrustAnchor
  BY DEF Pending
<1>4. published' \in PublishedAuditAnchor
  BY <1>2, <1>3 DEF PublishedAuditAnchor, Publishes
<1>5. published' # None
  BY <1>4, RemoteAuditAssumption
<1>6. QED BY <1>1, <1>2, <1>4, <1>5 DEF Publishes

\* The store, the anchor and the histories after a step.
LEMMA ServedTypes ==
  ASSUME TypeOK, PendingOK, NEW id, Serves(id)
  PROVE  /\ store' \in RemoteAuditState /\ published' \in PublishedAuditAnchor \cup {None}
         /\ anchored' \in Seq(EventIds) /\ aborted' \subseteq EventIds
<1>1. /\ store \in RemoteAuditState /\ published \in PublishedAuditAnchor \cup {None}
      /\ anchored \in Seq(EventIds) /\ aborted \subseteq EventIds
  BY DEF TypeOK
<1>2. CASE Still
  BY <1>1, <1>2 DEF Still
<1>3. CASE Commits
  BY <1>1, <1>3, PendingFacts DEF Commits, Committed, PendingIsAnchored, RemoteAuditState
<1>4. CASE Aborts
  BY <1>1, <1>4, PendingFacts DEF Aborts, RemoteAuditState
<1>5. CASE Begun
  <2>1. PICK k \in KeyIds, v \in Nat :
          published' = [revision |-> 1, anchor |-> AnchorFor(<<>>, k, v)]
    BY <1>5 DEF Begun
  <2>2. AnchorFor(<<>>, k, v) \in AuditTrustAnchor
    BY DEF AnchorFor, TipId, AuditTrustAnchor
  <2>3. QED BY <1>1, <1>5, <2>1, <2>2 DEF Begun, PublishedAuditAnchor
<1>6. ASSUME NEW z \in Pending, Prepares(id, z)
      PROVE  /\ store' \in RemoteAuditState /\ published' \in PublishedAuditAnchor \cup {None}
             /\ anchored' \in Seq(EventIds) /\ aborted' \subseteq EventIds
  BY <1>1, <1>6 DEF Prepares, RemoteAuditState
<1>7. ASSUME NEW z \in Pending, Publishes(id, z)
      PROVE  /\ store' \in RemoteAuditState /\ published' \in PublishedAuditAnchor \cup {None}
             /\ anchored' \in Seq(EventIds) /\ aborted' \subseteq EventIds
  <2>1. published \in PublishedAuditAnchor /\ published.revision \in Nat
    BY <1>1, <1>7 DEF Publishes, PublishedAuditAnchor
  <2>2. z.anchor \in AuditTrustAnchor
    BY DEF Pending
  <2>3. QED BY <1>1, <1>7, <2>1, <2>2 DEF Publishes, PublishedAuditAnchor
<1>8. QED BY <1>2, <1>3, <1>4, <1>5, <1>6, <1>7 DEF Serves

\* The store and the anchor keep what is said of them.
LEMMA ServedChain ==
  ASSUME TypeOK, Services, Grows, NEW id, Serves(id)
  PROVE  ChainVerifies'
<1>1. /\ store.events \in Seq(AuditEvent) /\ Verifies(store.events, ring)
      /\ store \in RemoteAuditState
  BY DEF TypeOK, Services, ChainVerifies, RemoteAuditState
<1>2. Verifies(store.events, ring')
  BY <1>1, ChainKept
<1>3. ASSUME store.pending # None PROVE Verifies(store.pending.events, ring')
  <2>1. store.pending.events \in Seq(AuditEvent)
    BY <1>3, PendingFacts DEF Services
  <2>2. QED BY <1>3, <2>1, ChainKept DEF Services, ChainVerifies
<1>4. CASE Still
  BY <1>2, <1>3, <1>4 DEF Still, ChainVerifies
<1>5. CASE Commits
  BY <1>3, <1>5 DEF Commits, Committed, PendingIsAnchored, ChainVerifies
<1>6. CASE Aborts
  BY <1>1, <1>2, <1>6 DEF Aborts, ChainVerifies, RemoteAuditState
<1>7. CASE Begun
  BY <1>2, <1>3, <1>7 DEF Begun, ChainVerifies
<1>8. ASSUME NEW z \in Pending, Prepares(id, z) PROVE ChainVerifies'
  <2>1. Verifies(z.events, ring')
    <3>1. z.events \in Seq(AuditEvent)
      BY DEF Pending
    <3>2. QED BY <1>8, <3>1, ChainKept DEF Prepares
  <2>2. store'.events = store.events /\ store'.pending = z
    BY <1>1, <1>8 DEF Prepares, RemoteAuditState
  <2>3. QED BY <1>2, <2>1, <2>2 DEF ChainVerifies
<1>9. ASSUME NEW z \in Pending, Publishes(id, z) PROVE ChainVerifies'
  BY <1>2, <1>3, <1>9 DEF Publishes, ChainVerifies
<1>10. QED BY <1>4, <1>5, <1>6, <1>7, <1>8, <1>9 DEF Serves

\* The pending commit after a step.
LEMMA ServedPending ==
  ASSUME TypeOK, Services, used \subseteq used', NEW id, Serves(id)
  PROVE  PendingOK'
<1>1. /\ store \in RemoteAuditState /\ anchored \in Seq(EventIds)
      /\ PendingOK /\ AnchorOK
  BY DEF TypeOK, Services
<1>2. CASE Still
  BY <1>1, <1>2 DEF Still, PendingOK, PendingIsAnchored
<1>3. CASE Commits
  BY <1>3 DEF Commits, Committed, PendingOK, PendingIsAnchored
<1>4. CASE Aborts
  BY <1>1, <1>4 DEF Aborts, PendingOK, PendingIsAnchored, RemoteAuditState
<1>5. CASE Begun
  <2>1. Range(anchored) = {}
    BY <1>1, <1>5 DEF AnchorOK, Begun, Range
  <2>2. QED BY <1>1, <1>5, <2>1 DEF Begun, PendingOK, PendingIsAnchored
<1>6. ASSUME NEW z \in Pending, Prepares(id, z) PROVE PendingOK'
  <2>1. store'.pending = z /\ store'.events = store.events
    BY <1>1, <1>6 DEF Prepares, RemoteAuditState
  <2>2. /\ z.commitId = id /\ id \in used' /\ id \notin aborted' /\ id \notin Range(anchored)'
        /\ id \notin IdsOf(store'.events) /\ Attests(z.events, z.anchor)
        /\ \E e \in AuditEvent : e.id = id /\ z.events = Append(store'.events, e)
    BY <1>6, <2>1 DEF Prepares, Unheard
  <2>3. ~PendingIsAnchored'
    BY <2>1, <2>2 DEF PendingIsAnchored
  <2>4. QED BY <2>1, <2>2, <2>3 DEF PendingOK
<1>7. ASSUME NEW z \in Pending, Publishes(id, z) PROVE PendingOK'
  <2>1. Range(anchored') = Range(anchored) \cup {id}
    BY <1>1, <1>7, RangeGrows DEF Publishes
  <2>2. published' # None
    BY <1>7, PublishedNext
  <2>3. ASSUME PendingIsAnchored'
        PROVE  /\ published'.anchor = store'.pending.anchor
               /\ anchored' = Ids(store'.pending.events)
    <3>1. store.pending # None /\ store.pending.commitId = id
      BY <1>7, <2>1, <2>3 DEF PendingIsAnchored, Publishes
    <3>2. id \notin aborted
      BY <1>1, <3>1 DEF PendingOK
    <3>3. store.pending = z /\ anchored' = Ids(z.events)
      BY <1>7, <3>2 DEF Publishes
    <3>4. QED BY <1>7, <3>3 DEF Publishes
  <2>4. QED BY <1>1, <1>7, <2>2, <2>3 DEF Publishes, PendingOK
<1>8. QED BY <1>2, <1>3, <1>4, <1>5, <1>6, <1>7 DEF Serves

\* The anchor after a step.
LEMMA ServedAnchor ==
  ASSUME TypeOK, Services, Grows, NEW id, Serves(id)
  PROVE  AnchorOK'
<1>1. /\ store \in RemoteAuditState /\ anchored \in Seq(EventIds)
      /\ PendingOK /\ AnchorOK
  BY DEF TypeOK, Services
<1>2. \A anchor : Named(anchor) => Named(anchor)'
  BY DEF Named, Grows
<1>3. CASE Still
  BY <1>1, <1>2, <1>3 DEF Still, AnchorOK
<1>4. CASE Commits
  BY <1>1, <1>2, <1>4 DEF Commits, Committed, PendingOK, PendingIsAnchored, AnchorOK
<1>5. CASE Aborts
  <2>1. store'.events = store.events
    BY <1>1, <1>5 DEF Aborts, RemoteAuditState
  <2>2. store.pending.anchor.tip \in aborted'
    BY <1>1, <1>5, PendingFacts DEF Aborts
  <2>3. QED BY <1>1, <1>2, <1>5, <2>1, <2>2 DEF Aborts, AnchorOK
<1>6. CASE Begun
  <2>1. PICK k \in KeyIds, v \in Nat :
          Signs(k, v) /\ published' = [revision |-> 1, anchor |-> AnchorFor(<<>>, k, v)]
    BY <1>6 DEF Begun
  <2>2. /\ published'.anchor = AnchorFor(<<>>, k, v) /\ Attests(<<>>, AnchorFor(<<>>, k, v))
        /\ Named(AnchorFor(<<>>, k, v))
    BY <2>1 DEF Attests, AnchorFor, Named
  <2>3. published'.revision = 1 /\ published'.anchor.tip = None
    BY <2>1, <2>2 DEF AnchorFor, TipId
  <2>4. store'.events = <<>> /\ anchored' = <<>> /\ Ids(<<>>) = <<>>
    BY <1>1, <1>6 DEF Begun, AnchorOK, Ids
  <2>5. published' # None
    BY <1>6, ServedTypes, RemoteAuditAssumption, <2>1 DEF Serves, Services,
       PublishedAuditAnchor, AnchorFor, TipId, AuditTrustAnchor
  <2>6. QED BY <1>2, <2>2, <2>4, <2>5, <2>3 DEF AnchorOK
<1>7. ASSUME NEW z \in Pending, Prepares(id, z) PROVE AnchorOK'
  <2>1. store'.events = store.events
    BY <1>1, <1>7 DEF Prepares, RemoteAuditState
  <2>2. QED BY <1>1, <1>2, <1>7, <2>1 DEF Prepares, AnchorOK
<1>8. ASSUME NEW z \in Pending, Publishes(id, z) PROVE AnchorOK'
  <2>1. published' # None
    BY <1>8, PublishedNext
  <2>2. /\ published'.anchor = z.anchor /\ Named(z.anchor)' /\ z.anchor.tip = id
        /\ published'.revision > 0 /\ id \in Range(anchored')
    <3>1. Range(anchored') = Range(anchored) \cup {id}
      BY <1>1, <1>8, RangeGrows DEF Publishes
    <3>2. QED BY <1>2, <1>8, <3>1, PublishedNext DEF Publishes
  <2>3. CASE id \in aborted
    BY <1>8, <2>1, <2>2, <2>3 DEF Publishes, AnchorOK
  <2>4. CASE id \notin aborted
    <3>1. store' = store /\ store.pending = z /\ anchored' = Ids(z.events)
      BY <1>8, <2>4 DEF Publishes
    <3>2. z # None
      BY RemoteAuditAssumption
    <3>3. QED BY <2>1, <2>2, <3>1, <3>2 DEF AnchorOK
  <2>5. QED BY <2>3, <2>4
<1>9. QED BY <1>3, <1>4, <1>5, <1>6, <1>7, <1>8 DEF Serves

\* The ids after a step.
LEMMA ServedIds ==
  ASSUME TypeOK, Services, used \subseteq used', NEW id, Serves(id)
  PROVE  IdsOK'
<1>1. /\ store \in RemoteAuditState /\ anchored \in Seq(EventIds)
      /\ PendingOK /\ IdsOK
  BY DEF TypeOK, Services
<1>2. CASE Still
  BY <1>1, <1>2 DEF Still, IdsOK
<1>3. CASE Commits
  <2>1. store.pending # None /\ store'.events = store.pending.events
    BY <1>3 DEF Commits, Committed, PendingIsAnchored
  <2>2. IdsOf(store'.events) = IdsOf(store.events) \cup {store.pending.commitId}
    BY <1>1, <2>1, PendingFacts
  <2>3. store.pending.commitId \in used /\ store.pending.commitId \notin aborted
    BY <1>1, <2>1 DEF PendingOK
  <2>4. QED BY <1>1, <1>3, <2>2, <2>3 DEF Commits, IdsOK
<1>4. CASE Aborts
  <2>1. store'.events = store.events
    BY <1>1, <1>4 DEF Aborts, RemoteAuditState
  <2>2. store.pending.commitId \in used /\ store.pending.commitId \notin IdsOf(store.events)
    BY <1>1, <1>4 DEF PendingOK, Aborts
  <2>3. QED BY <1>1, <1>4, <2>1, <2>2 DEF Aborts, IdsOK
<1>5. CASE Begun
  BY <1>1, <1>5 DEF Begun, IdsOK
<1>6. ASSUME NEW z \in Pending, Prepares(id, z) PROVE IdsOK'
  <2>1. store'.events = store.events
    BY <1>1, <1>6 DEF Prepares, RemoteAuditState
  <2>2. QED BY <1>1, <1>6, <2>1 DEF Prepares, IdsOK
<1>7. ASSUME NEW z \in Pending, Publishes(id, z) PROVE IdsOK'
  <2>1. Range(anchored') = Range(anchored) \cup {id}
    BY <1>1, <1>7, RangeGrows DEF Publishes
  <2>2. QED BY <1>1, <1>7, <2>1 DEF Publishes, IdsOK
<1>8. QED BY <1>2, <1>3, <1>4, <1>5, <1>6, <1>7 DEF Serves

-----------------------------------------------------------------------------
(* What a process read, and what an append relies on, after another's step *)

\* The store grows at its end only.
LEMMA StoreGrows ==
  ASSUME TypeOK, Services, NEW id, Serves(id)
  PROVE  /\ store.revision \in Nat /\ store'.revision \in Nat
         /\ \/ store'.revision = store.revision /\ store'.events = store.events
            \/ store'.revision = store.revision + 1 /\ Begins(store.events, store'.events)
<1>1. store \in RemoteAuditState /\ store.revision \in Nat /\ PendingOK
  BY DEF TypeOK, Services, RemoteAuditState
<1>2. store'.revision \in Nat
  BY <1>1, ServedTypes DEF RemoteAuditState
<1>3. CASE Commits
  BY <1>1, <1>2, <1>3, PendingFacts DEF Commits, Committed, PendingIsAnchored
<1>4. CASE ~Commits
  BY <1>1, <1>2, <1>4 DEF Serves, Still, Aborts, Begun, Prepares, Publishes, RemoteAuditState
<1>5. QED BY <1>3, <1>4

\* So does what is anchored, with the revision of the anchor.
LEMMA AnchorGrows ==
  ASSUME TypeOK, Services, NEW id, Serves(id)
  PROVE  /\ Range(anchored) \subseteq Range(anchored')
         /\ published # None =>
              /\ published \in PublishedAuditAnchor /\ published.revision \in Nat
              /\ published' # None /\ published'.revision \in Nat
              /\ \/ published' = published /\ anchored' = anchored
                 \/ published'.revision = published.revision + 1
<1>1. /\ anchored \in Seq(EventIds) /\ published \in PublishedAuditAnchor \cup {None}
  BY DEF TypeOK
<1>2. published # None => published.revision \in Nat
  BY <1>1 DEF PublishedAuditAnchor
<1>3. ASSUME NEW z \in Pending, Publishes(id, z)
      PROVE  /\ Range(anchored) \subseteq Range(anchored')
             /\ published # None =>
                  /\ published \in PublishedAuditAnchor /\ published.revision \in Nat
                  /\ published' # None /\ published'.revision \in Nat
                  /\ published'.revision = published.revision + 1
  <2>1. Range(anchored') = Range(anchored) \cup {id}
    BY <1>1, <1>3, RangeGrows DEF Publishes
  <2>2. QED BY <1>3, <2>1, PublishedNext DEF PublishedAuditAnchor
<1>4. CASE ~\E z \in Pending : Publishes(id, z)
  BY <1>1, <1>2, <1>4 DEF Serves, Still, Commits, Aborts, Begun, Prepares
<1>5. QED BY <1>3, <1>4

\* A beginning of a beginning.
LEMMA BeginsOn ==
  ASSUME NEW h \in Seq(AuditEvent), NEW g \in Seq(AuditEvent), NEW f \in Seq(AuditEvent),
         Begins(h, g), Begins(g, f)
  PROVE  Begins(h, f)
BY DEF Begins

\* What a process read still fits after any step on the services.
LEMMA FitsKept ==
  ASSUME TypeOK, Services, NEW id, Serves(id), NEW m \in Process, Fits(m)
  PROVE  Fits(m)'
<1>1. /\ m.state # None => /\ m.state \in RemoteAuditState
                           /\ m.state.revision \in Nat /\ m.state.events \in Seq(AuditEvent)
      /\ m.published # None => m.published \in PublishedAuditAnchor
                               /\ m.published.revision \in Nat
  BY DEF Process, RemoteAuditState, PublishedAuditAnchor
<1>2. store.events \in Seq(AuditEvent) /\ store'.events \in Seq(AuditEvent)
  BY ServedTypes DEF TypeOK, RemoteAuditState, Services
<1>3. ReadState(m)'
  <2>1. CASE store'.revision = store.revision /\ store'.events = store.events
    BY <2>1 DEF Fits, ReadState
  <2>2. CASE store'.revision = store.revision + 1 /\ Begins(store.events, store'.events)
    <3>1. ASSUME m.state # None
          PROVE  /\ m.state.revision <= store'.revision /\ m.state.revision # store'.revision
                 /\ Begins(m.state.events, store'.events)
      <4>1. m.state.revision <= store.revision /\ Begins(m.state.events, store.events)
        BY <3>1 DEF Fits, ReadState
      <4>2. Begins(m.state.events, store'.events)
        BY <1>1, <1>2, <2>2, <3>1, <4>1, BeginsOn
      <4>3. QED BY <1>1, <2>2, <3>1, <4>1, <4>2, StoreGrows
    <3>2. QED BY <3>1 DEF Fits, ReadState
  <2>3. QED BY <2>1, <2>2, StoreGrows
<1>4. ASSUME m.published # None
      PROVE  /\ published # None /\ published' # None
             /\ m.published.revision <= published'.revision
             /\ m.published.revision = published'.revision =>
                  published' = published /\ anchored' = anchored
                  /\ m.published.revision = published.revision
             /\ m.published.anchor.tip \in Range(anchored') \cup {None}
  <2>1. /\ published # None /\ m.published.revision <= published.revision
        /\ m.published.anchor.tip \in Range(anchored) \cup {None}
    BY <1>4 DEF Fits, ReadAnchor
  <2>2. QED BY <1>1, <1>4, <2>1, AnchorGrows
<1>5. ReadAnchor(m)'
  BY <1>4 DEF Fits, ReadAnchor
<1>6. Stands(m)'
  BY <1>4 DEF Fits, Stands
<1>7. QED BY <1>3, <1>5, <1>6 DEF Fits

\* An id that no other append has stays unheard of.
LEMMA UnheardKept ==
  ASSUME TypeOK, Services, NEW id, Serves(id),
         NEW x \in EventIds, x # id, Unheard(x)
  PROVE  Unheard(x)'
<1>1. /\ store \in RemoteAuditState /\ anchored \in Seq(EventIds)
      /\ PendingOK
  BY DEF TypeOK, Services
<1>2. CASE Still
  BY <1>2 DEF Still, Unheard, IsPending
<1>3. CASE Commits
  BY <1>1, <1>3, PendingFacts DEF Commits, Committed, PendingIsAnchored, Unheard, IsPending
<1>4. CASE Aborts
  BY <1>1, <1>4 DEF Aborts, Unheard, IsPending, RemoteAuditState
<1>5. CASE Begun
  BY <1>5 DEF Begun, Unheard, IsPending
<1>6. ASSUME NEW z \in Pending, Prepares(id, z) PROVE Unheard(x)'
  BY <1>1, <1>6 DEF Prepares, Unheard, IsPending, RemoteAuditState
<1>7. ASSUME NEW z \in Pending, Publishes(id, z) PROVE Unheard(x)'
  <2>1. Range(anchored') = Range(anchored) \cup {id}
    BY <1>1, <1>7, RangeGrows DEF Publishes
  <2>2. QED BY <1>7, <2>1 DEF Publishes, Unheard, IsPending
<1>8. QED BY <1>2, <1>3, <1>4, <1>5, <1>6, <1>7 DEF Serves

\* So does what an append relies on, if the step was not for its event.
LEMMA AppendKept ==
  ASSUME TypeOK, Services, Grows, used \subseteq used', NEW id, Serves(id),
         NEW m \in Process, Fits(m), NEW a \in Appending, AppendFits(m, a),
         a.phase # "idle" => a.event.id # id
  PROVE  AppendFits(m, a)'
<1>1. /\ a.event # None => a.event \in AuditEvent /\ a.event.id \in EventIds
      /\ a.published # None => a.published.revision \in Nat
      /\ m.published # None => m.published.revision \in Nat
  BY DEF Appending, Process, AuditEvent, PublishedAuditAnchor
<1>2. /\ store \in RemoteAuditState /\ anchored \in Seq(EventIds)
      /\ PendingOK /\ RemoteAuditAssumption
  BY RemoteAuditAssumption DEF TypeOK, Services
<1>3. BusyFits(m, a)'
  BY DEF AppendFits, BusyFits
<1>4. SignedFits(m, a)'
  <2>1. ASSUME a.phase = "signed" PROVE Unheard(a.event.id)'
    BY <1>1, <2>1, UnheardKept DEF AppendFits, BusyFits, SignedFits
  <2>2. QED BY <2>1 DEF AppendFits, SignedFits, Grows
<1>5. PreparedFits(m, a)'
  <2>1. SUFFICES ASSUME a.phase = "prepared"
                 PROVE  /\ store'.pending = a.pending \/ a.event.id \in aborted'
                        /\ a.event.id \notin Range(anchored')
                        /\ PendingIsAnchored' => m.published.revision < published'.revision
    BY DEF AppendFits, PreparedFits, Grows, Named
  <2>2. /\ a.pending # None /\ a.pending.commitId = a.event.id
        /\ store.pending = a.pending \/ a.event.id \in aborted
        /\ a.event.id \notin Range(anchored) /\ a.event.id # id
        /\ PendingIsAnchored => m.published.revision < published.revision
        /\ m.published # None /\ published # None
        /\ m.published.revision <= published.revision
    BY <2>1 DEF AppendFits, PreparedFits, BusyFits, Fits, Stands, ReadAnchor
  <2>3. CASE Still
    BY <2>2, <2>3 DEF Still, PendingIsAnchored
  <2>4. CASE Commits
    BY <2>2, <2>4 DEF Commits, Committed, PendingIsAnchored
  <2>5. CASE Aborts
    BY <1>2, <2>2, <2>5 DEF Aborts, PendingIsAnchored, RemoteAuditState
  <2>6. CASE Begun
    BY <2>2, <2>6 DEF Begun
  <2>7. ASSUME NEW z \in Pending, Prepares(id, z)
        PROVE  /\ store'.pending = a.pending \/ a.event.id \in aborted'
               /\ a.event.id \notin Range(anchored')
               /\ PendingIsAnchored' => m.published.revision < published'.revision
    <3>1. store'.pending = z
      BY <1>2, <2>7 DEF Prepares, RemoteAuditState
    <3>2. QED BY <2>2, <2>7, <3>1 DEF Prepares, PendingIsAnchored, Unheard
  <2>8. ASSUME NEW z \in Pending, Publishes(id, z)
        PROVE  /\ store'.pending = a.pending \/ a.event.id \in aborted'
               /\ a.event.id \notin Range(anchored')
               /\ PendingIsAnchored' => m.published.revision < published'.revision
    <3>1. Range(anchored') = Range(anchored) \cup {id}
      BY <1>2, <2>8, RangeGrows DEF Publishes
    <3>2. m.published.revision < published'.revision
      BY <1>1, <2>2, <2>8, PublishedNext
    <3>3. QED BY <2>2, <2>8, <3>1, <3>2 DEF Publishes
  <2>9. QED BY <2>3, <2>4, <2>5, <2>6, <2>7, <2>8 DEF Serves
<1>6. ASSUME a.phase \in {"published", "committed"}
      PROVE  /\ a.event.id \in Range(anchored') /\ published' # None
             /\ a.published # None
             /\ a.published.revision <= published'.revision
             /\ a.published.revision = published'.revision =>
                  /\ published' = published /\ anchored' = anchored
                  /\ a.published.revision = published.revision /\ a.published = published
             /\ a.published.anchor.tip \in Range(anchored')
  <2>1. /\ a.event.id \in Range(anchored) /\ a.published # None /\ published # None
        /\ a.published.revision <= published.revision
        /\ a.published.revision = published.revision => a.published = published
        /\ a.published.anchor.tip \in Range(anchored)
    BY <1>6 DEF AppendFits, PublishedFits
  <2>2. QED BY <1>1, <1>6, <2>1, AnchorGrows
<1>7. PublishedFits(a)'
  BY <1>6 DEF PublishedFits
<1>8. CommittedFits(a)'
  <2>1. SUFFICES ASSUME a.phase = "committed"
                 PROVE  /\ a.event.id \in IdsOf(store'.events)
                        /\ a.published.revision = published'.revision =>
                             anchored' = Ids(store'.events)
    BY DEF CommittedFits
  <2>2. /\ a.event.id \in IdsOf(store.events)
        /\ a.published.revision = published.revision => anchored = Ids(store.events)
    BY <2>1 DEF AppendFits, CommittedFits
  <2>3. CASE store'.events = store.events
    BY <1>6, <2>1, <2>2, <2>3
  <2>4. CASE Commits
    <3>1. /\ store.pending # None /\ store.pending.commitId \in Range(anchored)
          /\ store'.events = store.pending.events
          /\ store.pending.commitId \notin IdsOf(store.events)
      BY <1>2, <2>4 DEF Commits, Committed, PendingIsAnchored, PendingOK
    <3>2. IdsOf(store'.events) = IdsOf(store.events) \cup {store.pending.commitId}
      BY <1>2, <3>1, PendingFacts
    <3>3. anchored # Ids(store.events)
      BY <1>2, <3>1, IdsFacts DEF RemoteAuditState
    <3>4. QED BY <1>6, <2>1, <2>2, <3>2, <3>3
  <2>5. QED BY <1>2, <2>3, <2>4 DEF Serves, Still, Aborts, Begun, Prepares, Publishes,
            RemoteAuditState
<1>9. QED BY <1>3, <1>4, <1>5, <1>7, <1>8 DEF AppendFits

-----------------------------------------------------------------------------
(* Steps *)

\* The step is taken for an append of p, or for none.
Acts(p, id) ==
  \/ id = None
  \/ \E s \in Slots : append[p][s].phase # "idle" /\ id = append[p][s].event.id

\* An append keeps its event, or starts with a new one.
Follows(old, a) ==
  a.phase # "idle" =>
    \/ old.phase # "idle" /\ a.event = old.event
    \/ a.event.id \notin used

\* Nothing is asked of an append that is not under way, nor of a closed log.
LEMMA IdleFits ==
  ASSUME NEW m, NEW a, a.phase = "idle"
  PROVE  AppendFits(m, a) /\ AppendFits(m, a)'
BY DEF AppendFits, BusyFits, SignedFits, PreparedFits, PublishedFits, CommittedFits

\* A closed log relies on nothing.
LEMMA ClosedFits ==
  Closed \in Process /\ Fits(Closed) /\ Fits(Closed)' /\ Closed.phase = "closed"
BY DEF Closed, Process, Fits, ReadState, ReadAnchor, Stands

\* An idle slot.
LEMMA IdleTypes ==
  /\ Idle \in Appending /\ Idle.phase = "idle"
  /\ AllIdle \in [Slots -> Appending] /\ \A s \in Slots : AllIdle[s].phase = "idle"
BY DEF Idle, Appending, AllIdle

\* The components put together, one process having moved.
LEMMA Moves ==
  ASSUME OneAtATime, Inv, NEW p \in Processes, NEW id, Acts(p, id), Serves(id),
         UNCHANGED ring, used \subseteq used', used' \subseteq EventIds,
         acked' \subseteq EventIds,
         NEW m \in Process, process' = [process EXCEPT ![p] = m], Fits(m)',
         NEW as \in [Slots -> Appending], append' = [append EXCEPT ![p] = as],
         \A s \in Slots : AppendFits(m, as[s])',
         \A s \in Slots : Follows(append[p][s], as[s])
  PROVE  Inv'
<1>1. /\ process \in [Processes -> Process] /\ append \in [Processes -> [Slots -> Appending]]
      /\ TypeOK /\ Services /\ PendingOK /\ RingOK
      /\ \A q \in Processes : Fits(process[q])
      /\ \A q \in Processes, t \in Slots : AppendFits(process[q], append[q][t])
      /\ Distinct
  BY DEF Inv, TypeOK, Services
<1>2. Grows /\ RingOK' /\ ring' \in [KeyIds -> KeyRecord]
  BY <1>1, RingKept
<1>3. /\ process' \in [Processes -> Process] /\ append' \in [Processes -> [Slots -> Appending]]
      /\ process'[p] = m /\ append'[p] = as
      /\ \A q \in Processes : q # p => process'[q] = process[q] /\ append'[q] = append[q]
  BY <1>1
<1>4. TypeOK'
  BY <1>1, <1>2, <1>3, ServedTypes DEF TypeOK
<1>5. Services'
  BY <1>1, <1>2, ServedChain, ServedPending, ServedAnchor, ServedIds DEF Services
<1>6. \A q \in Processes, t \in Slots :
        append[q][t].phase # "idle" =>
          append[q][t].event.id \in used /\ append[q][t].event.id \in EventIds
  BY <1>1 DEF AppendFits, BusyFits, Appending, AuditEvent
<1>7. \A q \in Processes, t \in Slots :
        q # p /\ append[q][t].phase # "idle" => append[q][t].event.id # id
  BY <1>1, <1>6, RemoteAuditAssumption DEF Acts, Distinct
<1>8. ASSUME NEW q \in Processes PROVE Fits(process[q])'
  <2>1. CASE q = p
    BY <1>3, <2>1
  <2>2. CASE q # p
    <3>1. PICK n \in Process : n = process[q]
      BY <1>1
    <3>2. Fits(n)
      BY <1>1, <3>1
    <3>3. Fits(n)'
      BY <1>1, <3>2, FitsKept
    <3>4. process'[q] = n
      BY <1>3, <2>2, <3>1
    <3>5. QED BY <3>3, <3>4
  <2>3. QED BY <2>1, <2>2
<1>9. ASSUME NEW q \in Processes, NEW t \in Slots
      PROVE  AppendFits(process[q], append[q][t])'
  <2>1. CASE q = p
    BY <1>3, <2>1
  <2>2. CASE q # p
    <3>1. PICK n \in Process : n = process[q]
      BY <1>1
    <3>2. PICK a \in Appending : a = append[q][t]
      BY <1>1
    <3>3. Fits(n) /\ AppendFits(n, a) /\ (a.phase # "idle" => a.event.id # id)
      BY <1>1, <1>7, <2>2, <3>1, <3>2
    <3>4. AppendFits(n, a)'
      BY <1>1, <1>2, <3>3, AppendKept
    <3>5. process'[q] = n /\ append'[q][t] = a
      BY <1>3, <2>2, <3>1, <3>2
    <3>6. QED BY <3>4, <3>5
  <2>3. QED BY <2>1, <2>2
<1>10. Distinct'
  <2>1. ASSUME NEW q \in Processes, NEW s \in Slots, NEW t \in Slots, q # p,
               as[s].phase # "idle", append[q][t].phase # "idle"
        PROVE  as[s].event.id # append[q][t].event.id
    <3>1. CASE as[s].event.id \notin used
      BY <1>6, <2>1, <3>1
    <3>2. CASE append[p][s].phase # "idle" /\ as[s].event = append[p][s].event
      BY <1>1, <2>1, <3>2 DEF Distinct
    <3>3. QED BY <2>1, <3>1, <3>2 DEF Follows
  <2>2. ASSUME NEW q \in Processes, NEW r \in Processes, NEW s \in Slots, NEW t \in Slots,
               append'[q][s].phase # "idle", append'[r][t].phase # "idle",
               append'[q][s].event.id = append'[r][t].event.id
        PROVE  q = r /\ s = t
    <3>1. s = t
      BY DEF OneAtATime
    <3>2. CASE q = p /\ r # p
      <4>1. append'[q][s] = as[s] /\ append'[r][t] = append[r][t]
        BY <1>3, <3>2
      <4>2. as[s].event.id # append[r][t].event.id
        BY <2>1, <2>2, <3>2, <4>1
      <4>3. QED BY <2>2, <4>1, <4>2
    <3>3. CASE r = p /\ q # p
      <4>1. append'[r][t] = as[t] /\ append'[q][s] = append[q][s]
        BY <1>3, <3>3
      <4>2. as[t].event.id # append[q][s].event.id
        BY <2>1, <2>2, <3>3, <4>1
      <4>3. QED BY <2>2, <4>1, <4>2
    <3>4. CASE q # p /\ r # p
      BY <1>1, <1>3, <2>2, <3>4 DEF Distinct
    <3>5. QED BY <3>1, <3>2, <3>3, <3>4
  <2>3. \A q, r \in Processes, s, t \in Slots :
          append'[q][s].phase # "idle" /\ append'[r][t].phase # "idle" =>
            (append'[q][s].event.id = append'[r][t].event.id => q = r /\ s = t)
    <3>1. TAKE q, r \in Processes, s, t \in Slots
    <3>2. HAVE append'[q][s].phase # "idle" /\ append'[r][t].phase # "idle"
    <3>3. HAVE append'[q][s].event.id = append'[r][t].event.id
    <3>4. QED BY <2>2, <3>2, <3>3
  <2>4. QED BY <2>3, Zenon DEF Distinct
<1>11. QED BY <1>4, <1>5, <1>8, <1>9, <1>10 DEF Inv

\* The step is one of the above on the services, and no writer is told.
Served == (\E id : Serves(id)) /\ UNCHANGED acked

\* A step of open: no append is under way.
LEMMA ProcessMoves ==
  ASSUME OneAtATime, Inv, NEW p \in Processes, Serves(None), process[p].phase # "open",
         UNCHANGED <<ring, append, used, acked>>,
         NEW m \in Process, process' = [process EXCEPT ![p] = m], Fits(m)'
  PROVE  Inv' /\ Served
<1>1. PICK as \in [Slots -> Appending] : as = append[p]
  BY DEF Inv, TypeOK
<1>2. append' = [append EXCEPT ![p] = as]
  BY <1>1 DEF Inv, TypeOK
<1>3. \A s \in Slots : as[s].phase = "idle"
  BY <1>1 DEF Inv, AppendFits, BusyFits
<1>4. \A s \in Slots : AppendFits(m, as[s])'
  BY <1>3, IdleFits
<1>5. used' \subseteq EventIds /\ acked' \subseteq EventIds /\ used \subseteq used'
  BY DEF Inv, TypeOK
<1>6. Acts(p, None) /\ \A s \in Slots : Follows(append[p][s], as[s])
  BY <1>3 DEF Acts, Follows
<1>7. Inv'
  BY <1>2, <1>4, <1>5, <1>6, Moves
<1>8. QED BY <1>7 DEF Served

\* A step of an append: the log of the process stays, or is brought up to date.
LEMMA SlotMoves ==
  ASSUME OneAtATime, Inv, NEW p \in Processes, NEW s \in Slots, NEW id, Acts(p, id),
         Serves(id), UNCHANGED ring, used \subseteq used', used' \subseteq EventIds,
         acked' \subseteq EventIds,
         NEW m \in Process, process' = [process EXCEPT ![p] = m], Fits(m)',
         NEW a \in Appending, append' = [append EXCEPT ![p][s] = a],
         AppendFits(m, a)', Follows(append[p][s], a)
  PROVE  Inv'
<1>1. append \in [Processes -> [Slots -> Appending]]
  BY DEF Inv, TypeOK
<1>2. PICK as \in [Slots -> Appending] : as = [append[p] EXCEPT ![s] = a]
  BY <1>1
<1>3. append' = [append EXCEPT ![p] = as]
  BY <1>1, <1>2
<1>4. \A t \in Slots : t = s /\ as[t] = a
  BY <1>1, <1>2 DEF OneAtATime
<1>5. \A t \in Slots : AppendFits(m, as[t])'
  BY <1>4
<1>6. \A t \in Slots : Follows(append[p][t], as[t])
  BY <1>4
<1>7. QED BY <1>3, <1>5, <1>6, Moves

\* Every step that leaves the services alone is one of Serves.
LEMMA StillServes == ASSUME Still, NEW id PROVE Serves(id)
BY DEF Serves

\* A process that only changes its phase still fits, if it waits for nothing.
LEMMA Rephased ==
  ASSUME NEW n, NEW m, Fits(n)', n.state # None, m.state = n.state,
         m.published = n.published, m.phase \in {"loaded", "reloading", "reloaded", "key"}
  PROVE  Fits(m)'
BY DEF Fits, ReadState, ReadAnchor, Stands

\* activate: signed and anchored keys stay known.
LEMMA ActivateStep ==
  ASSUME OneAtATime, Inv, NEW k \in KeyIds, Activate(k)
  PROVE  Inv' /\ Served
<1>1. TypeOK /\ Services /\ RingOK /\ PendingOK
  BY DEF Inv, Services
<1>2. Grows /\ RingOK' /\ ring' \in [KeyIds -> KeyRecord]
  BY <1>1, RingKept
<1>3. UNCHANGED <<store, published, process, append, anchored, acked, aborted, used>>
  BY DEF Activate, history
<1>4. Serves(None)
  BY <1>3 DEF Serves, Still
<1>5. Services'
  BY <1>1, <1>2, <1>3, <1>4, ServedChain, ServedPending, ServedAnchor, ServedIds DEF Services
<1>6. TypeOK'
  BY <1>1, <1>2, <1>3 DEF TypeOK
<1>7. ASSUME NEW p \in Processes PROVE Fits(process[p])'
  <2>1. PICK n \in Process : n = process[p]
    BY <1>1 DEF TypeOK
  <2>2. Fits(n)'
    BY <1>1, <1>4, <2>1, FitsKept DEF Inv
  <2>3. QED BY <1>3, <2>1, <2>2
<1>8. ASSUME NEW p \in Processes, NEW s \in Slots
      PROVE  AppendFits(process[p], append[p][s])'
  <2>1. PICK n \in Process : n = process[p]
    BY <1>1 DEF TypeOK
  <2>2. PICK a \in Appending : a = append[p][s]
    BY <1>1 DEF TypeOK
  <2>3. Fits(n) /\ AppendFits(n, a) /\ (a.phase # "idle" => a.event.id # None)
    BY <2>1, <2>2, RemoteAuditAssumption
       DEF Inv, AppendFits, BusyFits, Appending, AuditEvent
  <2>4. AppendFits(n, a)'
    BY <1>1, <1>2, <1>3, <1>4, <2>3, AppendKept
  <2>5. QED BY <1>3, <2>1, <2>2, <2>4
<1>9. Distinct'
  BY <1>3 DEF Inv, Distinct
<1>10. Inv'
  BY <1>5, <1>6, <1>7, <1>8, <1>9 DEF Inv
<1>11. QED BY <1>3, <1>4, <1>10 DEF Served

\* open: the store is read.
LEMMA LoadStep ==
  ASSUME OneAtATime, Inv, NEW p \in Processes, Load(p)
  PROVE  Inv' /\ Served
<1>1. PICK phase \in {"loaded", "reloaded"} :
        process' = [process EXCEPT
          ![p] = [phase |-> phase, state |-> store, published |-> None]]
  BY DEF Load, Inv, TypeOK
<1>2. PICK m : m = [phase |-> phase, state |-> store, published |-> None]
  OBVIOUS
<1>3. store \in RemoteAuditState /\ store # None
  BY RemoteAuditAssumption DEF Inv, TypeOK
<1>4. m \in Process
  BY <1>2, <1>3 DEF Process
<1>5. UNCHANGED <<ring, append, used, acked>> /\ Still /\ process[p].phase # "open"
  BY DEF Load, history, Still
<1>6. Serves(None)
  BY <1>5, StillServes
<1>7. Fits(m)'
  <2>1. m.state = store /\ m.published = None /\ m.phase \in {"loaded", "reloaded"}
    BY <1>2
  <2>2. store' = store /\ store.revision \in Nat /\ store.events \in Seq(AuditEvent)
    BY <1>3, <1>5 DEF Still, RemoteAuditState
  <2>3. Begins(store.events, store.events)
    BY <2>2 DEF Begins
  <2>4. store.pending # None => store.pending.anchor.tip = store.pending.commitId
    BY PendingFacts DEF Inv, Services
  <2>5. QED BY <1>3, <2>1, <2>2, <2>3, <2>4 DEF Fits, ReadState, ReadAnchor, Stands
<1>8. QED BY <1>1, <1>2, <1>4, <1>5, <1>6, <1>7, ProcessMoves

\* open: the anchor is read.
LEMMA LoadAnchorStep ==
  ASSUME OneAtATime, Inv, NEW p \in Processes, LoadAnchor(p)
  PROVE  Inv' /\ Served
<1>1. PICK n \in Process : n = process[p]
  BY DEF Inv, TypeOK
<1>2. Fits(n) /\ n.phase \in {"loaded", "reloaded"} /\ n.state # None
  BY <1>1 DEF Inv, LoadAnchor, Fits, Stands
<1>3. PICK phase \in {"recover", "key"} :
        /\ process' = [process EXCEPT ![p] = [n EXCEPT !.phase = phase, !.published = published]]
        /\ phase = "recover" => n.state.pending # None
  <2>1. n.phase = "loaded" /\ process[p].state.pending # None => n.state.pending # None
    BY <1>1
  <2>2. QED BY <1>1, <2>1 DEF LoadAnchor, Inv, TypeOK, Process
<1>4. PICK m : m = [n EXCEPT !.phase = phase, !.published = published]
  OBVIOUS
<1>5. /\ published \in PublishedAuditAnchor \cup {None}
      /\ m \in Process /\ m.phase = phase /\ m.state = n.state /\ m.published = published
  BY <1>4 DEF Inv, TypeOK, Process
<1>6. UNCHANGED <<ring, append, used, acked>> /\ Still /\ process[p].phase # "open"
  BY <1>1, <1>2 DEF LoadAnchor, history, Still
<1>7. Serves(None)
  BY <1>6, StillServes
<1>8. Fits(m)'
  <2>1. published # None => /\ published.revision \in Nat
                            /\ published.anchor.tip \in Range(anchored) \cup {None}
    BY <1>5 DEF PublishedAuditAnchor, Inv, Services, AnchorOK
  <2>2. published' = published /\ store' = store /\ anchored' = anchored
    BY <1>6 DEF Still
  <2>3. ReadAnchor(m)'
    BY <1>5, <2>1, <2>2 DEF ReadAnchor
  <2>4. ReadState(m)' /\ Stands(m)'
    BY <1>2, <1>3, <1>5, <2>2 DEF Fits, ReadState, Stands
  <2>5. QED BY <2>3, <2>4 DEF Fits
<1>9. QED BY <1>3, <1>4, <1>5, <1>6, <1>7, <1>8, ProcessMoves

\* A process that dies leaves the services as they are.
LEMMA CrashStep ==
  ASSUME OneAtATime, Inv, NEW p \in Processes, Crash(p)
  PROVE  Inv' /\ Served
<1>1. UNCHANGED <<ring, used, acked>> /\ Still
  BY DEF Crash, history, Still
<1>2. Serves(None) /\ Acts(p, None)
  BY <1>1, StillServes DEF Acts
<1>3. \A s \in Slots : AppendFits(Closed, AllIdle[s])'
  BY IdleFits, IdleTypes
<1>4. \A s \in Slots : Follows(append[p][s], AllIdle[s])
  BY IdleTypes DEF Follows
<1>5. used' \subseteq EventIds /\ acked' \subseteq EventIds /\ used \subseteq used'
  BY <1>1 DEF Inv, TypeOK
<1>6. Inv'
  BY <1>1, <1>2, <1>3, <1>4, <1>5, ClosedFits, IdleTypes, Moves DEF Crash
<1>7. QED BY <1>1, <1>2, <1>6 DEF Served

\* open: the pending commit is committed, if its anchor is the published one,
\* or aborted.
LEMMA RecoverStep ==
  ASSUME OneAtATime, Inv, NEW p \in Processes, Recover(p)
  PROVE  Inv' /\ Served
<1>1. PICK n \in Process : n = process[p]
  BY DEF Inv, TypeOK
<1>2. /\ Fits(n) /\ n.phase = "recover" /\ n.state # None /\ n.state.pending # None
      /\ process[p].phase # "open"
  BY <1>1 DEF Inv, Recover, Fits, Stands
<1>3. n.state.pending.commitId \in EventIds
  BY <1>2 DEF Process, RemoteAuditState, Pending
<1>4. UNCHANGED <<ring, append, used>>
  BY DEF Recover
<1>5. PICK m : m = [n EXCEPT !.phase = "reloading"]
  OBVIOUS
<1>6. /\ m \in Process /\ m.state = n.state /\ m.published = n.published
      /\ m.phase = "reloading"
  BY <1>5 DEF Process
<1>7. ASSUME Serves(None), UNCHANGED acked, process' = [process EXCEPT ![p].phase = "reloading"]
      PROVE  Inv' /\ Served
  <2>1. process' = [process EXCEPT ![p] = m]
    BY <1>1, <1>5, <1>7
  <2>2. Fits(n)'
    BY <1>2, <1>7, FitsKept DEF Inv
  <2>3. Fits(m)'
    BY <1>2, <1>6, <2>2, Rephased
  <2>4. QED BY <1>2, <1>4, <1>6, <1>7, <2>1, <2>3, ProcessMoves
<1>8. CASE /\ WasPublished(p) /\ IsPending(process[p].state.pending.commitId)
           /\ Committed
           /\ process' = [process EXCEPT ![p].phase = "reloading"]
           /\ UNCHANGED history
  <2>1. /\ n.published # None /\ n.published.anchor = n.state.pending.anchor
        /\ store.pending # None /\ store.pending.commitId = n.state.pending.commitId
    BY <1>1, <1>8 DEF WasPublished, IsPending
  <2>2. /\ n.published.anchor.tip = n.state.pending.commitId
        /\ n.published.anchor.tip \in Range(anchored) \cup {None}
    BY <1>2, <2>1 DEF Fits, ReadState, ReadAnchor
  <2>3. PendingIsAnchored
    BY <1>3, <2>1, <2>2, RemoteAuditAssumption DEF PendingIsAnchored
  <2>4. Serves(None)
    BY <1>8, <2>3 DEF Serves, Commits, history, Recover
  <2>5. QED BY <1>7, <1>8, <2>4 DEF history
<1>9. CASE /\ process' = [process EXCEPT ![p] = Closed] /\ UNCHANGED <<store, history>>
  <2>1. Still /\ UNCHANGED acked
    BY <1>9 DEF Still, history, Recover
  <2>2. Serves(None)
    BY <2>1, StillServes
  <2>3. QED BY <1>2, <1>4, <1>9, <2>1, <2>2, ClosedFits, ProcessMoves
<1>10. CASE /\ Abort(process[p].state.pending.commitId)
            /\ process' = [process EXCEPT ![p].phase = "reloading"]
  <2>1. UNCHANGED <<acked, anchored, published>>
    BY <1>10 DEF Abort, Recover
  <2>2. Serves(None)
    BY <1>10, <2>1 DEF Serves, Aborts, Still, Abort, IsPending
  <2>3. QED BY <1>7, <1>10, <2>1, <2>2
<1>11. QED BY <1>8, <1>9, <1>10 DEF Recover

\* open accepts the state it read only if that is all that is anchored.
LEMMA OpenedIsAnchored ==
  ASSUME Inv, NEW n \in Process, Fits(n), n.state # None, n.published # None,
         n.published.revision = published.revision,
         Attests(n.state.events, n.published.anchor)
  PROVE  anchored = Ids(n.state.events)
<1>1. PICK h \in Seq(AuditEvent) : h = n.state.events
  BY DEF Process, RemoteAuditState
<1>2. PICK g \in Seq(AuditEvent) : g = store.events
  BY DEF Inv, TypeOK, RemoteAuditState
<1>3. published # None /\ n.published = published /\ Begins(h, g)
  BY <1>1, <1>2 DEF Fits, ReadAnchor, ReadState
<1>4. published.anchor.eventCount = Len(h) /\ published.anchor.tip = TipId(h)
  BY <1>1, <1>3, AttestsFacts
<1>5. published.anchor.tip \in IdsOf(g) \cup {None}
  BY <1>3, <1>4, TipInside
<1>6. /\ AnchorOK /\ PendingOK /\ TypeOK /\ \A id \in IdsOf(g) : id \notin aborted
      /\ None \notin aborted /\ None \notin EventIds
  BY <1>2, RemoteAuditAssumption DEF Inv, Services, IdsOK, TypeOK
<1>7. published.anchor.tip \notin aborted
  BY <1>5, <1>6
<1>8. CASE anchored = Ids(store.events) /\ Attests(store.events, published.anchor)
  <2>1. published.anchor.eventCount = Len(g)
    BY <1>2, <1>8, AttestsFacts
  <2>2. h = g
    BY <1>3, <1>4, <2>1, BeginsWhole
  <2>3. QED BY <1>1, <1>2, <1>8, <2>2
<1>9. CASE store.pending # None /\ published.anchor = store.pending.anchor
  <2>1. /\ published.anchor.tip = store.pending.commitId
        /\ store.pending.commitId \in EventIds
    BY <1>6, <1>9, PendingFacts
  <2>2. store.pending.commitId \notin IdsOf(g)
    BY <1>2, <1>6, <1>9 DEF PendingOK
  <2>3. QED BY <1>5, <1>6, <2>1, <2>2
<1>10. QED BY <1>3, <1>6, <1>7, <1>8, <1>9 DEF AnchorOK

\* open: the first anchor, or the check of the state against the anchor.
LEMMA OpenStep ==
  ASSUME OneAtATime, Inv, NEW p \in Processes, Open(p)
  PROVE  Inv' /\ Served
<1>1. PICK n \in Process : n = process[p]
  BY DEF Inv, TypeOK
<1>2. /\ Fits(n) /\ n.phase = "key" /\ n.state # None /\ process[p].phase # "open"
      /\ UNCHANGED <<ring, store, append, anchored, acked, aborted, used>>
      /\ TypeOK /\ Services /\ RingOK /\ AnchorOK
  BY <1>1 DEF Inv, Services, Open, Fits, Stands, history
<1>3. ASSUME Serves(None), process' = [process EXCEPT ![p] = Closed]
      PROVE  Inv' /\ Served
  BY <1>2, <1>3, ClosedFits, ProcessMoves
<1>4. CASE /\ n.published = None /\ n.state.events = <<>>
           /\ Publish(0, AnchorFor(<<>>, ActiveKeyId(ring), LatestKeyVersion(ring)))
           /\ \E next \in {[n EXCEPT !.phase = "open", !.published = published'], Closed} :
                process' = [process EXCEPT ![p] = next]
  <2>1. PICK k \in KeyIds, v \in Nat :
          k = ActiveKeyId(ring) /\ v = LatestKeyVersion(ring) /\ Signs(k, v)
    BY <1>2, ActiveFacts
  <2>2. published = None
    BY <1>2, <1>4 DEF Publish, PublishedRevision, AnchorOK
  <2>3. published' = [revision |-> 1, anchor |-> AnchorFor(<<>>, k, v)]
    BY <1>4, <2>1 DEF Publish
  <2>4. Begun
    BY <1>2, <2>1, <2>2, <2>3 DEF Begun
  <2>5. Serves(None)
    BY <2>4 DEF Serves
  <2>6. CASE process' = [process EXCEPT
               ![p] = [n EXCEPT !.phase = "open", !.published = published']]
    <3>1. PICK m : m = [n EXCEPT !.phase = "open", !.published = published']
      OBVIOUS
    <3>2. /\ published' \in PublishedAuditAnchor /\ published' # None
          /\ published'.anchor.tip = None /\ published'.revision = 1
      <4>1. AnchorFor(<<>>, k, v) \in AuditTrustAnchor /\ AnchorFor(<<>>, k, v).tip = None
        BY DEF AnchorFor, TipId, AuditTrustAnchor
      <4>2. published' \in PublishedAuditAnchor
        BY <2>3, <4>1 DEF PublishedAuditAnchor
      <4>3. QED BY <2>3, <4>1, <4>2, RemoteAuditAssumption
    <3>3. /\ m \in Process /\ m.phase = "open" /\ m.state = n.state
          /\ m.published = published'
      BY <3>1, <3>2 DEF Process
    <3>4. Fits(n)'
      BY <1>2, <2>5, FitsKept
    <3>5. ReadState(m)'
      BY <3>3, <3>4 DEF Fits, ReadState
    <3>6. ReadAnchor(m)'
      BY <3>2, <3>3 DEF ReadAnchor
    <3>7. anchored' = Ids(m.state.events)
      BY <1>2, <1>4, <2>2, <3>3 DEF AnchorOK, Ids
    <3>8. Stands(m)'
      BY <1>2, <3>2, <3>3, <3>7 DEF Stands
    <3>9. Fits(m)'
      BY <3>5, <3>6, <3>8 DEF Fits
    <3>10. QED BY <1>2, <2>5, <2>6, <3>1, <3>3, <3>9, ProcessMoves
  <2>7. QED BY <1>3, <1>4, <2>5, <2>6
<1>5. CASE process' = [process EXCEPT ![p] = Closed] /\ UNCHANGED published
  <2>1. Serves(None)
    BY <1>2, <1>5, StillServes DEF Still
  <2>2. QED BY <1>3, <1>5, <2>1
<1>6. CASE /\ n.published # None
           /\ Opens(n.state, n.published, ActiveKeyId(ring), LatestKeyVersion(ring))
           /\ process' = [process EXCEPT ![p] = [n EXCEPT !.phase = "open"]]
           /\ UNCHANGED published
  <2>1. Serves(None)
    BY <1>2, <1>6, StillServes DEF Still
  <2>2. PICK m : m = [n EXCEPT !.phase = "open"]
    OBVIOUS
  <2>3. /\ m \in Process /\ m.phase = "open" /\ m.state = n.state
        /\ m.published = n.published
    BY <2>2 DEF Process
  <2>4. Attests(n.state.events, n.published.anchor)
    BY <1>6 DEF Opens, Attests
  <2>5. n.published.revision = published.revision => anchored = Ids(n.state.events)
    BY <1>2, <1>6, <2>4, OpenedIsAnchored
  <2>6. Fits(n)'
    BY <1>2, <2>1, FitsKept
  <2>7. Fits(m)'
    BY <1>2, <1>6, <2>3, <2>5, <2>6 DEF Fits, ReadState, ReadAnchor, Stands
  <2>8. QED BY <1>2, <1>6, <2>1, <2>2, <2>3, <2>7, ProcessMoves
<1>7. QED
  <2>1. \/ /\ n.published = None /\ n.state.events = <<>>
           /\ Publish(0, AnchorFor(<<>>, ActiveKeyId(ring), LatestKeyVersion(ring)))
           /\ \E next \in {[n EXCEPT !.phase = "open", !.published = published'], Closed} :
                process' = [process EXCEPT ![p] = next]
        \/ process' = [process EXCEPT ![p] = Closed] /\ UNCHANGED published
        \/ /\ n.published # None
           /\ process' = [process EXCEPT
                ![p] = IF Opens(n.state, n.published, ActiveKeyId(ring), LatestKeyVersion(ring))
                       THEN [n EXCEPT !.phase = "open"] ELSE Closed]
           /\ UNCHANGED published
    BY <1>1 DEF Open
  <2>2. QED BY <1>4, <1>5, <1>6, <2>1

\* An append that ends leaves its slot idle.
LEMMA SlotEnds ==
  ASSUME OneAtATime, Inv, NEW p \in Processes, NEW s \in Slots, NEW id, Acts(p, id),
         Serves(id), UNCHANGED <<ring, process, used, acked>>,
         append' = [append EXCEPT ![p][s] = Idle]
  PROVE  Inv' /\ Served
<1>1. PICK n \in Process : n = process[p]
  BY DEF Inv, TypeOK
<1>2. process' = [process EXCEPT ![p] = n]
  BY <1>1 DEF Inv, TypeOK
<1>3. Fits(n)'
  BY <1>1, FitsKept DEF Inv
<1>4. AppendFits(n, Idle)' /\ Follows(append[p][s], Idle)
  BY IdleFits, IdleTypes DEF Follows
<1>5. used' \subseteq EventIds /\ acked' \subseteq EventIds /\ used \subseteq used'
  BY DEF Inv, TypeOK
<1>6. Inv'
  BY <1>2, <1>3, <1>4, <1>5, IdleTypes, SlotMoves
<1>7. QED BY <1>6 DEF Served

\* An append that goes on keeps its event.
LEMMA SlotGoesOn ==
  ASSUME OneAtATime, Inv, NEW p \in Processes, NEW s \in Slots, NEW id, Acts(p, id),
         Serves(id), UNCHANGED <<ring, process, used, acked>>,
         NEW a \in Appending, append' = [append EXCEPT ![p][s] = a],
         append[p][s].phase # "idle", a.event = append[p][s].event,
         AppendFits(process[p], a)'
  PROVE  Inv' /\ Served
<1>1. PICK n \in Process : n = process[p]
  BY DEF Inv, TypeOK
<1>2. process' = [process EXCEPT ![p] = n]
  BY <1>1 DEF Inv, TypeOK
<1>3. Fits(n)'
  BY <1>1, FitsKept DEF Inv
<1>4. AppendFits(n, a)' /\ Follows(append[p][s], a)
  BY <1>1 DEF Follows
<1>5. used' \subseteq EventIds /\ acked' \subseteq EventIds /\ used \subseteq used'
  BY DEF Inv, TypeOK
<1>6. Inv'
  BY <1>2, <1>3, <1>4, <1>5, SlotMoves
<1>7. QED BY <1>6 DEF Served

\* append: the event after the last one in memory.
LEMMA SignStep ==
  ASSUME OneAtATime, Inv, NEW p \in Processes, NEW s \in Slots, NEW id \in EventIds,
         Sign(p, s, id)
  PROVE  Inv' /\ Served
<1>1. PICK n \in Process : n = process[p]
  BY DEF Inv, TypeOK
<1>2. /\ Fits(n) /\ n.phase = "open" /\ n.state # None /\ id \notin used
      /\ used' = used \cup {id}
      /\ UNCHANGED <<ring, store, published, process, anchored, acked, aborted>>
      /\ TypeOK /\ Services /\ RingOK
  BY <1>1 DEF Inv, Services, Sign, Fits, Stands, history
<1>3. PICK h \in Seq(AuditEvent) : h = n.state.events
  BY <1>2 DEF Process, RemoteAuditState
<1>4. PICK k \in KeyIds, v \in Nat :
        k = ActiveKeyId(ring) /\ v = LatestKeyVersion(ring) /\ Signs(k, v)
  BY <1>2, ActiveFacts
<1>5. PICK e : e = EventAfter(TipId(h), Len(h), id, k, v)
  OBVIOUS
<1>6. /\ e \in AuditEvent /\ e.id = id /\ e.sequence = Len(h) + 1 /\ e.previous = TipId(h)
      /\ e.keyId = k /\ e.keyVersion = v
  <2>1. TipId(h) \in EventIds \cup {None} /\ Len(h) + 1 \in Nat
    <3>1. CASE h = <<>>
      BY <3>1 DEF TipId
    <3>2. CASE h # <<>>
      <4>1. Len(h) \in 1 .. Len(h) /\ h[Len(h)] \in AuditEvent
        BY <3>2
      <4>2. QED BY <3>2, <4>1 DEF TipId, Last, AuditEvent
    <3>3. QED BY <3>1, <3>2
  <2>2. QED BY <1>5, <2>1 DEF EventAfter, AuditEvent
<1>7. PICK a : a = [Idle EXCEPT !.phase = "signed", !.event = e]
  OBVIOUS
<1>8. a \in Appending /\ a.phase = "signed" /\ a.event = e
  BY <1>6, <1>7 DEF Idle, Appending
<1>9. append' = [append EXCEPT ![p][s] = a]
  BY <1>1, <1>3, <1>4, <1>5, <1>7 DEF Sign
<1>10. h # <<>> => \/ v > Last(h).keyVersion
                   \/ v = Last(h).keyVersion /\ k = Last(h).keyId
  BY <1>1, <1>3, <1>4 DEF Sign
<1>11. Unheard(id)
  BY <1>2 DEF Unheard, IsPending, Services, IdsOK, PendingOK
<1>12. e # None
  BY <1>6, RemoteAuditAssumption
<1>13. AppendFits(n, a)'
  <2>1. BusyFits(n, a)'
    BY <1>2, <1>6, <1>8, <1>12 DEF BusyFits
  <2>2. Unheard(id)' /\ Signs(k, v)'
    BY <1>2, <1>4, <1>11 DEF Unheard, IsPending, Signs
  <2>3. SignedFits(n, a)'
    BY <1>3, <1>6, <1>8, <1>10, <2>2 DEF SignedFits
  <2>4. QED BY <1>8, <2>1, <2>3 DEF AppendFits, PreparedFits, PublishedFits, CommittedFits
<1>14. Serves(None) /\ Acts(p, None)
  BY <1>2, StillServes DEF Still, Acts
<1>15. process' = [process EXCEPT ![p] = n]
  BY <1>1, <1>2 DEF TypeOK
<1>16. Fits(n)'
  BY <1>2, <1>14, FitsKept
<1>17. used \subseteq used' /\ used' \subseteq EventIds /\ acked' \subseteq EventIds
  BY <1>2 DEF TypeOK
<1>18. Follows(append[p][s], a)
  BY <1>2, <1>6, <1>8 DEF Follows
<1>19. Inv'
  BY <1>2, <1>8, <1>9, <1>13, <1>14, <1>15, <1>16, <1>17, <1>18, SlotMoves
<1>20. QED BY <1>2, <1>14, <1>19 DEF Served

\* An append under way, its process and its event.
LEMMA UnderWay ==
  ASSUME Inv, NEW p \in Processes, NEW s \in Slots, append[p][s].phase # "idle"
  PROVE  /\ process[p] \in Process /\ Fits(process[p]) /\ process[p].phase = "open"
         /\ append[p][s] \in Appending /\ AppendFits(process[p], append[p][s])
         /\ process[p].state \in RemoteAuditState
         /\ process[p].published # None /\ process[p].published.revision \in Nat
         /\ append[p][s].event \in AuditEvent /\ append[p][s].event.id \in EventIds
         /\ append[p][s].event # None /\ append[p][s].event.id \in used
         /\ Acts(p, append[p][s].event.id)
         /\ TypeOK /\ Services
<1>1. /\ process[p] \in Process /\ Fits(process[p]) /\ TypeOK /\ Services
      /\ append[p][s] \in Appending /\ AppendFits(process[p], append[p][s])
  BY DEF Inv, TypeOK
<1>2. /\ process[p].phase = "open" /\ append[p][s].event # None
      /\ append[p][s].event.id \in used
  BY <1>1 DEF AppendFits, BusyFits
<1>3. process[p].state # None /\ process[p].published # None
  BY <1>1, <1>2 DEF Fits, Stands
<1>4. /\ process[p].state \in RemoteAuditState
      /\ process[p].published \in PublishedAuditAnchor
  BY <1>1, <1>3 DEF Process
<1>5. process[p].published.revision \in Nat
  BY <1>4 DEF PublishedAuditAnchor
<1>6. append[p][s].event \in AuditEvent
  BY <1>1, <1>2 DEF Appending
<1>7. append[p][s].event.id \in EventIds
  BY <1>6 DEF AuditEvent
<1>8. QED BY <1>1, <1>2, <1>3, <1>4, <1>5, <1>6, <1>7 DEF Acts

\* append: prepare succeeds on the revision in memory only, so that the event
\* extends the log.
LEMMA PrepareStep ==
  ASSUME OneAtATime, Inv, NEW p \in Processes, NEW s \in Slots, Prepare(p, s)
  PROVE  Inv' /\ Served
<1>1. PICK n \in Process : n = process[p]
  BY DEF Inv, TypeOK
<1>2. PICK b \in Appending : b = append[p][s]
  BY DEF Inv, TypeOK
<1>3. /\ b.phase = "signed"
      /\ UNCHANGED <<ring, published, process, anchored, acked, aborted, used>>
  BY <1>2 DEF Prepare, history
<1>4. /\ Fits(n) /\ n.phase = "open" /\ n.state \in RemoteAuditState
      /\ AppendFits(n, b) /\ b.event \in AuditEvent /\ b.event # None
      /\ b.event.id \in EventIds /\ b.event.id \in used /\ Acts(p, b.event.id)
      /\ TypeOK /\ Services /\ n.state # None
  BY <1>1, <1>2, <1>3, UnderWay, RemoteAuditAssumption
<1>5. PICK e \in AuditEvent : e = b.event
  BY <1>4
<1>6. PICK h \in Seq(AuditEvent) : h = n.state.events
  BY <1>4 DEF RemoteAuditState
<1>7. PICK g \in Seq(AuditEvent) : Extends(g, h, e)
  <2>1. Append(h, e) \in Seq(AuditEvent)
    OBVIOUS
  <2>2. QED BY <2>1 DEF Extends
<1>8. PICK z : z = [commitId |-> e.id, events |-> g, anchor |-> AnchorFor(g, e.keyId, e.keyVersion)]
  OBVIOUS
<1>9. Candidate(p, s) = z
  BY <1>1, <1>2, <1>5, <1>6, <1>7, <1>8 DEF Candidate, Extends
<1>10. /\ z \in Pending /\ z.commitId = e.id /\ z.events = g /\ z # None
       /\ Attests(z.events, z.anchor) /\ z.anchor.activeKeyId = e.keyId
       /\ z.anchor.activeKeyVersion = e.keyVersion
  <2>1. e.id \in EventIds /\ e.keyId \in KeyIds /\ e.keyVersion \in Nat
    BY DEF AuditEvent
  <2>2. g # <<>> /\ Last(g) = e /\ TipId(g) = e.id /\ Len(g) \in Nat
    BY <1>7, AppendFacts
  <2>3. AnchorFor(g, e.keyId, e.keyVersion) \in AuditTrustAnchor
    BY <2>1, <2>2 DEF AnchorFor, AuditTrustAnchor
  <2>4. z \in Pending
    BY <1>8, <2>1, <2>3 DEF Pending
  <2>5. QED BY <1>8, <2>4, RemoteAuditAssumption DEF Attests, AnchorFor
<1>11. CASE /\ MayPrepare(process[p].state.revision)
            /\ store' = [store EXCEPT !.pending = Candidate(p, s)]
            /\ append' = [append EXCEPT ![p][s].phase = "prepared",
                                        ![p][s].pending = Candidate(p, s)]
  <2>1. /\ store.pending = None /\ n.state.revision = store.revision
        /\ store' = [store EXCEPT !.pending = z] /\ store \in RemoteAuditState
    BY <1>1, <1>4, <1>9, <1>11 DEF MayPrepare, TypeOK
  <2>2. store.events = h
    BY <1>4, <1>6, <2>1 DEF Fits, ReadState
  <2>3. /\ Unheard(e.id) /\ e.sequence = Len(h) + 1 /\ e.previous = TipId(h)
        /\ Signs(e.keyId, e.keyVersion)
        /\ h # <<>> => \/ e.keyVersion > Last(h).keyVersion
                       \/ e.keyVersion = Last(h).keyVersion /\ e.keyId = Last(h).keyId
    BY <1>3, <1>4, <1>5, <1>6 DEF AppendFits, SignedFits
  <2>4. Verifies(g, ring)
    <3>1. Verifies(h, ring)
      BY <1>4, <2>2 DEF Services, ChainVerifies
    <3>2. QED BY <1>7, <2>3, <3>1, ChainExtended DEF Extends
  <2>5. Prepares(e.id, z)
    BY <1>3, <1>4, <1>5, <1>7, <1>10, <2>1, <2>2, <2>3, <2>4 DEF Prepares, Extends
  <2>6. Serves(e.id)
    BY <1>10, <2>5 DEF Serves
  <2>7. PICK a : a = [b EXCEPT !.phase = "prepared", !.pending = z]
    OBVIOUS
  <2>8. a \in Appending /\ a.phase = "prepared" /\ a.pending = z /\ a.event = e
    BY <1>5, <1>10, <2>7 DEF Appending
  <2>9. append' = [append EXCEPT ![p][s] = a]
    BY <1>2, <1>4, <1>9, <1>11, <2>7 DEF TypeOK, Appending
  <2>10. store'.pending = z /\ e.id \notin Range(anchored)
    BY <2>1, <2>3 DEF RemoteAuditState, Unheard
  <2>11. ~PendingIsAnchored'
    BY <1>3, <1>10, <2>10 DEF PendingIsAnchored
  <2>12. Named(z.anchor)'
    BY <1>3, <1>10, <2>3 DEF Named, Signs
  <2>13. AppendFits(n, a)'
    <3>1. BusyFits(n, a)'
      BY <1>3, <1>4, <1>5, <2>8 DEF BusyFits
    <3>2. z.events = Append(h, e)
      BY <1>7, <1>10 DEF Extends
    <3>3. PreparedFits(n, a)'
      BY <1>3, <1>6, <1>10, <2>8, <2>10, <2>11, <2>12, <3>2 DEF PreparedFits
    <3>4. QED BY <2>8, <3>1, <3>3 DEF AppendFits, SignedFits, PublishedFits, CommittedFits
  <2>14. QED BY <1>1, <1>2, <1>3, <1>4, <1>5, <2>6, <2>8, <2>9, <2>13, SlotGoesOn
<1>12. CASE append' = [append EXCEPT ![p][s] = Idle] /\ UNCHANGED store
  <2>1. Serves(b.event.id)
    BY <1>3, <1>12, StillServes DEF Still
  <2>2. QED BY <1>3, <1>4, <1>12, <2>1, SlotEnds
<1>13. QED BY <1>11, <1>12 DEF Prepare

\* append: publish succeeds on the anchor in memory only, so that the event is
\* the next to be anchored.
LEMMA PublishStep ==
  ASSUME OneAtATime, Inv, NEW p \in Processes, NEW s \in Slots, PublishAnchor(p, s)
  PROVE  Inv' /\ Served
<1>1. PICK n \in Process : n = process[p]
  BY DEF Inv, TypeOK
<1>2. PICK b \in Appending : b = append[p][s]
  BY DEF Inv, TypeOK
<1>3. b.phase = "prepared" /\ UNCHANGED <<ring, store, process, acked, aborted, used>>
  BY <1>2 DEF PublishAnchor
<1>4. /\ Fits(n) /\ n.phase = "open" /\ n.state \in RemoteAuditState
      /\ n.published # None /\ n.published.revision \in Nat
      /\ AppendFits(n, b) /\ b.event \in AuditEvent /\ b.event # None
      /\ b.event.id \in EventIds /\ b.event.id \in used /\ Acts(p, b.event.id)
      /\ TypeOK /\ Services
  BY <1>1, <1>2, <1>3, UnderWay
<1>5. PICK id \in EventIds : id = b.event.id
  BY <1>4
<1>6. PICK z \in Pending : z = b.pending
  BY <1>3, <1>4 DEF AppendFits, PreparedFits, Appending
<1>7. /\ z.commitId = id /\ z.events = Append(n.state.events, b.event)
      /\ Attests(z.events, z.anchor) /\ Named(z.anchor)
      /\ store.pending = z \/ id \in aborted
      /\ id \notin Range(anchored)
      /\ PendingIsAnchored => n.published.revision < published.revision
  BY <1>3, <1>4, <1>5, <1>6 DEF AppendFits, PreparedFits
<1>8. PICK h \in Seq(AuditEvent) : h = n.state.events
  BY <1>4 DEF RemoteAuditState
<1>9. PICK g \in Seq(AuditEvent) : g = z.events
  BY DEF Pending
<1>10. TipId(g) = id /\ Ids(g) = Append(Ids(h), id)
  <2>1. Extends(g, h, b.event)
    BY <1>7, <1>8, <1>9 DEF Extends
  <2>2. PICK e \in AuditEvent : e = b.event
    BY <1>4
  <2>3. Extends(g, h, e)
    BY <2>1, <2>2
  <2>4. TipId(g) = e.id /\ Ids(g) = Append(Ids(h), e.id)
    BY <2>3, AppendFacts
  <2>5. QED BY <1>5, <2>2, <2>4
<1>11. z.anchor.tip = id
  BY <1>7, <1>9, <1>10, AttestsFacts
<1>12. ASSUME Publish(process[p].published.revision, append[p][s].pending.anchor),
              anchored' = Append(anchored, append[p][s].pending.commitId)
       PROVE  Publishes(id, z)
  <2>1. published # None /\ published \in PublishedAuditAnchor
    BY <1>4 DEF Fits, ReadAnchor, TypeOK
  <2>2. n.published.revision = published.revision /\ published.revision \in Nat
    BY <1>1, <1>12, <2>1 DEF Publish, PublishedRevision, PublishedAuditAnchor
  <2>3. published' = [revision |-> published.revision + 1, anchor |-> z.anchor]
    BY <1>1, <1>2, <1>6, <1>12, <2>2 DEF Publish
  <2>4. anchored' = Append(anchored, id)
    BY <1>2, <1>6, <1>7, <1>12
  <2>5. ~PendingIsAnchored
    BY <1>7, <2>2
  <2>6. anchored = Ids(h)
    BY <1>4, <1>8, <2>2 DEF Fits, Stands
  <2>7. store.pending = z => Append(anchored, id) = Ids(z.events)
    BY <1>9, <1>10, <2>6
  <2>8. QED BY <1>3, <1>4, <1>5, <1>7, <1>11, <2>1, <2>3, <2>4, <2>5, <2>7 DEF Publishes
<1>13. ASSUME NEW a \in Appending, a.phase = "failed", a.event = b.event
       PROVE  AppendFits(n, a)'
  BY <1>3, <1>4, <1>13 DEF AppendFits, BusyFits, SignedFits, PreparedFits, PublishedFits,
     CommittedFits
<1>14. CASE /\ Publish(process[p].published.revision, append[p][s].pending.anchor)
            /\ anchored' = Append(anchored, append[p][s].pending.commitId)
            /\ append' = [append EXCEPT ![p][s].phase = "published",
                                        ![p][s].published = published']
  <2>1. Publishes(id, z)
    BY <1>12, <1>14
  <2>2. Serves(id)
    BY <2>1 DEF Serves
  <2>3. /\ published' \in PublishedAuditAnchor /\ published' # None
        /\ published'.revision \in Nat /\ published'.anchor = z.anchor
    BY <1>4, <2>1, PublishedNext DEF PublishedAuditAnchor
  <2>4. PICK a : a = [b EXCEPT !.phase = "published", !.published = published']
    OBVIOUS
  <2>5. a \in Appending /\ a.phase = "published" /\ a.published = published' /\ a.event = b.event
    BY <2>3, <2>4 DEF Appending
  <2>6. append' = [append EXCEPT ![p][s] = a]
    BY <1>2, <1>4, <1>14, <2>4 DEF TypeOK, Appending
  <2>7. id \in Range(anchored')
    <3>1. anchored \in Seq(EventIds) /\ anchored' = Append(anchored, id)
      BY <1>4, <2>1 DEF TypeOK, Publishes
    <3>2. Range(anchored') = Range(anchored) \cup {id}
      BY <3>1, RangeGrows
    <3>3. QED BY <3>2
  <2>8. AppendFits(n, a)'
    <3>1. BusyFits(n, a)'
      BY <1>3, <1>4, <2>5 DEF BusyFits
    <3>2. PublishedFits(a)'
      BY <1>5, <1>11, <2>3, <2>5, <2>7 DEF PublishedFits
    <3>3. QED BY <2>5, <3>1, <3>2 DEF AppendFits, SignedFits, PreparedFits, CommittedFits
  <2>9. AppendFits(process[p], a)'
    BY <1>1, <1>3, <2>8
  <2>10. QED BY <1>2, <1>3, <1>4, <1>5, <2>2, <2>5, <2>6, <2>9, SlotGoesOn
<1>15. CASE /\ Serves(id)
            /\ append' = [append EXCEPT ![p][s].phase = "failed"]
  <2>1. PICK a : a = [b EXCEPT !.phase = "failed"]
    OBVIOUS
  <2>2. a \in Appending /\ a.phase = "failed" /\ a.event = b.event
    BY <2>1 DEF Appending
  <2>3. append' = [append EXCEPT ![p][s] = a]
    BY <1>2, <1>4, <1>15, <2>1 DEF TypeOK, Appending
  <2>4. AppendFits(process[p], a)'
    BY <1>1, <1>3, <1>13, <2>2
  <2>5. QED BY <1>2, <1>3, <1>4, <1>5, <1>15, <2>2, <2>3, <2>4, SlotGoesOn
<1>16. ASSUME UNCHANGED <<published, anchored>>
       PROVE  Serves(id)
  BY <1>3, <1>16, StillServes DEF Still
<1>17. ASSUME NEW x, Publishes(x, z) PROVE Serves(x)
  BY <1>17 DEF Serves
<1>18. QED BY <1>12, <1>14, <1>15, <1>16, <1>17 DEF PublishAnchor

\* append: the catch clause.
LEMMA AbortStep ==
  ASSUME OneAtATime, Inv, NEW p \in Processes, NEW s \in Slots, AbortAppend(p, s)
  PROVE  Inv' /\ Served
<1>1. /\ append[p][s].phase # "idle" /\ append' = [append EXCEPT ![p][s] = Idle]
      /\ UNCHANGED <<ring, published, process, used>>
  BY DEF AbortAppend
<1>2. Acts(p, append[p][s].event.id)
  BY <1>1, UnderWay
<1>3. CASE Abort(append[p][s].event.id)
  <2>1. UNCHANGED <<acked, anchored>>
    BY <1>3 DEF Abort
  <2>2. Serves(append[p][s].event.id)
    BY <1>1, <1>3, <2>1 DEF Serves, Aborts, Still, Abort, IsPending
  <2>3. QED BY <1>1, <1>2, <2>1, <2>2, SlotEnds
<1>4. CASE UNCHANGED <<store, history>>
  <2>1. Serves(append[p][s].event.id)
    BY <1>1, <1>4, StillServes DEF Still, history
  <2>2. QED BY <1>1, <1>2, <1>4, <2>1, SlotEnds DEF history
<1>5. QED BY <1>3, <1>4 DEF AbortAppend

\* append: commit of the published event.
LEMMA CommitStep ==
  ASSUME OneAtATime, Inv, NEW p \in Processes, NEW s \in Slots, CommitAppend(p, s)
  PROVE  Inv' /\ Served
<1>1. PICK n \in Process : n = process[p]
  BY DEF Inv, TypeOK
<1>2. PICK b \in Appending : b = append[p][s]
  BY DEF Inv, TypeOK
<1>3. /\ b.phase = "published"
      /\ UNCHANGED <<ring, published, process, anchored, acked, aborted, used>>
  BY <1>2 DEF CommitAppend, history
<1>4. /\ Fits(n) /\ n.phase = "open" /\ AppendFits(n, b) /\ Acts(p, b.event.id)
      /\ b.event # None /\ b.event.id \in used /\ TypeOK /\ Services /\ PendingOK
  BY <1>1, <1>2, <1>3, UnderWay DEF Services
<1>5. CASE /\ IsPending(append[p][s].event.id) /\ Committed
           /\ \E next \in {[append[p][s] EXCEPT !.phase = "committed"], Idle} :
                append' = [append EXCEPT ![p][s] = next]
  <2>1. store.pending # None /\ store.pending.commitId = b.event.id
    BY <1>2, <1>5 DEF IsPending
  <2>2. PendingIsAnchored
    BY <1>3, <1>4, <2>1 DEF AppendFits, PublishedFits, PendingIsAnchored
  <2>3. Serves(b.event.id)
    BY <1>3, <1>5, <2>2 DEF Serves, Commits
  <2>4. CASE append' = [append EXCEPT ![p][s] = Idle]
    BY <1>3, <1>4, <2>3, <2>4, SlotEnds
  <2>5. CASE append' = [append EXCEPT ![p][s] = [append[p][s] EXCEPT !.phase = "committed"]]
    <3>1. PICK a : a = [b EXCEPT !.phase = "committed"]
      OBVIOUS
    <3>2. /\ a \in Appending /\ a.phase = "committed" /\ a.event = b.event
          /\ a.published = b.published
      BY <3>1 DEF Appending
    <3>3. append' = [append EXCEPT ![p][s] = a]
      BY <1>2, <2>5, <3>1
    <3>4. store'.events = store.pending.events
      BY <1>5 DEF Committed
    <3>5. b.event.id \in IdsOf(store'.events) /\ anchored = Ids(store'.events)
      BY <1>4, <2>1, <2>2, <3>4, PendingFacts DEF PendingOK
    <3>6. BusyFits(n, a)'
      BY <1>3, <1>4, <3>2 DEF BusyFits
    <3>7. PublishedFits(a)'
      BY <1>3, <1>4, <3>2 DEF AppendFits, PublishedFits
    <3>8. CommittedFits(a)'
      BY <1>3, <3>2, <3>5 DEF CommittedFits
    <3>9. AppendFits(n, a)'
      BY <3>2, <3>6, <3>7, <3>8 DEF AppendFits, SignedFits, PreparedFits
    <3>10. AppendFits(process[p], a)'
      BY <1>1, <1>3, <3>9
    <3>11. QED BY <1>2, <1>3, <1>4, <2>3, <3>2, <3>3, <3>10, SlotGoesOn
  <2>6. QED BY <1>5, <2>4, <2>5
<1>6. CASE append' = [append EXCEPT ![p][s] = Idle] /\ UNCHANGED store
  <2>1. Serves(b.event.id)
    BY <1>3, <1>6, StillServes DEF Still
  <2>2. QED BY <1>3, <1>4, <1>6, <2>1, SlotEnds
<1>7. QED BY <1>5, <1>6 DEF CommitAppend

\* append: the event is returned, and is in the store.
LEMMA FinishStep ==
  ASSUME OneAtATime, Inv, NEW p \in Processes, NEW s \in Slots, Finish(p, s)
  PROVE  Inv' /\ Still /\ \E id \in IdsOf(store.events) : acked' = acked \cup {id}
<1>1. PICK n \in Process : n = process[p]
  BY DEF Inv, TypeOK
<1>2. PICK b \in Appending : b = append[p][s]
  BY DEF Inv, TypeOK
<1>3. /\ b.phase = "committed" /\ acked' = acked \cup {b.event.id}
      /\ append' = [append EXCEPT ![p][s] = Idle]
      /\ UNCHANGED <<ring, store, published, anchored, aborted, used>>
  BY <1>2 DEF Finish
<1>4. /\ Fits(n) /\ n.phase = "open" /\ AppendFits(n, b) /\ Acts(p, b.event.id)
      /\ b.event.id \in EventIds /\ TypeOK /\ Services /\ PendingOK
  BY <1>1, <1>2, <1>3, UnderWay DEF Services
<1>5. Serves(b.event.id)
  BY <1>3, StillServes DEF Still
<1>6. PICK m : m = [n EXCEPT !.state = store, !.published = b.published]
  OBVIOUS
<1>7. /\ m \in Process /\ m.phase = "open" /\ m.state = store /\ m.published = b.published
      /\ store \in RemoteAuditState /\ store # None
  BY <1>4, <1>6, RemoteAuditAssumption DEF Process, Appending, TypeOK
<1>8. process' = [process EXCEPT ![p] = m]
  BY <1>1, <1>2, <1>4, <1>6 DEF Finish, TypeOK, Process
<1>9. Fits(m)'
  <2>1. store' = store /\ store.revision \in Nat /\ store.events \in Seq(AuditEvent)
    BY <1>3, <1>7 DEF RemoteAuditState
  <2>2. Begins(store.events, store.events)
    BY <2>1 DEF Begins
  <2>3. store.pending # None => store.pending.anchor.tip = store.pending.commitId
    BY <1>4, PendingFacts
  <2>4. ReadState(m)'
    BY <1>7, <2>1, <2>2, <2>3 DEF ReadState
  <2>5. ReadAnchor(m)'
    BY <1>3, <1>4, <1>7 DEF AppendFits, PublishedFits, ReadAnchor
  <2>6. Stands(m)'
    BY <1>3, <1>4, <1>7 DEF AppendFits, PublishedFits, CommittedFits, Stands
  <2>7. QED BY <2>4, <2>5, <2>6 DEF Fits
<1>10. AppendFits(m, Idle)' /\ Follows(append[p][s], Idle)
  BY IdleFits, IdleTypes DEF Follows
<1>11. used' \subseteq EventIds /\ acked' \subseteq EventIds /\ used \subseteq used'
  BY <1>3, <1>4 DEF TypeOK
<1>12. Inv'
  BY <1>3, <1>4, <1>5, <1>7, <1>8, <1>9, <1>10, <1>11, IdleTypes, SlotMoves
<1>13. QED BY <1>3, <1>4, <1>12 DEF Still, AppendFits, CommittedFits

-----------------------------------------------------------------------------
(* The theorems *)

\* Nothing is stored, published or under way at first.
LEMMA InvInit == Init => Inv
<1>1. SUFFICES ASSUME Init PROVE Inv
  OBVIOUS
<1>2. /\ ring \in [KeyIds -> KeyRecord] /\ RingOK
  BY <1>1, RemoteAuditAssumption DEF Init, KeyRecord, RingOK, Known
<1>3. /\ store.revision = 0 /\ store.events = <<>> /\ store.pending = None
      /\ published = None /\ anchored = <<>> /\ acked = {} /\ aborted = {} /\ used = {}
      /\ store \in RemoteAuditState
  BY <1>1 DEF Init, RemoteAuditState
<1>4. /\ process = [p \in Processes |-> Closed] /\ append = [p \in Processes |-> AllIdle]
  BY <1>1 DEF Init
<1>5. TypeOK
  BY <1>2, <1>3, <1>4, ClosedFits, IdleTypes DEF TypeOK
<1>6. Services
  BY <1>2, <1>3 DEF Services, ChainVerifies, Verifies, PendingOK, PendingIsAnchored, AnchorOK,
     IdsOK, Range, IdsOf
<1>7. \A p \in Processes : Fits(process[p])
  BY <1>4, ClosedFits
<1>8. \A p \in Processes, s \in Slots :
        append[p][s].phase = "idle" /\ AppendFits(process[p], append[p][s])
  BY <1>4, IdleTypes, IdleFits
<1>9. Distinct
  BY <1>8 DEF Distinct
<1>10. QED BY <1>5, <1>6, <1>7, <1>8, <1>9 DEF Inv

\* The inductive step, with what it does to the services.
LEMMA InvNext ==
  ASSUME OneAtATime, Inv, [Next]_vars
  PROVE  /\ Inv'
         /\ \/ Served
            \/ Still /\ \E id \in IdsOf(store.events) : acked' = acked \cup {id}
<1>1. CASE UNCHANGED vars
  <2>1. UNCHANGED <<ring, store, published, process, append, anchored, acked, aborted, used>>
    BY <1>1 DEF vars, history
  <2>2. Inv'
    BY <2>1 DEF Inv, TypeOK, Services, RingOK, ChainVerifies, PendingOK, PendingIsAnchored,
       AnchorOK, IdsOK, Named, Signs, Fits, ReadState, ReadAnchor, Stands, AppendFits, BusyFits,
       SignedFits, PreparedFits, PublishedFits, CommittedFits, Unheard, IsPending, Distinct
  <2>3. QED BY <2>1, <2>2, StillServes DEF Served, Still
<1>2. ASSUME NEW k \in KeyIds, Activate(k) PROVE Inv' /\ Served
  BY <1>2, ActivateStep
<1>3. ASSUME NEW p \in Processes,
             Load(p) \/ LoadAnchor(p) \/ Recover(p) \/ Open(p) \/ Crash(p)
      PROVE  Inv' /\ Served
  BY <1>3, LoadStep, LoadAnchorStep, RecoverStep, OpenStep, CrashStep
<1>4. ASSUME NEW p \in Processes, NEW s \in Slots,
             \/ \E id \in EventIds : Sign(p, s, id)
             \/ Prepare(p, s) \/ PublishAnchor(p, s) \/ AbortAppend(p, s)
             \/ CommitAppend(p, s)
      PROVE  Inv' /\ Served
  BY <1>4, SignStep, PrepareStep, PublishStep, AbortStep, CommitStep
<1>5. ASSUME NEW p \in Processes, NEW s \in Slots, Finish(p, s)
      PROVE  Inv' /\ Still /\ \E id \in IdsOf(store.events) : acked' = acked \cup {id}
  BY <1>5, FinishStep
<1>6. QED BY <1>1, <1>2, <1>3, <1>4, <1>5 DEF Next

\* AsyncRemoteAuditLog with one append at a time: however many processes open,
\* append, crash and recover, whatever calls fail and whenever keys are
\* activated, revisions tell what is current (the inductive invariant).
THEOREM RevisionsTell ==
  ASSUME OneAtATime
  PROVE  Spec => []Inv
<1>1. Inv /\ [Next]_vars => Inv'
  BY InvNext
<1>2. QED BY <1>1, InvInit, PTL DEF Spec

\* What is committed, or may be committed by recovery, always verifies: open's
\* verification never fails for the log's own doing.
THEOREM ChainAlwaysVerifies ==
  ASSUME OneAtATime
  PROVE  Spec => []ChainVerifies
<1>1. Inv => ChainVerifies
  BY DEF Inv, Services
<1>2. QED BY <1>1, RevisionsTell, PTL

\* "Crash consistency": crashes, failing calls and lost answers never leave an
\* anchor that matches neither the committed nor the prepared state, unless a
\* commit was aborted whose anchor was published.
THEOREM AnchorsAreStrandedByAborts ==
  ASSUME OneAtATime
  PROVE  Spec => []StrandedOnlyByAbort
<1>1. Inv => StrandedOnlyByAbort
  BY DEF Inv, Services, AnchorOK, PendingOK, StrandedOnlyByAbort
<1>2. QED BY <1>1, RevisionsTell, PTL

\* open and AuditLog.restore accept the same logs, as long as the anchor names
\* the active key.
THEOREM AcceptanceAlwaysAgrees ==
  ASSUME OneAtATime
  PROVE  Spec => []AcceptanceAgrees
<1>1. ASSUME Inv, published # None, published.anchor.activeKeyId = ActiveKeyId(ring)
      PROVE  Restores(store.events, published.anchor, ring)
               <=> Opens(store, published, ActiveKeyId(ring), LatestKeyVersion(ring))
  <2>1. /\ TypeOK /\ RingOK /\ Verifies(store.events, ring) /\ Named(published.anchor)
        /\ ring \in [KeyIds -> KeyRecord]
    BY <1>1 DEF Inv, TypeOK, Services, ChainVerifies, AnchorOK
  <2>2. published.anchor.activeKeyVersion = LatestKeyVersion(ring)
    BY <1>1, <2>1 DEF Named, Signs, LatestKeyVersion
  <2>3. PICK h \in Seq(AuditEvent) : h = store.events
    BY <2>1 DEF TypeOK, RemoteAuditState
  <2>4. Verify(h, ring) /\ \A i \in DOMAIN h : h[i].sequence = i
    <3>1. ASSUME NEW i \in DOMAIN h
          PROVE  LET event == h[i]
                     walk == Walk(h, i - 1)
                 IN /\ event.previous = walk.hash
                    /\ Known(ring, event.keyId)
                    /\ ring[event.keyId].keyVersion = event.keyVersion
                    /\ event.keyVersion >= walk.keyVersion
                    /\ event.keyVersion = walk.keyVersion => event.keyId = walk.keyId
      <4>1. /\ i \in 1 .. Len(h) /\ Len(h) \in Nat
            /\ h[i].previous = IF i = 1 THEN None ELSE h[i - 1].id
            /\ Known(ring, h[i].keyId)
            /\ h[i].keyVersion = ring[h[i].keyId].keyVersion
            /\ i > 1 => \/ h[i].keyVersion > h[i - 1].keyVersion
                        \/ /\ h[i].keyVersion = h[i - 1].keyVersion
                           /\ h[i].keyId = h[i - 1].keyId
        BY <2>1, <2>3 DEF Verifies
      <4>2. h[i].keyId \in KeyIds /\ h[i].keyVersion \in Nat
        <5>1. h[i] \in AuditEvent
          BY <4>1
        <5>2. QED BY <5>1 DEF AuditEvent
      <4>3. CASE i = 1
        <5>1. Walk(h, i - 1) = [hash |-> None, keyId |-> None, keyVersion |-> 0]
          BY <4>3 DEF Walk
        <5>2. h[i].keyVersion > 0
          BY <2>1, <4>1, <4>2 DEF RingOK
        <5>3. QED BY <4>1, <4>2, <4>3, <5>1, <5>2
      <4>4. CASE i # 1
        <5>1. i - 1 \in 1 .. Len(h) /\ i > 1 /\ i - 1 # 0
          BY <4>1, <4>4
        <5>2. h[i - 1].keyVersion \in Nat
          <6>1. h[i - 1] \in AuditEvent
            BY <5>1
          <6>2. QED BY <6>1 DEF AuditEvent
        <5>3. Walk(h, i - 1) = [hash |-> h[i - 1].id, keyId |-> h[i - 1].keyId,
                                keyVersion |-> h[i - 1].keyVersion]
          BY <5>1 DEF Walk
        <5>4. QED BY <4>1, <4>2, <4>4, <5>1, <5>2, <5>3
      <4>5. QED BY <4>3, <4>4
    <3>2. Verify(h, ring)
      BY <3>1 DEF Verify
    <3>3. \A i \in DOMAIN h : h[i].sequence = i
      BY <2>1, <2>3 DEF Verifies
    <3>4. QED BY <3>2, <3>3
  <2>5. Restores(store.events, published.anchor, ring)
          <=> published.anchor = AnchorFor(h, ActiveKeyId(ring), LatestKeyVersion(ring))
    BY <2>3, <2>4 DEF Restores, VerifyTrustAnchor
  <2>6. Opens(store, published, ActiveKeyId(ring), LatestKeyVersion(ring))
          <=> published.anchor = AnchorFor(h, ActiveKeyId(ring), LatestKeyVersion(ring))
    BY <1>1, <2>1, <2>2, <2>3 DEF Opens
  <2>7. QED BY <2>5, <2>6
<1>2. Inv => AcceptanceAgrees
  BY <1>1 DEF AcceptanceAgrees, RestoreAgrees, Inv
<1>3. QED BY <1>2, RevisionsTell, PTL

\* Store and anchor implement AnchoredLog: one history, however many processes
\* append to it; the store never runs ahead of the anchor, and an append that
\* returned is in both for good.
THEOREM CustodyImplementsAnchoredLog ==
  ASSUME OneAtATime
  PROVE  Spec => AppendsToAnchoredLog
<1>1. Init => Log!Init
  BY DEF Init, Log!Init, Ids
<1>2. ASSUME Inv, [Next]_vars
      PROVE  [Log!Next]_(Log!vars)
  <2>1. /\ TypeOK /\ Services /\ PendingOK /\ anchored \in Seq(EventIds)
        /\ store \in RemoteAuditState /\ store.events \in Seq(AuditEvent)
    BY <1>2 DEF Inv, TypeOK, Services, RemoteAuditState
  <2>2. CASE Still /\ \E id \in IdsOf(store.events) : acked' = acked \cup {id}
    <3>1. Range(Ids(store.events)) = IdsOf(store.events)
      BY <2>1, IdsFacts
    <3>2. Log!Acknowledge
      BY <2>2, <3>1 DEF Log!Acknowledge, Still, Log!Range, Range
    <3>3. QED BY <3>2 DEF Log!Next
  <2>3. ASSUME NEW id, Serves(id), UNCHANGED acked
        PROVE  [Log!Next]_(Log!vars)
    <3>1. CASE Commits
      <4>1. store'.events = store.pending.events /\ anchored = Ids(store.pending.events)
        BY <2>1, <3>1 DEF Commits, Committed, PendingOK
      <4>2. Log!CatchUp
        BY <2>3, <3>1, <4>1 DEF Commits, Log!CatchUp
      <4>3. QED BY <4>2 DEF Log!Next
    <3>2. ASSUME NEW z \in Pending, Publishes(id, z)
          PROVE  [Log!Next]_(Log!vars)
      <4>1. Log!Anchor
        BY <2>3, <3>2 DEF Publishes, Log!Anchor, Log!Range, Range
      <4>2. QED BY <4>1 DEF Log!Next
    <3>3. CASE ~Commits /\ ~\E z \in Pending : Publishes(id, z)
      <4>1. store'.events = store.events /\ anchored' = anchored
        BY <2>1, <2>3, <3>3 DEF Serves, Still, Aborts, Begun, Prepares, RemoteAuditState
      <4>2. QED BY <2>3, <4>1 DEF Log!vars
    <3>4. QED BY <3>1, <3>2, <3>3
  <2>4. QED BY <1>2, <2>2, <2>3, InvNext DEF Served
<1>3. QED BY <1>1, <1>2, RevisionsTell, PTL DEF Spec, AppendsToAnchoredLog, Log!Spec

=============================================================================
