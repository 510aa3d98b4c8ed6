------------------------------- MODULE RemoteAudit -------------------------------
(***************************************************************************)
(* packages/audit/remoteAudit.ts: AsyncRemoteAuditLog, in several          *)
(* processes over one state store, one anchor publisher and one MAC        *)
(* provider.  The actions are the stretches between awaits: a step is one  *)
(* remote call together with the synchronous code up to the next one.      *)
(*                                                                         *)
(* The three services are outside the repository.  They are modelled from  *)
(* the contracts that accompany their interfaces (atomic prepare, commit   *)
(* and abort guarded by revision and commit id; compare-and-swap publish;  *)
(* a provider that signs with the active key only and keeps retired keys)  *)
(* and may fail: a call throws without effect, or has its effect and the   *)
(* answer is lost.                                                         *)
(*                                                                         *)
(* activeKey and the createMac that follows it are one step: with another  *)
(* key activated in between the provider refuses to sign, and the append   *)
(* ends without a change.                                                  *)
(***************************************************************************)
EXTENDS AuditChain, FiniteSets

CONSTANTS
  Processes,
  Slots,          \* appends one process may have under way at once
  FirstKey        \* the key that is active at first

VARIABLES
  ring,        \* the provider's keys
  store,       \* RemoteAuditState in the local store
  published,   \* PublishedAuditAnchor at the publisher, None before the first
  process,     \* [Processes -> an opening or open log]
  append,      \* [Processes -> [Slots -> append under way]]
  anchored,    \* history: ids of the events the published anchors attest
  acked,       \* history: ids of the events append returned
  aborted,     \* history: ids of the commits that were aborted
  used         \* history: ids given to events

history == <<anchored, acked, aborted>>
vars == <<ring, store, published, process, append, history, used>>

Pending ==
  [commitId : EventIds, events : Seq(AuditEvent), anchor : AuditTrustAnchor]
RemoteAuditState ==
  [revision : Nat, events : Seq(AuditEvent), pending : Pending \cup {None}]
PublishedAuditAnchor == [revision : Nat, anchor : AuditTrustAnchor]

ASSUME RemoteAuditAssumption ==
  /\ FirstKey \in KeyIds
  /\ None \notin EventIds \cup AuditEvent \cup Pending \cup RemoteAuditState
                   \cup PublishedAuditAnchor

\* phase: "closed"; "loaded" (the store was read, the anchor comes next);
\* "recover" (there is a pending commit to decide); "reloading"; "reloaded";
\* "key" (the active key comes next); "open".
Process ==
  [phase : {"closed", "loaded", "recover", "reloading", "reloaded", "key", "open"},
   state : RemoteAuditState \cup {None},
   published : PublishedAuditAnchor \cup {None}]

\* phase: "idle"; "signed" (the event has its tag); "prepared"; "failed"
\* (publish threw); "published"; "committed".
Appending ==
  [phase : {"idle", "signed", "prepared", "failed", "published", "committed"},
   event : AuditEvent \cup {None}, pending : Pending \cup {None},
   published : PublishedAuditAnchor \cup {None}]

Closed == [phase |-> "closed", state |-> None, published |-> None]
Idle == [phase |-> "idle", event |-> None, pending |-> None, published |-> None]
AllIdle == [s \in Slots |-> Idle]

Init ==
  /\ ring = [k \in KeyIds |->
       IF k = FirstKey THEN [status |-> "active", keyVersion |-> 1]
       ELSE [status |-> "provisioned", keyVersion |-> 0]]
  /\ store = [revision |-> 0, events |-> <<>>, pending |-> None]
  /\ published = None
  /\ process = [p \in Processes |-> Closed]
  /\ append = [p \in Processes |-> AllIdle]
  /\ anchored = <<>> /\ acked = {} /\ aborted = {} /\ used = {}

-----------------------------------------------------------------------------
(* The services *)

\* prepare: expectedRevision guards it, and there is one pending commit.
MayPrepareFaulty(revision) == store.revision = revision
MayPrepare(revision) == store.revision = revision /\ store.pending = None

IsPending(commitId) == store.pending # None /\ store.pending.commitId = commitId

\* commit
Committed ==
  store' = [revision |-> store.revision + 1, events |-> store.pending.events,
            pending |-> None]

\* abort: nothing happens unless the commit is the pending one.
Abort(commitId) ==
  /\ store' = IF IsPending(commitId) THEN [store EXCEPT !.pending = None] ELSE store
  /\ aborted' = IF IsPending(commitId) THEN aborted \cup {commitId} ELSE aborted
  /\ UNCHANGED <<anchored, acked>>

\* publish: revision 0 stands for the undefined one that creates.
PublishedRevision == IF published = None THEN 0 ELSE published.revision
PublishFaulty(expected, anchor) ==
  /\ expected = 0 => published = None
  /\ published' = [revision |-> PublishedRevision + 1, anchor |-> anchor]
Publish(expected, anchor) ==
  /\ PublishedRevision = expected
  /\ published' = [revision |-> expected + 1, anchor |-> anchor]

Activate(k) ==
  /\ MayActivate(ring, k)
  /\ ring' = Activated(ring, k)
  /\ UNCHANGED <<store, published, process, append, history, used>>

-----------------------------------------------------------------------------
(* open *)

Load(p) ==
  /\ process[p].phase \in {"closed", "reloading"}
  /\ process' = [process EXCEPT
       ![p] = [phase |-> IF @.phase = "closed" THEN "loaded" ELSE "reloaded",
               state |-> store, published |-> None]]
  /\ UNCHANGED <<ring, store, published, append, history, used>>

LoadAnchor(p) ==
  /\ process[p].phase \in {"loaded", "reloaded"}
  /\ process' = [process EXCEPT
       ![p] = [@ EXCEPT
                 !.phase = IF @ = "loaded" /\ process[p].state.pending # None
                           THEN "recover" ELSE "key",
                 !.published = published]]
  /\ UNCHANGED <<ring, store, published, append, history, used>>

\* A pending commit is completed if its anchor was published, else aborted.  A
\* commit that is no longer pending throws, and open fails.
WasPublished(p) ==
  /\ process[p].published # None
  /\ process[p].published.anchor = process[p].state.pending.anchor

Recover(p) ==
  LET commitId == process[p].state.pending.commitId IN
  /\ process[p].phase = "recover"
  /\ \/ /\ WasPublished(p) /\ IsPending(commitId)
        /\ Committed
        /\ process' = [process EXCEPT ![p].phase = "reloading"]
        /\ UNCHANGED history
     \/ /\ WasPublished(p) /\ ~IsPending(commitId)
        /\ process' = [process EXCEPT ![p] = Closed]
        /\ UNCHANGED <<store, history>>
     \/ /\ ~WasPublished(p)
        /\ Abort(commitId)
        /\ process' = [process EXCEPT ![p].phase = "reloading"]
  /\ UNCHANGED <<ring, published, append, used>>

\* The check of the state against the anchor, with the key the anchor names.
Opens(state, p, key, version) ==
  LET anchor == p.anchor IN
  /\ anchor = AnchorFor(state.events, anchor.activeKeyId, anchor.activeKeyVersion)
  /\ \/ version > anchor.activeKeyVersion
     \/ version = anchor.activeKeyVersion /\ key = anchor.activeKeyId
  /\ Verifies(state.events, ring)

\* The active key is read; without an anchor the empty log publishes its first
\* (in the same step: with another key activated in between, the anchor would
\* name a retired key, as it does when the key is activated right after), and
\* a log with events, or one that lost the race, fails.
Open(p) ==
  LET key == ActiveKeyId(ring)
      version == LatestKeyVersion(ring)
      mine == process[p]
  IN
  /\ mine.phase = "key"
  /\ \/ /\ mine.published = None /\ mine.state.events = <<>>
        /\ Publish(0, AnchorFor(<<>>, key, version))
        /\ \E next \in {[mine EXCEPT !.phase = "open", !.published = published'],
                          Closed} :
             process' = [process EXCEPT ![p] = next]
     \/ /\ mine.published = None /\ (mine.state.events # <<>> \/ published # None)
        /\ process' = [process EXCEPT ![p] = Closed]
        /\ UNCHANGED published
     \/ /\ mine.published # None
        /\ process' = [process EXCEPT
             ![p] = IF Opens(mine.state, mine.published, key, version)
                    THEN [@ EXCEPT !.phase = "open"] ELSE Closed]
        /\ UNCHANGED published
  /\ UNCHANGED <<ring, store, append, history, used>>

-----------------------------------------------------------------------------
(* append *)

\* The predecessor and the sequence number are those of the state in memory
\* now; createMac is awaited with them.
Sign(p, s, id) ==
  LET events == process[p].state.events
      key == ActiveKeyId(ring)
      version == LatestKeyVersion(ring)
  IN
  /\ process[p].phase = "open"
  /\ append[p][s].phase = "idle"
  /\ id \notin used
  /\ events # <<>> =>
       \/ version > Last(events).keyVersion
       \/ version = Last(events).keyVersion /\ key = Last(events).keyId
  /\ used' = used \cup {id}
  /\ append' = [append EXCEPT
       ![p][s] = [Idle EXCEPT
                    !.phase = "signed",
                    !.event = EventAfter(TipId(events), Len(events), id, key, version)]]
  /\ UNCHANGED <<ring, store, published, process, history>>

\* Back from createMac the snapshot and its revision are read from the memory
\* again, and prepared; prepare may refuse or fail.
Candidate(p, s) ==
  LET event == append[p][s].event
      events == Append(process[p].state.events, event)
  IN [commitId |-> event.id, events |-> events,
      anchor |-> AnchorFor(events, event.keyId, event.keyVersion)]

Prepare(p, s) ==
  /\ append[p][s].phase = "signed"
  /\ \/ /\ MayPrepare(process[p].state.revision)
        /\ store' = [store EXCEPT !.pending = Candidate(p, s)]
        /\ append' = [append EXCEPT ![p][s].phase = "prepared",
                                    ![p][s].pending = Candidate(p, s)]
     \/ /\ append' = [append EXCEPT ![p][s] = Idle]
        /\ UNCHANGED store
  /\ UNCHANGED <<ring, published, process, history, used>>

\* publish succeeds, or throws, with its effect or without.
PublishAnchor(p, s) ==
  LET pending == append[p][s].pending IN
  /\ append[p][s].phase = "prepared"
  /\ \/ /\ Publish(process[p].published.revision, pending.anchor)
        /\ anchored' = Append(anchored, pending.commitId)
        /\ append' = [append EXCEPT ![p][s].phase = "published",
                                    ![p][s].published = published']
     \/ /\ Publish(process[p].published.revision, pending.anchor)
        /\ anchored' = Append(anchored, pending.commitId)
        /\ append' = [append EXCEPT ![p][s].phase = "failed"]
     \/ /\ append' = [append EXCEPT ![p][s].phase = "failed"]
        /\ UNCHANGED <<published, anchored>>
  /\ UNCHANGED <<ring, store, process, acked, aborted, used>>

\* The catch clause: the prepared commit is aborted, or the abort throws too.
AbortAppend(p, s) ==
  /\ append[p][s].phase = "failed"
  /\ \/ Abort(append[p][s].event.id)
     \/ UNCHANGED <<store, history>>
  /\ append' = [append EXCEPT ![p][s] = Idle]
  /\ UNCHANGED <<ring, published, process, used>>

\* commit succeeds, or throws, with its effect or without.
CommitAppend(p, s) ==
  LET commitId == append[p][s].event.id IN
  /\ append[p][s].phase = "published"
  /\ \/ /\ IsPending(commitId)
        /\ Committed
        /\ \E next \in {[append[p][s] EXCEPT !.phase = "committed"], Idle} :
             append' = [append EXCEPT ![p][s] = next]
     \/ /\ append' = [append EXCEPT ![p][s] = Idle]
        /\ UNCHANGED store
  /\ UNCHANGED <<ring, published, process, history, used>>

\* The state is loaded again and the event is returned.
Finish(p, s) ==
  /\ append[p][s].phase = "committed"
  /\ process' = [process EXCEPT ![p].state = store,
                                ![p].published = append[p][s].published]
  /\ acked' = acked \cup {append[p][s].event.id}
  /\ append' = [append EXCEPT ![p][s] = Idle]
  /\ UNCHANGED <<ring, store, published, anchored, aborted, used>>

\* The process dies, or gives the log up, at any await.
Crash(p) ==
  /\ process[p].phase # "closed"
  /\ process' = [process EXCEPT ![p] = Closed]
  /\ append' = [append EXCEPT ![p] = AllIdle]
  /\ UNCHANGED <<ring, store, published, history, used>>

Next ==
  \/ \E k \in KeyIds : Activate(k)
  \/ \E p \in Processes :
       \/ Load(p) \/ LoadAnchor(p) \/ Recover(p) \/ Open(p) \/ Crash(p)
       \/ \E s \in Slots :
            \/ \E id \in EventIds : Sign(p, s, id)
            \/ Prepare(p, s) \/ PublishAnchor(p, s) \/ AbortAppend(p, s)
            \/ CommitAppend(p, s) \/ Finish(p, s)

Spec == Init /\ [][Next]_vars

-----------------------------------------------------------------------------
(* Properties *)

\* Every variable has its type.
TypeOK ==
  /\ ring \in [KeyIds -> KeyRecord]
  /\ store \in RemoteAuditState
  /\ published \in PublishedAuditAnchor \cup {None}
  /\ process \in [Processes -> Process]
  /\ append \in [Processes -> [Slots -> Appending]]
  /\ anchored \in Seq(EventIds)
  /\ acked \subseteq EventIds /\ aborted \subseteq EventIds /\ used \subseteq EventIds

Ids(events) == [i \in DOMAIN events |-> events[i].id]

\* The store and the anchor together are an anchored log: one history, however
\* many processes append, crash and recover at once; the store never runs
\* ahead of the anchor, and an append that returned is in both for good.
Log == INSTANCE AnchoredLog
         WITH anchored <- anchored, committed <- Ids(store.events),
              acknowledged <- acked
AppendsToAnchoredLog == Log!Spec

\* open's verification never fails for the log's own doing: what is committed,
\* or may be committed by recovery, is one chain of known keys.
ChainVerifies ==
  /\ Verifies(store.events, ring)
  /\ store.pending # None => Verifies(store.pending.events, ring)

\* REMOTE_AUDIT_KEY_CUSTODY.md, "Crash consistency": crashes and failing store
\* calls alone never leave an anchor that matches neither the committed nor the
\* prepared state; that takes the abort of a commit whose anchor is published,
\* after a lost answer or by a process that opens the log meanwhile.
Attests(events, anchor) ==
  anchor = AnchorFor(events, anchor.activeKeyId, anchor.activeKeyVersion)
StrandedOnlyByAbort ==
  published # None =>
    \/ Attests(store.events, published.anchor)
    \/ store.pending # None /\ Attests(store.pending.events, published.anchor)
    \/ published.anchor.tip \in aborted

\* A log that open would accept is accepted by AuditLog.restore with the same
\* anchor, unless a key was activated after the last append; and the reverse.
RestoreAgrees ==
  published # None /\ published.anchor.activeKeyId = ActiveKeyId(ring) =>
    (Restores(store.events, published.anchor, ring)
       <=> Opens(store, published, ActiveKeyId(ring), LatestKeyVersion(ring)))

\* Types, and the agreement of the two ways to accept a log (open, restore).
AcceptanceAgrees == TypeOK /\ RestoreAgrees

=============================================================================
