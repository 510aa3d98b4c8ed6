------------------------------ MODULE PostgresStore ------------------------------
(***************************************************************************)
(* packages/storage/postgresStore.ts: cap reservations, idempotent         *)
(* operations and outbox leases of one tenant, used by several clients at  *)
(* once.  The database is modelled as it is configured here: READ          *)
(* COMMITTED, so a statement sees what is committed when it runs; a row a  *)
(* transaction wrote or selected FOR UPDATE, and an advisory lock, are its *)
(* own until it ends, and a statement that needs them waits and then       *)
(* evaluates its condition afresh.  An action is one statement, or several *)
(* when the locks held make what comes between invisible; the last one of  *)
(* a transaction is taken together with COMMIT.                            *)
(*                                                                         *)
(* A client may lose its connection at any statement (Fail); whether it    *)
(* hears of its COMMIT makes no difference to the tables, and it may call  *)
(* again with the same ids.  The operation given to runIdempotent reads    *)
(* the aggregate, swaps it and enqueues an event, as the integration test  *)
(* does.  compareAndSwap and enqueue outside of runIdempotent, the same    *)
(* statements in a transaction of their own, are left out.                 *)
(***************************************************************************)
EXTENDS Naturals, FiniteSets, FiniteSetsExt, Sequences

CONSTANTS
  None, Clients, Reservations, Days,
  Amounts,     \* amounts and caps that callers pass
  Keys,        \* idempotency keys; the event of key k has event key k
  Lease,       \* leaseMs
  MaxTime      \* bound: the clock

VARIABLES
  caps,           \* airlock_daily_caps: [Days -> [cap, reserved] or None]
  reservations,   \* airlock_cap_reservations
  state,          \* airlock_tenant_state, one aggregate: its version, and the
                  \* keys of the operations that led to it
  records,        \* airlock_idempotency: the keys with a stored response
  outbox,         \* airlock_outbox: [Keys -> row or None]
  clock,
  client          \* [Clients -> transaction under way]

tables == <<caps, reservations, state, records, outbox>>
vars == <<tables, clock, client>>

CapRow == [cap : Amounts, reserved : Nat]
ReservationRow ==
  [day : Days, amount : Amounts, status : {"active", "released"}]
OutboxRow ==
  [claimedBy : Clients \cup {None}, claimedUntil : Nat, delivered : BOOLEAN]

\* None stands for a row that is not there.
ASSUME PostgresAssumption ==
  /\ Amounts \subseteq Nat \ {0}
  /\ Lease \in Nat \ {0}
  /\ MaxTime \in Nat
  /\ None \notin CapRow \cup ReservationRow \cup OutboxRow

Resources ==
  ({"reservation id", "reservation row"} \X Reservations) \cup ({"cap"} \X Days)
    \cup ({"key", "event"} \X Keys) \cup {<<"state", "aggregate">>}

Call ==
  [id : Reservations, day : Days, amount : Amounts, cap : Amounts]
    \cup [id : Reservations] \cup [key : Keys] \cup [key : Keys, now : Nat]

\* phase: the statement that comes next.
Transaction ==
  [phase : {"idle", "reserve", "admit", "insert", "release", "give back", "mark",
            "lookup", "read", "swap", "record", "claim", "claimed", "acknowledge"},
   call : Call \cup {None},
   seen : Nat,                          \* the version the operation read
   written : CapRow \cup {None},        \* the cap row before COMMIT
   locks : SUBSET Resources]

Idle ==
  [phase |-> "idle", call |-> None, seen |-> 0, written |-> None, locks |-> {}]

Init ==
  /\ caps = [d \in Days |-> None]
  /\ reservations = [r \in Reservations |-> None]
  /\ state = [version |-> 0, history |-> <<>>]
  /\ records = {}
  /\ outbox = [k \in Keys |-> None]
  /\ clock = 0
  /\ client = [c \in Clients |-> Idle]

-----------------------------------------------------------------------------
(* Transactions *)

Free(c, lock) == \A o \in Clients \ {c} : lock \notin client[o].locks

\* The client's transaction goes on at phase with the lock.
Goes(c, phase, lock) ==
  client' = [client EXCEPT ![c].phase = phase, ![c].locks = @ \cup {lock}]

\* COMMIT and ROLLBACK free what the transaction had locked.
EndedFaulty(c) == [Idle EXCEPT !.locks = client[c].locks]
Ended(c) == Idle

Ends(c) == client' = [client EXCEPT ![c] = Ended(c)]

\* The statement throws: nothing the transaction wrote remains.
RolledBackFaulty(c) ==
  LET k == client[c].call.key IN
  IF client[c].phase # "record" THEN UNCHANGED tables
  ELSE /\ state' = [version |-> state.version + 1, history |-> Append(state.history, k)]
       /\ outbox' = [outbox EXCEPT
            ![k] = [claimedBy |-> None, claimedUntil |-> 0, delivered |-> FALSE]]
       /\ UNCHANGED <<caps, reservations, records>>
RolledBack(c) == UNCHANGED tables

Throws(c) == Ends(c) /\ RolledBack(c)

\* A caller begins a call; its arguments are checked before the transaction.
Begin(c, phase, call) ==
  /\ client[c].phase = "idle"
  /\ client' = [client EXCEPT ![c].phase = phase, ![c].call = call]
  /\ UNCHANGED <<tables, clock>>

-----------------------------------------------------------------------------
(* reserveCap *)

\* The id is taken: the call is a replay, or reuses the id, and changes
\* nothing.
TakenFaulty(r) == reservations[r] # None /\ reservations[r].status = "active"
Taken(r) == reservations[r] # None

\* The advisory lock on the id, and the reservation under it.
Reserve(c) ==
  LET r == client[c].call.id IN
  /\ client[c].phase = "reserve"
  /\ Free(c, <<"reservation id", r>>)
  /\ IF Taken(r) THEN Throws(c)
     ELSE Goes(c, "admit", <<"reservation id", r>>) /\ UNCHANGED tables
  /\ UNCHANGED clock

\* INSERT ... ON CONFLICT DO UPDATE ... WHERE: the row is created, or raised if
\* the caller's cap is the row's and the sum stays within it.
CapRowOf(d, cap) == IF caps[d] = None THEN [cap |-> cap, reserved |-> 0] ELSE caps[d]
AdmitsFaulty(row, cap, amount) == row.cap = cap /\ row.reserved <= row.cap
Admits(row, cap, amount) == row.cap = cap /\ row.reserved + amount <= row.cap

Admit(c) ==
  LET call == client[c].call
      row == CapRowOf(call.day, call.cap)
  IN
  /\ client[c].phase = "admit"
  /\ Free(c, <<"cap", call.day>>)
  /\ \/ /\ Admits(row, call.cap, call.amount)
        /\ client' = [client EXCEPT
             ![c] = [client[c] EXCEPT
                       !.phase = "insert",
                       !.written = [row EXCEPT !.reserved = @ + call.amount],
                       !.locks = @ \cup {<<"cap", call.day>>}]]
        /\ UNCHANGED tables
     \/ ~Admits(row, call.cap, call.amount) /\ Throws(c)
  /\ UNCHANGED clock

\* The reservation's row, and COMMIT; the primary key refuses a second row.
Insert(c) ==
  LET call == client[c].call IN
  /\ client[c].phase = "insert"
  /\ IF Taken(call.id) THEN Throws(c)
     ELSE /\ Ends(c)
          /\ caps' = [caps EXCEPT ![call.day] = client[c].written]
          /\ reservations' = [reservations EXCEPT ![call.id] =
               [day |-> call.day, amount |-> call.amount, status |-> "active"]]
          /\ UNCHANGED <<state, records, outbox>>
  /\ UNCHANGED clock

-----------------------------------------------------------------------------
(* releaseCap *)

\* SELECT ... FOR UPDATE: an unknown reservation throws, a released one is a
\* replay.
RowLock(r) == <<"reservation row", r>>

Release(c) ==
  LET r == client[c].call.id IN
  /\ client[c].phase = "release"
  /\ Free(c, RowLock(r))
  /\ \/ /\ reservations[r] # None /\ reservations[r].status = "active"
        /\ Goes(c, "give back", RowLock(r))
        /\ UNCHANGED tables
     \/ /\ reservations[r] # None => reservations[r].status = "released"
        /\ Throws(c)
  /\ UNCHANGED clock

\* UPDATE airlock_daily_caps, with the table's CHECK.
Lowered(row, amount) == [row EXCEPT !.reserved = @ - amount]

GiveBack(c) ==
  LET reservation == reservations[client[c].call.id]
      d == reservation.day
  IN
  /\ client[c].phase = "give back"
  /\ Free(c, <<"cap", d>>)
  /\ IF caps[d].reserved < reservation.amount THEN Throws(c)
     ELSE /\ client' = [client EXCEPT
               ![c] = [client[c] EXCEPT
                         !.phase = "mark",
                         !.written = Lowered(caps[d], reservation.amount),
                         !.locks = @ \cup {<<"cap", d>>}]]
          /\ UNCHANGED tables
  /\ UNCHANGED clock

\* The reservation's row, and COMMIT.
Mark(c) ==
  LET r == client[c].call.id IN
  /\ client[c].phase = "mark"
  /\ Ends(c)
  /\ caps' = [caps EXCEPT ![reservations[r].day] = client[c].written]
  /\ reservations' = [reservations EXCEPT ![r].status = "released"]
  /\ UNCHANGED <<state, records, outbox, clock>>

-----------------------------------------------------------------------------
(* runIdempotent *)

\* The advisory lock on the key, and the record under it: a replay, or a
\* refusal, changes nothing.
LookUp(c) ==
  LET k == client[c].call.key IN
  /\ client[c].phase = "lookup"
  /\ Free(c, <<"key", k>>)
  /\ IF k \in records THEN Throws(c)
     ELSE Goes(c, "read", <<"key", k>>) /\ UNCHANGED tables
  /\ UNCHANGED clock

\* The operation reads the aggregate; nothing is locked by that.
Read(c) ==
  /\ client[c].phase = "read"
  /\ client' = [client EXCEPT ![c].phase = "swap", ![c].seen = state.version]
  /\ UNCHANGED <<tables, clock>>

\* #compareAndSwap
Swaps(c) == client[c].seen = state.version

Swap(c) ==
  /\ client[c].phase = "swap"
  /\ Free(c, <<"state", "aggregate">>)
  /\ IF Swaps(c)
     THEN Goes(c, "record", <<"state", "aggregate">>) /\ UNCHANGED tables
     ELSE Throws(c)
  /\ UNCHANGED clock

\* #enqueue: the event the transaction adds.
Enqueued(k) ==
  [outbox EXCEPT ![k] = [claimedBy |-> None, claimedUntil |-> 0, delivered |-> FALSE]]

\* The event, the response, and COMMIT.
Record(c) ==
  LET k == client[c].call.key IN
  /\ client[c].phase = "record"
  /\ Ends(c)
  /\ state' = [version |-> state.version + 1, history |-> Append(state.history, k)]
  /\ records' = records \cup {k}
  /\ outbox' = Enqueued(k)
  /\ UNCHANGED <<caps, reservations, clock>>

-----------------------------------------------------------------------------
(* claimOutbox and acknowledgeOutbox; now was read when the call began *)

\* FOR UPDATE SKIP LOCKED: a locked event is passed over.  The call claims one
\* event, the one it gets to.
ClaimableFaulty(c, k, now) ==
  /\ outbox[k] # None /\ ~outbox[k].delivered
  /\ outbox[k].claimedUntil <= now
Claimable(c, k, now) ==
  /\ Free(c, <<"event", k>>)
  /\ outbox[k] # None /\ ~outbox[k].delivered
  /\ outbox[k].claimedUntil <= now

Claim(c) ==
  LET call == client[c].call IN
  /\ client[c].phase = "claim"
  /\ IF Claimable(c, call.key, call.now)
     THEN Goes(c, "claimed", <<"event", call.key>>) /\ UNCHANGED tables
     ELSE Throws(c)
  /\ UNCHANGED clock

CommitClaim(c) ==
  LET call == client[c].call IN
  /\ client[c].phase = "claimed"
  /\ Ends(c)
  /\ outbox' = [outbox EXCEPT
       ![call.key] = [@ EXCEPT !.claimedBy = c, !.claimedUntil = call.now + Lease]]
  /\ UNCHANGED <<caps, reservations, state, records, clock>>

Acknowledge(c) ==
  LET k == client[c].call.key
      holds == /\ outbox[k] # None /\ ~outbox[k].delivered
               /\ outbox[k].claimedBy = c
               /\ outbox[k].claimedUntil > client[c].call.now
  IN
  /\ client[c].phase = "acknowledge"
  /\ Free(c, <<"event", k>>)
  /\ Ends(c)
  /\ outbox' = IF holds
               THEN [outbox EXCEPT ![k] = [claimedBy |-> None, claimedUntil |-> 0,
                                           delivered |-> TRUE]]
               ELSE outbox
  /\ UNCHANGED <<caps, reservations, state, records, clock>>

-----------------------------------------------------------------------------

Calls(c) ==
  \/ \E r \in Reservations :
       \/ Begin(c, "release", [id |-> r])
       \/ \E d \in Days, a, cap \in Amounts :
            a <= cap /\ Begin(c, "reserve", [id |-> r, day |-> d, amount |-> a, cap |-> cap])
  \/ \E k \in Keys :
       \/ Begin(c, "lookup", [key |-> k])
       \/ \E phase \in {"claim", "acknowledge"} :
            Begin(c, phase, [key |-> k, now |-> clock])

Step(c) ==
  \/ Reserve(c) \/ Admit(c) \/ Insert(c)
  \/ Release(c) \/ GiveBack(c) \/ Mark(c)
  \/ LookUp(c) \/ Read(c) \/ Swap(c) \/ Record(c)
  \/ Claim(c) \/ CommitClaim(c) \/ Acknowledge(c)

\* The connection is lost, or a statement fails.
Fail(c) ==
  /\ client[c].phase # "idle"
  /\ Throws(c)
  /\ UNCHANGED clock

Tick == clock < MaxTime /\ clock' = clock + 1 /\ UNCHANGED <<tables, client>>

Next == Tick \/ \E c \in Clients : Calls(c) \/ Step(c) \/ Fail(c)

\* Waiting for a lock is a queue: a client that can go on again and again does.
Fairness == \A c \in Clients : SF_vars(Step(c))

Spec == Init /\ [][Next]_vars /\ Fairness

-----------------------------------------------------------------------------
(* Properties *)

\* Every variable has its type.
TypeOK ==
  /\ caps \in [Days -> CapRow \cup {None}]
  /\ reservations \in [Reservations -> ReservationRow \cup {None}]
  /\ state \in [version : Nat, history : Seq(Keys)]
  /\ records \subseteq Keys
  /\ outbox \in [Keys -> OutboxRow \cup {None}]
  /\ clock \in 0 .. MaxTime
  /\ client \in [Clients -> Transaction]

\* The amount in use on a day is that of its active reservations and within
\* the cap, whatever transactions race, fail, or are repeated.
ReservedAddsUp ==
  \A d \in Days :
    LET active == {r \in Reservations : /\ reservations[r] # None
                                        /\ reservations[r].day = d
                                        /\ reservations[r].status = "active"}
        amount(r) == reservations[r].amount
    IN caps[d] # None =>
         /\ caps[d].reserved = MapThenSumSet(amount, active)
         /\ caps[d].reserved <= caps[d].cap

\* POSTGRES_DURABILITY.md, "atomic cap admission under concurrent writers,
\* idempotent reservation replay, and release/retry": the tables move as if
\* reservations and releases came one at a time, each id once.
Ledger == INSTANCE CapLedger WITH ledger <- reservations, inUse <- caps
LedgerIsSerial == Ledger!Spec

\* The operations under one key change the aggregate at most once, and the
\* change and the stored response are committed together.
Effects(k) ==
  Cardinality({i \in DOMAIN state.history : state.history[i] = k})
PerKey == INSTANCE IdempotentEffect
            WITH remembered <- records, effects <- [k \in Keys |-> Effects(k)]
KeyedEffects == PerKey!Spec

\* POSTGRES_DURABILITY.md, "state, idempotent response, and outbox writes
\* committed atomically": the event of a keyed operation is in the outbox
\* exactly if the operation took effect.  (An event of a plain enqueue has no
\* key.)
EventWithEffect == \A k \in Keys : outbox[k] # None <=> Effects(k) > 0

\* Two workers never hold one event: a lease changes hands when it has run out.
LeaseRespected ==
  [][\A k \in Keys :
       (/\ outbox[k] # None /\ outbox[k].claimedBy # None
        /\ outbox'[k].claimedBy \notin {None, outbox[k].claimedBy})
          => outbox[k].claimedUntil <= clock]_vars

\* No transaction waits for ever: the locks are taken in an order without
\* cycles and given back by COMMIT and ROLLBACK.
TransactionsEnd ==
  \A c \in Clients : client[c].phase # "idle" ~> client[c].phase = "idle"

\* Types, and what the committed tables say of each other.
TablesAgree == TypeOK /\ ReservedAddsUp /\ EventWithEffect

=============================================================================
