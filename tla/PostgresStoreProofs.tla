-------------------------- MODULE PostgresStoreProofs --------------------------
(***************************************************************************)
(* For any number of clients, reservations, days, amounts and keys: the    *)
(* tables of the PostgreSQL store agree, its reservations are serial, an   *)
(* operation takes effect once and a lease changes hands when it has run   *)
(* out.  What makes it so is the order in which postgresStore.ts takes its *)
(* locks: each transaction still finds what it read or computed when it    *)
(* commits (Works), because the rows are its own (Exclusive).              *)
(***************************************************************************)
EXTENDS PostgresStore, FiniteSetTheorems, SumFacts, TLAPS

\* The arguments of reserveCap.
ReserveCall == [id : Reservations, day : Days, amount : Amounts, cap : Amounts]

\* What a transaction under way relies on.  The call it serves:
CallFits(t) ==
  /\ t.phase \in {"reserve", "admit", "insert"} => t.call \in ReserveCall
  /\ t.phase \in {"release", "give back", "mark"} => t.call \in [id : Reservations]
  /\ t.phase \in {"lookup", "read", "swap", "record"} => t.call \in [key : Keys]
  /\ t.phase \in {"claim", "claimed", "acknowledge"} =>
       t.call \in [key : Keys, now : Nat] /\ t.call.now <= clock

\* the cap row it has raised and not committed;
RaiseStands(t) ==
  t.phase = "insert" =>
    LET row == CapRowOf(t.call.day, t.call.cap) IN
    /\ <<"cap", t.call.day>> \in t.locks
    /\ Admits(row, t.call.cap, t.call.amount)
    /\ t.written = [row EXCEPT !.reserved = @ + t.call.amount]

\* the reservation it gives back;
ReleaseStands(t) ==
  t.phase \in {"give back", "mark"} =>
    /\ RowLock(t.call.id) \in t.locks
    /\ reservations[t.call.id] # None
    /\ reservations[t.call.id].status = "active"

\* the cap row it has lowered and not committed;
LoweringStands(t) ==
  t.phase = "mark" =>
    LET row == reservations[t.call.id] IN
    /\ <<"cap", row.day>> \in t.locks
    /\ caps[row.day].reserved >= row.amount
    /\ t.written = Lowered(caps[row.day], row.amount)

\* the key that has no response yet;
KeyStands(t) ==
  t.phase \in {"read", "swap", "record"} =>
    <<"key", t.call.key>> \in t.locks /\ t.call.key \notin records

\* the event it found with no lease.
ClaimStands(t) ==
  t.phase = "claimed" =>
    /\ <<"event", t.call.key>> \in t.locks
    /\ outbox[t.call.key] # None
    /\ outbox[t.call.key].claimedUntil <= t.call.now

\* All of it.
Works(t) ==
  /\ CallFits(t) /\ RaiseStands(t) /\ ReleaseStands(t)
  /\ LoweringStands(t) /\ KeyStands(t) /\ ClaimStands(t)

\* A lock has one owner.
Exclusive ==
  \A c, o \in Clients : c # o => client[c].locks \cap client[o].locks = {}

\* What the committed tables say of each other: a reservation is on a day with
\* a cap, an event and an effect are there if and only if the response is.
Linked ==
  /\ \A r \in Reservations :
       reservations[r] # None => caps[reservations[r].day] # None
  /\ \A k \in Keys : outbox[k] # None <=> k \in records

\* The inductive invariant.
Inv ==
  /\ TypeOK
  /\ Exclusive
  /\ \A c \in Clients : Works(client[c])
  /\ Linked

\* A key has one effect if it has a response, and none before.
EffectsCounted ==
  \A k \in Keys : Effects(k) = IF k \in records THEN 1 ELSE 0

-----------------------------------------------------------------------------
(* Transactions *)

\* A transaction that does not move goes on to work if the rows it has locked,
\* and the response its key lock guards, stay as they are.
LEMMA StillWorks ==
  ASSUME NEW o \in Clients, client \in [Clients -> Transaction], Works(client[o]),
         client'[o] = client[o],
         clock \in Nat, clock' \in Nat, clock <= clock',
         \A d \in Days : <<"cap", d>> \in client[o].locks => caps'[d] = caps[d],
         \A r \in Reservations :
           RowLock(r) \in client[o].locks /\ reservations[r] # None
             => reservations'[r] = reservations[r],
         \A r \in Reservations :
           reservations[r] # None => reservations[r].day \in Days,
         \A k \in Keys : <<"key", k>> \in client[o].locks /\ k \in records'
                           => k \in records,
         \A k \in Keys : <<"event", k>> \in client[o].locks /\ outbox[k] # None
                           => outbox'[k] = outbox[k]
  PROVE  Works(client[o])'
<1>1. CallFits(client[o])'
  <2>1. ASSUME client[o].phase \in {"claim", "claimed", "acknowledge"}
        PROVE  client[o].call.now <= clock'
    <3>1. client[o].call.now \in Nat /\ client[o].call.now <= clock
      BY <2>1 DEF Works, CallFits
    <3>2. QED BY <3>1
  <2>2. QED BY <2>1 DEF Works, CallFits
<1>2. RaiseStands(client[o])'
  <2>1. SUFFICES ASSUME client[o].phase = "insert" PROVE RaiseStands(client[o])'
    BY DEF RaiseStands
  <2>2. client[o].call.day \in Days
    BY <2>1 DEF Works, CallFits, ReserveCall
  <2>3. caps'[client[o].call.day] = caps[client[o].call.day]
    BY <2>1, <2>2 DEF Works, RaiseStands
  <2>4. QED BY <2>1, <2>3 DEF Works, RaiseStands, CapRowOf, Admits
<1>3. client[o].phase \in {"give back", "mark"} =>
        /\ client[o].call.id \in Reservations
        /\ reservations'[client[o].call.id] = reservations[client[o].call.id]
        /\ reservations[client[o].call.id].day \in Days
  BY DEF Works, CallFits, ReleaseStands
<1>4. ReleaseStands(client[o])'
  BY <1>3 DEF Works, ReleaseStands, RowLock
<1>5. LoweringStands(client[o])'
  <2>1. SUFFICES ASSUME client[o].phase = "mark" PROVE LoweringStands(client[o])'
    BY DEF LoweringStands
  <2>2. caps'[reservations[client[o].call.id].day]
          = caps[reservations[client[o].call.id].day]
    BY <1>3, <2>1 DEF Works, LoweringStands
  <2>3. QED BY <1>3, <2>1, <2>2 DEF Works, LoweringStands, Lowered
<1>6. KeyStands(client[o])'
  BY DEF Works, CallFits, KeyStands
<1>7. ClaimStands(client[o])'
  <2>1. SUFFICES ASSUME client[o].phase = "claimed" PROVE ClaimStands(client[o])'
    BY DEF ClaimStands
  <2>2. client[o].call.key \in Keys
    BY <2>1 DEF Works, CallFits
  <2>3. outbox'[client[o].call.key] = outbox[client[o].call.key]
    BY <2>1, <2>2 DEF Works, ClaimStands
  <2>4. QED BY <2>1, <2>3 DEF Works, ClaimStands
<1>8. QED BY <1>1, <1>2, <1>4, <1>5, <1>6, <1>7 DEF Works

\* A client takes free locks, or gives locks back, and keeps to what is its own.
LEMMA LocksStayExclusive ==
  ASSUME TypeOK, Exclusive, NEW c \in Clients, NEW t,
         client' = [client EXCEPT ![c] = t],
         \A l \in t.locks : l \in client[c].locks \/ Free(c, l)
  PROVE  Exclusive'
<1>1. ASSUME NEW a \in Clients, NEW b \in Clients, a # b,
             NEW l, l \in client'[a].locks, l \in client'[b].locks
      PROVE  FALSE
  <2>1. CASE a # c /\ b # c
    BY <1>1, <2>1 DEF TypeOK, Exclusive
  <2>2. CASE a = c
    BY <1>1, <2>2 DEF TypeOK, Exclusive, Free
  <2>3. CASE b = c
    BY <1>1, <2>3 DEF TypeOK, Exclusive, Free
  <2>4. QED BY <2>1, <2>2, <2>3
<1>2. QED BY <1>1 DEF Exclusive

\* Rows have a day.
LEMMA RowTypes ==
  ASSUME TypeOK
  PROVE  /\ \A r \in Reservations : reservations[r] # None =>
              /\ reservations[r] \in ReservationRow
              /\ reservations[r].day \in Days
              /\ reservations[r].amount \in Amounts /\ reservations[r].amount \in Nat
         /\ \A d \in Days : caps[d] # None =>
              caps[d] \in CapRow /\ caps[d].reserved \in Nat /\ caps[d].cap \in Nat
         /\ clock \in Nat
<1>1. Amounts \subseteq Nat /\ 0 .. MaxTime \subseteq Nat
  BY PostgresAssumption
<1>2. \A r \in Reservations : reservations[r] # None =>
        reservations[r] \in ReservationRow
  BY DEF TypeOK
<1>3. \A d \in Days : caps[d] # None => caps[d] \in CapRow
  BY DEF TypeOK
<1>4. QED BY <1>1, <1>2, <1>3 DEF TypeOK, ReservationRow, CapRow

\* A statement inside a transaction: only the client's own state moves.
LEMMA Quiet ==
  ASSUME Inv, NEW c \in Clients, NEW t \in Transaction, Works(t),
         client' = [client EXCEPT ![c] = t], UNCHANGED <<tables, clock>>,
         \A l \in t.locks : l \in client[c].locks \/ Free(c, l)
  PROVE  Inv'
<1>1. TypeOK'
  BY DEF Inv, TypeOK, tables
<1>2. Exclusive'
  BY LocksStayExclusive DEF Inv
<1>3. Linked'
  BY DEF Inv, Linked, tables
<1>4. ASSUME NEW o \in Clients PROVE Works(client[o])'
  <2>1. CASE o = c
    <3>1. client'[o] = t
      BY <2>1 DEF Inv, TypeOK
    <3>2. CallFits(client[o])'
      BY <3>1 DEF Works, CallFits
    <3>3. RaiseStands(client[o])'
      BY <3>1 DEF Works, RaiseStands, tables, CapRowOf, Admits
    <3>4. ReleaseStands(client[o])' /\ LoweringStands(client[o])'
      BY <3>1 DEF Works, ReleaseStands, LoweringStands, tables, Lowered, RowLock
    <3>5. KeyStands(client[o])' /\ ClaimStands(client[o])'
      BY <3>1 DEF Works, KeyStands, ClaimStands, tables
    <3>6. QED BY <3>2, <3>3, <3>4, <3>5 DEF Works
  <2>2. CASE o # c
    <3>1. client'[o] = client[o] /\ Works(client[o])
      BY <2>2 DEF Inv, TypeOK
    <3>2. QED BY <3>1, StillWorks, RowTypes DEF Inv, TypeOK, tables
  <2>3. QED BY <2>1, <2>2
<1>5. QED BY <1>1, <1>2, <1>3, <1>4 DEF Inv

\* The next statement, with one more lock.
LEMMA GoesOn ==
  ASSUME Inv, NEW c \in Clients, NEW lock \in Resources, Free(c, lock),
         NEW phase \in {"admit", "give back", "read", "record", "claimed"},
         Goes(c, phase, lock), UNCHANGED <<tables, clock>>,
         ASSUME NEW u, u.phase = phase, u.call = client[c].call,
                u.locks = client[c].locks \cup {lock}
         PROVE  Works(u)
  PROVE  Inv'
<1> DEFINE u == [client[c] EXCEPT !.phase = phase, !.locks = client[c].locks \cup {lock}]
<1>1. client[c] \in Transaction /\ client \in [Clients -> Transaction]
  BY DEF Inv, TypeOK
<1>2. /\ u \in Transaction /\ u.phase = phase /\ u.call = client[c].call
      /\ u.locks = client[c].locks \cup {lock}
  BY <1>1 DEF Transaction
<1>3. client' = [client EXCEPT ![c] = u]
  BY <1>1 DEF Goes
<1> HIDE DEF u
<1>4. Works(u) /\ \A l \in u.locks : l \in client[c].locks \/ Free(c, l)
  BY <1>2
<1>5. QED BY <1>2, <1>3, <1>4, Quiet

\* ROLLBACK.
LEMMA ThrowingKeeps ==
  ASSUME Inv, NEW c \in Clients, Throws(c), UNCHANGED clock
  PROVE  Inv' /\ UNCHANGED <<tables, clock>>
<1>1. Idle \in Transaction /\ Works(Idle) /\ Idle.locks = {}
  BY DEF Idle, Transaction, Works, CallFits, RaiseStands, ReleaseStands,
         LoweringStands, KeyStands, ClaimStands
<1>2. client' = [client EXCEPT ![c] = Idle] /\ UNCHANGED tables
  BY DEF Throws, Ends, Ended, RolledBack
<1>3. QED BY <1>1, <1>2, Quiet

\* BEGIN of a transaction.
LEMMA CallsKeep ==
  ASSUME Inv, NEW c \in Clients, Calls(c)
  PROVE  Inv' /\ UNCHANGED <<tables, clock>>
<1>1. ASSUME NEW phase, NEW call, Begin(c, phase, call),
             \/ phase = "release" /\ call \in [id : Reservations]
             \/ phase = "reserve" /\ call \in ReserveCall
             \/ phase = "lookup" /\ call \in [key : Keys]
             \/ /\ phase \in {"claim", "acknowledge"}
                /\ call \in [key : Keys, now : Nat] /\ call.now = clock
      PROVE  Inv' /\ UNCHANGED <<tables, clock>>
  <2> DEFINE u == [client[c] EXCEPT !.phase = phase, !.call = call]
  <2>1. client[c] \in Transaction /\ client \in [Clients -> Transaction] /\ clock \in Nat
    BY RowTypes DEF Inv, TypeOK
  <2>2. client' = [client EXCEPT ![c] = u] /\ UNCHANGED <<tables, clock>>
    BY <1>1, <2>1 DEF Begin
  <2>3. call \in Call
    BY <1>1 DEF Call, ReserveCall
  <2>4. u \in Transaction /\ u.phase = phase /\ u.call = call /\ u.locks = client[c].locks
    BY <1>1, <2>1, <2>3 DEF Transaction
  <2> HIDE DEF u
  <2>5. CallFits(u)
    <3>1. CASE phase \in {"claim", "acknowledge"}
      <4>1. call \in [key : Keys, now : Nat] /\ call.now <= clock
        BY <1>1, <2>1, <3>1
      <4>2. QED BY <2>4, <3>1, <4>1 DEF CallFits
    <3>2. CASE phase \notin {"claim", "acknowledge"}
      BY <1>1, <2>4, <3>2 DEF CallFits
    <3>3. QED BY <3>1, <3>2
  <2>6. Works(u)
    BY <1>1, <2>4, <2>5 DEF Works, RaiseStands, ReleaseStands, LoweringStands,
                            KeyStands, ClaimStands
  <2>7. QED BY <2>2, <2>4, <2>6, Quiet
<1>2. ASSUME NEW r \in Reservations, Begin(c, "release", [id |-> r])
      PROVE  Inv' /\ UNCHANGED <<tables, clock>>
  BY <1>1, <1>2
<1>3. ASSUME NEW r \in Reservations, NEW d \in Days, NEW a \in Amounts,
             NEW cap \in Amounts,
             Begin(c, "reserve", [id |-> r, day |-> d, amount |-> a, cap |-> cap])
      PROVE  Inv' /\ UNCHANGED <<tables, clock>>
  <2>1. [id |-> r, day |-> d, amount |-> a, cap |-> cap] \in ReserveCall
    BY DEF ReserveCall
  <2>2. QED BY <1>1, <1>3, <2>1
<1>4. ASSUME NEW k \in Keys, Begin(c, "lookup", [key |-> k])
      PROVE  Inv' /\ UNCHANGED <<tables, clock>>
  BY <1>1, <1>4
<1>5. ASSUME NEW k \in Keys, NEW phase \in {"claim", "acknowledge"},
             Begin(c, phase, [key |-> k, now |-> clock])
      PROVE  Inv' /\ UNCHANGED <<tables, clock>>
  <2>1. [key |-> k, now |-> clock] \in [key : Keys, now : Nat]
    BY RowTypes DEF Inv
  <2>2. [key |-> k, now |-> clock].now = clock
    OBVIOUS
  <2>3. QED BY <1>1, <1>5, <2>1, <2>2
<1>6. QED BY <1>2, <1>3, <1>4, <1>5 DEF Calls

\* The advisory locks on a reservation id and on an idempotency key.
LEMMA AdvisoryLocksKeep ==
  ASSUME Inv, NEW c \in Clients, Reserve(c) \/ LookUp(c)
  PROVE  Inv' /\ UNCHANGED <<tables, clock>>
<1> DEFINE call == client[c].call
<1>0. Works(client[c])
  BY DEF Inv
<1>1. CASE Reserve(c)
  <2>1. call \in ReserveCall /\ call.id \in Reservations
    BY <1>0, <1>1 DEF Reserve, Works, CallFits, ReserveCall
  <2>2. CASE Taken(call.id)
    BY <1>1, <2>2, ThrowingKeeps DEF Reserve
  <2>3. CASE ~Taken(call.id)
    <3> DEFINE lock == <<"reservation id", call.id>>
    <3>1. Goes(c, "admit", lock) /\ Free(c, lock) /\ UNCHANGED <<tables, clock>>
      BY <1>1, <2>3 DEF Reserve
    <3>2. lock \in Resources
      BY <2>1 DEF Resources
    <3>3. ASSUME NEW u, u.phase = "admit", u.call = call PROVE Works(u)
      BY <2>1, <3>3 DEF Works, CallFits, RaiseStands, ReleaseStands, LoweringStands,
                        KeyStands, ClaimStands
    <3> HIDE DEF lock
    <3>4. QED BY <3>1, <3>2, <3>3, GoesOn
  <2>4. QED BY <2>2, <2>3
<1>2. CASE LookUp(c)
  <2>1. call \in [key : Keys] /\ call.key \in Keys
    BY <1>0, <1>2 DEF LookUp, Works, CallFits
  <2>2. CASE call.key \in records
    BY <1>2, <2>2, ThrowingKeeps DEF LookUp
  <2>3. CASE call.key \notin records
    <3> DEFINE lock == <<"key", call.key>>
    <3>1. Goes(c, "read", lock) /\ Free(c, lock) /\ UNCHANGED <<tables, clock>>
      BY <1>2, <2>3 DEF LookUp
    <3>2. lock \in Resources
      BY <2>1 DEF Resources
    <3>3. ASSUME NEW u, u.phase = "read", u.call = call,
                 u.locks = client[c].locks \cup {lock}
          PROVE Works(u)
      BY <2>1, <2>3, <3>3 DEF Works, CallFits, RaiseStands, ReleaseStands,
                              LoweringStands, KeyStands, ClaimStands
    <3> HIDE DEF lock
    <3>4. QED BY <3>1, <3>2, <3>3, GoesOn
  <2>4. QED BY <2>2, <2>3
<1>3. QED BY <1>1, <1>2

\* The operation of runIdempotent: its read, and the swap that locks the state.
LEMMA OperationKeeps ==
  ASSUME Inv, NEW c \in Clients, Read(c) \/ Swap(c)
  PROVE  Inv' /\ UNCHANGED <<tables, clock>>
<1>0. Works(client[c]) /\ client[c] \in Transaction /\ client \in [Clients -> Transaction]
  BY DEF Inv, TypeOK
<1>1. CASE Read(c)
  <2> DEFINE u == [client[c] EXCEPT !.phase = "swap", !.seen = state.version]
  <2>1. /\ client' = [client EXCEPT ![c] = u] /\ UNCHANGED <<tables, clock>>
        /\ client[c].phase = "read"
    BY <1>0, <1>1 DEF Read
  <2>2. state.version \in Nat
    BY DEF Inv, TypeOK
  <2>3. /\ u \in Transaction /\ u.phase = "swap" /\ u.call = client[c].call
        /\ u.locks = client[c].locks
    BY <1>0, <2>2 DEF Transaction
  <2> HIDE DEF u
  <2>4. CallFits(u) /\ KeyStands(u)
    BY <1>0, <2>1, <2>3 DEF Works, CallFits, KeyStands
  <2>5. Works(u)
    BY <2>3, <2>4 DEF Works, RaiseStands, ReleaseStands, LoweringStands, ClaimStands
  <2>6. QED BY <2>1, <2>3, <2>5, Quiet
<1>2. CASE Swap(c)
  <2> DEFINE lock == <<"state", "aggregate">>
  <2>1. CASE ~Swaps(c)
    BY <1>2, <2>1, ThrowingKeeps DEF Swap
  <2>2. CASE Swaps(c)
    <3>1. /\ Goes(c, "record", lock) /\ Free(c, lock) /\ UNCHANGED <<tables, clock>>
          /\ client[c].phase = "swap"
      BY <1>2, <2>2 DEF Swap
    <3>2. lock \in Resources
      BY DEF Resources
    <3>3. ASSUME NEW u, u.phase = "record", u.call = client[c].call,
                 u.locks = client[c].locks \cup {lock}
          PROVE  Works(u)
      <4>1. CallFits(u) /\ KeyStands(u)
        BY <1>0, <3>1, <3>3 DEF Works, CallFits, KeyStands
      <4>2. QED BY <3>3, <4>1 DEF Works, RaiseStands, ReleaseStands, LoweringStands,
                                  ClaimStands
    <3> HIDE DEF lock
    <3>4. QED BY <3>1, <3>2, <3>3, GoesOn
  <2>3. QED BY <2>1, <2>2
<1>3. QED BY <1>1, <1>2

\* The upsert of the cap row: what is written is the committed row and the
\* amount, and nobody else can write the row before COMMIT.
LEMMA AdmitKeeps ==
  ASSUME Inv, NEW c \in Clients, Admit(c)
  PROVE  Inv' /\ UNCHANGED <<tables, clock>>
<1> DEFINE call == client[c].call
           row == CapRowOf(call.day, call.cap)
           lock == <<"cap", call.day>>
           written == [row EXCEPT !.reserved = @ + call.amount]
<1>0. Works(client[c]) /\ client[c] \in Transaction /\ client \in [Clients -> Transaction]
  BY DEF Inv, TypeOK
<1>1. /\ call \in ReserveCall /\ call.day \in Days
      /\ call.amount \in Amounts /\ call.cap \in Amounts
  BY <1>0 DEF Admit, Works, CallFits, ReserveCall
<1>2. call.amount \in Nat
  BY <1>1, PostgresAssumption
<1>3. CASE ~Admits(row, call.cap, call.amount)
  BY <1>3, ThrowingKeeps DEF Admit
<1>4. CASE Admits(row, call.cap, call.amount)
  <2> DEFINE u == [client[c] EXCEPT !.phase = "insert", !.written = written,
                                    !.locks = @ \cup {lock}]
  <2>1. Free(c, lock) /\ UNCHANGED <<tables, clock>>
    BY <1>4 DEF Admit
  <2>2. client' = [client EXCEPT ![c] = u]
    BY <1>4 DEF Admit
  <2>3. lock \in Resources
    BY <1>1 DEF Resources
  <2>4. row \in CapRow
    BY <1>1, RowTypes DEF CapRowOf, CapRow, Inv
  <2>5. written \in CapRow
    BY <1>2, <2>4 DEF CapRow
  <2>6. /\ u \in Transaction /\ u.phase = "insert" /\ u.call = call
        /\ u.written = written /\ u.locks = client[c].locks \cup {lock}
    BY <1>0, <2>3, <2>5 DEF Transaction
  <2> HIDE DEF u
  <2>7. CallFits(u)
    BY <1>1, <2>6 DEF CallFits
  <2>8. RaiseStands(u)
    BY <1>4, <2>6 DEF RaiseStands
  <2>9. Works(u)
    BY <2>6, <2>7, <2>8 DEF Works, ReleaseStands, LoweringStands, KeyStands, ClaimStands
  <2> HIDE DEF lock
  <2>10. QED BY <2>1, <2>2, <2>6, <2>9, Quiet
<1>5. QED BY <1>3, <1>4

\* releaseCap: the lock on the reservation's row.
LEMMA ReleaseKeeps ==
  ASSUME Inv, NEW c \in Clients, Release(c)
  PROVE  Inv' /\ UNCHANGED <<tables, clock>>
<1> DEFINE r == client[c].call.id
<1>1. client[c].call \in [id : Reservations] /\ r \in Reservations
  BY DEF Inv, Release, Works, CallFits
<1>2. CASE /\ reservations[r] # None /\ reservations[r].status = "active"
           /\ Goes(c, "give back", RowLock(r)) /\ UNCHANGED tables
  <2>1. Free(c, RowLock(r)) /\ UNCHANGED clock
    BY DEF Release
  <2>2. RowLock(r) \in Resources
    BY <1>1 DEF Resources, RowLock
  <2>3. ASSUME NEW u, u.phase = "give back", u.call = client[c].call,
               u.locks = client[c].locks \cup {RowLock(r)}
        PROVE  Works(u)
    BY <1>1, <1>2, <2>3 DEF Works, CallFits, RaiseStands, ReleaseStands,
                            LoweringStands, KeyStands, ClaimStands
  <2>4. QED BY <1>2, <2>1, <2>2, <2>3, GoesOn
<1>3. CASE Throws(c)
  BY <1>3, ThrowingKeeps DEF Release
<1>4. QED BY <1>2, <1>3 DEF Release

\* releaseCap: the cap row is there, and what is written is that row without the
\* amount.
LEMMA GiveBackKeeps ==
  ASSUME Inv, NEW c \in Clients, GiveBack(c)
  PROVE  Inv' /\ UNCHANGED <<tables, clock>>
<1> DEFINE r == client[c].call.id
           row == reservations[r]
           lock == <<"cap", row.day>>
           written == Lowered(caps[row.day], row.amount)
           u == [client[c] EXCEPT !.phase = "mark", !.written = written,
                                  !.locks = @ \cup {lock}]
<1>0. Works(client[c]) /\ client[c] \in Transaction /\ client \in [Clients -> Transaction]
  BY DEF Inv, TypeOK
<1>1. /\ client[c].phase = "give back" /\ client[c].call \in [id : Reservations]
      /\ r \in Reservations /\ RowLock(r) \in client[c].locks
      /\ row # None /\ row.status = "active"
  BY <1>0 DEF GiveBack, Works, CallFits, ReleaseStands
<1>2. /\ row.day \in Days /\ row.amount \in Nat
      /\ caps[row.day] \in CapRow /\ caps[row.day].reserved \in Nat
  BY <1>1, RowTypes DEF Inv, Linked
<1>3. CASE caps[row.day].reserved < row.amount
  BY <1>3, ThrowingKeeps DEF GiveBack
<1>4. CASE ~(caps[row.day].reserved < row.amount)
  <2>1. Free(c, lock) /\ UNCHANGED <<tables, clock>>
    BY <1>4 DEF GiveBack
  <2>2. client' = [client EXCEPT ![c] = u]
    BY <1>4 DEF GiveBack
  <2>3. lock \in Resources
    BY <1>2 DEF Resources
  <2>4. written \in CapRow
    <3>1. caps[row.day].reserved - row.amount \in Nat
      BY <1>2, <1>4
    <3>2. QED BY <1>2, <3>1 DEF CapRow, Lowered
  <2>5. /\ u \in Transaction /\ u.phase = "mark" /\ u.call = client[c].call
        /\ u.written = written /\ u.locks = client[c].locks \cup {lock}
    BY <1>0, <2>3, <2>4 DEF Transaction
  <2>6. caps[row.day].reserved >= row.amount
    BY <1>2, <1>4
  <2> HIDE DEF u, written, lock
  <2>7. CallFits(u) /\ ReleaseStands(u)
    BY <1>1, <2>5 DEF CallFits, ReleaseStands
  <2>8. LoweringStands(u)
    BY <2>5, <2>6 DEF LoweringStands, lock, written
  <2>9. Works(u)
    BY <2>5, <2>7, <2>8 DEF Works, RaiseStands, KeyStands, ClaimStands
  <2>10. QED BY <2>1, <2>2, <2>5, <2>9, Quiet
<1>5. QED BY <1>3, <1>4

\* SKIP LOCKED: the event a worker gets to.
LEMMA ClaimKeeps ==
  ASSUME Inv, NEW c \in Clients, Claim(c)
  PROVE  Inv' /\ UNCHANGED <<tables, clock>>
<1> DEFINE call == client[c].call
           lock == <<"event", call.key>>
<1>1. call \in [key : Keys, now : Nat] /\ call.key \in Keys /\ call.now <= clock
  BY DEF Inv, Claim, Works, CallFits
<1>2. CASE ~Claimable(c, call.key, call.now)
  BY <1>2, ThrowingKeeps DEF Claim
<1>3. CASE Claimable(c, call.key, call.now)
  <2>1. Goes(c, "claimed", lock) /\ Free(c, lock) /\ UNCHANGED <<tables, clock>>
    BY <1>3 DEF Claim, Claimable
  <2>2. outbox[call.key] # None /\ outbox[call.key].claimedUntil <= call.now
    BY <1>3 DEF Claimable
  <2>3. lock \in Resources
    BY <1>1 DEF Resources
  <2>4. ASSUME NEW u, u.phase = "claimed", u.call = call,
               u.locks = client[c].locks \cup {lock}
        PROVE  Works(u)
    BY <1>1, <2>2, <2>4 DEF Works, CallFits, RaiseStands, ReleaseStands,
                            LoweringStands, KeyStands, ClaimStands
  <2> HIDE DEF lock
  <2>5. QED BY <2>1, <2>3, <2>4, GoesOn
<1>4. QED BY <1>2, <1>3

-----------------------------------------------------------------------------
(* COMMIT *)

\* COMMIT by c, when nobody else has a lock on what it writes.
LEMMA CommitKeeps ==
  ASSUME Inv, NEW c \in Clients, Ends(c), UNCHANGED clock,
         caps' \in [Days -> CapRow \cup {None}],
         reservations' \in [Reservations -> ReservationRow \cup {None}],
         state' \in [version : Nat, history : Seq(Keys)],
         records' \subseteq Keys,
         outbox' \in [Keys -> OutboxRow \cup {None}],
         Linked',
         \A d \in Days : caps'[d] # caps[d] => Free(c, <<"cap", d>>),
         \A r \in Reservations :
           reservations[r] # None /\ reservations'[r] # reservations[r]
             => Free(c, RowLock(r)),
         \A k \in Keys : k \in records' /\ k \notin records => Free(c, <<"key", k>>),
         \A k \in Keys : outbox[k] # None /\ outbox'[k] # outbox[k]
                           => Free(c, <<"event", k>>)
  PROVE  Inv'
<1>1. client' = [client EXCEPT ![c] = Idle]
  BY DEF Ends, Ended
<1>2. Idle \in Transaction /\ Idle.locks = {} /\ Idle.phase = "idle"
  BY DEF Idle, Transaction
<1>3. TypeOK'
  BY <1>1, <1>2 DEF Inv, TypeOK
<1>4. Exclusive'
  BY <1>1, <1>2, LocksStayExclusive DEF Inv
<1>5. ASSUME NEW o \in Clients PROVE Works(client[o])'
  <2>1. CASE o = c
    <3>1. client'[o] = Idle
      BY <1>1, <2>1 DEF Inv, TypeOK
    <3>2. QED BY <1>2, <3>1 DEF Works, CallFits, RaiseStands, ReleaseStands,
                                LoweringStands, KeyStands, ClaimStands
  <2>2. CASE o # c
    <3>1. client'[o] = client[o] /\ Works(client[o])
      BY <1>1, <2>2 DEF Inv, TypeOK
    <3>2. clock \in Nat /\ clock' \in Nat /\ clock <= clock'
          /\ client \in [Clients -> Transaction]
      BY RowTypes DEF Inv, TypeOK
    <3>3. \A l : Free(c, l) => l \notin client[o].locks
      BY <2>2 DEF Free
    <3>4. /\ \A d \in Days : <<"cap", d>> \in client[o].locks => caps'[d] = caps[d]
          /\ \A r \in Reservations :
               RowLock(r) \in client[o].locks /\ reservations[r] # None
                 => reservations'[r] = reservations[r]
          /\ \A k \in Keys : <<"key", k>> \in client[o].locks /\ k \in records'
                               => k \in records
          /\ \A k \in Keys : <<"event", k>> \in client[o].locks /\ outbox[k] # None
                               => outbox'[k] = outbox[k]
      BY <3>3
    <3>5. \A r \in Reservations :
            reservations[r] # None => reservations[r].day \in Days
      BY RowTypes DEF Inv
    <3>6. QED BY <3>1, <3>2, <3>4, <3>5, StillWorks
  <2>3. QED BY <2>1, <2>2
<1>6. QED BY <1>3, <1>4, <1>5 DEF Inv

\* What a client has locked is free of the others.
LEMMA OwnLocks ==
  ASSUME Inv, NEW c \in Clients, NEW l \in client[c].locks
  PROVE  Free(c, l)
  BY DEF Inv, Exclusive, Free

\* COMMIT of a reservation: the ledger takes one Reserve step.
LEMMA InsertKeeps ==
  ASSUME Inv, NEW c \in Clients, Insert(c), ~Taken(client[c].call.id)
  PROVE  /\ Inv'
         /\ LET call == client[c].call IN
            /\ call \in ReserveCall
            /\ Ledger!Reserve(call.id, call.day, call.amount, call.cap)
<1> DEFINE call == client[c].call
           before == CapRowOf(call.day, call.cap)
           after == [before EXCEPT !.reserved = @ + call.amount]
           fresh == [day |-> call.day, amount |-> call.amount, status |-> "active"]
<1>1. /\ Ends(c) /\ UNCHANGED <<state, records, outbox, clock>>
      /\ caps' = [caps EXCEPT ![call.day] = client[c].written]
      /\ reservations' = [reservations EXCEPT ![call.id] = fresh]
      /\ client[c].phase = "insert" /\ reservations[call.id] = None
  BY DEF Insert, Taken
<1>2. Works(client[c])
  BY DEF Inv
<1>3. /\ call \in ReserveCall /\ call.id \in Reservations /\ call.day \in Days
      /\ call.amount \in Amounts /\ call.cap \in Amounts
  BY <1>1, <1>2 DEF Works, CallFits, ReserveCall
<1>4. /\ <<"cap", call.day>> \in client[c].locks
      /\ Admits(before, call.cap, call.amount)
      /\ client[c].written = after
  BY <1>1, <1>2 DEF Works, RaiseStands
<1>5. before \in CapRow
  BY <1>3, RowTypes DEF CapRowOf, CapRow, Inv
<1>6. after \in CapRow
  <2>1. before.reserved \in Nat /\ call.amount \in Nat
    <3> HIDE DEF before, call
    <3>1. QED BY <1>3, <1>5, PostgresAssumption DEF CapRow
  <2>2. before.reserved + call.amount \in Nat
    BY <2>1
  <2>3. QED BY <1>5, <2>2 DEF CapRow
<1>7. fresh \in ReservationRow /\ fresh.day = call.day
  BY <1>3 DEF ReservationRow
<1>8. Ledger!Reserve(call.id, call.day, call.amount, call.cap)
  BY <1>1, <1>4 DEF Ledger!Reserve, CapRowOf, Admits
<1> HIDE DEF after, before, fresh
<1>9. caps' \in [Days -> CapRow \cup {None}]
  BY <1>1, <1>4, <1>6 DEF Inv, TypeOK
<1>10. reservations' \in [Reservations -> ReservationRow \cup {None}]
  BY <1>1, <1>7 DEF Inv, TypeOK
<1>11. /\ \A d \in Days : d # call.day => caps'[d] = caps[d]
       /\ caps'[call.day] = after
       /\ \A r \in Reservations : r # call.id => reservations'[r] = reservations[r]
       /\ reservations'[call.id] = fresh
  BY <1>1, <1>3, <1>4 DEF Inv, TypeOK
<1>12. after # None
  BY <1>6, PostgresAssumption
<1>13. Linked'
  <2>1. ASSUME NEW r \in Reservations, reservations'[r] # None
        PROVE  caps'[reservations'[r].day] # None
    <3>1. CASE r = call.id
      BY <1>7, <1>11, <1>12, <3>1
    <3>2. CASE r # call.id
      <4>1. reservations'[r] = reservations[r] /\ reservations[r].day \in Days
        BY <1>11, <2>1, <3>2, RowTypes DEF Inv
      <4>2. caps[reservations[r].day] # None
        BY <2>1, <4>1 DEF Inv, Linked
      <4>3. QED BY <1>11, <1>12, <4>1, <4>2
    <3>3. QED BY <3>1, <3>2
  <2>2. QED BY <1>1, <2>1 DEF Inv, Linked
<1>14. Free(c, <<"cap", call.day>>)
  BY <1>4, OwnLocks
<1>15. /\ \A d \in Days : caps'[d] # caps[d] => Free(c, <<"cap", d>>)
       /\ \A r \in Reservations :
            ~(reservations[r] # None /\ reservations'[r] # reservations[r])
  BY <1>1, <1>11, <1>14
<1>16. Inv'
  BY <1>1, <1>9, <1>10, <1>13, <1>15, CommitKeeps DEF Inv, TypeOK
<1>17. QED BY <1>3, <1>8, <1>16

\* COMMIT of a release: the ledger takes one Release step.
LEMMA MarkKeeps ==
  ASSUME Inv, NEW c \in Clients, Mark(c)
  PROVE  /\ Inv'
         /\ client[c].call.id \in Reservations
         /\ Ledger!Release(client[c].call.id)
         /\ UNCHANGED <<state, records, outbox>>
<1> DEFINE r == client[c].call.id
           row == reservations[r]
           after == Lowered(caps[row.day], row.amount)
<1>1. /\ Ends(c) /\ UNCHANGED <<state, records, outbox, clock>>
      /\ caps' = [caps EXCEPT ![row.day] = client[c].written]
      /\ reservations' = [reservations EXCEPT ![r].status = "released"]
      /\ client[c].phase = "mark"
  BY DEF Mark
<1>2. Works(client[c])
  BY DEF Inv
<1>3. /\ r \in Reservations /\ RowLock(r) \in client[c].locks
      /\ row # None /\ row.status = "active"
  BY <1>1, <1>2 DEF Works, CallFits, ReleaseStands
<1>4. /\ <<"cap", row.day>> \in client[c].locks
      /\ caps[row.day].reserved >= row.amount
      /\ client[c].written = after
  BY <1>1, <1>2 DEF Works, LoweringStands
<1>5. /\ row \in ReservationRow /\ row.day \in Days /\ row.amount \in Nat
      /\ caps[row.day] \in CapRow /\ caps[row.day].reserved \in Nat
  BY <1>3, RowTypes DEF Inv, Linked
<1>6. after \in CapRow
  <2>1. caps[row.day].reserved - row.amount \in Nat
    BY <1>4, <1>5
  <2>2. QED BY <1>5, <2>1 DEF CapRow, Lowered
<1>7. Ledger!Release(r)
  BY <1>1, <1>3, <1>4 DEF Ledger!Release, Lowered
<1>8. [row EXCEPT !.status = "released"] \in ReservationRow
      /\ [row EXCEPT !.status = "released"].day = row.day
  BY <1>5 DEF ReservationRow
<1>9. /\ \A d \in Days : d # row.day => caps'[d] = caps[d]
      /\ caps'[row.day] = after
      /\ \A q \in Reservations : q # r => reservations'[q] = reservations[q]
      /\ reservations'[r] = [row EXCEPT !.status = "released"]
  BY <1>1, <1>3, <1>4, <1>5 DEF Inv, TypeOK
<1> HIDE DEF after
<1>10. caps' \in [Days -> CapRow \cup {None}]
  BY <1>1, <1>4, <1>6 DEF Inv, TypeOK
<1>11. reservations' \in [Reservations -> ReservationRow \cup {None}]
  BY <1>1, <1>3, <1>8 DEF Inv, TypeOK
<1>12. after # None
  BY <1>6, PostgresAssumption
<1>13. Linked'
  <2>1. ASSUME NEW q \in Reservations, reservations'[q] # None
        PROVE  caps'[reservations'[q].day] # None
    <3>1. CASE q = r
      BY <1>8, <1>9, <1>12, <3>1
    <3>2. CASE q # r
      <4>1. reservations'[q] = reservations[q] /\ reservations[q].day \in Days
        BY <1>9, <2>1, <3>2, RowTypes DEF Inv
      <4>2. caps[reservations[q].day] # None
        BY <2>1, <4>1 DEF Inv, Linked
      <4>3. QED BY <1>9, <1>12, <4>1, <4>2
    <3>3. QED BY <3>1, <3>2
  <2>2. QED BY <1>1, <2>1 DEF Inv, Linked
<1>14. Free(c, <<"cap", row.day>>) /\ Free(c, RowLock(r))
  BY <1>3, <1>4, OwnLocks
<1>15. /\ \A d \in Days : caps'[d] # caps[d] => Free(c, <<"cap", d>>)
       /\ \A q \in Reservations : reservations'[q] # reservations[q] => Free(c, RowLock(q))
  BY <1>9, <1>14
<1>16. Inv'
  BY <1>1, <1>10, <1>11, <1>13, <1>15, CommitKeeps DEF Inv, TypeOK
<1>17. QED BY <1>1, <1>3, <1>7, <1>16

\* The rows that #enqueue and acknowledgeOutbox write.
LEMMA OutboxRows ==
  ASSUME NEW done \in BOOLEAN,
         NEW row, row = [claimedBy |-> None, claimedUntil |-> 0, delivered |-> done]
  PROVE  row \in OutboxRow /\ row # None /\ row.claimedBy = None
<1>1. row \in OutboxRow /\ row.claimedBy = None
  BY DEF OutboxRow
<1>2. QED BY <1>1, PostgresAssumption

\* COMMIT of an operation: its key was without a response, and its event is new.
LEMMA RecordKeeps ==
  ASSUME Inv, NEW c \in Clients, Record(c)
  PROVE  /\ Inv'
         /\ LET k == client[c].call.key IN
            /\ k \in Keys /\ k \notin records /\ outbox[k] = None
            /\ records' = records \cup {k}
            /\ state'.history = Append(state.history, k)
            /\ outbox' = Enqueued(k)
         /\ UNCHANGED <<caps, reservations>>
<1> DEFINE k == client[c].call.key
           event == [claimedBy |-> None, claimedUntil |-> 0, delivered |-> FALSE]
<1>1. /\ Ends(c) /\ UNCHANGED <<caps, reservations, clock>>
      /\ state' = [version |-> state.version + 1, history |-> Append(state.history, k)]
      /\ records' = records \cup {k}
      /\ outbox' = [outbox EXCEPT ![k] = event] /\ outbox' = Enqueued(k)
      /\ client[c].phase = "record"
  BY DEF Record, Enqueued
<1>2. Works(client[c])
  BY DEF Inv
<1>3. k \in Keys /\ k \notin records /\ <<"key", k>> \in client[c].locks
  BY <1>1, <1>2 DEF Works, CallFits, KeyStands
<1>4. outbox[k] = None
  BY <1>3 DEF Inv, Linked
<1>5. event \in OutboxRow /\ event # None
  BY OutboxRows
<1>6. state' \in [version : Nat, history : Seq(Keys)]
  <2>1. state.version + 1 \in Nat /\ Append(state.history, k) \in Seq(Keys)
    BY <1>3 DEF Inv, TypeOK
  <2>2. QED BY <1>1, <2>1
<1> HIDE DEF event
<1>7. outbox' \in [Keys -> OutboxRow \cup {None}] /\ records' \subseteq Keys
  BY <1>1, <1>3, <1>5 DEF Inv, TypeOK
<1>8. /\ \A j \in Keys : j # k => outbox'[j] = outbox[j]
      /\ outbox'[k] = event
  BY <1>1, <1>3 DEF Inv, TypeOK
<1>9. Linked'
  BY <1>1, <1>5, <1>8 DEF Inv, Linked
<1>10. Free(c, <<"key", k>>)
  BY <1>3, OwnLocks
<1>11. /\ \A j \in Keys : j \in records' /\ j \notin records => Free(c, <<"key", j>>)
       /\ \A j \in Keys : ~(outbox[j] # None /\ outbox'[j] # outbox[j])
  BY <1>1, <1>4, <1>8, <1>10
<1>12. Inv'
  BY <1>1, <1>6, <1>7, <1>9, <1>11, CommitKeeps DEF Inv, TypeOK
<1>13. QED BY <1>1, <1>3, <1>4, <1>12

\* COMMIT of a claim: the event had no lease when the call began.
LEMMA CommitClaimKeeps ==
  ASSUME Inv, NEW c \in Clients, CommitClaim(c)
  PROVE  /\ Inv'
         /\ LET k == client[c].call.key IN
            /\ k \in Keys /\ outbox[k] # None /\ outbox[k].claimedUntil <= clock
            /\ \A j \in Keys : j # k => outbox'[j] = outbox[j]
         /\ UNCHANGED <<caps, reservations, state, records>>
<1> DEFINE call == client[c].call
           k == call.key
           row == [outbox[k] EXCEPT !.claimedBy = c, !.claimedUntil = call.now + Lease]
<1>1. /\ Ends(c) /\ UNCHANGED <<caps, reservations, state, records, clock>>
      /\ outbox' = [outbox EXCEPT ![k] = row]
      /\ client[c].phase = "claimed"
  BY DEF CommitClaim
<1>2. Works(client[c])
  BY DEF Inv
<1>3. k \in Keys /\ call.now \in Nat /\ call.now <= clock
  BY <1>1, <1>2 DEF Works, CallFits
<1>4. /\ <<"event", k>> \in client[c].locks /\ outbox[k] # None
      /\ outbox[k].claimedUntil <= call.now
  BY <1>1, <1>2 DEF Works, ClaimStands
<1>5. outbox[k] \in OutboxRow
  BY <1>3, <1>4 DEF Inv, TypeOK
<1>6. row \in OutboxRow
  <2>1. call.now + Lease \in Nat
    BY <1>3, PostgresAssumption
  <2>2. QED BY <1>5, <2>1 DEF OutboxRow
<1>7. row # None
  BY <1>6, PostgresAssumption
<1>8. outbox[k].claimedUntil <= clock
  <2>1. outbox[k].claimedUntil \in Nat /\ clock \in Nat
    BY <1>5, RowTypes DEF OutboxRow, Inv
  <2>2. QED BY <1>3, <1>4, <2>1
<1> HIDE DEF row
<1>9. /\ \A j \in Keys : j # k => outbox'[j] = outbox[j]
      /\ outbox'[k] = row
      /\ outbox' \in [Keys -> OutboxRow \cup {None}]
  BY <1>1, <1>3, <1>6 DEF Inv, TypeOK
<1>10. Linked'
  BY <1>1, <1>4, <1>7, <1>9 DEF Inv, Linked
<1>11. Free(c, <<"event", k>>)
  BY <1>4, OwnLocks
<1>12. \A j \in Keys : outbox'[j] # outbox[j] => Free(c, <<"event", j>>)
  BY <1>9, <1>11
<1>13. Inv'
  BY <1>1, <1>9, <1>10, <1>12, CommitKeeps DEF Inv, TypeOK
<1>14. QED BY <1>1, <1>3, <1>4, <1>8, <1>9, <1>13

\* An acknowledgement ends a lease and takes none.
LEMMA AcknowledgeKeeps ==
  ASSUME Inv, NEW c \in Clients, Acknowledge(c)
  PROVE  /\ Inv'
         /\ \A k \in Keys : outbox'[k] = outbox[k] \/ outbox'[k].claimedBy = None
         /\ UNCHANGED <<caps, reservations, state, records>>
<1> DEFINE k == client[c].call.key
           row == [claimedBy |-> None, claimedUntil |-> 0, delivered |-> TRUE]
<1>1. /\ Ends(c) /\ UNCHANGED <<caps, reservations, state, records, clock>>
      /\ Free(c, <<"event", k>>)
      /\ \/ outbox' = outbox
         \/ outbox[k] # None /\ outbox' = [outbox EXCEPT ![k] = row]
      /\ client[c].phase = "acknowledge"
  BY DEF Acknowledge
<1>2. k \in Keys
  BY <1>1 DEF Inv, Works, CallFits
<1>3. row \in OutboxRow /\ row # None /\ row.claimedBy = None
  BY OutboxRows
<1> HIDE DEF row
<1>4. /\ \A j \in Keys : j # k => outbox'[j] = outbox[j]
      /\ outbox'[k] = outbox[k] \/ (outbox[k] # None /\ outbox'[k] = row)
      /\ outbox' \in [Keys -> OutboxRow \cup {None}]
  BY <1>1, <1>2, <1>3 DEF Inv, TypeOK
<1>5. Linked'
  BY <1>1, <1>3, <1>4 DEF Inv, Linked
<1>6. \A j \in Keys : outbox'[j] # outbox[j] => Free(c, <<"event", j>>)
  BY <1>1, <1>4
<1>7. Inv'
  BY <1>1, <1>4, <1>5, <1>6, CommitKeeps DEF Inv, TypeOK
<1>8. QED BY <1>1, <1>3, <1>4, <1>7

\* Time passes.
LEMMA TickKeeps ==
  ASSUME Inv, Tick
  PROVE  Inv' /\ UNCHANGED tables
<1>1. clock < MaxTime /\ clock' = clock + 1 /\ UNCHANGED <<tables, client>>
  BY DEF Tick
<1>2. TypeOK'
  BY <1>1, PostgresAssumption DEF Inv, TypeOK, tables
<1>3. Exclusive' /\ Linked'
  BY <1>1 DEF Inv, Exclusive, Linked, tables
<1>4. clock \in Nat /\ clock' \in Nat /\ clock <= clock'
  BY <1>1, RowTypes DEF Inv
<1>5. ASSUME NEW o \in Clients PROVE Works(client[o])'
  BY <1>1, <1>4, StillWorks, RowTypes DEF Inv, TypeOK, tables
<1>6. QED BY <1>1, <1>2, <1>3, <1>5 DEF Inv

-----------------------------------------------------------------------------
(* Every step *)

\* What a step does to the tables: nothing, or one COMMIT.
Commits(c) ==
  \/ Insert(c) /\ ~Taken(client[c].call.id)
  \/ Mark(c) \/ Record(c) \/ CommitClaim(c) \/ Acknowledge(c)

\* A step leaves the tables alone or is a COMMIT, and keeps the invariant.
LEMMA NextKeeps ==
  ASSUME Inv, [Next]_vars
  PROVE  Inv' /\ (UNCHANGED tables \/ \E c \in Clients : Commits(c))
<1>1. CASE UNCHANGED vars
  <2>1. TypeOK' /\ Exclusive' /\ Linked'
    BY <1>1 DEF vars, tables, Inv, TypeOK, Exclusive, Linked
  <2>2. ASSUME NEW o \in Clients PROVE Works(client[o])'
    BY <1>1, StillWorks, RowTypes DEF vars, tables, Inv, TypeOK
  <2>3. QED BY <1>1, <2>1, <2>2 DEF vars, Inv
<1>2. CASE Tick
  BY <1>2, TickKeeps
<1>3. ASSUME NEW c \in Clients, Calls(c) \/ Step(c) \/ Fail(c)
      PROVE  Inv' /\ (UNCHANGED tables \/ Commits(c))
  <2>1. CASE Calls(c)
    BY <2>1, CallsKeep
  <2>2. CASE Reserve(c) \/ LookUp(c)
    BY <2>2, AdvisoryLocksKeep
  <2>3. CASE Read(c) \/ Swap(c)
    BY <2>3, OperationKeeps
  <2>4. CASE Admit(c) \/ Release(c) \/ GiveBack(c) \/ Claim(c)
    BY <2>4, AdmitKeeps, ReleaseKeeps, GiveBackKeeps, ClaimKeeps
  <2>5. CASE Insert(c) /\ Taken(client[c].call.id)
    BY <2>5, ThrowingKeeps DEF Insert
  <2>6. CASE Insert(c) /\ ~Taken(client[c].call.id)
    BY <2>6, InsertKeeps DEF Commits
  <2>7. CASE Mark(c) \/ Record(c) \/ CommitClaim(c) \/ Acknowledge(c)
    BY <2>7, MarkKeeps, RecordKeeps, CommitClaimKeeps, AcknowledgeKeeps DEF Commits
  <2>8. CASE Fail(c)
    BY <2>8, ThrowingKeeps DEF Fail
  <2>9. QED BY <1>3, <2>1, <2>2, <2>3, <2>4, <2>5, <2>6, <2>7, <2>8 DEF Step
<1>4. QED BY <1>1, <1>2, <1>3 DEF Next

\* The empty tables.
LEMMA InitHolds == Init => Inv
<1>1. SUFFICES ASSUME Init PROVE Inv
  OBVIOUS
<1>2. Idle \in Transaction /\ Idle.locks = {} /\ Idle.phase = "idle"
  BY DEF Idle, Transaction
<1>3. \A c \in Clients : client[c] = Idle
  BY <1>1 DEF Init
<1>4. TypeOK
  BY <1>1, <1>2, PostgresAssumption DEF Init, TypeOK
<1>5. Exclusive /\ Linked
  BY <1>1, <1>2, <1>3 DEF Init, Exclusive, Linked
<1>6. Works(Idle)
  BY <1>2 DEF Works, CallFits, RaiseStands, ReleaseStands, LoweringStands,
              KeyStands, ClaimStands
<1>7. QED BY <1>3, <1>4, <1>5, <1>6 DEF Inv

\* The transactions of postgresStore.ts keep their locks exclusive, and commit
\* only what still stands.
THEOREM LocksGuard == Spec => []Inv
<1>1. Inv /\ [Next]_vars => Inv'
  BY NextKeeps
<1>2. QED BY <1>1, InitHolds, PTL DEF Spec

-----------------------------------------------------------------------------
(* Reservations *)

\* A step of the store is a step of the ledger, or leaves it alone.
LEMMA LedgerStep ==
  ASSUME Inv, [Next]_vars
  PROVE  [Ledger!Next]_(Ledger!vars)
<1>1. CASE UNCHANGED tables
  BY <1>1 DEF tables, Ledger!vars
<1>2. ASSUME NEW c \in Clients, Commits(c) PROVE [Ledger!Next]_(Ledger!vars)
  <2>1. CASE Insert(c) /\ ~Taken(client[c].call.id)
    <3>1. /\ client[c].call \in ReserveCall
          /\ Ledger!Reserve(client[c].call.id, client[c].call.day,
                            client[c].call.amount, client[c].call.cap)
      BY <2>1, InsertKeeps
    <3>2. QED BY <3>1 DEF Ledger!Next, ReserveCall
  <2>2. CASE Mark(c)
    BY <2>2, MarkKeeps DEF Ledger!Next
  <2>3. CASE Record(c) \/ CommitClaim(c) \/ Acknowledge(c)
    BY <2>3, RecordKeeps, CommitClaimKeeps, AcknowledgeKeeps DEF Ledger!vars
  <2>4. QED BY <1>2, <2>1, <2>2, <2>3 DEF Commits
<1>3. QED BY <1>1, <1>2, NextKeeps

\* reserveCap and releaseCap, in any interleaving of any number of clients that
\* fail and call again, are steps of a ledger that makes and gives back one
\* reservation at a time.
THEOREM CapsAreSerial == Spec => LedgerIsSerial
<1>1. Init => Ledger!Init
  BY DEF Init, Ledger!Init
<1>2. Inv /\ [Next]_vars => [Ledger!Next]_(Ledger!vars)
  BY LedgerStep
<1>3. QED BY <1>1, <1>2, LocksGuard, PTL DEF Spec, LedgerIsSerial, Ledger!Spec

-----------------------------------------------------------------------------
(* Leases *)

\* claimOutbox gives an event that a worker holds to another worker only when
\* the lease has run out, however late the claim commits.
THEOREM LeasesRespected == Spec => LeaseRespected
<1>1. Inv /\ [Next]_vars =>
        [\A k \in Keys :
           (/\ outbox[k] # None /\ outbox[k].claimedBy # None
            /\ outbox'[k].claimedBy \notin {None, outbox[k].claimedBy})
              => outbox[k].claimedUntil <= clock]_vars
  <2>1. SUFFICES ASSUME Inv, [Next]_vars, NEW k \in Keys,
                        outbox[k] # None, outbox[k].claimedBy # None,
                        outbox'[k].claimedBy \notin {None, outbox[k].claimedBy}
                 PROVE  outbox[k].claimedUntil <= clock
    OBVIOUS
  <2>2. outbox'[k] # outbox[k]
    BY <2>1
  <2>3. PICK c \in Clients : Commits(c)
    BY <2>1, <2>2, NextKeeps DEF tables
  <2>4. CASE Insert(c) /\ ~Taken(client[c].call.id)
    BY <2>2, <2>4 DEF Insert
  <2>5. CASE Mark(c)
    BY <2>1, <2>2, <2>5, MarkKeeps
  <2>6. CASE Record(c)
    <3>1. outbox[client[c].call.key] = None /\ outbox' = Enqueued(client[c].call.key)
      BY <2>1, <2>6, RecordKeeps
    <3>2. QED BY <2>1, <2>2, <3>1 DEF Enqueued, Inv, TypeOK
  <2>7. CASE CommitClaim(c)
    BY <2>1, <2>2, <2>7, CommitClaimKeeps
  <2>8. CASE Acknowledge(c)
    BY <2>1, <2>2, <2>8, AcknowledgeKeeps
  <2>9. QED BY <2>3, <2>4, <2>5, <2>6, <2>7, <2>8 DEF Commits
<1>2. QED BY <1>1, LocksGuard, PTL DEF Spec, LeaseRespected

-----------------------------------------------------------------------------
(* Idempotent operations *)

\* A key has an effect exactly if it has a response, and then one.
LEMMA EffectsKept ==
  ASSUME Inv, EffectsCounted, [Next]_vars
  PROVE  EffectsCounted' /\ [PerKey!Next]_(PerKey!vars)
<1>1. CASE UNCHANGED <<state, records>>
  BY <1>1 DEF EffectsCounted, Effects, PerKey!vars
<1>2. ASSUME NEW c \in Clients, Record(c)
      PROVE  EffectsCounted' /\ PerKey!Next
  <2> DEFINE k == client[c].call.key
  <2>1. /\ k \in Keys /\ k \notin records /\ records' = records \cup {k}
        /\ state'.history = Append(state.history, k)
    BY <1>2, RecordKeeps
  <2>2. state.history \in Seq(Keys)
    BY DEF Inv, TypeOK
  <2>3. \A j \in Keys : Count(state'.history, j) =
          IF j = k THEN Count(state.history, j) + 1 ELSE Count(state.history, j)
    BY <2>1, <2>2, HistoryGrows
  <2>4. \A j \in Keys : Count(state.history, j) = IF j \in records THEN 1 ELSE 0
    BY DEF EffectsCounted, Effects, Count
  <2> HIDE DEF k
  <2>5. EffectsCounted'
    <3>1. \A j \in Keys : Count(state'.history, j) = IF j \in records' THEN 1 ELSE 0
      BY <2>1, <2>3, <2>4
    <3>2. QED BY <3>1 DEF EffectsCounted, Effects, Count
  <2>6. [j \in Keys |-> Count(state'.history, j)]
          = [[j \in Keys |-> Count(state.history, j)] EXCEPT ![k] = 1]
    <3>1. \A j \in Keys :
            Count(state'.history, j) = IF j = k THEN 1 ELSE Count(state.history, j)
      BY <2>1, <2>3, <2>4
    <3> DEFINE new == [j \in Keys |-> Count(state'.history, j)]
               old == [j \in Keys |-> Count(state.history, j)]
    <3>2. \A j \in Keys : new[j] = [old EXCEPT ![k] = 1][j]
      BY <3>1
    <3>3. QED BY <3>2
  <2>7. PerKey!Decide(k)
    BY <2>1, <2>6 DEF PerKey!Decide, Effects, Count
  <2>8. QED BY <2>1, <2>5, <2>7 DEF PerKey!Next
<1>3. CASE \E c \in Clients : Commits(c)
  <2>1. PICK c \in Clients : Commits(c)
    BY <1>3
  <2>2. CASE Insert(c) /\ ~Taken(client[c].call.id)
    BY <1>1, <2>2 DEF Insert
  <2>3. CASE Mark(c) \/ CommitClaim(c) \/ Acknowledge(c)
    BY <1>1, <2>3, MarkKeeps, CommitClaimKeeps, AcknowledgeKeeps
  <2>4. QED BY <1>2, <2>1, <2>2, <2>3 DEF Commits
<1>4. QED BY <1>1, <1>3, NextKeeps DEF tables

\* At the start no key has an effect.
LEMMA NoEffectsYet == Init => EffectsCounted /\ PerKey!Init
<1>1. SUFFICES ASSUME Init PROVE EffectsCounted /\ PerKey!Init
  OBVIOUS
<1>2. state.history = <<>> /\ records = {}
  BY <1>1 DEF Init
<1>3. \A k \in Keys : {i \in DOMAIN state.history : state.history[i] = k} = {}
  BY <1>2
<1>4. \A k \in Keys : Effects(k) = 0
  BY <1>3, FS_EmptySet DEF Effects
<1>5. QED BY <1>2, <1>4 DEF EffectsCounted, PerKey!Init

\* runIdempotent: the operations under one key change the aggregate at most
\* once, and never after a response is stored.
THEOREM EffectsAreKeyed == Spec => KeyedEffects
<1>1. Inv /\ EffectsCounted /\ [Next]_vars
        => EffectsCounted' /\ [PerKey!Next]_(PerKey!vars)
  BY EffectsKept
<1>2. QED BY <1>1, NoEffectsYet, LocksGuard, PTL DEF Spec, KeyedEffects, PerKey!Spec

-----------------------------------------------------------------------------
(* Sums *)

\* The active reservations of a day, and the amount of every reservation.
Booked(d) ==
  {r \in Reservations : /\ reservations[r] # None
                        /\ reservations[r].day = d
                        /\ reservations[r].status = "active"}
Amount == [r \in Reservations |-> reservations[r].amount]

\* Finitely many reservations were made, and the amounts of the active ones add
\* up.
AddsUp(d) ==
  caps[d] # None => /\ caps[d].reserved = Total(Amount, Booked(d))
                    /\ caps[d].reserved <= caps[d].cap
CapsAddUp ==
  /\ IsFiniteSet({r \in Reservations : reservations[r] # None})
  /\ \A d \in Days : AddsUp(d)

\* The reservations of a day are finitely many, each with its amount.
LEMMA BookedFacts ==
  ASSUME Inv, CapsAddUp, NEW d \in Days
  PROVE  /\ IsFiniteSet(Booked(d))
         /\ \A r \in Booked(d) : /\ r \in Reservations /\ Amount[r] \in Nat
                                 /\ Amount[r] = reservations[r].amount
         /\ caps[d] = None => Booked(d) = {}
<1>1. IsFiniteSet(Booked(d))
  <2>1. Booked(d) \in SUBSET {r \in Reservations : reservations[r] # None}
    BY DEF Booked
  <2>2. QED BY <2>1, FS_Subset DEF CapsAddUp
<1>2. ASSUME NEW r \in Booked(d)
      PROVE  /\ r \in Reservations /\ Amount[r] \in Nat
             /\ Amount[r] = reservations[r].amount
  <2>1. r \in Reservations /\ reservations[r] # None
    BY DEF Booked
  <2>2. reservations[r].amount \in Nat
    BY <2>1, RowTypes DEF Inv
  <2>3. QED BY <2>1, <2>2 DEF Amount
<1>3. caps[d] = None => Booked(d) = {}
  BY DEF Booked, Inv, Linked
<1>4. QED BY <1>1, <1>2, <1>3

\* The sum in ReservedAddsUp is that total.
LEMMA SumInTable ==
  ASSUME Inv, CapsAddUp, NEW d \in Days
  PROVE  MapThenSumSet(LAMBDA r : reservations[r].amount, Booked(d))
           = Total(Amount, Booked(d))
<1> DEFINE B == Booked(d)
           first(s) == CHOOSE x \in s : TRUE
           sums(g) == [s \in SUBSET B |-> IF s = {} THEN 0
                         ELSE reservations[first(s)].amount + g[s \ {first(s)}]]
           g0 == CHOOSE g : g = sums(g)
           units == [s \in SUBSET B |-> Cardinality(Units(Amount, s))]
<1>1. IsFiniteSet(B) /\ \A r \in B : Amount[r] \in Nat
                                     /\ Amount[r] = reservations[r].amount
  BY BookedFacts
<1>2. \A s \in SUBSET B : s # {} => first(s) \in B
  OBVIOUS
<1> HIDE DEF B, first
<1>3. ASSUME NEW g PROVE IsSum(g, Amount, B) <=> g = sums(g)
  <2>1. sums(g) = [s \in SUBSET B |-> IF s = {} THEN 0
                     ELSE Amount[first(s)] + g[s \ {first(s)}]]
    BY <1>1, <1>2
  <2>2. QED BY <2>1 DEF IsSum, first
<1>4. units = sums(units)
  BY <1>1, <1>3, UnitsAreSum
<1>5. g0 = sums(g0)
  BY <1>4
<1>6. MapThenSumSet(LAMBDA r : reservations[r].amount, B) = g0[B]
  BY DEF MapThenSumSet, MapThenFoldSet, first
<1> HIDE DEF g0, sums
<1>7. g0[B] = Cardinality(Units(Amount, B))
  BY <1>1, <1>3, <1>5, SumIsUnits
<1>8. Total(Amount, B) = Cardinality(Units(Amount, B))
  BY <1>1, TotalCounts
<1>9. QED BY <1>6, <1>7, <1>8 DEF B

\* A day whose row and whose reservations stay as they are.
LEMMA OtherDays ==
  ASSUME Inv, CapsAddUp, NEW d \in Days, caps'[d] = caps[d],
         Booked(d)' = Booked(d), \A r \in Booked(d) : Amount'[r] = Amount[r]
  PROVE  AddsUp(d)'
<1>1. Total(Amount, Booked(d)) = Total(Amount', Booked(d))
  BY BookedFacts, TotalDependsOn
<1>2. QED BY <1>1 DEF CapsAddUp, AddsUp

\* A reservation enters the sum of its day.
LEMMA ReservationEnters ==
  ASSUME Inv, CapsAddUp, NEW id \in Reservations, NEW day \in Days,
         NEW amount \in Amounts, NEW cap \in Amounts,
         Ledger!Reserve(id, day, amount, cap)
  PROVE  CapsAddUp'
<1> DEFINE fresh == [day |-> day, amount |-> amount, status |-> "active"]
           before == IF caps[day] = None THEN [cap |-> cap, reserved |-> 0] ELSE caps[day]
           after == [before EXCEPT !.reserved = @ + amount]
           taken == {r \in Reservations : reservations[r] # None}
<1>0. amount \in Nat /\ cap \in Nat
  BY PostgresAssumption
<1>1. /\ reservations[id] = None /\ before.cap = cap
      /\ before.reserved + amount <= cap
      /\ reservations' = [reservations EXCEPT ![id] = fresh]
      /\ caps' = [caps EXCEPT ![day] = after]
  BY DEF Ledger!Reserve
<1>2. before \in CapRow
  BY RowTypes DEF CapRow, Inv
<1>3. /\ before.reserved \in Nat /\ before.cap \in Nat
      /\ after.reserved = before.reserved + amount /\ after.cap = before.cap
  BY <1>0, <1>2, RowTypes DEF CapRow, Inv
<1>4. /\ fresh # None /\ fresh.day = day /\ fresh.amount = amount
      /\ fresh.status = "active"
  <2>1. fresh \in ReservationRow
    BY DEF ReservationRow
  <2> HIDE DEF fresh
  <2>2. fresh # None
    BY <2>1, PostgresAssumption
  <2>3. QED BY <2>2 DEF fresh
<1>5. before.reserved = Total(Amount, Booked(day))
  <2>1. CASE caps[day] = None
    BY <2>1, BookedFacts, TotalEmpty
  <2>2. CASE caps[day] # None
    BY <2>2 DEF CapsAddUp, AddsUp
  <2>3. QED BY <2>1, <2>2
<1> HIDE DEF fresh, before, after
<1>6. /\ reservations'[id] = fresh
      /\ \A r \in Reservations \ {id} : reservations'[r] = reservations[r]
      /\ caps'[day] = after
      /\ \A d \in Days \ {day} : caps'[d] = caps[d]
  BY <1>1 DEF Inv, TypeOK
<1>7. Amount'[id] = amount /\ \A r \in Reservations \ {id} : Amount'[r] = Amount[r]
  BY <1>4, <1>6 DEF Amount
<1>8. IsFiniteSet({r \in Reservations : reservations[r] # None})'
  <2>1. {r \in Reservations : reservations'[r] # None} = taken \cup {id}
    BY <1>1, <1>4, <1>6
  <2>2. IsFiniteSet(taken \cup {id})
    BY FS_AddElement DEF CapsAddUp
  <2>3. QED BY <2>1, <2>2
<1>9. Booked(day)' = Booked(day) \cup {id} /\ id \notin Booked(day)
  BY <1>1, <1>4, <1>6 DEF Booked
<1>10. AddsUp(day)'
  <2>1. /\ IsFiniteSet(Booked(day))
        /\ \A r \in Booked(day) : Amount[r] \in Nat /\ Amount'[r] = Amount[r]
    BY <1>7, <1>9, BookedFacts
  <2>2. Amount'[id] \in Nat
    BY <1>0, <1>7
  <2>3. Total(Amount', Booked(day)') = Total(Amount, Booked(day)) + Amount'[id]
    BY <1>9, <2>1, <2>2, TotalEnters
  <2>4. after.reserved = Total(Amount', Booked(day)') /\ after.reserved <= after.cap
    BY <1>0, <1>1, <1>3, <1>5, <1>7, <1>9, <2>3
  <2>5. QED BY <1>6, <2>4 DEF AddsUp
<1>11. ASSUME NEW d \in Days, d # day PROVE AddsUp(d)'
  <2>1. Booked(d)' = Booked(d) /\ id \notin Booked(d)
    BY <1>1, <1>4, <1>6, <1>11 DEF Booked
  <2>2. \A r \in Booked(d) : Amount'[r] = Amount[r]
    BY <1>7, <2>1 DEF Booked
  <2>3. QED BY <1>6, <1>11, <2>1, <2>2, OtherDays
<1>12. QED BY <1>8, <1>10, <1>11 DEF CapsAddUp

\* A release takes a reservation out of the sum of its day.
LEMMA ReservationLeaves ==
  ASSUME Inv, CapsAddUp, NEW id \in Reservations, Ledger!Release(id)
  PROVE  CapsAddUp'
<1> DEFINE row == reservations[id]
<1> PICK day : day = row.day
  OBVIOUS
<1> PICK amount : amount = row.amount
  OBVIOUS
<1>1. /\ row # None /\ row.status = "active"
      /\ reservations' = [reservations EXCEPT ![id].status = "released"]
      /\ caps' = [caps EXCEPT ![day].reserved = @ - amount]
  BY DEF Ledger!Release
<1>2. /\ row \in ReservationRow /\ day \in Days /\ amount \in Nat
      /\ caps[day] # None /\ caps[day] \in CapRow
      /\ caps[day].reserved \in Nat /\ caps[day].cap \in Nat
  BY <1>1, RowTypes DEF Inv, Linked
<1>3. /\ reservations'[id] = [row EXCEPT !.status = "released"]
      /\ \A r \in Reservations \ {id} : reservations'[r] = reservations[r]
      /\ caps'[day] = [caps[day] EXCEPT !.reserved = @ - amount]
      /\ \A d \in Days \ {day} : caps'[d] = caps[d]
  BY <1>1, <1>2 DEF Inv, TypeOK
<1>4. /\ reservations'[id].day = day /\ reservations'[id].amount = amount
      /\ reservations'[id].status = "released"
      /\ caps'[day].reserved = caps[day].reserved - amount
      /\ caps'[day].cap = caps[day].cap
  BY <1>2, <1>3 DEF ReservationRow, CapRow
<1>5. \A r \in Reservations : Amount'[r] = Amount[r]
  BY <1>3, <1>4 DEF Amount
<1> HIDE DEF row
<1>6. IsFiniteSet({r \in Reservations : reservations[r] # None})'
  <2>1. {r \in Reservations : reservations'[r] # None}
          \in SUBSET {r \in Reservations : reservations[r] # None}
    BY <1>1, <1>3 DEF row
  <2>2. QED BY <2>1, FS_Subset DEF CapsAddUp
<1>7. Booked(day)' = Booked(day) \ {id} /\ id \in Booked(day)
  BY <1>1, <1>3, <1>4 DEF Booked, row
<1>8. AddsUp(day)'
  <2>1. /\ IsFiniteSet(Booked(day)) /\ Amount[id] = amount
        /\ \A r \in Booked(day) : Amount[r] \in Nat
        /\ \A r \in Booked(day)' : Amount'[r] = Amount[r]
    BY <1>2, <1>5, <1>7, BookedFacts DEF row
  <2>2. Total(Amount', Booked(day)') = Total(Amount, Booked(day)) - Amount[id]
    BY <1>7, <2>1, TotalLeaves
  <2>3. /\ caps[day].reserved = Total(Amount, Booked(day))
        /\ caps[day].reserved <= caps[day].cap
    BY <1>2 DEF CapsAddUp, AddsUp
  <2>4. /\ caps'[day].reserved = Total(Amount', Booked(day)')
        /\ caps'[day].reserved <= caps'[day].cap
    BY <1>2, <1>4, <1>7, <2>1, <2>2, <2>3
  <2>5. QED BY <2>4 DEF AddsUp
<1>9. ASSUME NEW d \in Days, d # day PROVE AddsUp(d)'
  <2>1. Booked(d)' = Booked(d)
    BY <1>3, <1>4, <1>9 DEF Booked, row
  <2>2. \A r \in Booked(d) : Amount'[r] = Amount[r]
    BY <1>5 DEF Booked
  <2>3. QED BY <1>3, <1>9, <2>1, <2>2, OtherDays
<1>10. QED BY <1>6, <1>8, <1>9 DEF CapsAddUp

\* Each COMMIT of a reservation or a release moves the day's row by the amount
\* that enters or leaves its active reservations.
LEMMA SumsKept ==
  ASSUME Inv, CapsAddUp, [Next]_vars
  PROVE  CapsAddUp'
<1>1. CASE UNCHANGED <<caps, reservations>>
  BY <1>1 DEF CapsAddUp, AddsUp, Booked, Amount
<1>2. CASE [Ledger!Next]_(Ledger!vars)
  BY <1>1, <1>2, ReservationEnters, ReservationLeaves DEF Ledger!Next, Ledger!vars
<1>3. QED BY <1>2, LedgerStep

\* The empty ledger adds up.
LEMMA NothingBooked == Init => CapsAddUp
<1>1. SUFFICES ASSUME Init PROVE CapsAddUp
  OBVIOUS
<1>2. {r \in Reservations : reservations[r] # None} = {}
  BY <1>1 DEF Init
<1>3. \A d \in Days : caps[d] = None
  BY <1>1 DEF Init
<1>4. QED BY <1>2, <1>3, FS_EmptySet DEF CapsAddUp, AddsUp

\* The committed tables agree: every cap row is the sum of its day's active
\* reservations and within the cap, and an event is in the outbox exactly if
\* its operation took effect.
THEOREM TablesStayInAgreement == Spec => []TablesAgree
<1>1. (Inv /\ CapsAddUp /\ EffectsCounted) /\ [Next]_vars
        => CapsAddUp' /\ EffectsCounted'
  BY SumsKept, EffectsKept
<1>2. Inv /\ CapsAddUp /\ EffectsCounted => TablesAgree
  <2>1. SUFFICES ASSUME Inv, CapsAddUp, EffectsCounted PROVE TablesAgree
    OBVIOUS
  <2>2. TypeOK
    BY <2>1 DEF Inv
  <2>3. EventWithEffect
    BY <2>1 DEF EffectsCounted, EventWithEffect, Inv, Linked
  <2>4. ReservedAddsUp
    <3>1. \A d \in Days :
            MapThenSumSet(LAMBDA r : reservations[r].amount, Booked(d))
              = Total(Amount, Booked(d))
      BY <2>1, SumInTable
    <3>2. QED BY <2>1, <3>1 DEF CapsAddUp, AddsUp, ReservedAddsUp, Booked
  <2>5. QED BY <2>2, <2>3, <2>4 DEF TablesAgree
<1>3. QED BY <1>1, <1>2, LocksGuard, NothingBooked, NoEffectsYet, PTL DEF Spec

=============================================================================
