----------------------------- MODULE VersionedStore -----------------------------
(***************************************************************************)
(* packages/storage/durableStore.ts: one versioned row and the idempotency *)
(* records, as the lab server uses them.  Each operator is one SQLite      *)
(* statement or one BEGIN IMMEDIATE transaction, hence one atomic step     *)
(* between the processes that have the database open.                      *)
(***************************************************************************)
EXTENDS Naturals

CONSTANTS None, Keys

VARIABLES
  row,       \* [version, schema, value], or NoRow before create
  records    \* [Keys -> [request, response] or None]: idempotency_records

NoRow == [version |-> 0, schema |-> 0, value |-> None]

\* create: the primary key refuses a second row.
MayCreate == row = NoRow
Created(schema, value) ==
  row' = [version |-> 0, schema |-> schema, value |-> value]

\* compareAndSwap: the row is replaced if it still has the expected version.
Current(version) == row # NoRow /\ row.version = version
Swapped(schema, value) ==
  row' = [version |-> row.version + 1, schema |-> schema, value |-> value]

\* getIdempotent and the first half of runIdempotent: a record under the key
\* is either of this request, and is replayed, or of another, and refuses it.
Unrecorded(k) == records[k] = None
Replays(k, request) == records[k] # None /\ records[k].request = request
Conflicts(k, request) == records[k] # None /\ records[k].request # request

\* runIdempotent: the swap and the record are committed together, or neither.
RanOnceFaulty(k, request, response, schema, value) ==
  Swapped(schema, value) /\ UNCHANGED records
RanOnce(k, request, response, schema, value) ==
  /\ Swapped(schema, value)
  /\ records' = [records EXCEPT
       ![k] = [request |-> request, response |-> response]]

=============================================================================
