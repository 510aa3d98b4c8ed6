------------------------------- MODULE CapLedger -------------------------------
(***************************************************************************)
(* What a ledger of daily caps promises: reservations are made and given   *)
(* back one at a time, each id once, and the amount in use on a day moves  *)
(* with them and stays within the day's cap.                               *)
(***************************************************************************)
EXTENDS Naturals

CONSTANTS None, Reservations, Days, Amounts

VARIABLES
  ledger,   \* [Reservations -> [day, amount, status] or None]
  inUse     \* [Days -> [cap, reserved] or None]

vars == <<ledger, inUse>>

Init ==
  /\ ledger = [r \in Reservations |-> None]
  /\ inUse = [d \in Days |-> None]

\* The first reservation of a day fixes its cap.
Reserve(r, d, a, cap) ==
  LET before == IF inUse[d] = None THEN [cap |-> cap, reserved |-> 0] ELSE inUse[d]
  IN
  /\ ledger[r] = None
  /\ before.cap = cap
  /\ before.reserved + a <= cap
  /\ ledger' = [ledger EXCEPT ![r] = [day |-> d, amount |-> a, status |-> "active"]]
  /\ inUse' = [inUse EXCEPT ![d] = [before EXCEPT !.reserved = @ + a]]

Release(r) ==
  /\ ledger[r] # None
  /\ ledger[r].status = "active"
  /\ ledger' = [ledger EXCEPT ![r].status = "released"]
  /\ inUse' = [inUse EXCEPT ![ledger[r].day].reserved = @ - ledger[r].amount]

Next ==
  \E r \in Reservations :
    \/ Release(r)
    \/ \E d \in Days, a, cap \in Amounts : Reserve(r, d, a, cap)

Spec == Init /\ [][Next]_vars

=============================================================================
