---------------------------- MODULE IdempotentEffect ----------------------------
(***************************************************************************)
(* What an idempotency key promises, and nothing else: the calls made      *)
(* under one key change the system at most once, and from the moment an    *)
(* answer is remembered for the key neither the answer nor the number of   *)
(* changes made under it moves again.  Implemented by the customer         *)
(* operations machine (operationsStateMachine.ts #once) and by the lab     *)
(* server over the durable store (durableStore.ts runIdempotent).          *)
(***************************************************************************)
CONSTANT Keys

VARIABLES
  remembered,   \* the keys with a remembered answer
  effects       \* [Keys -> 0 .. 1]: changes made by the calls under the key

vars == <<remembered, effects>>

Init ==
  /\ remembered = {}
  /\ effects = [k \in Keys |-> 0]

\* The first call under k is decided: it changed the system, or it was refused.
Decide(k) ==
  /\ k \notin remembered
  /\ remembered' = remembered \cup {k}
  /\ \E n \in {0, 1} : effects' = [effects EXCEPT ![k] = n]

Next == \E k \in Keys : Decide(k)

Spec == Init /\ [][Next]_vars

=============================================================================
