------------------------------- MODULE TokenBucket -------------------------------
(***************************************************************************)
(* What a rate limiter promises: every client has a bucket of its own,     *)
(* which only time fills and only its own requests drain.                  *)
(***************************************************************************)
EXTENDS Naturals, FiniteSetsExt

CONSTANTS ClientKeys, Capacity, Refill

VARIABLE level   \* [ClientKeys -> 0 .. Capacity]

Init == level = [c \in ClientKeys |-> Capacity]

Pass(c) == level[c] >= 1 /\ level' = [level EXCEPT ![c] = @ - 1]

Tick == level' = [c \in ClientKeys |-> Min({Capacity, level[c] + Refill})]

Next == Tick \/ \E c \in ClientKeys : Pass(c)

Spec == Init /\ [][Next]_level

=============================================================================
