------------------------------ MODULE AtLeastOnce ------------------------------
(***************************************************************************)
(* What the partner transport promises about events ("Delivery is at least *)
(* once", "no event is silently discarded", docs/                          *)
(* PARTNER_TRANSPORT_OPERATIONS.md): an event is taken off the outbox only *)
(* after the partner has applied it or an operator can find it in the      *)
(* dead-letter sink, and it never comes back.                              *)
(***************************************************************************)
CONSTANT Ids

VARIABLES queued,    \* events that were enqueued and not yet closed
          handled,   \* events the partner applied or the sink recorded
          closed     \* events acknowledged in the outbox

Init == queued = {} /\ handled = {} /\ closed = {}

Enqueue(e) ==
  /\ e \notin queued \cup closed
  /\ queued' = queued \cup {e}
  /\ UNCHANGED <<handled, closed>>

Handle(e) ==
  /\ e \in queued \cup closed
  /\ handled' = handled \cup {e}
  /\ UNCHANGED <<queued, closed>>

\* Recording an event and closing it may be one step.
Close(e) ==
  /\ e \in queued
  /\ handled' \in {handled, handled \cup {e}}
  /\ e \in handled'
  /\ queued' = queued \ {e}
  /\ closed' = closed \cup {e}

Next == \E e \in Ids : Enqueue(e) \/ Handle(e) \/ Close(e)

Spec == Init /\ [][Next]_<<queued, handled, closed>>

=============================================================================
