------------------------------- MODULE AnchoredLog -------------------------------
(***************************************************************************)
(* What an externally anchored log promises: one sequence of events that   *)
(* only ever grows at its end, first at the anchor and then in the local   *)
(* store, which never runs ahead of the anchor; a writer is told of its    *)
(* event only when both have it.                                           *)
(***************************************************************************)
EXTENDS Sequences, SequencesExt

CONSTANT EventIds

VARIABLES
  anchored,      \* the events the external anchor attests
  committed,     \* the events of the local store
  acknowledged   \* the events whose writers were told so

vars == <<anchored, committed, acknowledged>>

Init ==
  /\ anchored = <<>>
  /\ committed = <<>>
  /\ acknowledged = {}

Anchor ==
  /\ \E e \in EventIds \ Range(anchored) : anchored' = Append(anchored, e)
  /\ UNCHANGED <<committed, acknowledged>>

CatchUp ==
  /\ committed' = anchored
  /\ UNCHANGED <<anchored, acknowledged>>

Acknowledge ==
  /\ \E e \in Range(committed) : acknowledged' = acknowledged \cup {e}
  /\ UNCHANGED <<anchored, committed>>

Next == Anchor \/ CatchUp \/ Acknowledge

Spec == Init /\ [][Next]_vars

=============================================================================
