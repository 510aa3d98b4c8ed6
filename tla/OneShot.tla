-------------------------------- MODULE OneShot --------------------------------
(***************************************************************************)
(* What the issuer promises about challenges, and nothing else: an id is   *)
(* issued once, and once it has been accepted or closed its outcome never  *)
(* changes.  At most one challenge is accepted in a step; a device         *)
(* lifecycle operation may close many.  This is INV-01 and INV-04 of       *)
(* docs/TEST_PLAN.md as a specification.                                   *)
(***************************************************************************)
CONSTANT Ids

VARIABLE outcome   \* [Ids -> {"unissued", "open", "accepted", "closed"}]

Open == {c \in Ids : outcome[c] = "open"}

Init == outcome = [c \in Ids |-> "unissued"]

Issue(c) ==
  /\ outcome[c] = "unissued"
  /\ outcome' = [outcome EXCEPT ![c] = "open"]

Accept(c) ==
  /\ outcome[c] = "open"
  /\ outcome' = [outcome EXCEPT ![c] = "accepted"]

Close(S) ==
  outcome' = [c \in Ids |-> IF c \in S THEN "closed" ELSE outcome[c]]

Next ==
  \/ \E c \in Ids : Issue(c) \/ Accept(c)
  \/ \E S \in SUBSET Open : Close(S)

Spec == Init /\ [][Next]_outcome

=============================================================================
