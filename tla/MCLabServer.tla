------------------------------ MODULE MCLabServer ------------------------------
(***************************************************************************)
(* Small instances of LabServer.                                           *)
(***************************************************************************)
EXTENDS LabServer, TLC

\* A state that an earlier run of the server may have left: the token is active
\* and a transaction waits for its confirmation.  (The stages before it are
\* reached from an empty database.)
Pending ==
  [Fresh EXCEPT !.provisioning = "token_active_full",
                !.provisioningView = "token_active_full",
                !.provisioningChallenge = "confirmed",
                !.transaction = "confirmation_pending",
                !.transactionView = "confirmation_pending",
                !.transactionChallenge = "created"]
MCInitialLabs == {Pending}

\* bound: a request for provisionAttack, which is always refused, or for
\* auditTamper, which is blocked without a change like altered-binding, is
\* taken by a process and not followed further.
Followed ==
  \A p \in Processes : server[p].route \notin {"provisionAttack", "auditTamper"}

Interchangeable == Permutations(Processes) \cup Permutations(Keys)

=============================================================================
