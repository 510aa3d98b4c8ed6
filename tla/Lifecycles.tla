------------------------------ MODULE Lifecycles ------------------------------
(***************************************************************************)
(* The two lifecycle graphs of packages/state-machine/transitions.ts and   *)
(* the guard with which the engine walks them.  A state "absent" is added  *)
(* for an identifier the engine's maps do not hold yet.                    *)
(***************************************************************************)
TransactionState ==
  {"received", "confirmation_pending", "confirmed", "declined", "expired",
   "reversal_requested", "reversed", "clearing_received", "settled",
   "exception"}

ProvisioningState ==
  {"requested", "risk_scored", "trusted_device_challenge", "approved",
   "token_active_capped", "token_active_full", "declined", "expired"}

\* The edges of the transaction graph, as pairs.
TRANSACTION_TRANSITIONS ==
  ({"received"} \X {"confirmation_pending", "declined"})
    \cup ({"confirmation_pending"} \X {"confirmed", "expired", "declined"})
    \cup ({"confirmed"} \X {"clearing_received", "reversal_requested"})
    \cup ({"expired"} \X {"reversal_requested", "clearing_received"})
    \cup ({"reversal_requested"} \X
            {"reversed", "clearing_received", "exception"})
    \cup ({"reversed"} \X {"clearing_received"})
    \cup ({"clearing_received"} \X {"settled", "exception"})

\* The edges of the provisioning graph, as pairs.
PROVISIONING_TRANSITIONS ==
  ({"requested"} \X {"risk_scored", "declined"})
    \cup ({"risk_scored"} \X
            {"trusted_device_challenge", "approved", "declined"})
    \cup ({"trusted_device_challenge"} \X {"approved", "declined", "expired"})
    \cup ({"approved"} \X {"token_active_capped", "token_active_full"})
    \cup ({"token_active_capped"} \X {"token_active_full", "declined"})

\* transitionTransaction returns (and does not throw) on this edge.
transitionTransaction(current, next) ==
  <<current, next>> \in TRANSACTION_TRANSITIONS

\* transitionProvisioning returns (and does not throw) on this edge.
transitionProvisioning(current, next) ==
  <<current, next>> \in PROVISIONING_TRANSITIONS

=============================================================================
