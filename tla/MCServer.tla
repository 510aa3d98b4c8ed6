-------------------------------- MODULE MCServer --------------------------------
(***************************************************************************)
(* The request path of the server and the customer-operations machine in   *)
(* one small instance: one principal in each of two tenants on one side,   *)
(* three of the tenant's actors (one on the device a case may be about)    *)
(* and one of another tenant on the other.  The two share no variable and  *)
(* neither calls the other, so each is explored completely while the other *)
(* rests in its initial state, instead of exploring their product.         *)
(***************************************************************************)
EXTENDS CustomerOperations, Gateway, TLC

CONSTANTS home, other, d1, alice, bob, tenantA, tenantB

MCActors ==
  {[tenantId |-> home, actorId |-> "sue", role |-> "supervisor",
    deviceId |-> None],
   [tenantId |-> home, actorId |-> "sam", role |-> "security_operator",
    deviceId |-> d1],
   [tenantId |-> home, actorId |-> "ron", role |-> "recovery_officer",
    deviceId |-> None],
   [tenantId |-> other, actorId |-> "sue", role |-> "supervisor",
    deviceId |-> None]}

MCTenantOf == alice :> tenantA @@ bob :> tenantB

ServerInit == Init /\ GatewayInit

OperationsCall == GatewayInit /\ Next /\ UNCHANGED gatewayVars

GatewayStep == Init /\ GatewayNext /\ UNCHANGED vars

ServerSpec ==
  ServerInit /\ [][OperationsCall \/ GatewayStep]_<<vars, gatewayVars>>

\* Connections and override ids are interchangeable.
Interchangeable == Permutations(Connections) \cup Permutations(OverrideIds)

=============================================================================
