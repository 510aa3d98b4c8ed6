-------------------------------- MODULE MCGateway --------------------------------
(***************************************************************************)
(* A small instance of Gateway: one principal in each of two tenants.      *)
(***************************************************************************)
EXTENDS Gateway, TLC

CONSTANTS alice, bob, tenantA, tenantB

MCTenantOf == alice :> tenantA @@ bob :> tenantB

\* Connections and client addresses are interchangeable.
Interchangeable == Permutations(Connections) \cup Permutations(ClientKeys)

=============================================================================
