-------------------------- MODULE MCPartnerDispatcher --------------------------
(***************************************************************************)
(* A small instance of PartnerDispatcher for its liveness.                 *)
(***************************************************************************)
EXTENDS PartnerDispatcher, TLC

=============================================================================
