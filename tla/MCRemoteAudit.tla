------------------------------ MODULE MCRemoteAudit ------------------------------
(***************************************************************************)
(* Small instances of RemoteAudit.                                         *)
(***************************************************************************)
EXTENDS RemoteAudit, TLC

Interchangeable == Permutations(Processes) \cup Permutations(EventIds)

=============================================================================
