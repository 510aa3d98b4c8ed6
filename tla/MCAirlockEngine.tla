---------------------------- MODULE MCAirlockEngine ----------------------------
(***************************************************************************)
(* Small instances of AirlockEngine.                                       *)
(***************************************************************************)
EXTENDS AirlockEngine, TLC

\* Bound: devices and transactions there are at once.
MaxPopulation == 4

SmallPopulation ==
    Cardinality({d \in Devices : devices[d].status # "absent"})
  + Cardinality({x \in Transactions : transactions[x].state # "absent"})
      <= MaxPopulation

\* Transactions, devices, key ids and key material are interchangeable.
Interchangeable ==
  Permutations(Devices) \cup Permutations(Transactions)
    \cup Permutations(KeyIds) \cup Permutations(PublicKeys)

=============================================================================
