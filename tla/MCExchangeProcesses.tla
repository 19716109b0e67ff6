------------------------ MODULE MCExchangeProcesses -------------------------
(* Small instances of ExchangeProcesses: processes, ids, parties and keys   *)
(* are each alike.                                                          *)
EXTENDS ExchangeProcesses, TLC

ProcessSymmetry ==
  Permutations(Procs) \cup Permutations(OfferIds) \cup Permutations(DealIds)
    \cup Permutations(Dids) \cup Permutations(Keys)

=============================================================================
