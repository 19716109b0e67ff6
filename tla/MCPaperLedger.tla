--------------------------- MODULE MCPaperLedger ----------------------------
(* Small instances of PaperLedger: the processes are alike, and so are the  *)
(* accounts.                                                                *)
EXTENDS PaperLedger, TLC

LedgerSymmetry == Permutations(Procs) \cup Permutations(Holders)

=============================================================================
