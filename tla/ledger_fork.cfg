\* Two commands side by side: two entries link to the same line.
SPECIFICATION Spec
CONSTANTS
  Procs = {p1, p2}
  Holders = {alice, bob}
  Issuance = issuance
  Amounts = {0, 1}
  MaxEntries = 4
  Initialized = TRUE
  Serial = FALSE
SYMMETRY LedgerSymmetry
CHECK_DEADLOCK FALSE
INVARIANT
  HashChained
