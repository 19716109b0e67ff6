\* One command at a time: the ledger is a chain and a book of covered transfers.
SPECIFICATION Spec
CONSTANTS
  Procs = {p1, p2}
  Holders = {alice, bob}
  Issuance = issuance
  Amounts = {0, 1, 2}
  MaxEntries = 3
  Initialized = FALSE
  Serial = TRUE
SYMMETRY LedgerSymmetry
CHECK_DEADLOCK FALSE
INVARIANTS
  TypeOK
  HashChained
PROPERTIES
  AppendOnly
  ImplementsAccountBook
