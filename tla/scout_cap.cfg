\* A limit below the adapter's own leaves out the party with the most evidence.
SPECIFICATION Spec
CONSTANTS
  Parties = {1, 2}
  EvidenceIds = {11, 12, 13}
  Hints = {0}
  CandidateLimit = 2
  MaxEvidenceIds = 2
  MaxRecords = 5
CHECK_DEADLOCK FALSE
INVARIANT TopIsShown
