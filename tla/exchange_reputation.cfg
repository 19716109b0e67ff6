\* Two jobs between a pair of family DIDs and an outsider: agreement of the
\* job, offer and deal files, wash flags and evidence profiles.
SPECIFICATION Spec
CONSTANTS
  JobIds = {j1, j2}
  OfferIds = {o1, o2, o3}
  DealIds = {d1, d2, d3}
  Results = {r1}
  Dids = {scout, bench, carol}
  Family = {scout, bench}
  Budgets = {1}
  Prices = {1}
  Credits = {1}
  MaxIssued = 1
  MaxPayouts = 1
  Overrides = {None, "independent"}
  Routers = {"local"}
  JobPosting = 0
  Orchestration = 0
  Completion = 0
  BenchValidation = 0
  RefundPostingFee = FALSE
  ProductionState = FALSE
  AllowSelfDeals = TRUE
  AllowSameOperatorDeals = TRUE
  SameOperatorIndependentReputation = FALSE
  TreatUnknownAsIndependent = FALSE
  None = None
SYMMETRY IdSymmetry
CHECK_DEADLOCK FALSE
INVARIANTS
  DealAgreement
  IndependenceIsEarned
  ProfilesMatchReceipts
