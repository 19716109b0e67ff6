\* A job that stays although its buyer could not pay for posting it.
SPECIFICATION Spec
CONSTANTS
  JobIds = {j1}
  OfferIds = {o1, o2}
  DealIds = {d1, d2}
  Results = {r1}
  Dids = {alice, bob}
  Family = {}
  Budgets = {2}
  Prices = {1, 2, 3}
  Credits = {1, 3}
  MaxIssued = 7
  MaxPayouts = 3
  Overrides = {None, "independent", "same_operator", "related", "unknown"}
  Routers = {"stub"}
  JobPosting = 1
  Orchestration = 1
  Completion = 1
  BenchValidation = 1
  RefundPostingFee = TRUE
  ProductionState = FALSE
  AllowSelfDeals = TRUE
  AllowSameOperatorDeals = TRUE
  SameOperatorIndependentReputation = FALSE
  TreatUnknownAsIndependent = FALSE
  None = None
SYMMETRY IdSymmetry
CHECK_DEADLOCK FALSE
INVARIANT
  PostedMeansFeePaid
