\* Commands side by side: an offer that was being submitted undoes an award.
SPECIFICATION Spec
CONSTANTS
  Procs = {p1, p2}
  JobIds = {j1}
  OfferIds = {o1, o2}
  DealIds = {d1, d2}
  Dids = {a, b}
  Keys = {k1, k2}
  NoKey = NoKey
  MaxPayouts = 2
  None = None
SYMMETRY ProcessSymmetry
CHECK_DEADLOCK FALSE
PROPERTY
  AcceptedNeverReopens
