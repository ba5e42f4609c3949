SPECIFICATION AccessSpec
CONSTANTS
  r1 = r1  r2 = r2  r3 = r3  s1 = s1  s2 = s2
  d1 = d1  d2 = d2  p1 = p1  p2 = p2
  None = None  Pending = Pending  Local = Local
  Donors = {d1}
  Pods = {p1}
  DonorOf <- OneDonor
  PodOf <- SameName
  After <- Recreation
  Exposing = {r1, r2}
  Ineligible = {}
  Unlabelled = {}
  Tries = 2
  Budget <- Restless
  Requests = {r1, r2}
  Stealers = {s1, s2}
  LabelsOf <- AppAndTier
  Selectors <- OwnService
  Mishaps <- AnyMishap
SYMMETRY Stealing
INVARIANTS AccessTypeOK FqdnIsExported
CHECK_DEADLOCK FALSE
