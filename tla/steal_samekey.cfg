SPECIFICATION Spec
CONSTANTS
  r1 = r1  r2 = r2  r3 = r3  s1 = s1  s2 = s2
  d1 = d1  d2 = d2  p1 = p1  p2 = p2
  None = None  Pending = Pending  Local = Local
  Donors = {d1}
  Pods = {p1}
  DonorOf <- OneDonor
  PodOf <- SameName
  After <- Unordered
  Exposing = {}
  Ineligible = {}
  Unlabelled = {}
  Tries = 2
  Budget <- Impatience
  Requests = {r1, r2}
  Stealers = {s1, s2}
SYMMETRY Stealing
INVARIANTS TypeOK OfferNotLost OneWinnerPerOffer NoRunOnOpenOffer
CHECK_DEADLOCK FALSE
