SPECIFICATION FairSpec
CONSTANTS
  r1 = r1  r2 = r2  r3 = r3  s1 = s1  s2 = s2
  d1 = d1  d2 = d2  p1 = p1  p2 = p2
  None = None  Pending = Pending  Local = Local
  Donors = {d1, d2}
  Pods = {p1}
  DonorOf <- TwoDonors
  PodOf <- SameName
  After <- Unordered
  Exposing = {r1}
  Ineligible = {}
  Unlabelled = {}
  Tries = 3
  Budget <- Trouble
  Requests = {r1, r2}
  Stealers = {s1}
PROPERTIES EveryRequestAnswered
CHECK_DEADLOCK FALSE
