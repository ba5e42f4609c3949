SPECIFICATION Spec
CONSTANTS
  r1 = r1  r2 = r2  r3 = r3  s1 = s1  s2 = s2
  d1 = d1  d2 = d2  p1 = p1  p2 = p2
  None = None  Pending = Pending  Local = Local
  Donors = {d1}
  Pods = {p1, p2}
  DonorOf <- OneDonor
  PodOf <- TwoNames
  After <- Unordered
  Exposing = {}
  Ineligible = {}
  Unlabelled = {}
  Tries = 3
  Budget <- Redeliveries
  Requests = {r1, r2}
  Stealers = {s1, s2}
INVARIANTS ProcessedOnce
CHECK_DEADLOCK FALSE
