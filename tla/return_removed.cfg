SPECIFICATION FairSpec
CONSTANTS
  x1 = x1  x2 = x2  x3 = x3  s1 = s1  s2 = s2
  d1 = d1  d2 = d2  p1 = p1  p2 = p2
  None = None  Home = Home
  Donors = {d1}
  Names = {p1, p2}
  DonorOf <- OneDonor
  NameOf <- ThirdElse
  Ignored = {p2}
  Budget <- Calm
  Steals = {x1, x2, x3}
  Stealers = {s1}
INVARIANTS HomePodsKept
PROPERTIES PlaceholderRemoved
CHECK_DEADLOCK FALSE
