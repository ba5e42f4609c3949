SPECIFICATION Spec
CONSTANTS
  x1 = x1  x2 = x2  x3 = x3  s1 = s1  s2 = s2
  d1 = d1  d2 = d2  p1 = p1  p2 = p2
  None = None  Home = Home
  Donors = {d1, d2}
  Names = {p1}
  DonorOf <- TwoDonors
  NameOf <- SameName
  Ignored = {}
  Budget <- Once
  Steals = {x1, x2}
  Stealers = {s1, s2}
SYMMETRY Thieves
INVARIANTS TypeOK ResultsAreTrue PlaceholderOutlivesPod
PROPERTIES ImplementsLife
CHECK_DEADLOCK FALSE
