CONSTANTS
  a1 = a1  a2 = a2  w1 = w1  w2 = w2
  p1 = p1  p2 = p2
  g1 = g1  g2 = g2  u1 = u1  u2 = u2  o1 = o1  o2 = o2
  old = old  none = none
  Attempts = {a1, a2}
  NoAttempt = NoAttempt
  Others = {w1, w2}
  Selectors = {old, none}
  SelectorOf <- MCFirst
  Absent = none
  Healthy = {a1}
  Procs = {p1, p2}
  NoProc = NoProc
  NoReview = NoReview
  MaxDeployments = 3
  MaxKills = 2
  Operators = {o1, o2}
  Builds = {1, 2}
  Pages = {g1, g2}
  Universes = {u1, u2}
  PagesOf <- MCPagesOf
  UniverseOf <- MCUniverseOf
  MaxRuns = 3
SPECIFICATION MCSpec
INVARIANTS StoreTypeOK NothingDangles CurrentIsWhole DoneMeansExact QualifiedWhenDeployed
PROPERTIES OnlyRollbackGoesBack LedgerRefinement
SYMMETRY MCSymmetry
CHECK_DEADLOCK FALSE
