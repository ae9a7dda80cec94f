CONSTANTS
  a1 = a1  w1 = w1  w2 = w2  p1 = p1
  old = old  none = none
  c1 = c1  c2 = c2  c3 = c3
  Attempts = {a1}
  NoAttempt = NoAttempt
  Others = {w1, w2}
  Selectors = {old, none}
  SelectorOf <- MCFirst
  Absent = none
  Healthy = {a1}
  Procs = {p1}
  NoProc = NoProc
  NoReview = NoReview
  MaxDeployments = 3
  MaxKills = 2
  Calls = {c1, c2, c3}
  Prices = {1, 2}
  Estimate = 1
  Fallback = 3
  Cap = 3
  RateFloor = 2
  SettleChecks = 2
  Options = {"once", "noSettle"}
  MaxStarts = 2
SPECIFICATION MCSpec
INVARIANTS ExitMeansDrained SettledExitHolds
PROPERTIES AttemptsClose OverCapIsDrained
CHECK_DEADLOCK FALSE
