CONSTANTS
  t1 = t1  t2 = t2  d1 = d1  d2 = d2  bad = bad
  a = a  b = b  n1 = n1  n2 = n2
  Tasks = {t1, t2}
  Docs = {d1, d2, bad}
  Sound = {d1, d2}
  MaxAttempts = 2
  MaxRuns = 3
  Machines = {1, 2}
  Packages = {a, b}
  MaxClaims = 2
  Names = {n1, n2}
  Coordinator = 1
  MaxHarvests = 2
  MaxSends = 2
SPECIFICATION MCSpec
INVARIANTS CorpusIsGated OneStartsAFreePackage StartedIsOnRemote NoBlindTakeOver CollectedIsOneResult
PROPERTIES PassedRunIsSealable
SYMMETRY MCSymmetry
CHECK_DEADLOCK FALSE
