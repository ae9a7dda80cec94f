CONSTANTS
  r1 = r1
  r2 = r2
  Runs = {r1, r2}
  Reviewers = {r1}
  MaxRev = 2
  MaxVersion = 3
  MaxFails = 1
SPECIFICATION FairSpec
INVARIANTS ReviewsReadTheEdits
PROPERTIES PinsOnlyAdvance UpstreamChangesAreListed
CHECK_DEADLOCK FALSE
