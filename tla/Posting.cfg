CONSTANTS
  s1 = s1
  s2 = s2
  Statements = {s1, s2}
  Near <- MCNear
  Backoffs = 1
  MaxWorks = 2
  MaxEdits = 1
  MaxFaults = 2
SPECIFICATION ClientFairSpec
INVARIANTS ClientTypeOK NoHumanIsLost AppliedOnce
PROPERTIES FinishedWorkIsKept NearVetoesStand CheckpointsAreSettled
CHECK_DEADLOCK FALSE
