CONSTANTS
  q1 = q1  q2 = q2  q3 = q3
  i1 = i1  i2 = i2  i3 = i3  i4 = i4
  article = article  annotation = annotation
  r1 = r1  r2 = r2  located = located  new = new
  Requests = {q1, q2, q3}
  Ids = {i1, i2, i3, i4}
  Targets = {article, annotation}
  Cap = 2
  MaxLost = 2
  Users = {"ann", "ben", "agent"}
  AccountOf <- MCAccountOf
  Pairs = {located, new}
  Located = {located}
  TagRequests = {r1, r2}
  DailyCap = 1
  MaxVersion = 2
SPECIFICATION TablesSpec
INVARIANTS TablesTyped FlagsBounded CountNeverLow RowsBounded
PROPERTIES HumanRowsStand ReplacesWhatWasSeen
SYMMETRY MCSymmetry
CHECK_DEADLOCK FALSE
