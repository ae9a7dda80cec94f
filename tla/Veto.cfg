CONSTANTS
  c1 = c1
  c2 = c2
  veto = veto
  a1 = a1
  a2 = a2
  s1 = s1
  s2 = s2
  r1 = r1
  r2 = r2
  g1 = g1
  n1 = n1
  AnnIds = {a1, a2}
  Anchors = {s1, s2}
  Contents = {c1, veto}
  Tombstones = {veto}
  NoAnn = NoAnn
  Agents = {g1}
  Runs = {}
  NoRun = NoRun
  PropIds = {}
  NoProp = NoProp
  Reqs = {r1, r2}
  Ops = {"session", "bot", "agent"}
  MaxVersion = 2
  MaxPending = 2
  AgentCap = 1
SPECIFICATION Spec
INVARIANTS HumanWorkHasAPerson
PROPERTIES NewHeedVetoes
SYMMETRY MCAllSymmetry
