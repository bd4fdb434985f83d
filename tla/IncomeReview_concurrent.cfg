CONSTANTS
  p1 = p1
  p2 = p2
  w1 = w1
  w2 = w2
  NoProject = NoProject
  NoAmount = NoAmount
  Projects = {p1}
  Workers = {w1, w2}
  Jobs = {1}
  DealAmounts = {1, 2}
  Edits = {"text"}
  EditAmounts = {3}
  MaxEntries = 2
SPECIFICATION FairSpec
INVARIANTS
  OneIncomePerProject
PROPERTIES
  UnchangedDealKeepsDecision
  DealReachesDraft
