CONSTANTS
  p1 = p1
  p2 = p2
  w1 = w1
  w2 = w2
  NoProject = NoProject
  NoAmount = NoAmount
  Projects = {p1, p2}
  Workers = {w1}
  Jobs = {1}
  DealAmounts = {1, 2}
  Edits = {"text", "sum", "hours", "move"}
  EditAmounts = {3}
  MaxEntries = 1
SPECIFICATION Spec
SYMMETRY ProjectSymmetry
PROPERTIES
  BooksFollowDecisions
