CONSTANTS
  s1 = s1
  s2 = s2
  p1 = p1
  p2 = p2
  e1 = e1
  w1 = w1
  w2 = w2
  Slots = {s1, s2}
  Projects = {p1, p2}
  Employees = {e1}
  projectOf <- TwoSlotProjects
  employeeOf <- TwoSlotEmployee
  Workers = {w1, w2}
  Jobs = {1}
  Logged = {0, 1, 2}
  hoursOf <- MCHoursOfTwo
  Rates = {3}
  NoRate = NoRate
  NoSlot = NoSlot
  MaxEntries = 2
SPECIFICATION ExclusiveSpec
SYMMETRY WorkerSymmetry
INVARIANTS
  BookedAtMostOnce
  BookedAsApproved
PROPERTIES
  ApprovedIsFinal
  KeepsPromise
