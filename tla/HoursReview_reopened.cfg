CONSTANTS
  s1 = s1
  s2 = s2
  p1 = p1
  p2 = p2
  e1 = e1
  w1 = w1
  w2 = w2
  Slots = {s1}
  Projects = {p1}
  Employees = {e1}
  projectOf <- OneSlotProject
  employeeOf <- OneSlotEmployee
  Workers = {w1, w2}
  Jobs = {1}
  Logged = {0, 1, 2}
  hoursOf <- MCHoursOfTwo
  Rates = {3}
  NoRate = NoRate
  NoSlot = NoSlot
  MaxEntries = 2
SPECIFICATION Spec
PROPERTY ApprovedNeverReopened
