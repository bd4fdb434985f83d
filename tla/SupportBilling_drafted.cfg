CONSTANTS
  e1 = e1
  e2 = e2
  w1 = w1
  w2 = w2
  NoEmployee = NoEmployee
  NoData = NoData
  NoRate = NoRate
  NoLimit = NoLimit
  Employees = {e1, e2}
  Workers = {w1}
  Activities <- Meeting
  Attendees = {e2}
  rates <- OneRate
  fee = 0
  hourRate = 3000
  limit = NoLimit
  MaxEntries = 4
  FormProjects = {"f1", "f2"}
  Directions = {"d1", "d2"}
  HomeOf <- HomeOfDirection
  Texts = {"text"}
  Blank = "blank"
  MaxPending = 2
SPECIFICATION MCSpec
INVARIANT HoursCountedOnce
