SPECIFICATION MCSpec
CONSTANTS
  None = None
  ByName <- MCByName
  Digits = 3
  Managers = {u1, u2}
  Channels = {c1}
  Days = {1, 2}
  Months = {1, 2}
  monthOf <- MCMonthOf
  Periods <- MCPeriods
  SpendIds = {1, 2, 3}
  Sums = {2}
  Fields = {f1, f2}
  Numbers = {1}
  MaxRequests = 3
  PageLen = 2
  MaxRows = 6
  MaxElement = 7
  FirstElements = {0, 4, 6}
  Elements = {e1, e2}
  Tasks = {1, 2}
  TaskPage = 1
  Client = Client
  MaxTasks = 2
  MaxChanges = 1
  Keys = {k1, k2, k3}
  Syncs = {r1, r2}
  MaxDeals = 1
  Editors = {u1, u2}
  SectionStages = {s1, s2}
  HourField = HourField
  MinuteField = MinuteField
  NoField = NoField
SYMMETRY Symmetry
INVARIANTS
  MarketingFits
  WalkSound
  SnapshotOfOneReading
  SettingsInForce
PROPERTIES
  HandWrittenSound
  LoadCountsOnce
CHECK_DEADLOCK FALSE
