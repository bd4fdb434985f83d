CONSTANTS
  None = None
  Completed = Completed
  Declined = Declined
  NoLimit = NoLimit
  NoRate = NoRate
  HoursPerDay = 6
  DaysPerWeek = 3
  MonthDays <- AYear
  MaxPeriodDays = 4
  Zones <- SmallZones
  FirstInstant = 9
  LastInstant = 26
  ActiveZones <- OneZone
  ActiveUntil = 10
  People = {ana, boris}
  Boards = {p1}
  MaxItems = 3
  DayCounts = {1, 3}
  Seconds = {0, 17, 18, 19, 1200, 3000, 3599, 3600, 3601, 7200, 9017}
  Fees = {0, 2000}
  HourRates = {0, 1, 99, 30001}
  Limits = {0, 3600, 7000}
  WorkerRates = {0, 3, 15003}
  Keep = Keep
  DaysForDailyChart = 1
  DaysForWeeklyChart = 2
  Reqs = {r1, r2}
  Users = {"boss", "ann"}
  ActorOf <- Actors
  Projects <- SomeProjects
  Entries = {1, 2, 3}
  Facts <- SomeFacts
  ThisDay = 0
  Portals = {"here", "there"}
  Cats = {1, 2, 3, 4}
  Streams = {1, 2, 3}
  Names = {"n1", "n2"}
  FirstCats <- SomeCats
  FirstStreams <- SomeStreams
  FirstEntries <- SomeEntries
  MaxOps = 3
SYMMETRY SameForAll
SPECIFICATION MCSpec
INVARIANTS
  AnalyticsAgree
  CalendarFits
  ReadersAgree
PROPERTIES
  MonthAsAgreed
  BooksFit
CHECK_DEADLOCK FALSE
