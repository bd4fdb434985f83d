SPECIFICATION MCSpec
CONSTANTS
  None = None
  People = {ann, bob}
  Admins = {ann}
  Requests = {r1, r2}
  MaxPairs = 2
  MaxEras = 2
  RefreshOnce = TRUE
  Staff = {1, 2, 3}
  Pulls = {r1, r2}
  PageSize = 2
  Installer = 1
  MaxChanges = 2
  NoToken = NoToken
  Visitors = {cyd, dan}
  Tabs = {r1, r2}
  Life = 2
  OperatorLife = 3
  LastHour = 3
  MaxOpenings = 2
  Capacity = 3
  PerSecond = 3
  Costs = {1, 3}
  Jumps = {1, 4}
  LastTick = 12
  NoDate = NoDate
  Kinds = {"PRO", "IMPLEMENTATION"}
  Senders = {r1, r2}
  Operators = {op}
  MaxLeads = 2
  MaxGrants = 2
  LastDay = 2
  Wizards = {r1, r2}
  CrmSections = {s1, s2}
  SmartSections = {s2}
  AppSections = {k1}
  MaxSaves = 1
  MaxSwitches = 1
SYMMETRY Symmetry
INVARIANTS
  LimitAsPromised
  PlansAsTold
  SetupInForce
PROPERTIES
  PortalStaysUsable
  DirectoryFollowsBitrix
  ServedAsOpened
  WaysLeadThere
CHECK_DEADLOCK FALSE
