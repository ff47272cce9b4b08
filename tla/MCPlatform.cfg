SPECIFICATION MCSpec
CONSTANTS
  n1 = n1
  n2 = n2
  a2 = a2
  j1 = j1
  j2 = j2
  c1 = c1
  c2 = c2
  x1 = x1
  x2 = x2
  y1 = y1
  y2 = y2
  None = None
  NoRun = NoRun
  JobTypes = {j1, j2}
  Narrowed = {}
  Schedules <- FourSchedules
  HourLen = 3
  DayLen = 2
  WeekLen = 1
  MonthLen = 4
  ScanWindow = 7
  Grace = 1
  StuckFloor = 2
  BeatStale = 2
  PageRuns = 2
  LastMinute = 5
  MaxRuns = 2
  MaxCrashes = 1
  Readers = {c1, c2}
  Watched = {y1, y2}
  ListRuns = {j1}
  Contents = {{}, {c1}}
  MaxDesignations = 3
  MaxListChanges = 1
  MaxFaults = 1
  Members = {x1, x2}
  Users = {j1}
  Operations = {a2}
  Names = {n1, n2}
  PageSize = 1
  MaxRows = 2
  MaxEdits = 3
  Pilots = {y1, y2}
  Locators = {x1, x2}
  Docks = {j1}
  Cadence = 1
  PushDue = 1
  NameTTL = 1
  MaxClock = 2
  MaxGrants = 1
  PushTimes = {0, 1}
  ShownAt = 2
  t1 = t1
  t2 = t2
  t3 = t3
  Txs = {t1, t2, t3}
  Accounts = {1, 2}
  Chars = {1, 2}
  Fleets = {1}
  Sources = {1, 2}
  Devices = {1, 2}
  OwnerOf <- OneTwo
  BossOf <- OneTwo
  ViaOf <- OneTwo
  AccountOf <- OneTwo
  HolderOf <- OneTwo
  Retries = 3
  Idle = Idle
SYMMETRY Symmetry
INVARIANTS  NoCircularWait NothingLeftBehind
CHECK_DEADLOCK FALSE
