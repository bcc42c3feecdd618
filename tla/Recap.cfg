SPECIFICATION Spec
CONSTANTS
  Scheduler = {s1, s2}
  Request = {r1, r2}
  Member = {ann}
  Settings <- MCSettings
  ManualPeriods <- MCManualPeriods
  SlotsPerHour = 2
  HoursPerDay = 2
  DaysPerWeek = 2
  FirstOfMonth <- MCFirstOfMonth
  MonthBefore <- MCMonthBefore
  MinCheckIns <- MCMinCheckIns
  MinPosts = 1
  MinPosters = 1
  Since = 2
  StartTime = 9
  MaxNow = 11
  MaxCheckIns = 1
  MaxRecaps = 2
INVARIANTS TypeOK CheckHolds WeeklyWindowsDisjoint ManualDuplicateNeedsReplace ReplaceTargetsSameRecap PushedOnceAndNeverForReplace
PROPERTY LedgerSpec
CHECK_DEADLOCK FALSE
SYMMETRY JobSymmetry
CONSTANT MaxActive = 2
