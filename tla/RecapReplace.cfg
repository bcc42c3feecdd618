SPECIFICATION Spec
CONSTANTS
  Scheduler = {}
  Request = {r1, r2}
  Member = {ann}
  Settings <- MCWeeklyOnly
  ManualPeriods <- MCManualPeriods
  SlotsPerHour = 2
  HoursPerDay = 2
  DaysPerWeek = 2
  FirstOfMonth <- MCFirstOfMonth
  MonthBefore <- MCMonthBefore
  MinCheckIns <- MCMinCheckIns
  MinPosts = 1
  MinPosters = 1
  Since = 2
  StartTime = 9
  MaxNow = 11
  MaxCheckIns = 1
  MaxRecaps = 3
  MaxActive = 2
INVARIANT NeverSilentlyDuplicated
CHECK_DEADLOCK FALSE
