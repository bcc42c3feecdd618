SPECIFICATION Spec
CONSTANTS
  Scheduler = {s1}
  Request = {}
  Member = {ann}
  Settings <- MCWeeklyOnly
  ManualPeriods = {}
  SlotsPerHour = 2
  HoursPerDay = 2
  DaysPerWeek = 2
  FirstOfMonth <- MCFirstOfMonth
  MonthBefore <- MCMonthBefore
  MinCheckIns <- MCMinCheckIns
  MinPosts = 1
  MinPosters = 1
  Since = 2
  StartTime = 9
  MaxNow = 11
  MaxCheckIns = 1
  MaxRecaps = 2
  MaxActive = 1
INVARIANT OneScheduledEver
CHECK_DEADLOCK FALSE
