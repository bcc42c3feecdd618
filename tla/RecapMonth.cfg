SPECIFICATION Spec
CONSTANTS
  Scheduler = {s1}
  Request = {}
  Member = {ann}
  Settings <- MCEast
  ManualPeriods = {}
  SlotsPerHour = 1
  HoursPerDay = 24
  DaysPerWeek = 7
  FirstOfMonth <- CivilFirstOfMonth
  MonthBefore <- CivilMonthBefore
  MinCheckIns <- MCMinCheckIns
  MinPosts = 1
  MinPosters = 1
  Since = 0
  StartTime = 2158
  MaxNow = 2160
  MaxCheckIns = 1
  MaxRecaps = 1
  MaxActive = 1
INVARIANT MonthStartsOnFirst
CHECK_DEADLOCK FALSE
