SPECIFICATION Spec
CONSTANTS
  ann = ann
  bob = bob
  Member = {ann, bob}
  Poster = {bob}
  Request = {q1}
  InitPrefs <- MCInitPrefs
  Patches <- MCOnePatch
  MomentsPerSlot = 2
  SlotsPerHour = 2
  HoursPerDay = 2
  Quiet = 4
  StartTime = 4
  MaxNow = 18
  MaxOpen = 1
  MaxPosts = 2
  MaxChanges = 1
INVARIANTS TypeOK WindowsTile SummarisedDaily
PROPERTIES OneSummaryPerDay NeverToldTwice
CHECK_DEADLOCK FALSE
