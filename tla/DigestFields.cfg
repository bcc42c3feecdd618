SPECIFICATION Spec
CONSTANTS
  ann = ann
  bob = bob
  Member = {ann, bob}
  Poster = {bob}
  Request = {q1, q2}
  InitPrefs <- MCInitPrefs
  Patches <- MCPatches
  MomentsPerSlot = 2
  SlotsPerHour = 2
  HoursPerDay = 2
  Quiet = 4
  StartTime = 4
  MaxNow = 14
  MaxOpen = 1
  MaxPosts = 1
  MaxChanges = 2
PROPERTY OmittedFieldsKept
CHECK_DEADLOCK FALSE
