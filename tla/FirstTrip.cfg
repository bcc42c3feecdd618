SPECIFICATION Spec
CONSTANTS
  Member <- MCMember
  Scenes <- FirstTrip
  Dataset <- MCDataset
  Reader = {r1, r2}
  MaxFaults = 1
  EventsLimit = 2
  DayLen = 2
  Spellings = 2
  Lookback = 360
  TripWindow = 3
  TripMaxSpan = 30
  TripMinAwayAuthors = 2
  HomeBaseMinDays = 3
  HomeAreaMinEpisodes = 3
  HomeAreaMinMembers = 2
  GatheringMinPosts = 3
  GatheringMinAuthors = 2
  DominanceRatio = 10
  DominanceMaxDistance = 15
  DominanceMinPopulation = 5
  PlacePageCap = 2
  BaseCards = 2
  MaxCards = 3
  FillPerAuthor = 1
  RecapMinPosts = 2
  RecapMinPosters = 2
  MinutesPerDay = 2
  MonthLen = 5
  MonthPageCap = 2
  CoverCap = 1
  RecencyFloor = 2
  AgeFloor = 4
  EngagementCeiling = 1
  CandidateWindow = 2
INVARIANT FirstTripIsTold
CHECK_DEADLOCK FALSE
