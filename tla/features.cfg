SPECIFICATION WalkSpec
CONSTANTS
  FirstYear = 1899
  LastYear = 2001
  Profiles <- ThreeProfiles
  NanAsInt <- Nan
  Times <- TwoTimes
  MaxAhead = 1
  MaxBack = 1
INVARIANTS
  DaysCounted
  WeekdayRight
  HistoryRight
  DistanceFits
