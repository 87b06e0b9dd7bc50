\* Trips of one to four days, up to five attractions, days of four hours.
CONSTANTS
  Missing = Missing
  NoPage = NoPage
  NoPlace = NoPlace
  HalfPlace = HalfPlace
  a = a
  b = b
  c = c
  ExactLimit = 4
  DailyMinutes = 241
  PerMinute = 10
  MaxIterations = 12
  Asks <- MCAsks
  Forecasts <- MCForecasts
  Wikis <- MCWikis
  Places <- MCPlaces
  Durations <- Distance
SPECIFICATION Spec
INVARIANTS
  NothingLost
  DayFits
  ShortestDay
  PotentialsFeasible
  CheapestDays
  ClosedOnlyIfUnavoidable
PROPERTIES
  RecommendsBestWindow
  AlwaysCloser
