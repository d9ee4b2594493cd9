SPECIFICATION FairSpec
CONSTANTS
  Groups = {1}
  Axes = {1, 2}
  Increments <- MCIncrements
  Durations = {0, 1, 3}
  MaxSegments = 2
  interpolPeriod = 2
  QSize = 2
  maxIncrement = 3
INVARIANTS NeverFaster LeftoverExact
PROPERTIES PeriodKept NothingLost StopIsFinal Settles
