SPECIFICATION Spec
CONSTANTS
  NumGroups = 2
  Incs = 1
  QSize = 1
  Kinds = {"good", "early"}
  MaxPoints = 3
  MaxStarts = 1
  MaxFaults = 1
PROPERTIES Continuous
CHECK_DEADLOCK FALSE
