SPECIFICATION FairSpec
CONSTANTS
  NumGroups = 1
  Points = 3
  Incs = 1
  QSize = 1
  StopPolls = 1
  MaxGoals = 2
  MaxFaults = 1
INVARIANTS TypeOK EndedGoalIsStill BufferOwned
PROPERTIES StopNeverRejects EndedGoalGoesNoFurther GoalEnds
CHECK_DEADLOCK FALSE
