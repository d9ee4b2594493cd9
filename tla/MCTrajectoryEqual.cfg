SPECIFICATION Spec
CONSTANTS
  Joints = {"s", "e"}
  GroupOf <- MCGroupOf
  Unknown = "x"
  MaxPoints = 3
  Stamps <- MCStamps
INVARIANT OnlyWellFormed
CHECK_DEADLOCK FALSE
