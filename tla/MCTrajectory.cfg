SPECIFICATION Spec
CONSTANTS
  Joints = {"s", "e"}
  GroupOf <- MCGroupOf
  Unknown = "x"
  MaxPoints = 3
  Stamps <- MCStamps
INVARIANT VerdictExact
INVARIANT BufferComplete
INVARIANT RejectedMovesNothing
INVARIANT EveryPointWalked
CHECK_DEADLOCK FALSE
