SPECIFICATION AnswersSpec
CONSTANTS
  Joints = {"s", "e"}
  Unknown = "x"
  Positions = {0, 2}
  PosTolerances <- MCPosTolerances
  DefaultPosition = 1
  Times = {4, 5, 6, 7, 12, 20}
  TimeTolerances = {0, 1}
  DefaultTime = 2
  MaxTolerances = 2
  IntWidth = 4
  AddressWidth = 24
  BitAddresses = {10, 17, 18, 10010, 10016, 15128, 27017, 1000005}
  GroupAddresses = {1, 512, 513, 1001, 1512, 2701, 100000, 1678723}
  RegisterAddresses = {0, 559, 560, 999, 1000, 1000559}
  BitValues = {0, 1, 2}
  GroupValues = {0, 166, 255, 256}
  RegisterValues = {0, 258, 65535, 65536}
  MaxRequests = 2
INVARIANT VerdictExact
INVARIANT AccessConfined
PROPERTY ReadBack
CHECK_DEADLOCK FALSE
