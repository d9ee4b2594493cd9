SPECIFICATION JobSpec
CONSTANTS
  MAX_CONTROLLABLE_GROUPS = 3
  MAX_GROUP_COMBINATIONS = 2
  MAX_GROUP_ITEMS_IN_COMBINATION = 3
  MP_GRP_AXES_NUM = 8
  MAX_PULSE_AXES = 8
  NamesPerCopy = 4
  Chunks = 2
  Files <- MCFiles
  Networks <- MCNetworks
  Controllers <- MCControllers
  Pulses <- MCPulses
  PulseToRad <- MCPulseToRad
  PulseToMeter <- MCPulseToMeter
INVARIANT GatewayAccepted
CHECK_DEADLOCK FALSE
