SPECIFICATION TimerSpec
CONSTANTS
  FullyOpen = 4
  Pct = 2
  MaxMoveTime = 2
  MaxRampUp = 1
  ObstructionTime = 1
  TimeCoeffTenths = 15
  MaxStall = 1
  HapTargets = {1, 4}
  RpcStates = {"PreCal0", "Error"}
  Readings = {"off", "run", "over"}
  InModes = {"single"}
  GarageDoor = TRUE
PROPERTY MovesEnd Settles
