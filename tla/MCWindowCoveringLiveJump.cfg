SPECIFICATION TimerSpec
CONSTANTS
  FullyOpen = 2
  Pct = 1
  MaxMoveTime = 2
  MaxRampUp = 1
  ObstructionTime = 0
  TimeCoeffTenths = 15
  MaxStall = 1
  HapTargets = {2}
  RpcStates = {"PreCal0", "Moving"}
  Readings = {"off", "run", "over"}
  InModes = {"single"}
  GarageDoor = TRUE
PROPERTY MovesEnd Settles
