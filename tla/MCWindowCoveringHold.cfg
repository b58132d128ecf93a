SPECIFICATION Spec
CONSTANTS
  FullyOpen = 4
  Pct = 2
  MaxMoveTime = 2
  MaxRampUp = 1
  ObstructionTime = 1
  TimeCoeffTenths = 15
  MaxStall = 1
  HapTargets <- Limits
  RpcStates = {"PreCal0"}
  Readings = {"off", "run"}
  InModes = {"single"}
  GarageDoor = FALSE
PROPERTY HoldHolds
