SPECIFICATION Spec
CONSTANTS
  FullyOpen = 5
  Pct = 2
  MaxMoveTime = 2
  MaxRampUp = 1
  ObstructionTime = 0
  TimeCoeffTenths = 10
  MaxStall = 1
  HapTargets = {5}
  RpcStates = {"PreCal0"}
  Readings = {"error", "off", "run", "over"}
  InModes = {"toggle", "single"}
  GarageDoor = FALSE
INVARIANT TypeOK NoOverlap CrashSafeCalibration CalibrationIsMeasured ReportedDirection
PROPERTY NoSuddenReversal NoUnaskedStart TapStops
