SPECIFICATION FairSpec
CONSTANTS
  MoveTime = 2
  BeginMoveTime = 1
  MaxWrites = 1
  HasOpenSensor = TRUE
  OutModes = {0, 1, 2}
INVARIANT TargetAgrees ObstructionInSync
PROPERTY ReportsSensors MovesEnd Settles
