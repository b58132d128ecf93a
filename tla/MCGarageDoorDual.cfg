SPECIFICATION Spec
CONSTANTS
  MoveTime = 2
  BeginMoveTime = 1
  MaxWrites = 1
  HasOpenSensor = FALSE
  OutModes = {1}
PROPERTY PulseMatches
