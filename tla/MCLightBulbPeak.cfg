SPECIFICATION Spec
CONSTANTS
  MinMultiplier = 60
  MaxMultiplier = 100
  TemperatureOfNaN = 400
  Types = {"cct"}
  Configs <- MCConfigs
  Times = {0, 2}
  Brightnesses = {50, 100}
  Hues = {90, 330}
  Saturations = {0, 60}
  Temperatures = {70}
  Tables <- PeakTables
INVARIANTS ShowsSetting ManualWins FollowsCurve
