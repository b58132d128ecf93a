SPECIFICATION FairSpec
CONSTANTS
  MinMultiplier = 60
  MaxMultiplier = 100
  TemperatureOfNaN = 400
  Types = {"cct", "rgbw"}
  Configs <- MCConfigs
  Times = {0, 2}
  Brightnesses = {50, 100}
  Hues = {90, 330}
  Saturations = {0, 60}
  Temperatures = {70}
  Tables <- MCTables
INVARIANTS ShowsSetting ManualWins FollowsCurve
PROPERTIES Settles
