SPECIFICATION Spec
CONSTANTS
  home = home
  guest = guest
  none = none
  default = default
  custom = custom
  Networks = {home}
  Off = none
  APNames = {default, custom}
  DefaultAP = default
  PsModes = {1}
  Configs <- APConfigs
  Reachable = {home}
  Timeout = 1
INVARIANT SettledIsSaved
