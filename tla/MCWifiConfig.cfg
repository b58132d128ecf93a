SPECIFICATION FairSpec
CONSTANTS
  home = home
  guest = guest
  none = none
  default = default
  custom = custom
  Networks = {home, guest}
  Off = none
  APNames = {default, custom}
  DefaultAP = default
  PsModes = {1}
  Configs <- LiveConfigs
  Reachable = {home}
  Timeout = 1
INVARIANT OnlyProven
PROPERTY ImplementsTrial TrialEnds Reconnects SetupAPComesUp
