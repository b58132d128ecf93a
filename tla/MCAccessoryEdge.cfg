SPECIFICATION Spec
CONSTANTS
  Configs <- MCToggle
  DetachedConfigs <- MCDetached
INVARIANT
  EdgesAreHeard
