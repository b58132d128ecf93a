SPECIFICATION FairSpec
CONSTANTS
  Configs <- MCConfigs
  DetachedConfigs <- MCDetached
INVARIANTS
  StateIsKept
  HomeInSync
  NoPhantomClicks
  SensorsTrack
  AutoOffIsKept
PROPERTIES
  ComesToRest
