SPECIFICATION FairSpec
CONSTANTS
  Configs <- MCConfigs
  DetachedConfigs <- MCClicks
INVARIANTS
  StateIsKept
  HomeInSync
  NoPhantomClicks
  SensorsTrack
  AutoOffIsKept
PROPERTIES
  ComesToRest
