SPECIFICATION FairSpec
CONSTANTS
  plain = plain
  detached = detached
  Settings = {plain, detached}
  MaxWait = 1
  Timeout = 1
INVARIANT Inhibited UpdateUndisturbed HomeNotices ShowsConfig
PROPERTY ServiceResumes
