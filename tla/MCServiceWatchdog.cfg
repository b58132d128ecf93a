SPECIFICATION Spec
CONSTANTS
  plain = plain
  detached = detached
  Settings = {plain, detached}
  MaxWait = 1
  Timeout = 1
PROPERTY RebootsOffline
