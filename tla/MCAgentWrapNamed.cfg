CONSTANTS
  Versions = {v1, v2}
  Stamps = {t1}
  None = None
  MaxWraps = 2
  MaxFaults = 0
SPECIFICATION Spec
PROPERTIES
  EveryPruneIsSafe
CHECK_DEADLOCK FALSE
