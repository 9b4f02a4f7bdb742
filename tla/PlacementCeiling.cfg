CONSTANTS
  Instances = {1}
  Databases = {d1, d2}
  MaxDatabases = 1
  Reserves = FALSE
  None = None
  MaxFailures = 0
SPECIFICATION Spec
INVARIANT HardCeiling
CHECK_DEADLOCK FALSE
