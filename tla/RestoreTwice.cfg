CONSTANTS
  Restores = {r1}
  None = None
  JobsMayFail = FALSE
  JobsMayGo = TRUE
  MaxMishaps = 0
SPECIFICATION Spec
INVARIANT RunsAtMostOnce
