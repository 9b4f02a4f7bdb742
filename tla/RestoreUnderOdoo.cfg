CONSTANTS
  Restores = {r1}
  None = None
  JobsMayFail = FALSE
  JobsMayGo = FALSE
  MaxMishaps = 0
SPECIFICATION Spec
INVARIANT NotUnderARunningOdoo
