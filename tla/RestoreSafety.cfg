CONSTANTS
  Restores = {r1, r2}
  None = None
  JobsMayFail = TRUE
  JobsMayGo = FALSE
  MaxMishaps = 0
SYMMETRY Symmetry
SPECIFICATION Spec
INVARIANTS TypeOK ReplacedOnlyWhilePaused
PROPERTY OnlyTheOwnerResumes
