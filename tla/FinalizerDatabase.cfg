CONSTANTS
  MaxLives = 1
  MaxFailures = 0
  MaxTouches = 0
  DropMayFail = FALSE
SPECIFICATION Spec
PROPERTY DatabaseGoes
