CONSTANTS
  DataType = "Demo"
  HasEngine = FALSE
  Ephemeral = TRUE
  HasHost = TRUE
  Restores = {}
  None = None
  RoundTripBumps = TRUE
  ExpiryMayFail = FALSE
  JobsMayFail = TRUE
  MaxEdits = 0
SPECIFICATION TTLSpec
PROPERTY ExpiredIsDestroyed
