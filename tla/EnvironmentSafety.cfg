CONSTANTS
  DataType = "Snapshot"
  HasEngine = FALSE
  Ephemeral = TRUE
  HasHost = TRUE
  Restores = {r1}
  None = None
  RoundTripBumps = TRUE
  ExpiryMayFail = TRUE
  JobsMayFail = TRUE
  MaxEdits = 1
SPECIFICATION Spec
INVARIANTS TypeOK ServedOnlyHardened PhaseRunsOnItsInput
PROPERTIES NoPhaseOnceOpened PauseSurvivesPasses NothingForgotten ExpiryIsRecorded KeepsTheGate
