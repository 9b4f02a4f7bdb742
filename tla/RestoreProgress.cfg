CONSTANTS
  Restores = {r1}
  None = None
  JobsMayFail = TRUE
  JobsMayGo = TRUE
  MaxMishaps = 1
SPECIFICATION FairSpec
PROPERTIES TerminalIsFinal JobEndIsSeen
