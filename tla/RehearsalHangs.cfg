CONSTANTS
  Images = {i1}
  MaxEdits = 0
  MaxFailures = 0
SPECIFICATION HangSpec
PROPERTY HangingIsFailed
