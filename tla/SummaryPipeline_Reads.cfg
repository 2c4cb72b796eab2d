SPECIFICATION Spec
CONSTANTS
  MaxJobs = 1
  MaxAttempts = 2
  MaxRungs = 1
  MaxDownloads = 0
  MaxSwitches = 2
  MaxRedos = 0
  MaxRetries = 1
  MaxCrashes = 0
  MaxShutdowns = 1
  Ignores = TRUE
  Blanks = FALSE
CHECK_DEADLOCK FALSE
INVARIANTS
  SwitchOffHolds
PROPERTIES
  SummarySettles
