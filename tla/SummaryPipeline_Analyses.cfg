SPECIFICATION Spec
CONSTANTS
  MaxJobs = 2
  MaxAttempts = 1
  MaxRungs = 1
  MaxDownloads = 1
  MaxSwitches = 0
  MaxRedos = 1
  MaxRetries = 0
  MaxCrashes = 1
  MaxShutdowns = 0
  Ignores = FALSE
  Blanks = TRUE
CHECK_DEADLOCK FALSE
INVARIANTS
  NothingForgotten
  IndexHasChapters
  DeepOwed
