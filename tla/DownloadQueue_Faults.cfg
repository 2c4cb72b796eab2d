CONSTANTS
  v1 = v1
  v2 = v2
  NoVideo = NoVideo
  Videos = {v1, v2}
  MaxJobs = 2
  MaxAttempts = 2
  Pasted = {v1}
  Listed = {v1}
  Automatic = {v1}
  Kept = {v1}
  Cancels = TRUE
  Deletes = {}
  Gates = FALSE
  MaxRequests = 1
  MaxCrashes = 0
  MaxShutdowns = 0
  MaxFaults = 2
  MaxPanics = 1
SPECIFICATION Spec
INVARIANTS
  BudgetKept
PROPERTIES
  DiscardLosesNothing
