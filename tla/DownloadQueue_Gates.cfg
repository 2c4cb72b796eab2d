CONSTANTS
  v1 = v1
  v2 = v2
  NoVideo = NoVideo
  Videos = {v1, v2}
  MaxJobs = 2
  MaxAttempts = 2
  Pasted = {v1}
  Listed = {v1, v2}
  Automatic = {}
  Kept = {v1}
  Cancels = FALSE
  Deletes = {"video"}
  Gates = TRUE
  MaxRequests = 2
  MaxCrashes = 0
  MaxShutdowns = 0
  MaxFaults = 0
  MaxPanics = 0
SPECIFICATION Spec
INVARIANTS
  NothingStranded
