CONSTANTS
  v1 = v1
  v2 = v2
  NoVideo = NoVideo
  Videos = {v1, v2}
  MaxJobs = 2
  MaxAttempts = 2
  Pasted = {}
  Listed = {v1}
  Automatic = {v2}
  Kept = {}
  Cancels = TRUE
  Deletes = {"video", "channel"}
  Gates = FALSE
  MaxRequests = 1
  MaxCrashes = 1
  MaxShutdowns = 0
  MaxFaults = 0
  MaxPanics = 0
SPECIFICATION Spec
INVARIANTS
  CancelHolds
  AtMostOneRunning
  OnlyAskedCancels
PROPERTIES
  JobsKeepTheirPromise
  CanceledVideoIsReleased
