CONSTANTS
  v1 = v1
  v2 = v2
  NoVideo = NoVideo
  Videos = {v1, v2}
  MaxJobs = 2
  MaxAttempts = 2
  Pasted = {}
  Listed = {v1}
  Automatic = {}
  Kept = {v1}
  Cancels = TRUE
  Deletes = {}
  Gates = TRUE
  MaxRequests = 1
  MaxCrashes = 1
  MaxShutdowns = 1
  MaxFaults = 0
  MaxPanics = 0
SPECIFICATION FairSpec
PROPERTIES
  QueueDrains
  CancelSettles
