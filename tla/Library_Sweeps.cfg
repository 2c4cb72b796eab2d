SPECIFICATION Spec
CONSTANTS
    v1 = v1
    v2 = v2
    Videos = {v1, v2}
    MaxEvents = 3
INVARIANTS
    DownloadedHasFile
    RestoredIsKept
    DeadLinkStaysDead
PROPERTIES
    AgedIsReclaimed
CHECK_DEADLOCK FALSE
