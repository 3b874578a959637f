\* A client or a follower reads a snapshot in pieces, which may be replaced meanwhile
SPECIFICATION InstallSpec
CONSTANTS
  Size <- Growing
  Pipelines = 1
  HighWatermark = 3
  Queued = TRUE
  None = None
  MaxAttempts = 2
  MaxLosses = 1
  MaxStepDowns = 1
  SlowRead = FALSE
CHECK_DEADLOCK FALSE
INVARIANTS SnapshotsOpen Assembled InstalledIsWhole MatchedIsKept
PROPERTIES InstallProceeds ReadAnswered FollowerCatchesUp
