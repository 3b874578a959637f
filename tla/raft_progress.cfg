\* A leader commits what it holds
SPECIFICATION AloneFairSpec
CONSTANTS
  Server = {a, b, c}
  Electable = {a, c}
  Value = {v}
  Checkpoint = Checkpoint
  None = None
  PreventSpiral = TRUE
  VoteResendRace = FALSE
  AppendRace = TRUE
  ReadOvertaken = FALSE
  StaleRequests = TRUE
  MaxTerm = 2
  MaxLog = 0
  MaxCrashes = 0
  MaxLosses = 0
  MaxFaults = 1
CHECK_DEADLOCK FALSE
INVARIANT TypeOK
PROPERTIES PausedIsResumed LeaderCommitsItsLog
