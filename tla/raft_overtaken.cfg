\* Three peers; elections overtake a handler that waits for the log file
SPECIFICATION ScheduledSpec
CONSTANTS
  pa = pa
  pb = pb
  pc = pc
  Server = {pa, pb, pc}
  Electable = {pa, pb, pc}
  Value = {v}
  Checkpoint = Checkpoint
  None = None
  PreventSpiral = TRUE
  VoteResendRace = FALSE
  AppendRace = TRUE
  ReadOvertaken = TRUE
  StaleRequests = FALSE
  MaxTerm = 4
  MaxLog = 0
  MaxCrashes = 0
  MaxLosses = 0
  MaxFaults = 1
CHECK_DEADLOCK FALSE
INVARIANTS ElectionSafety
