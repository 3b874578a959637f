\* Five peers; one answers in a term it has not stored yet, and ends
SPECIFICATION ScheduledSpec
CONSTANTS
  pa = pa
  pb = pb
  pk = pk
  px = px
  py = py
  Server = {pa, pb, pk, px, py}
  Electable = {pa, pb, px}
  Value = {v}
  Checkpoint = Checkpoint
  None = None
  PreventSpiral = TRUE
  VoteResendRace = FALSE
  AppendRace = TRUE
  ReadOvertaken = FALSE
  StaleRequests = FALSE
  MaxTerm = 4
  MaxLog = 0
  MaxCrashes = 1
  MaxLosses = 0
  MaxFaults = 1
CHECK_DEADLOCK FALSE
INVARIANTS LeaderCompleteness
