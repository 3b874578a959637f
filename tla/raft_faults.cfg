\* Elections and replication, with a restart or a broken connection
SPECIFICATION FaultsSpec
CONSTANTS
  Server = {a, b, c}
  Electable = {a, c}
  Value = {v}
  Checkpoint = Checkpoint
  None = None
  PreventSpiral = TRUE
  VoteResendRace = FALSE
  AppendRace = TRUE
  ReadOvertaken = FALSE
  StaleRequests = FALSE
  MaxTerm = 2
  MaxLog = 1
  MaxCrashes = 1
  MaxLosses = 1
  MaxFaults = 1
CHECK_DEADLOCK FALSE
SYMMETRY Symmetry
INVARIANTS PendingRpcMatchesRole PanicNeedsReconnect LeaderCompleteness OneBallotPerTerm
PROPERTY FeedsStateMachines
