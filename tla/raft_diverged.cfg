\* The logs of two former leaders diverge, and events overtake handlers
SPECIFICATION DivergedSpec
CONSTANTS
  Server = {a, b, c}
  Electable = {a, c}
  Value = {v}
  Checkpoint = Checkpoint
  None = None
  PreventSpiral = TRUE
  VoteResendRace = FALSE
  AppendRace = TRUE
  ReadOvertaken = TRUE
  StaleRequests = FALSE
  MaxTerm = 4
  MaxLog = 0
  MaxCrashes = 0
  MaxLosses = 0
  MaxFaults = 1
CHECK_DEADLOCK FALSE
SYMMETRY Symmetry
INVARIANTS LogMatching StateMachineSafety ElectionSafety
