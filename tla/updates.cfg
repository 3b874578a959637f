\* One update, a change of leader, and one late or lost message
SPECIFICATION Spec
CONSTANTS
  Peer = {p, q, r}
  Id = {a}
  None = None
  Ttl = 1
  Margin = 1
  SlowDisk = FALSE
  MaxTerm = 2
  Elected = {TRUE}
  MaxAsks = 2
  MaxFaults = 1
CHECK_DEADLOCK FALSE
SYMMETRY Symmetry
INVARIANTS AppliedOnce RightIndex WillBeTold
