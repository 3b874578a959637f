\* Three peers, of which one remains
SPECIFICATION Spec
CONSTANTS
  None = None
  a = a
  b = b
  c = c
  Peer = {a, b, c}
  Old = {a, b, c}
  Targets = {{c}}
  LosesConfig = TRUE
  MaxTerm = 4
  MaxLog = 3
  MaxChanges = 2
  MaxRestarts = 0
SYMMETRY Leaving
CHECK_DEADLOCK FALSE
INVARIANTS StateMachineSafety
