\* Two properties of two values each; fdatasync makes the name of a file last
SPECIFICATION Spec
CONSTANTS
  Property = {term, vote}
  Value = {v, w}
  Initial = v
  None = None
  NameLasts = TRUE
CHECK_DEADLOCK FALSE
INVARIANT MemoryStored
PROPERTY Atomic
