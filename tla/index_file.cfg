\* Writes, cuts and commits, with a crash between any two of their steps
SPECIFICATION Spec
CONSTANTS
  Capacity = 3
  MaxData = 5
  None = None
  Reordered = FALSE
  MaxBatch = 3
  MaxSize = 3
  MaxOps = 4
  MaxCrashes = 1
CHECK_DEADLOCK FALSE
INVARIANTS SurvivesCrash ReadsBack StreamsBack
