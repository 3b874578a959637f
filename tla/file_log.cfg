\* Writes over several files, with readers, snapshots, and a restart at any step
SPECIFICATION FairSpec
CONSTANTS
  Capacity = 2
  DataSize = 2
  Directory = 8
  Term = {1, 2, 3}
  Id = {x}
  Zero = Zero
  None = None
  Reader = {r}
  TornCreate = FALSE
  TornInstall = FALSE
  SnapIndex = {4}
  MaxStart = 3
  MaxIndex = 6
  MaxBatch = 3
  MaxWrites = 1
  MaxInstalls = 1
  MaxCrashes = 1
CHECK_DEADLOCK FALSE
INVARIANTS LogIntact RequestsKnown ReadUndisturbed
PROPERTIES Durability Answered
