\* Shared and exclusive calls over one scope
SPECIFICATION FairSpec
CONSTANTS
  MaxCalls = 5
  None = None
CHECK_DEADLOCK FALSE
INVARIANT ExclusiveAlone
PROPERTIES ImplementsFairLock EveryCallRuns
