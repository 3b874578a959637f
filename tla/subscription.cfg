\* A subscriber or a forever stream, with leaders that change and lost messages
SPECIFICATION FairSpec
CONSTANTS
  Peer = {p, q}
  None = None
  Kind = {"subscriber", "forever"}
  HighWater = 1
  SnapIndex = 0
  MaxLog = 3
  MaxPush = 2
  MaxQueue = 1
  MaxFaults = 1
CHECK_DEADLOCK FALSE
INVARIANT InOrder
PROPERTIES Delivered HeardEnds
