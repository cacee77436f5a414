SPECIFICATION FairSpec
CONSTANTS
  NumChunks = 6
  simultaneous = 3
INVARIANTS ActiveBound InOrderOnLoop NextAfterAck
PROPERTIES Finishes
CHECK_DEADLOCK FALSE
