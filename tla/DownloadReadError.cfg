SPECIFICATION Spec
CONSTANTS
  NPackets = 4
  BlockLen = 2
  FullBlocks = 4
  LastLen = 1
  FaultSets = {{"error"}}
CHECK_DEADLOCK FALSE
INVARIANTS
  SuccessIsWhole
