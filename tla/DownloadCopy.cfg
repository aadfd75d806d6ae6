SPECIFICATION FairSpec
CONSTANTS
  NPackets = 5
  BlockLen = 2
  FullBlocks = 6
  LastLen = 1
  FaultSets = {{"reorder"}, {"abort"}}
INVARIANTS
  NothingOwed
  WaitsForAnswer
PROPERTIES
  IsFileCopy
