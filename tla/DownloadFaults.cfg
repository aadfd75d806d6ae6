SPECIFICATION Spec
CONSTANTS
  NPackets = 4
  BlockLen = 2
  FullBlocks = 4
  LastLen = 1
  FaultSets = {{"reorder", "short", "junk", "lost", "abort"}, {"reorder", "short", "junk", "lost", "abort", "error", "disk"}}
CHECK_DEADLOCK FALSE
INVARIANTS
  TypeOK
  QueueMatchesRequests
  NoHoleUnlessFailed
  SuccessIsWholeUnlessFailed
