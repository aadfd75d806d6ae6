SPECIFICATION FairCommandSpec
CONSTANTS
  NBlocks = 3
  Window = 2
  Commands = {TRUE, FALSE}
  Attempts = 2
  FaultSets = {{"reorder", "abort"}, {"reorder", "lost", "abort"}, {"lost", "abort", "junk", "readerror"}, {"reorder", "rejected", "junk", "lost", "abort", "readerror"}}
INVARIANTS
  CommandTypeOK
  QueueMatchesRequests
  PutIsStored
  ResumableUnlessRefused
  CancelOwesNothing
  PutMoveKeepsFile
  OkIsStampedUnlessLost
PROPERTIES
  CommandEnds
