SPECIFICATION FairSpec
CONSTANTS
  NBlocks = 4
  Window = 3
  Commands = {TRUE, FALSE}
  FaultSets = {{"lost", "abort"}, {"reorder", "rejected", "junk", "lost", "abort", "readerror"}}
PROPERTIES
  IsFileCopy
