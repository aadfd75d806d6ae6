SPECIFICATION Spec
CONSTANTS
  NBlocks = 4
  Window = 3
  Commands = {TRUE}
  FaultSets = {{}}
INVARIANTS
  SuccessIsStored
