SPECIFICATION Spec
CONSTANTS
  Sites = {"x", "y"}
  Dirs = {"home", "work"}
  Names = {"a"}
  Home = "home"
  Contents = {"c"}
  CachingSites = {"x"}
  MaxOps = 1
  FaultSets = {{"abort"}}
INVARIANTS
  MovedFileIsSomewhere
