SPECIFICATION FairSpec
CONSTANTS
  Sites = {"x"}
  Dirs = {"home", "work"}
  Names = {"a"}
  Home = "home"
  Contents = {"c"}
  CachingSites = {"x"}
  MaxOps = 2
  FaultSets = {{"refused", "nodll", "cancelled"}, {"denied", "abort", "error", "shortls", "cancelled", "nodll"}, {"lost", "refused", "denied", "abort", "shortls"}, {"lost", "error", "nodll"}}
INVARIANTS
  TypeOK
  RenamedFileIsSomewhere
  OkMeansDone
  FailureChangesNothing
  ListingsAreTrue
  NoSilentOverwrite
  FirstRunInItsDirectory
  RetryIsSafe
PROPERTIES
  OperationEnds
