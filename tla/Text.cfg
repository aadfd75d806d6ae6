SPECIFICATION Spec
CONSTANTS
  BufferSize = 3
  MaxLength = 6
  Whos = {{}, {"u"}, {"g"}, {"u", "g"}, {"a"}}
  Perms = {{"r"}, {"s"}, {"t"}, {"r", "x"}, {"s", "t"}}
  MaxClauses = 2
  Parts = {"a", "b", "l", ".", "..", ""}
  Places <- MCPlaces
  Links <- MCLinks
  MaxParts = 3
  OldPerms <- MCOldPerms
  Pwds <- MCPwds
  MaxList = 5
  Tokens <- MCTokens
  MaxTokens = 4
  Files <- MCFiles
INVARIANTS
  TextIsKeptInBuffers
  ModeIsApplied
  CanonicalOnAllServers
  ListsAreSplit
  CommandFindsItsFiles
