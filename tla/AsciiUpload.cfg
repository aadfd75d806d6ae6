SPECIFICATION AsciiSpec
CONSTANTS
  BufferSize = 3
  MaxLength = 6
INVARIANTS
  TextIsKept
