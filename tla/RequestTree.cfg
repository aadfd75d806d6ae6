SPECIFICATION Spec
CONSTANTS
  Offset = 256
  MaxRequests = 6
INVARIANTS
  TypeOK
  SearchBrackets
  AssertIdUnused
PROPERTIES
  LowestIdFirst
  UnregisteredStays
