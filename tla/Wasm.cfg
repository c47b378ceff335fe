SPECIFICATION Spec
CONSTANTS
  GroupBits = 4
  WordBits = 10
  MaxSize = 1000
  Gc = TRUE
  Canonical = TRUE
  MaxSubtypingDepth = 1
  MaxItems = 6
  MultiMemory = FALSE
  MaxFields = 3
  MaxSections = 4
  Programs <- AllPrograms
INVARIANTS
  NamesReachTheirFields
  ComponentNamesReachTheirItems
  EncodedIsWellFormed
  AcceptedIsWhole
  ValidatorNeverPanics
  TypesAreCanonical
PROPERTIES
  ChunkingIsInvisible
  FilesAreFinished
