SPECIFICATION Spec
CONSTANTS
  SpaceBytes = 32
  ProcessorN = 3
  AddrBits = 8
  Programs <- MCPrograms
  BootPointers <- MCNoPointers
  Patches <- MCPatches
  Inputs <- MCInputs
  ShortCounts <- MCShortCounts
  OverReads <- MCOverReads
  Lives <- MCLives
  MaxTicks <- MCMaxTicks
INVARIANTS
  TypeOK
  ErrorReport
  Explained
  PrintThenHalt
PROPERTIES
  AnswersTruthful
  OutputFromStart
