SPECIFICATION Spec
CONSTANTS
  SpaceBytes = 32
  ProcessorN = 3
  AddrBits = 8
  Programs <- MCBootPrograms
  BootPointers <- MCPointers
  Patches <- MCNoPatches
  Inputs <- MCInputs
  ShortCounts <- MCShortCounts
  OverReads <- MCOverReads
  Lives <- MCBootLives
  MaxTicks <- MCBootTicks
INVARIANTS
  TypeOK
  BootLoads
PROPERTY
  Returns
