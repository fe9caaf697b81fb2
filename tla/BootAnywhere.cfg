SPECIFICATION Spec
CONSTANTS
  SpaceBytes = 32
  ProcessorN = 3
  AddrBits = 8
  Programs <- MCBoots
  BootPointers <- MCPointers
  Patches <- MCNoPatches
  Inputs <- MCInputs
  ShortCounts <- MCShortCounts
  OverReads <- MCOverReads
  Lives <- MCBootLives
  MaxTicks <- MCBootTicks
INVARIANT
  BootLoadsAnywhere
