SPECIFICATION Spec
CONSTANTS
  SpaceBytes = 255
  ProcessorN = 1
  AddrBits = 16
  Programs <- MCPrograms
  Pointers <- MCPointers
  Data <- MCData
  MaxTicks <- MCMaxTicks
INVARIANT
  CellsProtected
