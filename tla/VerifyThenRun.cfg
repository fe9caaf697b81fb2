SPECIFICATION PipelineSpec
CONSTANTS
  SpaceBytes = 32
  ProcessorN = 3
  AddrBits = 8
  Programs <- MCPrograms
  BootPointers <- MCNone
  Patches <- MCNone
  Inputs <- MCInputs
  ShortCounts <- MCShortCounts
  OverReads <- MCOverReads
  Lives <- MCLives
  MaxTicks <- MCMaxTicks
  Disk <- MCDisk
  Configs <- MCConfigs
  Invocations <- MCInvocations
  None = None
INVARIANTS
  VerifierTypeOK
  ExitCodes
  ReaderAgrees
  RunsWhatWasVerified
  NeverFails
PROPERTY
  RoundsSimultaneous
\* The pipeline stops with the verifier, or when the VM is freed.
CHECK_DEADLOCK FALSE
