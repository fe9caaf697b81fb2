SPECIFICATION Spec
CONSTANTS
  SpaceBits = 12
  Configs <- MCConfigs
  Layers <- MCLayers
  None = None
INVARIANTS
  TypeOK
  Sound
  Exact
  Once
  LayerVerdict
PROPERTY
  Terminates
\* A call returns: the last state has no step.
CHECK_DEADLOCK FALSE
