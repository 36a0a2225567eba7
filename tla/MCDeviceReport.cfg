CONSTANTS
  LineSeq <- MCLineSeq
  PhysicalToBCM <- MCPhysicalToBCM
  Configs <- MCConfigs
  Radios <- MCRadios
  MaxFaults = 1
  MaxTakes = 1
  MaxTicks = 2
SPECIFICATION Spec
INVARIANT IInv
PROPERTY MetadataOnly
CHECK_DEADLOCK FALSE
