CONSTANTS
  Inputs <- MCInputs
  MaxEvents = 3
  MaxUnplugs = 2
  MaxFaults = 1
  MaxStarts = 1
SPECIFICATION FairSourceSpec
INVARIANT SourceInv
PROPERTY SourceRecovers
CHECK_DEADLOCK FALSE
