CONSTANTS
  Lines = 2
  MaxFaults = 3
SPECIFICATION FairSpec
INVARIANTS IInv AtomicInstall SuccessIsDone OneEffect NothingLeftBehind
PROPERTY HostEnds
CHECK_DEADLOCK FALSE
